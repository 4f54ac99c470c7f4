------------------------------ MODULE MCRouter ------------------------------
(* Two parts of the router, each in behaviours of its own, for they share  *)
(* no state: its display of the connection, and the filter of devices.     *)
EXTENDS NetState, MacFilter, FiniteSets, TLC

CONSTANTS p1, p2, p3, e1, e2

VARIABLE part

MCCaller == {p1, p2, p3}
\* One of the settings has a mode that there is not, one an address that is none.
MCSetting == {[mode |-> "stop", macs |-> {}], [mode |-> "allow", macs |-> Address],
              [mode |-> "other", macs |-> {}], [mode |-> "deny", macs |-> Mac]}
MCEvent == {e1, e2}
Symmetry == Permutations(MCCaller) \cup Permutations(MCEvent)

\* The part that does not run is in one of its initial states.
MCInit ==
  /\ NetInit /\ MacInit
  /\ \/ part = "net" /\ uci = Empty
     \/ part = "filter" /\ ~agreed /\ switch = "on"

MCNext ==
  \/ part = "net" /\ NetNext /\ UNCHANGED <<part, macVars>>
  \/ part = "filter" /\ MacNext /\ UNCHANGED <<part, netVars>>

MCSpec == MCInit /\ [][MCNext]_<<part, netVars, macVars>>

\* Bound: at most two requests run at the same time, and nothing goes on after the
\* collector has given up a lock, for the properties except it.
Bound == ~collected /\ Cardinality(Running) <= 2
=============================================================================
