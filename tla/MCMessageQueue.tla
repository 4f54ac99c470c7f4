--------------------------- MODULE MCMessageQueue ---------------------------
(* Two processors with two messages of one service, or one processor with  *)
(* two messages of two services.                                           *)
EXTENDS MessageQueue, TLC

CONSTANTS m1, m2, c1, c2, s1, s2

MCMsg == {m1, m2}
MCProc == {c1, c2}
OneProc == {c1}
MCSvc == {s1, s2}
MCSvcOf == [m \in {m1, m2} |-> IF m = m1 THEN s1 ELSE s2]
MCCleared == {s1}
SameSvcOf == [m \in {m1, m2} |-> s1]
OneSvcOf == [m \in {m1} |-> s1]
OneMsg == {m1}
AnyOne == MCMsg \cup MCProc
NoOne == {}
SameSymmetry == Permutations(MCProc) \cup Permutations(MCMsg)
=============================================================================
