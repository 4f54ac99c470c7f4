------------------------------ MODULE NetState ------------------------------
(***************************************************************************)
(* What the router displays of its connection to the internet: the file    *)
(* /tmp/state/inet_stat, the led and kproxy, which leads the requests of   *)
(* the browsers to a page of the router.  The checker                      *)
(* (usr/bin/inet_chk.sh) and the link events                               *)
(* (etc/hotplug.d/gmac/wan/01-net-update-act) update them through          *)
(* lib/functions/net_update_actions.sh, whose lock covers the file alone.  *)
(* What a check measures is any state.  That dnsmasq is told, that wan is  *)
(* started and that the configuration is saved change nothing of this.     *)
(***************************************************************************)
EXTENDS Naturals

CONSTANTS Checker,         \* inet_chk.sh
          Event            \* the scripts that run for link events

ASSUME NetAssumption == Checker \notin Event

Proc == {Checker} \cup Event
States == {"inet_up", "inet_down"}

VARIABLES
  inet_stat,   \* the file
  led,         \* the led is on
  kproxy,      \* the port it leads to, and whether it leads all requests there
  agreed,      \* /etc/agreement
  switch,      \* inet_chk.switch: "over" once the time it was off for has passed
  phase,       \* of the checker
  at,          \* at[p]: where p is
  state,       \* state[p]: the argument of netup_action or netdown_action
  measured,    \* with the switch off: what the checker will set the led to; else "none"
  settled      \* only for the properties: the last update that found the file different
               \* met no other one, and neither the agreement nor a led that was
               \* set with the switch off has come since

display == <<led, kproxy>>
user == <<agreed, switch>>
netVars == <<inet_stat, display, user, phase, at, state, measured, settled>>

\* The steps of an update after its test of the file.
Updating == {"led", "agreement", "guide", "guide all", "up", "up all", "down", "down port",
             "own led"}

\* Types; only the checker sets the led by itself, with the switch off.
NetTypeOK ==
  /\ inet_stat \in States \cup {"none"}
  /\ led \in BOOLEAN
  /\ kproxy \in [port : {0, 81, 83}, all : BOOLEAN]
  /\ agreed \in BOOLEAN
  /\ switch \in {"on", "off", "timed", "over"}
  /\ phase \in {"boot down", "boot up", "guide", "watch"}
  /\ at \in [Proc -> {"ready", "expire", "test"} \cup Updating]
  /\ state \in [Proc -> States]
  /\ measured \in States \cup {"none"}
  /\ settled \in BOOLEAN
  /\ at[Checker] = "own led" => measured # "none"
  /\ \A p \in Event : at[p] # "own led"

NetInit ==
  /\ inet_stat = "none"
  /\ led = FALSE
  /\ kproxy = [port |-> 0, all |-> FALSE]
  /\ agreed \in BOOLEAN
  /\ switch \in {"on", "off", "timed", "over"}
  /\ phase = "boot down"
  /\ at = [p \in Proc |-> "ready"]
  /\ state = [p \in Proc |-> "inet_down"]
  /\ measured = "none"
  /\ settled = FALSE

-----------------------------------------------------------------------------
goes(p, from, to) == at[p] = from /\ at' = [at EXCEPT ![p] = to]
argument(p, s) == state' = [state EXCEPT ![p] = s]

\* netdown_action and netup_action at the start of the checker, and netdown_action
\* each second until the agreement is given.
Boots(from, s, to) ==
  /\ phase = from
  /\ phase' = to
  /\ goes(Checker, "ready", "test")
  /\ argument(Checker, s)
  /\ UNCHANGED <<inet_stat, display, user, measured, settled>>

Boot ==
  \/ Boots("boot down", "inet_down", "boot up")
  \/ Boots("boot up", "inet_up", "guide")
  \/ ~agreed /\ Boots("guide", "inet_down", "guide")

Agreement ==
  /\ phase = "guide" /\ agreed /\ at[Checker] = "ready"
  /\ phase' = "watch"
  /\ UNCHANGED <<inet_stat, display, user, at, state, measured, settled>>

\* inet_chk_update_action: with the switch off the net is displayed as up, and only
\* the led tells what was measured.
Measure(s) ==
  /\ phase = "watch"
  /\ IF switch = "over" THEN goes(Checker, "ready", "expire")
     ELSE goes(Checker, "ready", "test")
  /\ IF switch \in {"off", "timed"} THEN argument(Checker, "inet_up") /\ measured' = s
     ELSE argument(Checker, s) /\ measured' = "none"
  /\ UNCHANGED <<inet_stat, display, user, phase, settled>>

\* A link event, with the switch on; in relay mode the script ends here.
LinkEvent(p, s) ==
  /\ switch \in {"on", "over"}
  /\ IF switch = "over" THEN goes(p, "ready", "expire") ELSE goes(p, "ready", "test")
  /\ argument(p, s)
  /\ UNCHANGED <<inet_stat, display, user, phase, measured, settled>>

Relay(p) ==
  /\ goes(p, "test", "ready") /\ p \in Event
  /\ UNCHANGED <<inet_stat, display, user, phase, state, measured, settled>>

\* get_inet_chk_switch, for a time that has passed: whatever the user has chosen since.
Expire(p) ==
  /\ goes(p, "expire", "test")
  /\ switch' = "on"
  /\ UNCHANGED <<inet_stat, display, agreed, phase, state, measured, settled>>

-----------------------------------------------------------------------------
\* Where p goes when its update is over.
AfterUpdate(p) == IF p = Checker /\ measured # "none" THEN "own led" ELSE "ready"

\* net_inet_stat_file_update, under the lock
Unchanged(p) ==
  /\ inet_stat = state[p]
  /\ goes(p, "test", AfterUpdate(p))
  /\ UNCHANGED <<inet_stat, display, user, phase, state, measured, settled>>

Changed(p) ==
  /\ inet_stat # state[p]
  /\ goes(p, "test", "led")
  /\ inet_stat' = state[p]
  /\ settled' = (\A q \in Proc : at[q] \notin Updating)
  /\ UNCHANGED <<display, user, phase, state, measured>>

\* net_internet_led_update; the file led_disable is left out.
Led(p) ==
  /\ goes(p, "led", "agreement")
  /\ led' = (state[p] = "inet_up")
  /\ UNCHANGED <<inet_stat, kproxy, user, phase, state, measured, settled>>

\* net_kproxy_update: the agreement is read, and the port and the leading of all requests
\* set one after the other.
ReadAgreement(p) ==
  /\ goes(p, "agreement", IF ~agreed THEN "guide"
                          ELSE IF state[p] = "inet_up" THEN "up" ELSE "down")
  /\ UNCHANGED <<inet_stat, display, user, phase, state, measured, settled>>

PortOf(page) == IF page = "down" THEN 83 ELSE 81
setPort(page) == kproxy' = [kproxy EXCEPT !.port = PortOf(page)]
setAll(page) == kproxy' = [kproxy EXCEPT !.all = (page # "up")]

FirstCall(p) ==
  /\ \/ goes(p, "guide", "guide all") /\ setPort("guide")
     \/ goes(p, "up", "up all") /\ setPort("up")
     \/ goes(p, "down", "down port") /\ setAll("down")
  /\ UNCHANGED <<inet_stat, led, user, phase, state, measured, settled>>

\* Mutant: a connection that is back still leads all requests to the router.
SecondCallGuides(p) ==
  /\ \/ goes(p, "guide all", AfterUpdate(p)) /\ setAll("guide")
     \/ goes(p, "up all", AfterUpdate(p)) /\ setAll("guide")
     \/ goes(p, "down port", AfterUpdate(p)) /\ setPort("down")
  /\ UNCHANGED <<inet_stat, led, user, phase, state, measured, settled>>

SecondCall(p) ==
  /\ \/ goes(p, "guide all", AfterUpdate(p)) /\ setAll("guide")
     \/ goes(p, "up all", AfterUpdate(p)) /\ setAll("up")
     \/ goes(p, "down port", AfterUpdate(p)) /\ setPort("down")
  /\ UNCHANGED <<inet_stat, led, user, phase, state, measured, settled>>

\* net_internet_led_update, with the switch off
OwnLed ==
  /\ goes(Checker, "own led", "ready")
  /\ led' = (measured = "inet_up")
  /\ settled' = (settled /\ measured = inet_stat)
  /\ UNCHANGED <<inet_stat, kproxy, user, phase, state, measured>>

-----------------------------------------------------------------------------
\* The user gives the agreement, and sets the switch; the time of it passes.
Agree ==
  /\ ~agreed
  /\ agreed' = TRUE
  /\ settled' = FALSE
  /\ UNCHANGED <<inet_stat, display, switch, phase, at, state, measured>>

SetSwitch(v) ==
  /\ switch' = v
  /\ UNCHANGED <<inet_stat, display, agreed, phase, at, state, measured, settled>>

inet_chk_switch == \E v \in {"on", "off", "timed"} : SetSwitch(v)
TimeOver == switch = "timed" /\ SetSwitch("over")

Update(p) ==
  \/ Expire(p) \/ Unchanged(p) \/ Changed(p) \/ Led(p)
  \/ ReadAgreement(p) \/ FirstCall(p) \/ SecondCall(p)

NetNext ==
  \/ Boot \/ Agreement \/ OwnLed \/ Agree \/ inet_chk_switch \/ TimeOver
  \/ \E s \in States : Measure(s)
  \/ \E p \in Event : Relay(p) \/ \E s \in States : LinkEvent(p, s)
  \/ \E p \in Proc : Update(p)

NetSpec == NetInit /\ [][NetNext]_netVars

-----------------------------------------------------------------------------
\* What kproxy leads to for a state of the net.
Page(s) == [port |-> IF agreed /\ s = "inet_down" THEN 83 ELSE 81,
            all |-> ~(agreed /\ s = "inet_up")]

\* When no update is under way, the led and kproxy display the state that the file
\* tells, whatever they displayed before, if the update that wrote the file was not
\* overlapped by another (the lock is given up before the led and
\* kproxy are set, net_update_actions.sh:70,129,167), the agreement has not been given since
\* (the calls that find the file as it is return early), and the led was not set
\* with the switch off.
DisplaysFile ==
  settled /\ (\A p \in Proc : at[p] \notin Updating)
    => led = (inet_stat = "inet_up") /\ kproxy = Page(inet_stat)
=============================================================================
