------------------------------ MODULE MCWebLive ------------------------------
(* The pages that must come to an end, or go on: a run is one of the page  *)
(* of the traffic, of the home page or of the guide, for they share no     *)
(* state.                                                                  *)
EXTENDS TrafficPoll, HomePage, RelayGuide

VARIABLE part

MCSsid == [a \in AP |-> IF a = "c" THEN "n2" ELSE "n1"]
MCScans == {<<>>, <<"a", "b">>, <<"c">>, <<"h", "c">>}
MCDelay == {1, 2, 10}

MCInit == part \in {"poll", "home", "relay"} /\ PollInit /\ HomeInit /\ RelayInit

MCNext ==
  \/ part = "poll" /\ PollNext /\ UNCHANGED <<part, homeVars, relayVars>>
  \/ part = "home" /\ HomeNext /\ UNCHANGED <<part, pollVars, relayVars>>
  \/ part = "relay" /\ RelayNext /\ UNCHANGED <<part, pollVars, homeVars>>

\* PollFairness, when that page is the one that is displayed.  (In the initial states
\* of the others no action is enabled that HomeFairness or RelayFairness is about.)
Polls == part = "poll"
PollsFairly ==
  /\ WF_pollVars(Polls /\ Start) /\ WF_pollVars(Polls /\ Watchdog)
  /\ WF_pollVars(Polls /\ Reload) /\ WF_pollVars(Polls /\ Second)
  /\ WF_pollVars(Polls /\ open = MaxOpen /\ (Completed \/ Failed))

MCSpec ==
  /\ MCInit /\ [][MCNext]_<<part, pollVars, homeVars, relayVars>>
  /\ PollsFairly /\ HomeFairness /\ RelayFairness

\* The types, with ListIsScreen and ArrayIsSelect.
LiveTypesOK == PollTypeOK /\ HomeTypeOK /\ RelayTypeOK

\* Of the page of the traffic: KeepsPolling.
PageKeepsPolling == Polls => KeepsPolling
=============================================================================
