---------------------------- MODULE TrafficPoll ----------------------------
(***************************************************************************)
(* When the page of the traffic (view/admin_web/trafficinfo.htm) asks for  *)
(* it: the classes XmlHttp, TomatoTimer and TomatoRefresh of traffic.js.   *)
(* One timer sends the next request, a request is never aborted, and a     *)
(* watchdog starts another one when none was answered for a while.  Times  *)
(* are in seconds.  What the answers hold is in TrafficHistory.            *)
(***************************************************************************)
EXTENDS Naturals

CONSTANTS MaxOpen,         \* bound on the requests that are open at once
          Delay            \* what refresh may leave until the next request: two seconds after the
                           \* last answer was expected, which several answers at once put off

ASSUME PollAssumption == MaxOpen \in Nat \ {0} /\ Delay \subseteq 0 .. 10

Off == 99                  \* a timer that is not set

VARIABLES
  poll,        \* ref.timer: seconds until TomatoRefresh.start
  wdog,        \* seconds until the watchdog
  reload,      \* seconds until reloadPage
  warned,      \* "connection failed" is displayed
  open,        \* the requests that have not ended
  errors,      \* ref.errors
  peak         \* only for the properties: the most requests that were open at once

pollVars == <<poll, wdog, reload, warned, open, errors, peak>>

\* Types, and the ranges of the timers.
PollTypeOK ==
  /\ poll \in 0 .. 10 \cup {Off}
  /\ wdog \in 0 .. 10
  /\ reload \in 0 .. 2 \cup {Off}
  /\ warned \in BOOLEAN
  /\ open \in 0 .. MaxOpen
  /\ errors \in 0 .. MaxOpen
  /\ peak \in 1 .. MaxOpen

-----------------------------------------------------------------------------
\* init() of the page: the watchdog is set, and start() sends a request.
PollInit ==
  /\ poll = Off
  /\ wdog = 10
  /\ reload = Off
  /\ warned = FALSE
  /\ open = 1
  /\ errors = 0
  /\ peak = 1

\* Mutant: the errors are not forgotten.
StartKeepsErrors ==
  /\ poll = 0
  /\ open < MaxOpen
  /\ poll' = Off
  /\ open' = open + 1
  /\ peak' = IF open + 1 > peak THEN open + 1 ELSE peak
  /\ UNCHANGED <<wdog, reload, warned, errors>>

\* start, when the timer fires: the errors are forgotten, and a request of
\* its own is sent, whatever became of the ones before.
Start ==
  /\ poll = 0
  /\ open < MaxOpen
  /\ poll' = Off
  /\ open' = open + 1
  /\ errors' = 0
  /\ peak' = IF open + 1 > peak THEN open + 1 ELSE peak
  /\ UNCHANGED <<wdog, reload, warned>>

\* onReadyStateChange: a request ends, with the status 200 or another.
onReadyStateChange ==
  /\ open > 0
  /\ open' = open - 1

\* onCompleted: refresh resets the watchdog, which takes its warning back, and
\* the one timer is set anew.
Completed ==
  /\ onReadyStateChange
  /\ wdog' = 10
  /\ warned' = FALSE
  /\ poll' \in Delay
  /\ errors' = 0
  /\ UNCHANGED <<reload, peak>>

\* onError: the timer is stopped, and then set for a retry, or the page is to
\* be loaded again.
Failed ==
  /\ onReadyStateChange
  /\ errors' = errors + 1
  /\ \/ /\ errors' <= 3
        /\ poll' = 3
        /\ UNCHANGED reload
     \/ /\ errors' > 3
        /\ poll' = Off
        /\ reload' = IF reload = Off THEN 2 ELSE reload
  /\ UNCHANGED <<wdog, warned, peak>>

\* Mutant: the watchdog only warns.
WatchdogWarns ==
  /\ wdog = 0
  /\ wdog' = 10
  /\ warned' = TRUE
  /\ UNCHANGED <<poll, reload, open, errors, peak>>

\* watchdog, and the stop() that the page puts in the place of TomatoRefresh's:
\* it stops nothing, but starts a request in a second.
Watchdog ==
  /\ wdog = 0
  /\ wdog' = 10
  /\ poll' = 1
  /\ warned' = TRUE
  /\ UNCHANGED <<reload, open, errors, peak>>

\* reloadPage: the browser drops the requests and runs init() again.
Reload ==
  /\ reload = 0
  /\ poll' = Off
  /\ wdog' = 10
  /\ reload' = Off
  /\ warned' = FALSE
  /\ open' = 1
  /\ errors' = 0
  /\ peak' = 1

\* A second passes; a timer that is due fires before it.
Second ==
  /\ 0 \notin {poll, wdog, reload}
  /\ poll' = IF poll = Off THEN Off ELSE poll - 1
  /\ wdog' = wdog - 1
  /\ reload' = IF reload = Off THEN Off ELSE reload - 1
  /\ UNCHANGED <<warned, open, errors, peak>>

PollNext == Start \/ Completed \/ Failed \/ Watchdog \/ Reload \/ Second

\* The timers of a browser fire and time passes.  A request may hang for ever, but not
\* all of as many as the bound admits.
PollFairness ==
  /\ WF_pollVars(Start) /\ WF_pollVars(Watchdog) /\ WF_pollVars(Reload)
  /\ WF_pollVars(Second)
  /\ WF_pollVars(open = MaxOpen /\ (Completed \/ Failed))

PollSpec == PollInit /\ [][PollNext]_pollVars /\ PollFairness

-----------------------------------------------------------------------------
\* The page is loaded again after errors only if four requests were open at the
\* same time: start() clears the count (traffic.js:327), so that the
\* failures of one request after another never add up to four.
ReloadNeedsOverlap == reload # Off => peak >= 4

\* Each of the errors that are counted is that of another request that was open
\* at the last start: what ReloadNeedsOverlap rests on.
ErrorsAreOverlap ==
  /\ errors + open <= peak
  /\ reload # Off => peak >= 4

\* Liveness: the page never stops to ask, for the watchdog starts a request even
\* when the ones that were sent hang for ever; under the fairness of the browser's timers.
KeepsPolling == []<><<open' > open>>_pollVars
=============================================================================
