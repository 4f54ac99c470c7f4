---------------------------- MODULE TrafficView ----------------------------
(***************************************************************************)
(* What the page of the traffic displays: one tab for each interface that  *)
(* an answer has told of, the numbers and the graph of one of them, and    *)
(* the cookie that remembers which (loadData, showTab, initData of         *)
(* traffic.js, and the drawing traffic.svg, which is ready at a time of    *)
(* its own).  A history stands for how many answers it holds.              *)
(***************************************************************************)
EXTENDS Naturals

CONSTANTS Device,          \* interfaces of the router
          MaxAnswers,      \* bound on the answers
          NoDevice

ASSUME ViewAssumption == NoDevice \notin Device /\ MaxAnswers \in Nat

VARIABLES
  speed_history,   \* speed_history[i]: the answers that told of i; 0 if there is none
  tabs,            \* the tabs that are displayed
  active,          \* the one that is highlighted
  ifname,
  numbers,         \* the history of which interface the numbers are from, and how old
  graph,           \* the same for the drawing
  svgReady, htmReady,
  tabCookie,       \* the cookie "tab"
  clicked          \* only for the properties: the tab the user has clicked last, if no
                   \* other window has set the cookie since

viewVars == <<speed_history, tabs, active, ifname, numbers, graph, svgReady, htmReady,
              tabCookie, clicked>>

Picture == [of : Device \cup {NoDevice}, answers : 0 .. MaxAnswers]
Nowhere == [of |-> NoDevice, answers |-> 0]

\* Types; the numbers are those of an interface there is a tab for.
ViewTypeOK ==
  /\ speed_history \in [Device -> 0 .. MaxAnswers]
  /\ tabs \subseteq Device
  /\ {active, ifname, tabCookie, clicked} \subseteq Device \cup {NoDevice}
  /\ numbers \in Picture /\ graph \in Picture
  /\ svgReady \in BOOLEAN /\ htmReady \in BOOLEAN
  /\ numbers.of \in tabs \cup {NoDevice}

\* The page is loaded: the cookie is what is left of earlier ones.
Loads(c) ==
  /\ speed_history = [i \in Device |-> 0]
  /\ tabs = {} /\ active = NoDevice /\ ifname = NoDevice
  /\ numbers = Nowhere /\ graph = Nowhere
  /\ svgReady = FALSE /\ htmReady = FALSE
  /\ tabCookie = c
  /\ clicked = NoDevice

ViewInit == \E c \in Device \cup {NoDevice} : Loads(c)

-----------------------------------------------------------------------------
Told(h) == {i \in Device : h[i] > 0}

tabHigh(i) == active' = i
tabCreate(S) == tabs' = S

\* Mutant: the tab that is shown is not remembered.
showTabOnly(i, h, ready) ==
  /\ ifname' = i
  /\ UNCHANGED tabCookie
  /\ tabHigh(i)
  /\ numbers' = [of |-> i, answers |-> h[i]]
  /\ graph' = IF ready THEN numbers' ELSE graph

\* showTab, for an interface with a history.
showTab(i, h, ready) ==
  /\ ifname' = i
  /\ tabCookie' = i
  /\ tabHigh(i)
  /\ numbers' = [of |-> i, answers |-> h[i]]
  /\ graph' = IF ready THEN numbers' ELSE graph

\* loadData: the tabs are made anew if there are more of them; the interface of the
\* cookie is shown if there is a history of it, and else the first tab.
loadData(h, ready) ==
  /\ tabCreate(Told(h))
  /\ \/ tabCookie \in Told(h) /\ showTab(tabCookie, h, ready)
     \/ tabCookie \notin Told(h) /\ \E i \in Told(h) : showTab(i, h, ready)
     \/ Told(h) = {} /\ UNCHANGED <<active, ifname, numbers, graph, tabCookie>>

\* initCommon, which ends with initData.
initCommon ==
  /\ ~htmReady
  /\ htmReady' = TRUE
  /\ loadData(speed_history, svgReady)
  /\ UNCHANGED <<speed_history, svgReady, clicked>>

\* The drawing is there, and calls initData.
DrawingReady ==
  /\ ~svgReady
  /\ svgReady' = TRUE
  /\ IF htmReady THEN loadData(speed_history, TRUE)
     ELSE UNCHANGED <<tabs, active, ifname, numbers, graph, tabCookie>>
  /\ UNCHANGED <<speed_history, htmReady, clicked>>

\* refresh, for an answer that tells of some interfaces.
Answered(S) ==
  /\ htmReady
  /\ \A i \in S : speed_history[i] < MaxAnswers
  /\ speed_history' = [i \in Device |-> speed_history[i] + IF i \in S THEN 1 ELSE 0]
  /\ loadData(speed_history', svgReady)
  /\ UNCHANGED <<svgReady, htmReady, clicked>>

\* A tab is clicked.
tabSelect(i) ==
  /\ i \in tabs
  /\ showTab(i, speed_history, svgReady)
  /\ clicked' = i
  /\ UNCHANGED <<speed_history, tabs, svgReady, htmReady>>

\* Another window with this page shows another interface.
OtherWindow(i) ==
  /\ tabCookie' = i
  /\ clicked' = NoDevice
  /\ UNCHANGED <<speed_history, tabs, active, ifname, numbers, graph, svgReady, htmReady>>

reloadPage ==
  /\ htmReady
  /\ speed_history' = [i \in Device |-> 0]
  /\ tabs' = {} /\ active' = NoDevice /\ ifname' = NoDevice
  /\ numbers' = Nowhere /\ graph' = Nowhere
  /\ svgReady' = FALSE /\ htmReady' = FALSE
  /\ UNCHANGED tabCookie
  /\ clicked' = NoDevice

ViewNext ==
  \/ initCommon \/ DrawingReady \/ reloadPage
  \/ \E S \in SUBSET Device : Answered(S)
  \/ \E i \in Device : tabSelect(i) \/ OtherWindow(i)

ViewSpec == ViewInit /\ [][ViewNext]_viewVars

-----------------------------------------------------------------------------
\* The highlighted tab, the numbers and the drawing are those of one interface, the one
\* that the user has clicked last, and the numbers and the drawing are as new as
\* the last answer, in whatever order answers come, tabs are clicked and the drawing is
\* ready; only another window can show another one (through the cookie).
ShowsOne ==
  tabs # {} =>
    /\ active = ifname
    /\ numbers = [of |-> ifname, answers |-> speed_history[ifname]]
    /\ svgReady => graph = numbers
    /\ clicked # NoDevice => ifname = clicked
=============================================================================
