------------------------------ MODULE DropDown ------------------------------
(***************************************************************************)
(* The list of networks of the page of the network settings                *)
(* (view/admin_web/network/net_setup.htm): msDropDown                      *)
(* (web/js/msdropdown/jquery.dd.js, with one choice) that stands for the   *)
(* select #ssid_list, the scan that fills it, and the inputs that are      *)
(* submitted, which the page sets when an entry is clicked.  The animation *)
(* of the list is left out: it opens and closes at once.                   *)
(***************************************************************************)
EXTENDS Naturals, Sequences

CONSTANTS Network,         \* access points that the page lists
          Lists,           \* what a scan may find of them
          NoNetwork

ASSUME DropDownAssumption == Lists \subseteq Seq(Network) /\ NoNetwork \notin Network

VARIABLES
  entries,     \* the options of the select
  selectedOf,  \* its selectedIndex, from 1; 0 for none
  marked,      \* the entry of the list of class "selected"
  title,       \* whose text the title bar displays
  inputs,      \* whose ssid, bssid and key the form holds
  opened,      \* the list is open
  keys,        \* the document's keydown handler of the list is bound
  insideWindow,
  hovers,      \* the list's mouseover sets insideWindow
  refreshing,  \* "no", "scan" or "list"
  displayed,   \* the list is displayed at all
  moved        \* only for the properties: keys have moved the mark since a click or a scan

choice == <<entries, selectedOf>>
mouse == <<insideWindow, hovers>>
dropVars == <<choice, marked, title, inputs, opened, keys, mouse, refreshing, displayed, moved>>

\* Types; the title displays the entry that is marked, whatever the keys did.
DropTypeOK ==
  /\ entries \in Seq(Network)
  /\ selectedOf \in 0 .. Len(entries) /\ marked \in 0 .. Len(entries)
  /\ title \in Network \cup {NoNetwork} /\ inputs \in Network \cup {NoNetwork}
  /\ refreshing \in {"no", "scan", "list"}
  /\ {opened, keys, insideWindow, hovers, displayed, moved} \subseteq BOOLEAN
  /\ opened => displayed /\ marked > 0
  /\ keys => opened
  /\ displayed => marked > 0 /\ title = entries[marked]

DropInit ==
  /\ entries = <<>> /\ selectedOf = 0 /\ marked = 0
  /\ title = NoNetwork /\ inputs = NoNetwork
  /\ opened = FALSE /\ keys = FALSE /\ insideWindow = TRUE /\ hovers = FALSE
  /\ refreshing = "no" /\ displayed = FALSE
  /\ moved = FALSE

-----------------------------------------------------------------------------
(* The scan: sta_reflash, and fill_select with the answers it waits for.   *)

sta_reflash ==
  /\ refreshing = "no" /\ ~opened
  /\ refreshing' = "scan"
  /\ displayed' = FALSE
  /\ UNCHANGED <<choice, marked, title, inputs, opened, keys, mouse, moved>>

Scanning ==
  /\ refreshing = "scan"
  /\ refreshing' = "list"
  /\ UNCHANGED <<choice, marked, title, inputs, opened, keys, mouse, displayed, moved>>

\* The entries are those of the select, and the mark and the title are at the one
\* that is selected.
createATags(found, k) == entries' = found /\ marked' = k
createTitleDiv(found, k) == title' = found[k]

createDropDown(found, k) ==
  /\ createATags(found, k)
  /\ createTitleDiv(found, k)
  /\ selectedOf' = k
  /\ insideWindow' = TRUE /\ hovers' = FALSE
  /\ displayed' = TRUE

\* fill_select: the network that is bridged to is selected, and the inputs are set to it;
\* the first one, if there is no bridge or the list has not its network.  (The answer has
\* a bssid if and only if its status is 1: luci/controller/api/wifi.lua:899-914.)
Fill(found, bridge) ==
  LET at == {k \in 1 .. Len(found) : found[k] = bridge}
  IN /\ refreshing = "list" /\ found # <<>>
     /\ refreshing' = "no"
     /\ createDropDown(found, IF at = {} THEN 1 ELSE CHOOSE k \in at : TRUE)
     /\ inputs' = IF at = {} THEN found[1] ELSE bridge
     /\ moved' = FALSE
     /\ UNCHANGED <<opened, keys>>

\* Nothing is found: the code stops before the list is made, at the id of the
\* first option that there is not; or the list is refused, and the select stays.
\* The inputs are set to the bridge in any case.
FillNothing(bridge) ==
  /\ refreshing = "list"
  /\ refreshing' = "no"
  /\ inputs' = IF bridge # NoNetwork THEN bridge ELSE inputs
  /\ \/ entries' = <<>> /\ selectedOf' = 0 /\ marked' = 0
     \/ UNCHANGED <<choice, marked>>
  /\ UNCHANGED <<title, opened, keys, mouse, displayed, moved>>

-----------------------------------------------------------------------------
(* The list                                                                *)

\* For a list with one choice.
manageSelection(k) == marked' = k
setTitleText(n) == title' = n
setInsideWindow(b) == insideWindow' = b

\* The title bar is clicked: open binds the handlers to the document.
ClickTitle ==
  /\ displayed /\ ~opened
  /\ opened' = TRUE /\ keys' = TRUE
  /\ setInsideWindow(FALSE) /\ hovers' = TRUE
  /\ UNCHANGED <<choice, marked, title, inputs, refreshing, displayed, moved>>

close == opened' = FALSE /\ keys' = FALSE

\* The mouse enters and leaves the list, which takes the keys from it.
MouseEnters ==
  /\ opened /\ hovers
  /\ setInsideWindow(TRUE)
  /\ UNCHANGED <<choice, marked, title, inputs, opened, keys, hovers, refreshing, displayed, moved>>

MouseLeaves ==
  /\ opened
  /\ setInsideWindow(FALSE)
  /\ keys' = FALSE
  /\ UNCHANGED <<choice, marked, title, inputs, opened, hovers, refreshing, displayed, moved>>

\* A click elsewhere, or on the title: closed, and the select stays as it was.
ClickOutside ==
  /\ opened /\ ~insideWindow
  /\ close
  /\ UNCHANGED <<choice, marked, title, inputs, mouse, refreshing, displayed, moved>>

\* next, previous: the mark and the title, but not the select.
moveTo(k) ==
  /\ keys /\ k \in 1 .. Len(entries)
  /\ marked' = k
  /\ setTitleText(entries[k])
  /\ moved' = TRUE
  /\ UNCHANGED <<choice, inputs, opened, keys, mouse, refreshing, displayed>>

next == moveTo(marked + 1)
previous == moveTo(marked - 1)

setValue(k) == selectedOf' = k

\* return and escape: both take the marked entry
Confirm ==
  /\ keys
  /\ close
  /\ setValue(marked)
  /\ UNCHANGED <<entries, marked, title, inputs, mouse, refreshing, displayed, moved>>

\* Mutant: a click marks the entry and leaves the select.
ClickMarks(k) ==
  /\ opened /\ insideWindow /\ k \in 1 .. Len(entries)
  /\ manageSelection(k) /\ setTitleText(entries[k])
  /\ setInsideWindow(FALSE) /\ hovers' = FALSE
  /\ close
  /\ inputs' = entries[selectedOf]
  /\ moved' = FALSE
  /\ UNCHANGED <<choice, refreshing, displayed>>

\* An entry is clicked: manageSelection, the title, close and setValue, and then the
\* page's own handler takes the inputs from the select.
Click(k) ==
  /\ opened /\ insideWindow /\ k \in 1 .. Len(entries)
  /\ manageSelection(k) /\ setTitleText(entries[k])
  /\ setInsideWindow(FALSE) /\ hovers' = FALSE
  /\ close
  /\ setValue(k)
  /\ inputs' = entries[k]
  /\ moved' = FALSE
  /\ UNCHANGED <<entries, refreshing, displayed>>

DropNext ==
  \/ sta_reflash \/ Scanning
  \/ \E b \in Network \cup {NoNetwork} :
       FillNothing(b) \/ \E found \in Lists : Fill(found, b)
  \/ ClickTitle \/ MouseEnters \/ MouseLeaves \/ ClickOutside \/ next \/ previous \/ Confirm
  \/ \E k \in 1 .. Len(entries) : Click(k)

DropSpec == DropInit /\ [][DropNext]_dropVars

-----------------------------------------------------------------------------
\* The network that is displayed is the one that is selected and whose bssid and key
\* are submitted, after any sequence of scans and clicks, whatever the router is bridged
\* to, with one exception: the keys move the mark and the title without the inputs, and
\* without the select until return (jquery.dd.js:421-466, 615-619).
DisplayedIsSubmitted ==
  displayed /\ ~moved => title = inputs /\ title = entries[selectedOf]
=============================================================================
