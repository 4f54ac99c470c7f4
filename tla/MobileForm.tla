----------------------------- MODULE MobileForm -----------------------------
(***************************************************************************)
(* The form of the network on a telephone: the page                        *)
(* admin_mobile/network/net_setup.htm and the widgets checkboxradio and    *)
(* selectmenu of jquery.mobile-1.1.0.js under it.                          *)
(*                                                                         *)
(* A radio has an attribute and a property "checked": the property is what *)
(* the browser keeps to one radio of a name, the attribute is what the     *)
(* page looks for when it submits.  The answers about the bridge and the   *)
(* network arrive in any order, before and after what the user does, and   *)
(* open a box of the form on their own.                                    *)
(***************************************************************************)
EXTENDS SequencesExt

CONSTANTS Ssid,            \* names of networks
          FormLists,       \* the networks that a scan may tell of
          MaxScans,        \* bound on the scans on their way
          NoSsid

ASSUME FormAssumption ==
  /\ NoSsid \notin Ssid /\ FormLists \subseteq Seq(Ssid)
  /\ MaxScans \in Nat \ {0}

NetworkType == <<"pppoe", "ip", "sta">>    \* in the order of the document
Boxes == {"pppoe", "ip", "sta"}
IpType == {"dhcp", "static"}
Show == {"pppoe", "dhcp", "static"}         \* the three switch_status_wan_show

VARIABLES
  router,          \* the bridge of the router's configuration
  pending,         \* the answers that the page waits for since it was loaded
  is_wifi_brige, format_type,
  network_type,         \* the radios of the type with the attribute
  value,           \* the one with the property
  box,             \* the box that is displayed
  ip_type,         \* the radio of the ip type that is checked
  ip_label,        \* the one that looks so
  table,           \* the inputs of a static address are displayed
  hidden,          \* the check box switch_status_wan, which is submitted
  shows, marks,    \* those the user sees: their property, and how they look
  scans, reflash,  \* scans on their way; the button for another one is displayed
  ssid_list, selected, button,   \* the select, its choice, the text of its button
  ssid,            \* the input that is submitted
  touch, pressed, \* the user at the select; its button looks pressed
  overridden,      \* only for the properties: an answer has opened the box "ip" after a
                   \* click on "pppoe"
  unnamed          \* only for the properties: a scan has not named the network of the
                   \* bridge, and the user has not chosen one since

tabVars == <<is_wifi_brige, format_type, network_type, value, box, overridden>>
ipVars == <<ip_type, ip_label, table>>
speedVars == <<hidden, shows, marks>>
listVars == <<ssid_list, selected, button, ssid, unnamed>>
touchVars == <<touch, pressed>>
formVars == <<router, pending, tabVars, ipVars, speedVars, scans, reflash, listVars,
              touchVars>>

\* Types; a button that nobody touches does not look pressed.
FormTypeOK ==
  /\ router \in [bridged : BOOLEAN, ssid : Ssid \cup {NoSsid}]
  /\ pending \subseteq {"bridge", "wan"}
  /\ is_wifi_brige \in {-1, 0, 1} /\ format_type \in {"", "sta", "pppoe"} \cup IpType
  /\ network_type \subseteq Boxes /\ value \in Boxes \cup {""} /\ box \in Boxes \cup {"loading"}
  /\ ip_type \in IpType \cup {""} /\ ip_label \in IpType \cup {""} /\ table \in BOOLEAN
  /\ hidden \in BOOLEAN /\ shows \in [Show -> BOOLEAN] /\ marks \in [Show -> BOOLEAN]
  /\ scans \in 0 .. MaxScans /\ reflash \in BOOLEAN
  /\ ssid_list \in Seq(Ssid) /\ selected \in Ssid \cup {NoSsid}
  /\ button \in Ssid \cup {NoSsid} /\ ssid \in Ssid \cup {NoSsid}
  /\ touch \in {"up", "select", "moved", "picker"}
  /\ pressed \in BOOLEAN /\ overridden \in BOOLEAN /\ unnamed \in BOOLEAN
  /\ touch = "up" => ~pressed

\* The page as it is loaded: nothing is checked, and no box is displayed.
FormLoaded ==
  /\ pending = {"bridge", "wan"}
  /\ is_wifi_brige = -1 /\ format_type = ""
  /\ network_type = {} /\ value = "" /\ box = "loading"
  /\ ip_type = "" /\ ip_label = "" /\ table = FALSE
  /\ hidden = FALSE /\ shows = [k \in Show |-> FALSE] /\ marks = [k \in Show |-> FALSE]
  /\ scans = 0 /\ reflash = TRUE
  /\ ssid_list = <<>> /\ selected = NoSsid /\ button = NoSsid /\ ssid = NoSsid
  /\ touch = "up" /\ pressed = FALSE
  /\ overridden = FALSE /\ unnamed = FALSE

FormInit ==
  /\ router \in [bridged : BOOLEAN, ssid : Ssid \cup {NoSsid}]
  /\ router.bridged => router.ssid # NoSsid
  /\ FormLoaded

-----------------------------------------------------------------------------
(* The tabs and their boxes.                                               *)

wifi_ctl_scan ==
  /\ scans < MaxScans
  /\ scans' = scans + 1
  /\ reflash' = FALSE

swich_box(b) ==
  /\ box' = b
  /\ IF b = "sta" THEN wifi_ctl_scan ELSE UNCHANGED <<scans, reflash>>

\* A tab is clicked: its radio gets the attribute and the property, the others lose both.
ClickTab(t) ==
  /\ network_type' = {t} /\ value' = t
  /\ swich_box(t)
  /\ ip_type' = IF t = "ip" /\ ip_type = "" THEN "dhcp" ELSE ip_type
  /\ ip_label' = ip_type'
  /\ overridden' = FALSE
  /\ UNCHANGED <<router, pending, is_wifi_brige, format_type, table, speedVars, listVars,
                 touchVars>>

ipt_type_switch(t) == ip_type' = t /\ table' = (t = "static")

\* The label of a radio is tapped.
ClickIpType(t) ==
  /\ box = "ip"
  /\ ipt_type_switch(t)
  /\ ip_label' = t
  /\ UNCHANGED <<router, pending, tabVars, speedVars, scans, reflash, listVars, touchVars>>

\* autoExpand, with what is known by now: without a bridge one radio gets the attribute
\* and no other loses it.
autoExpand(bridge, format) ==
  /\ is_wifi_brige' = bridge /\ format_type' = format
  /\ \/ /\ bridge = -1 \/ format = ""
        /\ UNCHANGED <<network_type, value, box, scans, reflash, ipVars, overridden>>
     \/ /\ bridge = 0 /\ format \in IpType
        /\ network_type' = network_type \cup {"ip"} /\ value' = "ip"
        /\ swich_box("ip") /\ ipt_type_switch(format) /\ ip_label' = format
        /\ overridden' = ("pppoe" \in network_type)
     \/ /\ bridge = 0 /\ format = "pppoe"
        /\ network_type' = network_type \cup {"pppoe"} /\ value' = "pppoe"
        /\ swich_box("pppoe")
        /\ ip_label' = ip_type
        /\ overridden' = FALSE
        /\ UNCHANGED <<ip_type, table>>
     \/ /\ bridge = 1 /\ format # ""
        /\ network_type' = {"sta"} /\ value' = "sta"
        /\ swich_box("sta")
        /\ overridden' = FALSE
        /\ UNCHANGED ipVars

\* get_bridge answers.
BridgeAnswer ==
  /\ "bridge" \in pending
  /\ pending' = pending \ {"bridge"}
  /\ IF router.bridged THEN autoExpand(1, "sta") ELSE autoExpand(0, format_type)
  /\ UNCHANGED <<router, speedVars, listVars, touchVars>>

\* get_wan_info answers: the type of the connection, and its speed.
WanAnswer(t, fast) ==
  /\ "wan" \in pending
  /\ pending' = pending \ {"wan"}
  /\ hidden' = fast
  /\ shows' = [k \in Show |-> fast] /\ marks' = shows'
  /\ autoExpand(is_wifi_brige, t)
  /\ UNCHANGED <<router, listVars, touchVars>>

\* The label of a check box of the speed is tapped: checkboxradio turns it, and the
\* click handler of the page brings the others into line.
ClickSpeed(k) ==
  /\ box # "loading"
  /\ LET on == ~shows[k]
     IN hidden' = on /\ shows' = [j \in Show |-> on] /\ marks' = shows'
  /\ UNCHANGED <<router, pending, tabVars, ipVars, scans, reflash, listVars, touchVars>>

-----------------------------------------------------------------------------
(* The list of networks, a select under the button of a selectmenu.        *)

Rescan ==
  /\ box = "sta" /\ reflash
  /\ wifi_ctl_scan
  /\ UNCHANGED <<router, pending, tabVars, ipVars, speedVars, listVars, touchVars>>

\* The scan is refused, or its answers are lost: nothing displays the button again.
ScanFails ==
  /\ scans > 0 /\ scans' = scans - 1
  /\ UNCHANGED <<router, pending, tabVars, ipVars, speedVars, reflash, listVars, touchVars>>

\* fill_select: the inputs are those of the bridge; of the list that is made anew the
\* network of the bridge is selected, and else the browser selects the first one, and a
\* TypeError ends the handler before the button is refreshed.
fill_select(l) ==
  /\ scans > 0 /\ scans' = scans - 1
  /\ reflash' = TRUE
  /\ ssid' = IF router.bridged THEN router.ssid ELSE ssid
  /\ ssid_list' = l
  /\ IF Contains(l, router.ssid)
     THEN selected' = router.ssid /\ button' = router.ssid /\ unnamed' = ~router.bridged
     ELSE /\ selected' = IF l = <<>> THEN NoSsid ELSE Head(l)
          /\ unnamed' = TRUE
          /\ UNCHANGED button
  /\ UNCHANGED <<router, pending, tabVars, ipVars, speedVars, touchVars>>

\* The same, when get_aplist tells of an error: only the inputs are set.
NoList ==
  /\ scans > 0 /\ scans' = scans - 1
  /\ reflash' = TRUE
  /\ ssid' = IF router.bridged THEN router.ssid ELSE ssid
  /\ unnamed' = (unnamed \/ router.bridged)
  /\ UNCHANGED <<router, pending, tabVars, ipVars, speedVars, ssid_list, selected, button,
                 touchVars>>

Press ==
  /\ box = "sta" /\ touch = "up" /\ ssid_list # <<>>
  /\ touch' = "select" /\ pressed' = TRUE
  /\ UNCHANGED <<router, pending, tabVars, ipVars, speedVars, scans, reflash, listVars>>

Move ==
  /\ touch \in {"select", "moved"}
  /\ touch' = "moved" /\ pressed' = FALSE
  /\ UNCHANGED <<router, pending, tabVars, ipVars, speedVars, scans, reflash, listVars>>

LetGo ==
  /\ touch \in {"select", "moved"}
  /\ touch' = IF touch = "select" THEN "picker" ELSE "up"
  /\ UNCHANGED <<router, pending, tabVars, ipVars, speedVars, scans, reflash, listVars, pressed>>

\* The picker of the browser is closed without another choice: blur.
Blur ==
  /\ touch = "picker"
  /\ touch' = "up" /\ pressed' = FALSE
  /\ UNCHANGED <<router, pending, tabVars, ipVars, speedVars, scans, reflash, listVars>>

\* Mutant: the button is not refreshed when the choice changes.
ChooseOnly(s) ==
  /\ touch = "picker" /\ Contains(ssid_list, s) /\ s # selected
  /\ touch' = "up" /\ pressed' = FALSE
  /\ selected' = s /\ ssid' = s /\ unnamed' = FALSE
  /\ UNCHANGED <<router, pending, tabVars, ipVars, speedVars, scans, reflash, ssid_list, button>>

\* Another network is chosen: refresh of the selectmenu, and the inputs of the page.
Choose(s) ==
  /\ touch = "picker" /\ Contains(ssid_list, s) /\ s # selected
  /\ touch' = "up" /\ pressed' = FALSE
  /\ selected' = s /\ button' = s /\ ssid' = s /\ unnamed' = FALSE
  /\ UNCHANGED <<router, pending, tabVars, ipVars, speedVars, scans, reflash, ssid_list>>

-----------------------------------------------------------------------------
(* The submission.                                                         *)

\* The type that is sent, of the radios with the attribute: the first one.
SubmittedType(radios) ==
  IF radios = {} THEN ""
  ELSE NetworkType[CHOOSE k \in DOMAIN NetworkType :
                     /\ NetworkType[k] \in radios
                     /\ \A j \in 1 .. k - 1 : NetworkType[j] \notin radios]

FormNext ==
  \/ BridgeAnswer
  \/ \E t \in {"pppoe"} \cup IpType, fast \in BOOLEAN : WanAnswer(t, fast)
  \/ \E b \in Boxes : ClickTab(b)
  \/ \E t \in IpType : ClickIpType(t)
  \/ \E k \in Show : ClickSpeed(k)
  \/ Rescan \/ ScanFails \/ NoList
  \/ \E l \in FormLists : fill_select(l)
  \/ Press \/ Move \/ LetGo \/ Blur
  \/ \E s \in Ssid : Choose(s)

FormSpec == FormInit /\ [][FormNext]_formVars

-----------------------------------------------------------------------------
\* What is sent is what the form displays, in whatever order the answers, the scans and
\* the user's clicks come: the type is that of the box, the static address is displayed
\* exactly if it is sent, all check boxes of the speed are as the one that is sent, and
\* the select and its button name the network that is sent.  Two cases are excepted, in
\* which the code fails: an answer that opens the box "ip" after a click on "pppoe", and
\* a scan that does not name the network of a bridge in use.
FormIsSubmitted ==
  /\ box # "loading" /\ ~overridden => SubmittedType(network_type) = box
  /\ box = "ip" => table = (ip_type = "static") /\ ip_label = ip_type
  /\ \A k \in Show : shows[k] = hidden /\ marks[k] = hidden
  /\ ~unnamed => button = ssid /\ selected = ssid
=============================================================================
