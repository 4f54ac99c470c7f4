----------------------------- MODULE MCWebPages -----------------------------
(* Eight parts of the pages, each in behaviours of its own, for they share *)
(* no state: the history of the traffic, its tabs, the search box, the     *)
(* list of networks, and the pages, the links, the touches and the form of *)
(* a telephone.                                                            *)
EXTENDS TrafficHistory, TrafficView, Autocomplete, DropDown, MobilePages, VirtualMouse,
        MobileForm, MobileLinks

VARIABLE part

MCTrimmed == [t \in Text |-> IF t = " " THEN "" ELSE t]
MCResults == [q \in {"", "a", "ab", "x"} |->
                IF q = "x" THEN <<"ab", "x", "ab">> ELSE <<>>]
MCPrefix == [q \in {"", "a", "ab", "x"} |-> IF q = "ab" THEN {"", "a", "ab"} ELSE {"", q}]
MCFormLists == {<<>>, <<"n1">>, <<"n2", "n1">>}
Link_(p, s, h) == [domain |-> "", path |-> p, search |-> s, hash |-> h]
MCHref == {Link_(<<"", "cgi", "wifi">>, "?1", NoHash), Link_(<<"", "cgi", "home">>, "", NoHash),
           Link_(<<"net">>, "", NoHash), Link_(<<"..", "wifi">>, "", NoHash),
           Link_(<<"wifi", ".", "net">>, "?1", NoHash), Link_(<<"..", "..", "..", "wifi">>, "", NoHash),
           Link_(<<"net", "..", "wifi", "">>, "", NoHash), Link_(<<"">>, "?1", NoHash),
           Link_(<<"">>, "", <<"">>), Link_(<<"">>, "", <<"id">>),
           Link_(<<"">>, "", <<"", "cgi", "net">>), Link_(<<"">>, "", <<"..", "net">>),
           [Link_(<<"", "cgi", "net">>, "", NoHash) EXCEPT !.domain = "router"],
           [Link_(<<"", "">>, "", NoHash) EXCEPT !.domain = "elsewhere"]}
MCHome == [domain |-> "router", path |-> <<"", "cgi", "home">>, search |-> ""]
MCLists == {<<"n1">>, <<"n2", "n1">>, <<"n1", "n2", "n3">>}

Idle(p) ==
  /\ UNCHANGED part
  /\ IF p = "history" THEN TRUE ELSE UNCHANGED historyVars
  /\ IF p = "view" THEN TRUE ELSE UNCHANGED viewVars
  /\ IF p = "search" THEN TRUE ELSE UNCHANGED autoVars
  /\ IF p = "list" THEN TRUE ELSE UNCHANGED dropVars
  /\ IF p = "pages" THEN TRUE ELSE UNCHANGED pageVars
  /\ IF p = "touches" THEN TRUE ELSE UNCHANGED mouseVars
  /\ IF p = "form" THEN TRUE ELSE UNCHANGED formVars
  /\ IF p = "links" THEN TRUE ELSE UNCHANGED linksVars

\* The parts that do not run are in one of their initial states.
MCInit ==
  /\ HistoryInit /\ ViewInit /\ AutoInit /\ DropInit /\ PagesInit /\ MouseInit /\ FormInit /\ LinksInit
  /\ \/ part = "history" /\ tabCookie = NoDevice /\ options = [local |-> TRUE, defer |-> TRUE]
     \/ part = "view" /\ counter = 0 /\ options = [local |-> TRUE, defer |-> TRUE]
     \/ part = "search" /\ counter = 0 /\ tabCookie = NoDevice
     \/ /\ part \in {"list", "pages", "links", "touches", "form"}
        /\ counter = 0 /\ tabCookie = NoDevice /\ options = [local |-> TRUE, defer |-> TRUE]
  /\ part # "form" => router = [bridged |-> FALSE, ssid |-> NoSsid]

MCNext ==
  \/ part = "history" /\ HistoryNext /\ Idle("history")
  \/ part = "view" /\ ViewNext /\ Idle("view")
  \/ part = "search" /\ AutoNext /\ Idle("search")
  \/ part = "list" /\ DropNext /\ Idle("list")
  \/ part = "pages" /\ PagesNext /\ Idle("pages")
  \/ part = "touches" /\ MouseNext /\ Idle("touches")
  \/ part = "links" /\ LinksNext /\ Idle("links")
  \/ part = "form" /\ FormNext /\ Idle("form")

MCSpec ==
  MCInit /\ [][MCNext]_<<part, historyVars, viewVars, autoVars, dropVars, pageVars, mouseVars,
                        formVars, linksVars>>

\* The types, with SelectionInRange and QuietListFits of the search box.
PageTypesOK == HistoryTypeOK /\ ViewTypeOK /\ AutoTypeOK /\ DropTypeOK /\ PagesTypeOK /\ MouseTypeOK
               /\ FormTypeOK /\ LinksTypeOK

\* What a form displays is what it submits: in the settings of the network on a computer,
\* and in those on a telephone.
ShownIsSubmitted == DisplayedIsSubmitted /\ FormIsSubmitted

\* The address is that of the page that is displayed, and a link leads where it says.
AddressIsRight == AddressIsPage /\ LinksResolve

\* A tap does its work once, and takes the look of the button back.
TapsSettle == TapTogglesOnce /\ ButtonsRelease
=============================================================================
