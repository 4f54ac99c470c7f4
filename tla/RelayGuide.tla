----------------------------- MODULE RelayGuide -----------------------------
(***************************************************************************)
(* The choice of the network to relay in the guide                         *)
(* (view/admin_web/guide/internet_relay.htm): the scan that fills the      *)
(* select #s2 and aplist_cache, dropkick (guide/js/jquery.dropkick-1.0.0.js)*)
(* that puts a list of its own over the select, guide/js/application.js    *)
(* that rebuilds it after each scan, and the inputs that are submitted.    *)
(***************************************************************************)
EXTENDS Naturals, SequencesExt

CONSTANTS AP,              \* access points
          Ssid,            \* Ssid[a]
          Usable,          \* those that are not hidden and not of wep
          Scans,           \* lists that a scan may find
          Chain,           \* refreshes that can be under way at once
          MaxOptions,      \* bound on the length of the select
          MaxBound,        \* bound on the handlers of the list
          NoAP

ASSUME RelayAssumption ==
  /\ Usable \subseteq AP /\ NoAP \notin AP
  /\ Scans \subseteq Seq(AP)
  /\ MaxOptions \in Nat /\ MaxBound \in Nat \ {0}

NoSsid == "none"

VARIABLES
  s2,          \* the options of the select
  selected,    \* the index of its option, from 1; 0 for none
  cacheOfAps,  \* aplist_cache
  input,       \* whose bssid, key and channel the form holds
  wait_times,
  chain,       \* chain[c]: where refresh_aplist and fill_select are
  label,       \* what the list of dropkick displays as chosen
  dropped,     \* the options of the list of dropkick, by their texts
  isOpen,      \* the list is open
  bound,       \* the click handlers each of its options has
  overlap,     \* only for the properties: a refresh began while another was under way
  skipped      \* only for the properties: the last list began with one that is not usable

widget == <<label, dropped, isOpen, bound>>
relayVars == <<s2, selected, cacheOfAps, input, wait_times, chain, widget, overlap, skipped>>

\* The array is indexed by the option that is selected: they list the same access
\* points, unless a second refresh has begun before the first was over, for
\* it empties the select alone (internet_relay.htm:326, 351-352, 413-415).
ArrayIsSelect == s2 # <<>> /\ ~overlap => cacheOfAps = s2

\* Types, and ArrayIsSelect.
RelayTypeOK ==
  /\ s2 \in Seq(Usable) /\ cacheOfAps \in Seq(Usable)
  /\ selected \in 0 .. Len(s2)
  /\ input \in AP \cup {NoAP}
  /\ wait_times \in 0 .. 4
  /\ chain \in [Chain -> {"none", "scan", "delay", "list"}]
  /\ label \in {Ssid[a] : a \in AP} \cup {NoSsid}
  /\ bound \in 0 .. MaxBound
  /\ isOpen \in BOOLEAN /\ overlap \in BOOLEAN /\ skipped \in BOOLEAN
  /\ isOpen => bound > 0
  /\ ArrayIsSelect

RelayInit ==
  /\ s2 = <<>> /\ selected = 0 /\ cacheOfAps = <<>>
  /\ input = NoAP
  /\ wait_times = 0
  /\ chain = [c \in Chain |-> "none"]
  /\ label = NoSsid /\ dropped = <<>> /\ isOpen = FALSE /\ bound = 0
  /\ overlap = FALSE /\ skipped = FALSE

-----------------------------------------------------------------------------
OptionTexts(aps) == [k \in 1 .. Len(aps) |-> Ssid[aps[k]]]
SsidAt(aps, k) == IF k = 0 THEN NoSsid ELSE Ssid[aps[k]]

\* methods.init, _build: the list is made anew from the select, closed, and its
\* options have no handlers.
dropkick(aps, k) ==
  /\ label' = SsidAt(aps, k)
  /\ dropped' = OptionTexts(aps)
  /\ isOpen' = FALSE
  /\ bound' = 0

\* application.js: what the page does when a refresh ends.
refreshSelect == dropkick(s2', selected')

goes(c, from, to) == chain[c] = from /\ chain' = [chain EXCEPT ![c] = to]

\* refresh_aplist: the select is emptied, but the array is not.
refresh_aplist(c) ==
  /\ goes(c, "none", "scan")
  /\ s2' = <<>> /\ selected' = 0
  /\ overlap' = (overlap \/ \E d \in Chain : chain[d] # "none")
  /\ UNCHANGED <<cacheOfAps, input, wait_times, widget, skipped>>

Scanned(c) ==
  /\ goes(c, "scan", "delay")
  /\ wait_times' = 0
  /\ UNCHANGED <<s2, selected, cacheOfAps, input, widget, overlap, skipped>>

\* The scan, or the question for its list, fails: the list is made anew.
Fails(c) ==
  /\ goes(c, "scan", "none") \/ goes(c, "list", "none")
  /\ UNCHANGED <<s2, selected, cacheOfAps, input, wait_times, overlap, skipped>>
  /\ refreshSelect

\* Mutant: only the select is emptied when the list is asked for.
fill_selectOnly(c) ==
  /\ goes(c, "delay", "list")
  /\ wait_times' = IF wait_times < 4 THEN wait_times + 1 ELSE 4
  /\ s2' = <<>> /\ selected' = 0
  /\ UNCHANGED <<cacheOfAps, input, widget, overlap, skipped>>

\* Mutant: there is no end to the trials.
FoundNothingYet(c) ==
  /\ goes(c, "list", "delay")
  /\ UNCHANGED <<s2, selected, cacheOfAps, input, wait_times, widget, overlap, skipped>>

\* fill_select: both are emptied, and the list is asked for.  (That wait_times
\* is more than four makes no difference.)
fill_select(c) ==
  /\ goes(c, "delay", "list")
  /\ wait_times' = IF wait_times < 4 THEN wait_times + 1 ELSE 4
  /\ s2' = <<>> /\ selected' = 0
  /\ cacheOfAps' = <<>>
  /\ UNCHANGED <<input, widget, overlap, skipped>>

\* Nothing was found yet.
FoundNothing(c) ==
  /\ wait_times < 4
  /\ goes(c, "list", "delay")
  /\ UNCHANGED <<s2, selected, cacheOfAps, input, wait_times, widget, overlap, skipped>>

isUsable(a) == a \in Usable

\* The usable ones of a list, collected one after the other.
usableOf(aps) ==
  LET among[k \in 0 .. Len(aps)] ==
        IF k = 0 THEN <<>>
        ELSE IF isUsable(aps[k]) THEN Append(among[k - 1], aps[k]) ELSE among[k - 1]
  IN among[Len(aps)]

\* Mutant: the list of dropkick is not made anew.
FoundHidden(c, aps) ==
  /\ goes(c, "list", "none")
  /\ aps # <<>> \/ wait_times >= 4
  /\ LET more == usableOf(aps)
     IN /\ Len(s2) + Len(more) <= MaxOptions
        /\ s2' = s2 \o more
        /\ cacheOfAps' = cacheOfAps \o more
  /\ selected' = IF s2' = <<>> THEN 0 ELSE IF selected = 0 THEN 1 ELSE selected
  /\ input' = IF aps # <<>> /\ isUsable(aps[1]) THEN aps[1] ELSE input
  /\ skipped' = (aps # <<>> /\ ~isUsable(aps[1]))
  /\ UNCHANGED <<wait_times, widget, overlap>>

\* The list: what is usable is appended to the select, which selects the first
\* option it gets, and to the array; the inputs are set only if the very first
\* one is usable.
Found(c, aps) ==
  /\ goes(c, "list", "none")
  /\ aps # <<>> \/ wait_times >= 4
  /\ LET more == usableOf(aps)
     IN /\ Len(s2) + Len(more) <= MaxOptions
        /\ s2' = s2 \o more
        /\ cacheOfAps' = cacheOfAps \o more
  /\ selected' = IF s2' = <<>> THEN 0 ELSE IF selected = 0 THEN 1 ELSE selected
  /\ input' = IF aps # <<>> /\ isUsable(aps[1]) THEN aps[1] ELSE input
  /\ refreshSelect
  /\ skipped' = (aps # <<>> /\ ~isUsable(aps[1]))
  /\ UNCHANGED <<wait_times, overlap>>

-----------------------------------------------------------------------------
\* One more handler for every option, whatever handlers it has.
bindOptions == bound < MaxBound /\ bound' = bound + 1

openDropdown == isOpen' = TRUE /\ bindOptions
closeDropdown == isOpen' = FALSE

\* A click on the list.
Open ==
  /\ openDropdown
  /\ UNCHANGED <<s2, selected, cacheOfAps, input, wait_times, chain, label, dropped, overlap, skipped>>

\* A click elsewhere.
Close ==
  /\ isOpen
  /\ closeDropdown
  /\ UNCHANGED <<s2, selected, cacheOfAps, input, wait_times, chain, label, dropped, bound, overlap, skipped>>

\* The option that val(text) selects: the last one with this value.
ByValue(text) == LET at == {k \in 1 .. Len(s2) : Ssid[s2[k]] = text}
                 IN IF at = {} THEN 0 ELSE Max(at)

\* A click on an option: _updateFields selects its value, and the change handler of
\* the page takes the inputs from the array by the index.  If the select has no
\* such option the handler fails, and the label stays as it was.  The further
\* handlers do the same again.
Pick(k) ==
  /\ isOpen /\ k \in 1 .. Len(dropped)
  /\ closeDropdown
  /\ selected' = ByValue(dropped[k])
  /\ IF selected' = 0 THEN UNCHANGED <<label, input>>
     ELSE /\ label' = dropped[k]
          /\ input' = IF selected' <= Len(cacheOfAps) THEN cacheOfAps[selected'] ELSE input
  /\ UNCHANGED <<s2, cacheOfAps, wait_times, chain, dropped, bound, overlap>>
  /\ skipped' = (skipped /\ selected' = 0)

RelayNext ==
  \/ \E c \in Chain : \/ refresh_aplist(c) \/ Scanned(c) \/ Fails(c) \/ fill_select(c)
                      \/ FoundNothing(c) \/ \E aps \in Scans : Found(c, aps)
  \/ Open \/ Close \/ \E k \in 1 .. MaxOptions : Pick(k)

\* Timers fire, and the router answers or the request fails.
RelayFairness ==
  \A c \in Chain : /\ WF_relayVars(Scanned(c) \/ Fails(c))
                   /\ WF_relayVars(fill_select(c))
                   /\ WF_relayVars(Fails(c) \/ FoundNothing(c)
                                      \/ \E aps \in Scans : Found(c, aps))

RelaySpec == RelayInit /\ [][RelayNext]_relayVars /\ RelayFairness

-----------------------------------------------------------------------------
\* What the user sees chosen, what the select submits as the ssid and whose bssid the
\* inputs submit are the same network: but for overlapping refreshes, and for
\* a list whose first network is hidden or of wep, which leaves the inputs
\* of the choice before (:416).
SubmitsWhatIsShown ==
  s2 # <<>> => /\ label = SsidAt(s2, selected)
               /\ dropped = OptionTexts(s2)
               /\ ~overlap /\ ~skipped => input # NoAP /\ Ssid[input] = label

\* A refresh comes to its end, however often nothing is found, unless another one
\* begins, which sets the count of the trials back (:331, 368-373).
RefreshEnds == []<>(overlap \/ \A c \in Chain : chain[c] = "none")
=============================================================================
