----------------------------- MODULE WebLiveProofs -----------------------------
(***************************************************************************)
(* Proofs about TrafficPoll, RelayGuide and HomePage, the parts of         *)
(* MCWebLive, for every value of their constants: why the page of the      *)
(* traffic is loaded again only after requests overlap, why the guide      *)
(* submits the network that it displays, and why a box that asks to wait   *)
(* stays until the user closes it.                                         *)
(***************************************************************************)
EXTENDS MCWebLive, Counting

-----------------------------------------------------------------------------
(* The page of the traffic.                                                *)

\* The errors are counted since the last start, and each ended a request that was open
\* then or was sent by it: so they and the open requests are never more than peak.
PollInv == PollTypeOK /\ ErrorsAreOverlap

LEMMA InitPollInv == PollInit => PollInv
<1> SUFFICES ASSUME PollInit PROVE PollInv
  OBVIOUS
<1>1. MaxOpen \in Nat /\ MaxOpen >= 1
  BY PollAssumption DEF PollAssumption
<1>2. PollTypeOK
  <2>1. poll \in 0 .. 10 \cup {Off} /\ reload \in 0 .. 2 \cup {Off}
    BY DEF PollInit
  <2>2. wdog \in 0 .. 10
    BY DEF PollInit
  <2>3. open \in 0 .. MaxOpen /\ errors \in 0 .. MaxOpen /\ peak \in 1 .. MaxOpen
    BY <1>1 DEF PollInit
  <2>4. warned \in BOOLEAN
    BY DEF PollInit
  <2> QED
    BY <2>1, <2>2, <2>3, <2>4 DEF PollTypeOK
<1>3. ErrorsAreOverlap
  BY <1>1 DEF PollInit, ErrorsAreOverlap, Off
<1> QED
  BY <1>2, <1>3 DEF PollInv

LEMMA PollInvStep == PollInv /\ [PollNext]_pollVars => PollInv'
<1> SUFFICES ASSUME PollInv, [PollNext]_pollVars PROVE PollInv'
  OBVIOUS
<1> USE PollAssumption DEF PollAssumption, PollInv, PollTypeOK, ErrorsAreOverlap, Off
<1>1. CASE Start
  BY <1>1 DEF Start
<1>2. CASE Completed
  <2>1. poll' \in 0 .. 10
    BY <1>2 DEF Completed
  <2>2. warned' \in BOOLEAN
    BY <1>2 DEF Completed
  <2>3. wdog' \in 0 .. 10 /\ errors' \in 0 .. MaxOpen
    BY <1>2 DEF Completed
  <2>4. open' \in 0 .. MaxOpen /\ errors' + open' <= peak'
    BY <1>2 DEF Completed, onReadyStateChange
  <2>5. reload' = reload /\ peak' = peak
    BY <1>2 DEF Completed
  <2> QED
    BY <2>1, <2>2, <2>3, <2>4, <2>5
<1>3. CASE Failed
  <2>1. errors' + open' = errors + open /\ errors' <= peak
    BY <1>3 DEF Failed, onReadyStateChange
  <2> QED
    BY <1>3, <2>1 DEF Failed, onReadyStateChange
<1>4. CASE Watchdog
  <2>1. warned' \in BOOLEAN
    BY <1>4 DEF Watchdog
  <2>2. poll' = 1 /\ wdog' = 10 /\ UNCHANGED <<reload, open, errors, peak>>
    BY <1>4 DEF Watchdog
  <2> QED
    BY <2>1, <2>2
<1>5. CASE Reload
  <2>1. warned' \in BOOLEAN
    BY <1>5 DEF Reload
  <2>2. poll' = Off /\ wdog' = 10 /\ reload' = Off /\ open' = 1 /\ errors' = 0 /\ peak' = 1
    BY <1>5 DEF Reload
  <2> QED
    BY <2>1, <2>2
<1>6. CASE Second
  <2>1. poll' \in 0 .. 10 \cup {Off}
    BY <1>6 DEF Second
  <2>2. wdog' \in 0 .. 10
    BY <1>6 DEF Second
  <2>3. reload' \in 0 .. 2 \cup {Off} /\ (reload' # Off => reload # Off)
    BY <1>6 DEF Second
  <2>4. UNCHANGED <<warned, open, errors, peak>>
    BY <1>6 DEF Second
  <2> QED
    BY <2>1, <2>2, <2>3, <2>4
<1>7. CASE UNCHANGED pollVars
  BY <1>7 DEF pollVars
<1> QED
  BY <1>1, <1>2, <1>3, <1>4, <1>5, <1>6, <1>7 DEF PollNext

\* The types of TrafficPoll, and that no count of errors exceeds the requests that
\* were open at once.
THEOREM PollTypes == PollSpec => []PollInv
<1>1. PollInit => PollInv
  BY InitPollInv
<1>2. PollInv /\ [PollNext]_pollVars => PollInv'
  BY PollInvStep
<1> QED
  BY <1>1, <1>2, PTL DEF PollSpec

\* The page is loaded again after errors only if four requests were open at the
\* same time (traffic.js:308-327), for every bound on the requests.
THEOREM ReloadOverlap == PollSpec => []ReloadNeedsOverlap
<1>1. PollInv => ReloadNeedsOverlap
  BY DEF PollInv, ErrorsAreOverlap, ReloadNeedsOverlap
<1> QED
  BY <1>1, PollTypes, PTL

-----------------------------------------------------------------------------
(* The list of networks of the guide.                                      *)

\* An element is put at the end of a sequence.
LEMMA AppendsOne ==
  ASSUME NEW S, NEW s \in Seq(S), NEW x \in S
  PROVE  /\ Append(s, x) \in Seq(S) /\ Append(s, x) # <<>>
         /\ Append(s, x)[1] = IF s = <<>> THEN x ELSE s[1]
<1>1. Append(s, x) \in Seq(S) /\ Len(Append(s, x)) = Len(s) + 1
  OBVIOUS
<1>2. s = <<>> <=> Len(s) = 0
  OBVIOUS
<1>3. Append(s, x)[1] = IF Len(s) = 0 THEN x ELSE s[1]
  OBVIOUS
<1>4. Append(s, x) # <<>>
  BY <1>1
<1> QED
  BY <1>1, <1>2, <1>3, <1>4, Zenon

\* What is collected of a list is usable, and begins with its first, if that is.
LEMMA UsableOfList ==
  ASSUME NEW aps \in Seq(AP)
  PROVE  /\ usableOf(aps) \in Seq(Usable)
         /\ aps = <<>> => usableOf(aps) = <<>>
         /\ aps # <<>> /\ isUsable(aps[1]) => usableOf(aps) # <<>> /\ usableOf(aps)[1] = aps[1]
<1> DEFINE n == Len(aps)
           Step(f, k) == IF k = 0 THEN <<>>
                         ELSE IF isUsable(aps[k]) THEN Append(f[k - 1], aps[k]) ELSE f[k - 1]
           Collects(f, m) == f = [k \in 0 .. m |-> Step(f, k)]
           Can == {m \in 0 .. n : \E f : Collects(f, m)}
<1>1. n \in Nat
  OBVIOUS
<1>2. 0 \in Can
  <2>1. Collects([k \in 0 .. 0 |-> <<>>], 0)
    OBVIOUS
  <2>2. 0 \in 0 .. n
    BY <1>1
  <2> HIDE DEF Collects, n
  <2> QED
    BY <2>1, <2>2
<1>3. ASSUME NEW m \in 0 .. n, m \in Can, m < n PROVE m + 1 \in Can
  <2>1. PICK f : Collects(f, m)
    BY <1>3
  <2> DEFINE g == [k \in 0 .. (m + 1) |-> IF k = m + 1 THEN Step(f, k) ELSE f[k]]
  <2>2. ASSUME NEW k \in 0 .. (m + 1) PROVE g[k] = Step(g, k)
    <3>1. CASE k = 0
      BY <2>1, <3>1
    <3>2. CASE k \in 1 .. m
      <4>1. g[k] = f[k] /\ g[k - 1] = f[k - 1] /\ k \in 0 .. m
        BY <3>2
      <4>2. f[k] = Step(f, k)
        BY <2>1, <4>1
      <4> HIDE DEF g
      <4> QED
        BY <4>1, <4>2
    <3>3. CASE k = m + 1
      <4>1. g[k] = Step(f, k) /\ g[k - 1] = f[k - 1]
        BY <3>3
      <4> HIDE DEF g
      <4> QED
        BY <4>1
    <3> QED
      BY <3>1, <3>2, <3>3
  <2>3. Collects(g, m + 1)
    <3>1. g = [k \in 0 .. (m + 1) |-> g[k]]
      OBVIOUS
    <3> HIDE DEF g
    <3> QED
      BY <2>2, <3>1
  <2>4. m + 1 \in 0 .. n
    BY <1>1, <1>3
  <2> HIDE DEF g, Collects, n
  <2> QED
    BY <2>3, <2>4
<1>4. \E f : Collects(f, n)
  <2> HIDE DEF Collects
  <2>1. 0 .. n \subseteq Can
    <3> HIDE DEF Can, n
    <3> QED
      BY <1>1, <1>2, <1>3, UpTo
  <2> QED
    BY <1>1, <2>1
<1> DEFINE F == CHOOSE f : Collects(f, n)
<1>5. Collects(F, n)
  <2> HIDE DEF Collects
  <2> QED
    BY <1>4
<1>6. usableOf(aps) = F[n]
  BY DEF usableOf
<1> HIDE DEF F
<1>7. \A k \in 0 .. n : F[k] = Step(F, k)
  BY <1>5
<1> DEFINE Good == {k \in 0 .. n : /\ F[k] \in Seq(Usable)
                                   /\ k > 0 /\ isUsable(aps[1]) => F[k] # <<>> /\ F[k][1] = aps[1]}
<1>8. 0 \in Good
  <2>1. 0 \in 0 .. n
    BY <1>1
  <2>2. F[0] = <<>>
    BY <1>7, <2>1
  <2>3. F[0] \in Seq(Usable) /\ ~(0 > 0)
    BY <2>2
  <2> HIDE DEF n
  <2> QED
    BY <2>1, <2>3
<1>9. ASSUME NEW k \in 0 .. n, k \in Good, k < n PROVE k + 1 \in Good
  <2>1. F[k + 1] = IF isUsable(aps[k + 1]) THEN Append(F[k], aps[k + 1]) ELSE F[k]
    BY <1>1, <1>7, <1>9
  <2>2. F[k] \in Seq(Usable)
    BY <1>9
  <2>3. F[k + 1] \in Seq(Usable)
    BY <2>1, <2>2 DEF isUsable
  <2>4. ASSUME isUsable(aps[1]) PROVE F[k + 1] # <<>> /\ F[k + 1][1] = aps[1]
    <3>1. CASE k = 0
      <4>1. F[0] = <<>>
        BY <1>1, <1>7
      <4>2. F[k + 1] = Append(<<>>, aps[1]) /\ aps[1] \in Usable
        BY <2>1, <2>4, <3>1, <4>1 DEF isUsable
      <4> QED
        BY <4>2, AppendsOne
    <3>2. CASE k > 0
      <4>1. F[k] # <<>> /\ F[k][1] = aps[1]
        BY <1>9, <2>4, <3>2
      <4>2. CASE isUsable(aps[k + 1])
        BY <2>1, <2>2, <4>1, <4>2, AppendsOne DEF isUsable
      <4>3. CASE ~isUsable(aps[k + 1])
        BY <2>1, <4>1, <4>3
      <4> QED
        BY <4>2, <4>3
    <3> QED
      BY <3>1, <3>2
  <2> QED
    BY <1>1, <1>9, <2>3, <2>4
<1>10. n \in Good
  <2> HIDE DEF Good, n
  <2>1. 0 .. n \subseteq Good
    BY <1>1, <1>8, <1>9, UpTo
  <2> QED
    BY <1>1, <2>1
<1>11. n = 0 => F[n] = <<>>
  BY <1>7
<1>12. n = 0 <=> aps = <<>>
  OBVIOUS
<1> QED
  BY <1>6, <1>10, <1>11, <1>12

\* While refreshes do not overlap, one at most is under way, and the select stays empty.
Apart ==
  ~overlap => /\ \A c, d \in Chain : chain[c] # "none" /\ chain[d] # "none" => c = d
              /\ \A c \in Chain : chain[c] # "none" => s2 = <<>>
              /\ \A c \in Chain : chain[c] = "list" => cacheOfAps = <<>>

\* The types of RelayGuide but for ArrayIsSelect: what the page holds, and the list over it.
Options ==
  /\ s2 \in Seq(Usable) /\ cacheOfAps \in Seq(Usable)
  /\ selected \in 0 .. Len(s2)
  /\ input \in AP \cup {NoAP}
  /\ label \in {Ssid[a] : a \in AP} \cup {NoSsid}
Refreshes ==
  /\ wait_times \in 0 .. 4
  /\ chain \in [Chain -> {"none", "scan", "delay", "list"}]
  /\ bound \in 0 .. MaxBound
  /\ isOpen \in BOOLEAN /\ overlap \in BOOLEAN /\ skipped \in BOOLEAN
  /\ isOpen => bound > 0

RelayInv == Options /\ Refreshes /\ ArrayIsSelect /\ Apart /\ SubmitsWhatIsShown

LEMMA RelayInvTypes == RelayInv => RelayTypeOK
BY DEF RelayInv, Options, Refreshes, RelayTypeOK

\* What is displayed of an option is a name of a network.
LEMMA SsidOf ==
  ASSUME NEW aps \in Seq(Usable), NEW k \in 0 .. Len(aps)
  PROVE  SsidAt(aps, k) \in {Ssid[a] : a \in AP} \cup {NoSsid}
<1>1. CASE k = 0
  BY <1>1 DEF SsidAt
<1>2. CASE k # 0
  <2>1. aps[k] \in AP
    BY <1>2, RelayAssumption DEF RelayAssumption
  <2> QED
    BY <1>2, <2>1 DEF SsidAt
<1> QED
  BY <1>1, <1>2

\* An option is found by its value, if there is one with it.
LEMMA ByValueFinds ==
  ASSUME s2 \in Seq(Usable), NEW text
  PROVE  /\ ByValue(text) \in 0 .. Len(s2)
         /\ ByValue(text) # 0 => Ssid[s2[ByValue(text)]] = text
         /\ (\E k \in 1 .. Len(s2) : Ssid[s2[k]] = text) => ByValue(text) # 0
<1> DEFINE at == {k \in 1 .. Len(s2) : Ssid[s2[k]] = text}
<1>1. Len(s2) \in Nat
  OBVIOUS
<1>2. CASE at = {}
  BY <1>1, <1>2 DEF ByValue
<1>3. CASE at # {}
  <2>1. at \subseteq 0 .. Len(s2)
    BY <1>1
  <2>2. PICK k \in at : \A j \in at : j <= k
    <3> HIDE DEF at
    <3> QED
      BY <1>1, <1>3, <2>1, LastExists
  <2>3. \E x \in at : \A y \in at : x >= y
    BY <1>1, <2>2
  <2>4. Max(at) \in at
    <3> HIDE DEF at
    <3> QED
      BY <2>3 DEF Max
  <2>5. ByValue(text) = Max(at)
    BY <1>3 DEF ByValue
  <2> QED
    BY <1>1, <2>4, <2>5
<1> QED
  BY <1>2, <1>3

LEMMA EmptyBound == 0 \in 0 .. MaxBound
BY RelayAssumption DEF RelayAssumption

LEMMA RelayInitInv == RelayInit => RelayInv
<1> SUFFICES ASSUME RelayInit PROVE RelayInv
  OBVIOUS
<1> USE DEF RelayInit
<1>1. Options
  BY DEF Options
<1>2. Refreshes
  <2>1. wait_times \in 0 .. 4
    OBVIOUS
  <2> QED
    BY <2>1, EmptyBound DEF Refreshes
<1>3. ArrayIsSelect /\ Apart /\ SubmitsWhatIsShown
  BY DEF ArrayIsSelect, Apart, SubmitsWhatIsShown
<1> QED
  BY <1>1, <1>2, <1>3 DEF RelayInv

\* A refresh goes from one place to the next.
LEMMA GoesOn ==
  ASSUME Refreshes, NEW c \in Chain, NEW from, NEW to \in {"none", "scan", "delay", "list"},
         goes(c, from, to)
  PROVE  /\ chain' \in [Chain -> {"none", "scan", "delay", "list"}]
         /\ chain[c] = from /\ chain'[c] = to
         /\ \A d \in Chain : d # c => chain'[d] = chain[d]
BY DEF goes, Refreshes

LEMMA RefreshStep ==
  ASSUME RelayInv, NEW c \in Chain, refresh_aplist(c) PROVE RelayInv'
<1> USE DEF refresh_aplist, widget
<1>1. goes(c, "none", "scan") /\ Refreshes
  BY DEF RelayInv
<1>2. Options'
  BY DEF RelayInv, Options
<1>3. Refreshes'
  BY <1>1, GoesOn DEF Refreshes
<1>4. ArrayIsSelect' /\ SubmitsWhatIsShown'
  BY DEF ArrayIsSelect, SubmitsWhatIsShown
<1>5. Apart'
  BY <1>1, GoesOn DEF Apart
<1> QED
  BY <1>2, <1>3, <1>4, <1>5 DEF RelayInv

LEMMA ScannedStep ==
  ASSUME RelayInv, NEW c \in Chain, Scanned(c) PROVE RelayInv'
<1> USE DEF Scanned, widget
<1>1. goes(c, "scan", "delay") /\ Refreshes
  BY DEF RelayInv
<1>2. Options'
  BY DEF RelayInv, Options
<1>3. Refreshes'
  BY <1>1, GoesOn DEF Refreshes
<1>4. ArrayIsSelect' /\ SubmitsWhatIsShown'
  BY DEF RelayInv, ArrayIsSelect, SubmitsWhatIsShown, SsidAt, OptionTexts
<1>5. Apart'
  BY <1>1, GoesOn DEF RelayInv, Apart
<1> QED
  BY <1>2, <1>3, <1>4, <1>5 DEF RelayInv

LEMMA FailsStep ==
  ASSUME RelayInv, NEW c \in Chain, Fails(c) PROVE RelayInv'
<1> USE DEF Fails, refreshSelect, dropkick
<1>1. PICK from \in {"scan", "list"} : goes(c, from, "none")
  OBVIOUS
<1>2. chain[c] = from /\ chain'[c] = "none" /\ \A d \in Chain : d # c => chain'[d] = chain[d]
  BY <1>1, GoesOn DEF RelayInv
<1>3. Options'
  BY SsidOf DEF RelayInv, Options
<1>4. Refreshes'
  BY <1>1, GoesOn, EmptyBound DEF RelayInv, Refreshes
<1>5. ArrayIsSelect'
  BY DEF RelayInv, ArrayIsSelect
<1>6. Apart'
  BY <1>1, <1>2 DEF RelayInv, Apart
<1>7. ~overlap => s2 = <<>>
  BY <1>1, <1>2 DEF RelayInv, Apart
<1>8. label' = SsidAt(s2', selected') /\ dropped' = OptionTexts(s2')
  OBVIOUS
<1>9. SubmitsWhatIsShown'
  BY <1>7, <1>8 DEF SubmitsWhatIsShown
<1> QED
  BY <1>3, <1>4, <1>5, <1>6, <1>9 DEF RelayInv

LEMMA FillStep ==
  ASSUME RelayInv, NEW c \in Chain, fill_select(c) PROVE RelayInv'
<1> USE DEF fill_select, widget
<1>1. goes(c, "delay", "list") /\ Refreshes
  BY DEF RelayInv
<1>2. Options'
  BY DEF RelayInv, Options
<1>3. Refreshes'
  BY <1>1, GoesOn DEF Refreshes
<1>4. ArrayIsSelect' /\ SubmitsWhatIsShown'
  BY DEF ArrayIsSelect, SubmitsWhatIsShown
<1>5. Apart'
  BY <1>1, GoesOn DEF RelayInv, Apart
<1> QED
  BY <1>2, <1>3, <1>4, <1>5 DEF RelayInv

LEMMA FoundNothingStep ==
  ASSUME RelayInv, NEW c \in Chain, FoundNothing(c) PROVE RelayInv'
<1> USE DEF FoundNothing, widget
<1>1. goes(c, "list", "delay") /\ Refreshes
  BY DEF RelayInv
<1>2. Options'
  BY DEF RelayInv, Options
<1>3. Refreshes'
  BY <1>1, GoesOn DEF Refreshes
<1>4. ArrayIsSelect' /\ SubmitsWhatIsShown'
  BY DEF RelayInv, ArrayIsSelect, SubmitsWhatIsShown, SsidAt, OptionTexts
<1>5. Apart'
  BY <1>1, GoesOn DEF RelayInv, Apart
<1> QED
  BY <1>2, <1>3, <1>4, <1>5 DEF RelayInv

\* The list is appended to the select, which is empty unless refreshes overlap.
LEMMA FoundStep ==
  ASSUME RelayInv, NEW c \in Chain, NEW aps \in Scans, Found(c, aps) PROVE RelayInv'
<1> DEFINE more == usableOf(aps)
<1>1. aps \in Seq(AP) /\ Usable \subseteq AP /\ MaxBound \in Nat
  BY RelayAssumption DEF RelayAssumption
<1>2. /\ more \in Seq(Usable)
      /\ aps = <<>> => more = <<>>
      /\ aps # <<>> /\ isUsable(aps[1]) => more # <<>> /\ more[1] = aps[1]
  BY <1>1, UsableOfList
<1>3. /\ goes(c, "list", "none") /\ s2' = s2 \o more /\ cacheOfAps' = cacheOfAps \o more
      /\ selected' = IF s2' = <<>> THEN 0 ELSE IF selected = 0 THEN 1 ELSE selected
      /\ input' = IF aps # <<>> /\ isUsable(aps[1]) THEN aps[1] ELSE input
      /\ skipped' = (aps # <<>> /\ ~isUsable(aps[1]))
      /\ label' = SsidAt(s2', selected') /\ dropped' = OptionTexts(s2')
      /\ isOpen' = FALSE /\ bound' = 0 /\ UNCHANGED <<wait_times, overlap>>
  BY DEF Found, refreshSelect, dropkick
<1> HIDE DEF more
<1>4. s2 \in Seq(Usable) /\ cacheOfAps \in Seq(Usable) /\ selected \in 0 .. Len(s2)
  BY DEF RelayInv, Options
<1>5. s2' \in Seq(Usable) /\ cacheOfAps' \in Seq(Usable) /\ Len(s2') = Len(s2) + Len(more)
  BY <1>2, <1>3, <1>4
<1>6. selected' \in 0 .. Len(s2')
  BY <1>2, <1>3, <1>4, <1>5
<1>7. Options'
  <2>1. label' \in {Ssid[a] : a \in AP} \cup {NoSsid}
    BY <1>3, <1>5, <1>6, SsidOf
  <2>2. input' \in AP \cup {NoAP}
    BY <1>1, <1>3 DEF isUsable, RelayInv, Options
  <2> QED
    BY <1>5, <1>6, <2>1, <2>2 DEF Options
<1>8. Refreshes'
  <2>1. chain' \in [Chain -> {"none", "scan", "delay", "list"}]
    BY <1>3, GoesOn DEF RelayInv
  <2>2. UNCHANGED <<wait_times, overlap>> /\ isOpen' = FALSE /\ bound' = 0 /\ skipped' \in BOOLEAN
    BY <1>3
  <2> QED
    BY <1>1, <2>1, <2>2, EmptyBound DEF RelayInv, Refreshes
<1>9. ASSUME ~overlap PROVE s2 = <<>> /\ cacheOfAps = <<>> /\ s2' = more /\ cacheOfAps' = more
  <2>1. chain[c] = "list"
    BY <1>3 DEF goes
  <2>2. s2 = <<>> /\ cacheOfAps = <<>>
    BY <1>9, <2>1 DEF RelayInv, Apart
  <2> QED
    BY <1>2, <1>3, <2>2
<1>10. ArrayIsSelect'
  BY <1>3, <1>9 DEF ArrayIsSelect
<1>11. Apart'
  <2>1. /\ chain[c] = "list" /\ chain'[c] = "none"
        /\ \A d \in Chain : d # c => chain'[d] = chain[d]
    BY <1>3, GoesOn DEF RelayInv
  <2> QED
    BY <1>3, <2>1 DEF RelayInv, Apart
<1>12. SubmitsWhatIsShown'
  <2>1. ASSUME s2' # <<>>, ~overlap, ~skipped' PROVE input' # NoAP /\ Ssid[input'] = label'
    <3>1. more # <<>> /\ aps # <<>> /\ isUsable(aps[1])
      BY <1>2, <1>3, <1>9, <2>1
    <3>2. input' = aps[1] /\ s2'[1] = aps[1]
      BY <1>2, <1>3, <1>9, <2>1, <3>1
    <3>3. selected' = 1
      BY <1>3, <1>4, <1>9, <2>1
    <3>4. aps[1] \in AP /\ NoAP \notin AP
      BY <1>1, <3>1, RelayAssumption DEF isUsable, RelayAssumption
    <3> QED
      BY <1>3, <3>2, <3>3, <3>4 DEF SsidAt
  <2> QED
    BY <1>3, <2>1 DEF SubmitsWhatIsShown
<1> QED
  BY <1>7, <1>8, <1>10, <1>11, <1>12 DEF RelayInv

\* An option is picked: the select has it, unless it has been emptied since.
LEMMA PickStep ==
  ASSUME RelayInv, NEW k, Pick(k) PROVE RelayInv'
<1> DEFINE n == ByValue(dropped[k])
<1>1. /\ k \in 1 .. Len(dropped) /\ isOpen' = FALSE /\ selected' = n
      /\ UNCHANGED <<s2, cacheOfAps, wait_times, chain, dropped, bound, overlap>>
      /\ skipped' = (skipped /\ n = 0)
      /\ n = 0 => UNCHANGED <<label, input>>
      /\ n # 0 => /\ label' = dropped[k]
                  /\ input' = IF n <= Len(cacheOfAps) THEN cacheOfAps[n] ELSE input
  BY DEF Pick, closeDropdown
<1>2. /\ s2 \in Seq(Usable) /\ cacheOfAps \in Seq(Usable) /\ Usable \subseteq AP /\ NoAP \notin AP
      /\ input \in AP \cup {NoAP} /\ label \in {Ssid[a] : a \in AP} \cup {NoSsid}
  BY RelayAssumption DEF RelayInv, Options, RelayAssumption
<1>3. /\ n \in 0 .. Len(s2)
      /\ n # 0 => Ssid[s2[n]] = dropped[k]
      /\ (\E j \in 1 .. Len(s2) : Ssid[s2[j]] = dropped[k]) => n # 0
  BY <1>2, ByValueFinds
<1> HIDE DEF n
<1>4. ASSUME n # 0 PROVE label' = SsidAt(s2, n) /\ s2[n] \in AP /\ n \in 1 .. Len(s2)
  <2>1. n \in 1 .. Len(s2)
    BY <1>3, <1>4
  <2>2. s2[n] \in AP
    BY <1>2, <2>1
  <2>3. label' = SsidAt(s2, n)
    BY <1>1, <1>3, <1>4 DEF SsidAt
  <2> QED
    BY <2>1, <2>2, <2>3
<1>5. Options'
  <2>1. label' \in {Ssid[a] : a \in AP} \cup {NoSsid}
    <3>1. CASE n = 0
      BY <1>1, <1>2, <3>1
    <3>2. CASE n # 0
      BY <1>4, <3>2 DEF SsidAt
    <3> QED
      BY <3>1, <3>2
  <2>2. input' \in AP \cup {NoAP}
    <3>1. ASSUME n # 0, n <= Len(cacheOfAps) PROVE cacheOfAps[n] \in AP
      BY <1>2, <1>4, <3>1
    <3> QED
      BY <1>1, <1>2, <3>1
  <2> QED
    BY <1>1, <1>2, <1>3, <2>1, <2>2 DEF Options
<1>6. Refreshes'
  BY <1>1 DEF RelayInv, Refreshes
<1>7. ArrayIsSelect' /\ Apart'
  BY <1>1 DEF RelayInv, ArrayIsSelect, Apart
<1>8. SubmitsWhatIsShown'
  <2> SUFFICES ASSUME s2 # <<>>
               PROVE  /\ label' = SsidAt(s2, n) /\ dropped = OptionTexts(s2)
                      /\ ~overlap /\ ~skipped' => input' # NoAP /\ Ssid[input'] = label'
    BY <1>1 DEF SubmitsWhatIsShown
  <2>1. dropped = OptionTexts(s2)
    BY DEF RelayInv, SubmitsWhatIsShown
  <2>2. k \in 1 .. Len(s2) /\ dropped[k] = Ssid[s2[k]]
    BY <1>1, <1>2, <2>1 DEF OptionTexts
  <2>3. n # 0
    BY <1>3, <2>2
  <2>4. ASSUME ~overlap PROVE input' = s2[n]
    <3>1. cacheOfAps = s2
      BY <2>4 DEF RelayInv, ArrayIsSelect
    <3>2. n <= Len(cacheOfAps)
      BY <1>3, <3>1
    <3> QED
      BY <1>1, <2>3, <3>1, <3>2
  <2> QED
    BY <1>2, <1>4, <2>1, <2>3, <2>4 DEF SsidAt
<1> QED
  BY <1>5, <1>6, <1>7, <1>8 DEF RelayInv

LEMMA RelayInvStep == RelayInv /\ [RelayNext]_relayVars => RelayInv'
<1> SUFFICES ASSUME RelayInv, [RelayNext]_relayVars PROVE RelayInv'
  OBVIOUS
<1>1. ASSUME isOpen' \in BOOLEAN, bound' \in 0 .. MaxBound, isOpen' => bound' > 0,
             UNCHANGED <<s2, selected, cacheOfAps, input, wait_times, chain, label, dropped,
                         overlap, skipped>>
      PROVE  RelayInv'
  <2>1. Options' /\ ArrayIsSelect' /\ Apart' /\ SubmitsWhatIsShown'
    BY <1>1 DEF RelayInv, Options, ArrayIsSelect, Apart, SubmitsWhatIsShown, SsidAt, OptionTexts
  <2>2. Refreshes'
    BY <1>1 DEF RelayInv, Refreshes
  <2> QED
    BY <2>1, <2>2 DEF RelayInv
<1>2. CASE Open
  BY <1>1, <1>2, RelayAssumption
     DEF Open, openDropdown, bindOptions, RelayInv, Refreshes, RelayAssumption
<1>3. CASE Close
  BY <1>1, <1>3 DEF Close, closeDropdown, RelayInv, Refreshes
<1>4. CASE UNCHANGED relayVars
  BY <1>1, <1>4 DEF relayVars, widget, RelayInv, Refreshes
<1> QED
  BY <1>2, <1>3, <1>4, RefreshStep, ScannedStep, FailsStep, FillStep, FoundNothingStep, FoundStep,
     PickStep DEF RelayNext

\* For every network, every list that a scan may find and however many refreshes are
\* under way: what is submitted is the network that the user sees
\* chosen (internet_relay.htm:347-441, jquery.dropkick-1.0.0.js:62-152).
THEOREM SubmitsShown == RelaySpec => []SubmitsWhatIsShown
<1>1. RelayInv => SubmitsWhatIsShown
  BY DEF RelayInv
<1> QED
  BY <1>1, RelayInitInv, RelayInvStep, PTL DEF RelaySpec

-----------------------------------------------------------------------------
(* The dialogs of a window.                                                *)

\* What the stack of a window holds, and that it holds each once.
Layer == Object \cup {Mask(o) : o \in Object}
Once(s) == \A j, k \in 1 .. Len(s) : s[j] = s[k] => j = k

ObjectOrNone == Object \cup {NoObject}
Window == [list : [DialogId -> ObjectOrNone], pool : ObjectOrNone, focus : ObjectOrNone,
           stack : Seq(Layer), shows : [Object -> Texts], config : [Object -> Texts],
           timer : SUBSET Object, data : [DialogId -> ObjectOrNone], full : SUBSET Object,
           drag : ObjectOrNone, hidden : SUBSET Object]

\* ListIsScreen for any state of a window, which is true between any two calls; only
\* function windows have a frame.
Listed(u) ==
  /\ \A i, j \in DialogId : u.list[i] = u.list[j] => i = j \/ u.list[i] = NoObject
  /\ u.pool \notin OpenObjects(u)
Stacked(u) ==
  /\ Once(u.stack)
  /\ \A o \in Object : Contains(u.stack, o) <=> o \in OpenObjects(u)
  /\ \A o \in Object : Locked(u, o) => o \in OpenObjects(u)
  /\ u.focus \in OpenObjects(u) \cup {NoObject}
Framed(u) ==
  /\ u.timer \subseteq OpenObjects(u)
  /\ \A i \in DialogId : u.data[i] \in {NoObject, u.list[i]}
  /\ \A i \in DialogId : i # Func => u.data[i] = NoObject
  /\ \A o \in Object : o \in u.full <=> o \in OpenObjects(u) /\ u.shows[o] = "frame"
  /\ \A o \in u.full : o = u.data[Func]
Screen(u) == u \in Window /\ Listed(u) /\ Stacked(u) /\ Framed(u)

\* A call brings dialogs to the top, and changes nothing else; no mask goes.
Raised(v, u) ==
  /\ v.list = u.list /\ v.pool = u.pool /\ v.shows = u.shows /\ v.timer = u.timer
  /\ v.config = u.config
  /\ v.data = u.data /\ v.full = u.full /\ v.drag = u.drag /\ v.hidden = u.hidden
Masked(v, u) == \A o \in Object : Locked(u, o) => Locked(v, o)

LEMMA Masks ==
  /\ \A o \in Object : Mask(o) \in Layer /\ Mask(o) \notin Object /\ o \in Layer /\ o # NoObject
  /\ \A o, p \in Object : Mask(o) = Mask(p) => o = p
  /\ NoObject \notin Object
BY DialogAssumption DEF DialogAssumption, Mask, Layer

\* An element is taken out of a sequence that has it once.
LEMMA TakenOut ==
  ASSUME NEW S, NEW s \in Seq(S), Once(s), NEW x
  PROVE  LET t == RemoveFirst(s, x)
         IN t \in Seq(S) /\ Once(t) /\ \A y : Contains(t, y) <=> Contains(s, y) /\ y # x
<1> DEFINE at == {k \in 1 .. Len(s) : s[k] = x}
           t == RemoveFirst(s, x)
<1>1. Len(s) \in Nat
  OBVIOUS
<1>2. CASE at = {}
  <2>1. t = s
    BY <1>2 DEF RemoveFirst
  <2>2. ~Contains(s, x)
    BY <1>2 DEF Contains
  <2> QED
    BY <2>1, <2>2
<1>3. CASE at # {}
  <2> DEFINE k == Min(at)
  <2>1. \E j \in at : \A i \in at : j <= i
    <3>1. PICK j \in at : TRUE
      BY <1>3
    <3> QED
      BY <1>1, <3>1 DEF Once
  <2>2. k \in at
    <3> HIDE DEF at
    <3> QED
      BY <2>1 DEF Min
  <2>3. k \in 1 .. Len(s) /\ s[k] = x
    BY <2>2
  <2>4. t = RemoveAt(s, k)
    BY <1>3 DEF RemoveFirst, SelectInSeq
  <2> HIDE DEF k
  <2> DEFINE r == [j \in 1 .. Len(s) - 1 |-> IF j < k THEN s[j] ELSE s[j + 1]]
  <2>5. t = r
    <3> DEFINE before == SubSeq(s, 1, k - 1)
               after == SubSeq(s, k + 1, Len(s))
    <3>1. before \in Seq(S) /\ Len(before) = k - 1 /\ \A j \in 1 .. k - 1 : before[j] = s[j]
      BY <2>3
    <3>2. /\ after \in Seq(S) /\ Len(after) = Len(s) - k
          /\ \A j \in 1 .. Len(s) - k : after[j] = s[j + k]
      BY <2>3
    <3>3. t = before \o after
      BY <2>4 DEF RemoveAt
    <3> HIDE DEF before, after, t
    <3>4. t \in Seq(S) /\ Len(t) = Len(s) - 1
      BY <2>3, <3>1, <3>2, <3>3
    <3>5. \A j \in 1 .. k - 1 : t[j] = before[j]
      BY <2>3, <3>1, <3>2, <3>3
    <3>6. \A j \in k .. Len(s) - 1 : t[j] = after[j - k + 1]
      BY <2>3, <3>1, <3>2, <3>3
    <3>7. ASSUME NEW j \in 1 .. Len(s) - 1 PROVE t[j] = IF j < k THEN s[j] ELSE s[j + 1]
      <4>1. CASE j < k
        BY <2>3, <3>1, <3>5, <4>1
      <4>2. CASE ~ j < k
        <5>1. j \in k .. Len(s) - 1 /\ j - k + 1 \in 1 .. Len(s) - k /\ (j - k + 1) + k = j + 1
          BY <2>3, <4>2
        <5> QED
          BY <3>2, <3>6, <4>2, <5>1
      <4> QED
        BY <4>1, <4>2
    <3> QED
      BY <3>4, <3>7
  <2>6. t \in Seq(S) /\ Len(t) = Len(s) - 1
    BY <1>1, <2>3, <2>5
  <2>7. \A j \in 1 .. Len(t) : t[j] = IF j < k THEN s[j] ELSE s[j + 1]
    BY <2>5, <2>6
  <2> HIDE DEF t, r, at
  <2>8. Once(t)
    BY <1>1, <2>3, <2>6, <2>7 DEF Once
  <2>9. ASSUME NEW y, Contains(t, y) PROVE Contains(s, y) /\ y # x
    <3>1. PICK j \in 1 .. Len(t) : t[j] = y
      BY <2>9 DEF Contains
    <3>2. j \in Nat /\ (IF j < k THEN j ELSE j + 1) \in 1 .. Len(s) /\ (IF j < k THEN j ELSE j + 1) # k
      BY <1>1, <2>3, <2>6
    <3>3. y = s[IF j < k THEN j ELSE j + 1]
      BY <2>7, <3>1
    <3> QED
      BY <2>3, <3>2, <3>3 DEF Contains, Once
  <2>10. ASSUME NEW y, Contains(s, y), y # x PROVE Contains(t, y)
    <3>1. PICK j \in 1 .. Len(s) : s[j] = y
      BY <2>10 DEF Contains
    <3>2. j # k
      BY <2>3, <2>10, <3>1
    <3>3. CASE j < k
      BY <1>1, <2>3, <2>6, <2>7, <3>1, <3>3 DEF Contains
    <3>4. CASE j > k
      <4>1. j - 1 \in 1 .. Len(t) /\ t[j - 1] = s[j]
        BY <1>1, <2>3, <2>6, <2>7, <3>1, <3>4
      <4> QED
        BY <3>1, <4>1 DEF Contains
    <3> QED
      BY <1>1, <2>3, <3>2, <3>3, <3>4
  <2> QED
    BY <2>6, <2>8, <2>9, <2>10 DEF t
<1> QED
  BY <1>2, <1>3

\* An element is put on top of a sequence that does not have it.
LEMMA PutOnTop ==
  ASSUME NEW S, NEW s \in Seq(S), Once(s), NEW x \in S, ~Contains(s, x)
  PROVE  LET t == Append(s, x)
         IN t \in Seq(S) /\ Once(t) /\ \A y : Contains(t, y) <=> Contains(s, y) \/ y = x
<1> DEFINE t == Append(s, x)
<1>1. t \in Seq(S) /\ Len(t) = Len(s) + 1 /\ Len(s) \in Nat
  OBVIOUS
<1>2. t[Len(s) + 1] = x /\ \A k \in 1 .. Len(s) : t[k] = s[k]
  OBVIOUS
<1> HIDE DEF t
<1>3. Once(t)
  BY <1>1, <1>2 DEF Once, Contains
<1>4. \A y : Contains(t, y) <=> Contains(s, y) \/ y = x
  <2>1. ASSUME NEW y, Contains(t, y) PROVE Contains(s, y) \/ y = x
    BY <1>1, <1>2, <2>1 DEF Contains
  <2>2. ASSUME NEW y, Contains(s, y) PROVE Contains(t, y)
    BY <1>1, <1>2, <2>2 DEF Contains
  <2>3. Contains(t, x)
    BY <1>1, <1>2 DEF Contains
  <2> QED
    BY <2>1, <2>2, <2>3
<1> QED
  BY <1>1, <1>3, <1>4 DEF t

\* The order of the dialogs and the focus are set.
LEMMA Refocused ==
  ASSUME NEW u \in Window, NEW s \in Seq(Layer), NEW o \in ObjectOrNone,
         NEW v, v = [u EXCEPT !.stack = s, !.focus = o]
  PROVE  v \in Window /\ v.stack = s /\ v.focus = o /\ Raised(v, u)
BY DEF Window, Raised

LEMMA WindowStack == ASSUME NEW u \in Window PROVE u.stack \in Seq(Layer)
BY DEF Window

\* The objects that are open depend on the list alone.
LEMMA RaisedScreen ==
  ASSUME NEW u, Screen(u), NEW v \in Window, Raised(v, u), Stacked(v)
  PROVE  Screen(v) /\ OpenObjects(v) = OpenObjects(u)
BY DEF Screen, Raised, Listed, Framed, OpenObjects

\* zIndex, for an object that may be new to the stack.
LEMMA ZIndexTops ==
  ASSUME NEW u \in Window, Once(u.stack), NEW o \in Object
  PROVE  LET v == zIndex(u, o)
         IN /\ v \in Window /\ Raised(v, u) /\ v.focus = o /\ Once(v.stack)
            /\ \A y : Contains(v.stack, y) <=> Contains(u.stack, y) \/ y = o
<1> DEFINE s == Append(RemoveFirst(u.stack, o), o)
<1>1. o \in Layer /\ u.stack \in Seq(Layer)
  BY Masks, WindowStack
<1>2. /\ RemoveFirst(u.stack, o) \in Seq(Layer) /\ Once(RemoveFirst(u.stack, o))
      /\ \A y : Contains(RemoveFirst(u.stack, o), y) <=> Contains(u.stack, y) /\ y # o
  BY <1>1, TakenOut
<1>3. s \in Seq(Layer) /\ Once(s) /\ \A y : Contains(s, y) <=> Contains(u.stack, y) \/ y = o
  BY <1>1, <1>2, PutOnTop
<1> HIDE DEF s
<1>4. zIndex(u, o) = [u EXCEPT !.stack = s, !.focus = o]
  BY DEF zIndex, s
<1>5. o \in ObjectOrNone
  BY DEF ObjectOrNone
<1> DEFINE v == zIndex(u, o)
<1> HIDE DEF v
<1>6. v \in Window /\ v.stack = s /\ v.focus = o /\ Raised(v, u)
  BY <1>3, <1>4, <1>5, Refocused DEF v
<1> QED
  BY <1>3, <1>6 DEF v

LEMMA ZIndexScreen ==
  ASSUME NEW u, Screen(u), NEW o \in OpenObjects(u)
  PROVE  Screen(zIndex(u, o)) /\ Raised(zIndex(u, o), u) /\ Masked(zIndex(u, o), u)
<1> DEFINE v == zIndex(u, o)
<1>1. o \in Object
  BY DEF Screen, Window, OpenObjects, ObjectOrNone
<1>2. /\ v \in Window /\ Raised(v, u) /\ v.focus = o /\ Once(v.stack)
      /\ \A y : Contains(v.stack, y) <=> Contains(u.stack, y) \/ y = o
  BY <1>1, ZIndexTops DEF Screen, Stacked
<1> HIDE DEF v
<1>3. OpenObjects(v) = OpenObjects(u)
  BY <1>2 DEF Raised, OpenObjects
<1>4. Stacked(v)
  BY <1>1, <1>2, <1>3, Masks DEF Screen, Stacked, Locked
<1>5. Masked(v, u)
  BY <1>2 DEF Masked, Locked
<1> QED
  BY <1>2, <1>4, <1>5, RaisedScreen DEF v

LEMMA LockScreen ==
  ASSUME NEW u, Screen(u), NEW o \in OpenObjects(u)
  PROVE  LET v == lock(u, o) IN Screen(v) /\ Raised(v, u) /\ Masked(v, u) /\ Locked(v, o)
<1>1. CASE Locked(u, o)
  BY <1>1 DEF lock, Raised, Masked
<1>2. CASE ~Locked(u, o)
  <2> DEFINE v == lock(u, o)
             s == RemoveFirst(u.stack, o)
             r == Append(s, Mask(o))
             t == Append(r, o)
  <2>1. /\ o \in Object /\ o \in Layer /\ Mask(o) \in Layer /\ Mask(o) # o
        /\ u \in Window /\ u.stack \in Seq(Layer) /\ Once(u.stack)
    BY Masks, WindowStack DEF Screen, Window, OpenObjects, ObjectOrNone, Stacked
  <2>2. s \in Seq(Layer) /\ Once(s) /\ \A y : Contains(s, y) <=> Contains(u.stack, y) /\ y # o
    BY <2>1, TakenOut
  <2>3. ~Contains(s, Mask(o))
    BY <1>2, <2>2 DEF Locked
  <2> HIDE DEF s
  <2>4. r \in Seq(Layer) /\ Once(r) /\ \A y : Contains(r, y) <=> Contains(s, y) \/ y = Mask(o)
    BY <2>1, <2>2, <2>3, PutOnTop
  <2> HIDE DEF r
  <2>5. /\ t \in Seq(Layer) /\ Once(t)
        /\ \A y : Contains(t, y) <=> Contains(u.stack, y) \/ y = Mask(o) \/ y = o
    <3>1. ~Contains(r, o)
      BY <2>1, <2>2, <2>4
    <3>2. t \in Seq(Layer) /\ Once(t) /\ \A y : Contains(t, y) <=> Contains(r, y) \/ y = o
      BY <2>1, <2>4, <3>1, PutOnTop
    <3> HIDE DEF t
    <3> QED
      BY <2>2, <2>4, <3>2
  <2>6. s \o <<Mask(o), o>> = t
    BY <2>1, <2>2 DEF r
  <2> HIDE DEF t
  <2>7. v = [u EXCEPT !.stack = t, !.focus = o]
    BY <1>2, <2>6 DEF lock, s
  <2> HIDE DEF v
  <2>8. v \in Window /\ v.stack = t /\ v.focus = o /\ Raised(v, u)
    <3>1. o \in ObjectOrNone
      BY <2>1 DEF ObjectOrNone
    <3>2. u \in Window /\ t \in Seq(Layer)
      BY <2>1, <2>5
    <3> QED
      BY <2>7, <3>1, <3>2 DEF Window, Raised
  <2>9. OpenObjects(v) = OpenObjects(u)
    BY <2>8 DEF Raised, OpenObjects
  <2>10. Stacked(v)
    <3>1. Once(v.stack) /\ v.focus \in OpenObjects(v)
      BY <2>5, <2>8, <2>9
    <3>2. \A p \in Object : Contains(v.stack, p) <=> p \in OpenObjects(v)
      BY <2>1, <2>5, <2>8, <2>9, Masks DEF Screen, Stacked
    <3>3. \A p \in Object : Locked(v, p) => p \in OpenObjects(v)
      BY <2>1, <2>5, <2>8, <2>9, Masks DEF Screen, Stacked, Locked
    <3> QED
      BY <3>1, <3>2, <3>3 DEF Stacked
  <2>11. Masked(v, u) /\ Locked(v, o)
    BY <2>5, <2>8 DEF Masked, Locked
  <2> QED
    BY <2>8, <2>10, <2>11, RaisedScreen DEF v
<1> QED
  BY <1>1, <1>2

\* The fields of a state that one call sets.
LEMMA WindowFields ==
  ASSUME NEW u \in Window
  PROVE  /\ u.list \in [DialogId -> ObjectOrNone] /\ u.pool \in ObjectOrNone
         /\ u.focus \in ObjectOrNone /\ u.shows \in [Object -> Texts]
         /\ u.config \in [Object -> Texts] /\ u.timer \in SUBSET Object
         /\ u.data \in [DialogId -> ObjectOrNone]
         /\ u.full \in SUBSET Object /\ u.drag \in ObjectOrNone /\ u.hidden \in SUBSET Object
BY DEF Window

LEMMA Openings ==
  ASSUME NEW u \in Window
  PROVE  /\ OpenObjects(u) \subseteq Object
         /\ \A o : o \in OpenObjects(u) <=> o # NoObject /\ \E i \in DialogId : u.list[i] = o
BY WindowFields DEF OpenObjects, ObjectOrNone

\* A dialog that is open stays, with its mask and its buttons, and gets no timer.
Keeps(v, u, j) ==
  LET o == u.list[j]
  IN /\ v.list[j] = o
     /\ o # NoObject => /\ Locked(u, o) => Locked(v, o)
                        /\ v.config[o] = u.config[o]
                        /\ o \in v.timer => o \in u.timer

\* The dialogs but i stay, and what is hidden or dragged does.
Beside(v, u, i) ==
  /\ \A j \in DialogId : j # i => Keeps(v, u, j)
  /\ v.hidden \subseteq u.hidden /\ v.drag = u.drag

LEMMA RaisedKeeps ==
  ASSUME NEW u \in Window, NEW v, Raised(v, u), Masked(v, u), NEW j \in DialogId
  PROVE  Keeps(v, u, j)
BY WindowFields DEF Raised, Masked, Keeps, ObjectOrNone

LEMMA KeepsOn ==
  ASSUME NEW u, NEW v, NEW w, NEW j, Keeps(v, u, j), Keeps(w, v, j)
  PROVE  Keeps(w, u, j)
BY DEF Keeps

LEMMA BesideOn ==
  ASSUME NEW u, NEW v, NEW w, NEW i, Beside(v, u, i), Beside(w, v, i)
  PROVE  Beside(w, u, i)
BY KeepsOn DEF Beside

\* The dialog with this id is the one that was open, or a new one, which has the buttons
\* of its configuration and no timer.
Shown(v, u, i, text) ==
  IF u.list[i] # NoObject THEN Keeps(v, u, i)
  ELSE v.config[v.list[i]] = text /\ v.list[i] \notin v.timer

\* A dialog without a frame is opened, or brought to the top.
LEMMA ArtDialogScreen ==
  ASSUME NEW u, Screen(u), NEW i \in DialogId, NEW text \in Texts, text # "frame",
         u.list[i] # NoObject \/ HasRoom(u)
  PROVE  LET v == artDialog(u, i, text)
         IN /\ Screen(v) /\ v.list[i] \in OpenObjects(v) /\ Beside(v, u, i)
            /\ Shown(v, u, i, text) /\ v.data = u.data /\ v.full = u.full
<1>1. u \in Window
  BY DEF Screen
<1>2. CASE u.list[i] # NoObject
  <2> DEFINE v == zIndex(u, u.list[i])
  <2>1. u.list[i] \in OpenObjects(u)
    BY <1>1, <1>2, Openings
  <2>2. Screen(v) /\ Raised(v, u) /\ Masked(v, u) /\ artDialog(u, i, text) = v
    BY <1>2, <2>1, ZIndexScreen DEF artDialog
  <2> HIDE DEF v
  <2>3. v.list[i] \in OpenObjects(v)
    BY <2>1, <2>2 DEF Raised, OpenObjects
  <2>4. \A j \in DialogId : Keeps(v, u, j)
    BY <1>1, <2>2, RaisedKeeps
  <2> QED
    BY <1>2, <2>2, <2>3, <2>4 DEF Raised, Beside, Shown
<1>3. CASE u.list[i] = NoObject
  <2> DEFINE o == NewObject(u)
             w == [u EXCEPT !.list[i] = o, !.pool = NoObject, !.timer = @ \ {o}, !.shows[o] = text,
                          !.config[o] = text]
             v == zIndex(w, o)
  <2>1. o \in Object /\ o \notin OpenObjects(u) /\ o # NoObject
    <3>1. CASE u.pool # NoObject
      BY <1>1, <3>1, WindowFields, Masks DEF NewObject, Screen, Listed, ObjectOrNone
    <3>2. CASE u.pool = NoObject
      <4>1. \E p \in Object : p \notin OpenObjects(u)
        BY <1>1, <1>3, <3>2, Openings DEF HasRoom
      <4> QED
        BY <3>2, <4>1, Masks DEF NewObject
    <3> QED
      BY <3>1, <3>2
  <2>2. artDialog(u, i, text) = v
    BY <1>3 DEF artDialog
  <2> HIDE DEF o
  <2>3. /\ w.list = [u.list EXCEPT ![i] = o] /\ w.pool = NoObject /\ w.timer = u.timer \ {o}
        /\ w.shows = [u.shows EXCEPT ![o] = text] /\ w.config = [u.config EXCEPT ![o] = text]
        /\ w.stack = u.stack /\ w.data = u.data /\ w.full = u.full /\ w.drag = u.drag
        /\ w.hidden = u.hidden
    BY <1>1 DEF Window
  <2>4. w \in Window
    BY <1>1, <2>1 DEF Window, ObjectOrNone
  <2> HIDE DEF w
  <2>5. /\ v \in Window /\ Raised(v, w) /\ v.focus = o /\ Once(v.stack)
        /\ \A y : Contains(v.stack, y) <=> Contains(u.stack, y) \/ y = o
    BY <2>1, <2>3, <2>4, ZIndexTops DEF Screen, Stacked
  <2> HIDE DEF v
  <2>6. v.list[i] = o /\ \A j \in DialogId : j # i => v.list[j] = u.list[j]
    BY <1>1, <2>3, <2>5, WindowFields DEF Raised
  <2>7. \A p : p \in OpenObjects(v) <=> p \in OpenObjects(u) \/ p = o
    BY <1>1, <1>3, <2>1, <2>5, <2>6, Openings
  <2>8. Listed(v)
    <3>1. v.pool \notin OpenObjects(v)
      BY <2>3, <2>5, Openings DEF Raised
    <3>2. \A j \in DialogId : u.list[j] # o
      BY <1>1, <2>1, Openings
    <3> QED
      BY <2>6, <3>1, <3>2 DEF Listed, Screen
  <2>9. Stacked(v)
    <3>1. Once(v.stack) /\ v.focus \in OpenObjects(v)
      BY <2>5, <2>7
    <3>2. \A p \in Object : Contains(v.stack, p) <=> p \in OpenObjects(v)
      BY <2>5, <2>7 DEF Screen, Stacked
    <3>3. \A p \in Object : Locked(v, p) => p \in OpenObjects(v)
      BY <2>1, <2>5, <2>7, Masks DEF Screen, Stacked, Locked
    <3> QED
      BY <3>1, <3>2, <3>3 DEF Stacked
  <2>10. Framed(v)
    <3>1. v.data = u.data /\ v.full = u.full /\ v.timer = u.timer \ {o}
      BY <2>3, <2>5 DEF Raised
    <3>2. v.shows[o] = text /\ \A p \in Object : p # o => v.shows[p] = u.shows[p]
      BY <1>1, <2>1, <2>3, <2>5, WindowFields DEF Raised
    <3>3. v.timer \subseteq OpenObjects(v)
      BY <2>7, <3>1 DEF Screen, Framed
    <3>4. \A j \in DialogId : v.data[j] \in {NoObject, v.list[j]} /\ (j # Func => v.data[j] = NoObject)
      BY <1>3, <2>6, <3>1 DEF Screen, Framed
    <3>5. \A p \in Object : p \in v.full <=> p \in OpenObjects(v) /\ v.shows[p] = "frame"
      BY <2>1, <2>7, <3>1, <3>2 DEF Screen, Framed
    <3>6. \A p \in v.full : p = v.data[Func]
      BY <3>1 DEF Screen, Framed
    <3> QED
      BY <3>3, <3>4, <3>5, <3>6 DEF Framed
  <2>11. v.data = u.data /\ v.full = u.full /\ v.hidden = u.hidden /\ v.drag = u.drag
    BY <2>3, <2>5 DEF Raised
  <2>12. v.config[o] = text /\ (\A p \in Object : p # o => v.config[p] = u.config[p])
    BY <1>1, <2>1, <2>3, <2>5, WindowFields DEF Raised
  <2>13. v.timer = u.timer \ {o} /\ Masked(v, u)
    BY <2>3, <2>5 DEF Raised, Masked, Locked
  <2>14. ASSUME NEW j \in DialogId, j # i PROVE Keeps(v, u, j)
    <3>1. u.list[j] # o /\ u.list[j] \in ObjectOrNone
      BY <1>1, <2>1, Openings, WindowFields
    <3> QED
      BY <2>6, <2>12, <2>13, <2>14, <3>1 DEF Keeps, Masked, ObjectOrNone
  <2> QED
    BY <1>3, <2>2, <2>5, <2>6, <2>7, <2>8, <2>9, <2>10, <2>11, <2>12, <2>13, <2>14
       DEF Screen, Beside, Shown
<1> QED
  BY <1>2, <1>3

\* A dialog is closed, and its object can be used again.
LEMMA CloseScreen ==
  ASSUME NEW u, Screen(u), NEW i \in DialogId, u.list[i] # NoObject
  PROVE  LET v == close(u, u.list[i])
         IN Screen(v) /\ v.list[i] = NoObject /\ Beside(v, u, i) /\ HasRoom(v)
<1> DEFINE o == u.list[i]
           v == close(u, o)
           s == RemoveFirst(u.stack, Mask(o))
           t == RemoveFirst(s, o)
           bare == unlock(clearTime(removeData(u, i), o), o)
<1>1. /\ u \in Window /\ u.stack \in Seq(Layer) /\ Once(u.stack) /\ o \in Object /\ o \in OpenObjects(u)
      /\ Mask(o) \in Layer /\ Mask(o) # o
  BY Openings, Masks, WindowStack DEF Screen, Stacked
<1>2. IdOf(u, o) = i
  <2>1. \A j \in DialogId : u.list[j] = o => j = i
    BY DEF Screen, Listed
  <2> QED
    BY <2>1 DEF IdOf
<1>3. s \in Seq(Layer) /\ Once(s) /\ \A y : Contains(s, y) <=> Contains(u.stack, y) /\ y # Mask(o)
  BY <1>1, TakenOut
<1> HIDE DEF s
<1>4. t \in Seq(Layer) /\ Once(t) /\ \A y : Contains(t, y) <=> Contains(s, y) /\ y # o
  BY <1>3, TakenOut
<1> HIDE DEF t
<1>5. /\ bare \in Window /\ bare.list = u.list /\ bare.pool = u.pool /\ bare.focus = u.focus
      /\ bare.stack = s /\ bare.shows = u.shows /\ bare.config = u.config
      /\ bare.timer = u.timer \ {o}
      /\ bare.data = [u.data EXCEPT ![i] = NoObject] /\ bare.full = u.full
      /\ bare.drag = u.drag /\ bare.hidden = u.hidden
  BY <1>1, <1>3 DEF unlock, clearTime, removeData, s, Window, ObjectOrNone
<1>6. v = [bare EXCEPT !.list[i] = NoObject, !.stack = RemoveFirst(@, o),
                       !.focus = IF @ = o THEN NoObject ELSE @, !.full = @ \ {o},
                       !.hidden = IF u.pool = NoObject THEN @ ELSE @ \ {o},
                       !.shows[o] = "nothing", !.config[o] = "nothing",
                       !.pool = IF @ = NoObject THEN o ELSE @]
  BY <1>1, <1>2 DEF close
<1> HIDE DEF bare, v
<1>7. /\ v.list = [u.list EXCEPT ![i] = NoObject] /\ v.stack = t
      /\ v.focus = (IF u.focus = o THEN NoObject ELSE u.focus) /\ v.full = u.full \ {o}
      /\ v.hidden \subseteq u.hidden /\ v.shows = [u.shows EXCEPT ![o] = "nothing"]
      /\ v.config = [u.config EXCEPT ![o] = "nothing"]
      /\ v.pool = (IF u.pool = NoObject THEN o ELSE u.pool) /\ v.timer = u.timer \ {o}
      /\ v.data = [u.data EXCEPT ![i] = NoObject] /\ v.drag = u.drag
  BY <1>5, <1>6 DEF Window, t
<1>8. v \in Window
  <2>1. v.hidden \subseteq Object /\ v.stack \in Seq(Layer) /\ "nothing" \in Texts
    BY <1>1, <1>4, <1>7, WindowFields DEF Texts
  <2>2. v = [list |-> v.list, pool |-> v.pool, focus |-> v.focus, stack |-> v.stack,
             shows |-> v.shows, config |-> v.config, timer |-> v.timer, data |-> v.data,
             full |-> v.full, drag |-> v.drag, hidden |-> v.hidden]
    BY <1>5, <1>6 DEF Window
  <2>3. /\ v.list \in [DialogId -> ObjectOrNone] /\ v.pool \in ObjectOrNone
        /\ v.focus \in ObjectOrNone /\ v.shows \in [Object -> Texts]
        /\ v.config \in [Object -> Texts] /\ v.timer \in SUBSET Object
        /\ v.data \in [DialogId -> ObjectOrNone]
        /\ v.full \in SUBSET Object /\ v.drag \in ObjectOrNone
    BY <1>1, <1>7, <2>1, WindowFields DEF ObjectOrNone
  <2> QED
    BY <2>1, <2>2, <2>3 DEF Window
<1>9. v.list[i] = NoObject /\ \A j \in DialogId : j # i => v.list[j] = u.list[j]
  BY <1>1, <1>7, WindowFields
<1>10. \A p : p \in OpenObjects(v) <=> p \in OpenObjects(u) /\ p # o
  <2>1. \A j \in DialogId : j # i => u.list[j] # o
    BY DEF Screen, Listed
  <2> QED
    BY <1>1, <1>8, <1>9, <2>1, Openings
<1>11. v.pool # NoObject /\ v.pool \notin OpenObjects(v)
  BY <1>1, <1>7, <1>10, Masks DEF Screen, Listed
<1>12. Listed(v)
  BY <1>9, <1>11 DEF Screen, Listed
<1>13. Stacked(v)
  <2>1. Once(v.stack) /\ v.focus \in OpenObjects(v) \cup {NoObject}
    BY <1>4, <1>7, <1>10 DEF Screen, Stacked
  <2>2. \A p \in Object : Contains(v.stack, p) <=> p \in OpenObjects(v)
    BY <1>1, <1>3, <1>4, <1>7, <1>10, Masks DEF Screen, Stacked
  <2>3. \A p \in Object : Locked(v, p) => p \in OpenObjects(v)
    BY <1>1, <1>3, <1>4, <1>7, <1>10, Masks DEF Screen, Stacked, Locked
  <2> QED
    BY <2>1, <2>2, <2>3 DEF Stacked
<1>14. Framed(v)
  <2>1. v.timer \subseteq OpenObjects(v)
    BY <1>7, <1>10 DEF Screen, Framed
  <2>2. v.data[i] = NoObject /\ \A j \in DialogId : j # i => v.data[j] = u.data[j]
    BY <1>1, <1>7, WindowFields
  <2>3. \A j \in DialogId : v.data[j] \in {NoObject, v.list[j]} /\ (j # Func => v.data[j] = NoObject)
    BY <1>9, <2>2 DEF Screen, Framed
  <2>4. \A p \in Object : p # o => v.shows[p] = u.shows[p]
    BY <1>1, <1>7, WindowFields
  <2>5. \A p \in Object : p \in v.full <=> p \in OpenObjects(v) /\ v.shows[p] = "frame"
    BY <1>7, <1>10, <2>4 DEF Screen, Framed
  <2>6. \A p \in v.full : p = v.data[Func]
    <3>1. \A p \in v.full : p = u.data[Func] /\ p # o /\ p # NoObject
      BY <1>1, <1>7, Masks, WindowFields DEF Screen, Framed
    <3>2. Func \in DialogId /\ u.data[i] \in {NoObject, o}
      BY HomeAssumption DEF HomeAssumption, Screen, Framed
    <3> QED
      BY <2>2, <3>1, <3>2
  <2> QED
    BY <2>1, <2>3, <2>5, <2>6 DEF Framed
<1>15. ASSUME NEW j \in DialogId, j # i PROVE Keeps(v, u, j)
  <2>1. u.list[j] \in ObjectOrNone /\ (u.list[j] # NoObject => u.list[j] # o)
    BY <1>1, <1>15, WindowFields DEF Screen, Listed
  <2>2. \A p \in Object : p # o => v.config[p] = u.config[p]
    BY <1>1, <1>7, WindowFields
  <2>3. \A p \in Object : p # o /\ Locked(u, p) => Locked(v, p)
    BY <1>1, <1>3, <1>4, <1>7, Masks DEF Locked
  <2> QED
    BY <1>7, <1>9, <1>15, <2>1, <2>2, <2>3 DEF Keeps, ObjectOrNone
<1> QED
  BY <1>7, <1>8, <1>9, <1>11, <1>12, <1>13, <1>14, <1>15 DEF Screen, Beside, HasRoom, v

LEMMA ClosedByIdScreen ==
  ASSUME NEW u, Screen(u), NEW i \in DialogId
  PROVE  LET v == ClosedById(u, i)
         IN /\ Screen(v) /\ v.list[i] = NoObject /\ Beside(v, u, i)
            /\ u.list[i] # NoObject \/ HasRoom(u) => HasRoom(v)
<1>1. CASE u.list[i] = NoObject
  BY <1>1 DEF ClosedById, Beside, Keeps
<1>2. CASE u.list[i] # NoObject
  BY <1>2, CloseScreen DEF ClosedById
<1> QED
  BY <1>1, <1>2

\* lock, and time, after a dialog is opened.
LEMMA OpenedScreen ==
  ASSUME NEW u, Screen(u), NEW i \in DialogId, NEW text \in Texts, text # "frame",
         u.list[i] # NoObject \/ HasRoom(u)
  PROVE  LET v == Opened(u, i, text)
         IN /\ Screen(v) /\ v.list[i] \in OpenObjects(v) /\ Beside(v, u, i)
            /\ Locked(v, v.list[i]) /\ Shown(v, u, i, text)
<1> DEFINE w == artDialog(u, i, text)
           v == lock(w, w.list[i])
<1>1. Screen(w) /\ w.list[i] \in OpenObjects(w) /\ Beside(w, u, i) /\ Shown(w, u, i, text)
  BY ArtDialogScreen
<1>2. Opened(u, i, text) = v
  BY DEF Opened
<1> HIDE DEF w
<1>3. Screen(v) /\ Raised(v, w) /\ Masked(v, w) /\ Locked(v, w.list[i])
  BY <1>1, LockScreen
<1> HIDE DEF v
<1>4. v.list[i] \in OpenObjects(v) /\ Locked(v, v.list[i])
  BY <1>1, <1>3 DEF Raised, OpenObjects
<1>5. \A j \in DialogId : Keeps(v, w, j)
  BY <1>1, <1>3, RaisedKeeps DEF Screen
<1>6. Beside(v, u, i)
  <2>1. Beside(v, w, i)
    BY <1>3, <1>5 DEF Beside, Raised
  <2> QED
    BY <1>1, <2>1, BesideOn
<1>7. Shown(v, u, i, text)
  <2>1. CASE u.list[i] # NoObject
    BY <1>1, <1>5, <2>1, KeepsOn DEF Shown
  <2>2. CASE u.list[i] = NoObject
    BY <1>1, <1>3, <2>2 DEF Shown, Raised
  <2> QED
    BY <2>1, <2>2
<1> QED
  BY <1>2, <1>3, <1>4, <1>6, <1>7

LEMMA SetTimeScreen ==
  ASSUME NEW u, Screen(u), NEW i \in DialogId, u.list[i] # NoObject
  PROVE  LET v == setTime(u, u.list[i])
         IN /\ Screen(v) /\ v.list = u.list /\ v.config = u.config /\ v.stack = u.stack
            /\ Beside(v, u, i)
<1> DEFINE o == u.list[i]
           v == setTime(u, o)
<1>1. u \in Window /\ o \in Object /\ o \in OpenObjects(u)
  BY Openings DEF Screen
<1>2. /\ v \in Window /\ v.list = u.list /\ v.pool = u.pool /\ v.focus = u.focus
      /\ v.stack = u.stack /\ v.shows = u.shows /\ v.config = u.config
      /\ v.timer = u.timer \cup {o}
      /\ v.data = u.data /\ v.full = u.full /\ v.drag = u.drag /\ v.hidden = u.hidden
  BY <1>1 DEF setTime, Window
<1> HIDE DEF v, o
<1>3. OpenObjects(v) = OpenObjects(u)
  BY <1>2 DEF OpenObjects
<1>4. Listed(v)
  BY <1>2, <1>3 DEF Screen, Listed
<1>5. Stacked(v)
  BY <1>2, <1>3 DEF Screen, Stacked, Locked
<1>6. Framed(v)
  BY <1>1, <1>2, <1>3 DEF Screen, Framed
<1>7. ASSUME NEW j \in DialogId, j # i PROVE Keeps(v, u, j)
  <2>1. u.list[j] # NoObject => u.list[j] # o
    BY <1>7 DEF Screen, Listed, o
  <2> QED
    BY <1>2, <2>1 DEF Keeps, Locked
<1> QED
  BY <1>2, <1>4, <1>5, <1>6, <1>7 DEF Screen, Beside, v, o

LEMMA TimedOpenedScreen ==
  ASSUME NEW u, Screen(u), NEW i \in DialogId, NEW text \in Texts, text # "frame",
         u.list[i] # NoObject \/ HasRoom(u)
  PROVE  LET v == TimedOpened(u, i, text)
         IN /\ Screen(v) /\ v.list[i] # NoObject /\ Beside(v, u, i)
            /\ Locked(v, v.list[i]) /\ (u.list[i] = NoObject => v.config[v.list[i]] = text)
<1> DEFINE w == Opened(u, i, text)
           v == setTime(w, w.list[i])
<1>1. /\ Screen(w) /\ w.list[i] # NoObject /\ Beside(w, u, i)
      /\ Locked(w, w.list[i]) /\ (u.list[i] = NoObject => w.config[w.list[i]] = text)
  BY OpenedScreen DEF OpenObjects, Shown
<1>2. TimedOpened(u, i, text) = v
  BY DEF TimedOpened
<1> HIDE DEF w
<1>3. /\ Screen(v) /\ v.list = w.list /\ v.config = w.config /\ v.stack = w.stack
      /\ Beside(v, w, i)
  BY <1>1, SetTimeScreen
<1> HIDE DEF v
<1>4. Beside(v, u, i)
  BY <1>1, <1>3, BesideOn
<1> QED
  BY <1>1, <1>2, <1>3, <1>4 DEF Locked

\* A function window is opened, with the page of a frame.
LEMMA OpenPageScreen ==
  ASSUME NEW u, Screen(u), u.list[Func] = NoObject, HasRoom(u)
  PROVE  LET v == openPage(u, Func)
         IN Screen(v) /\ v.list[Func] \in OpenObjects(v) /\ Beside(v, u, Func)
<1> DEFINE w == artDialog(u, Func, "loading")
           v == data(w, Func, w.list[Func])
<1>1. Func \in DialogId /\ "loading" \in Texts
  BY HomeAssumption DEF HomeAssumption, Texts
<1>2. /\ Screen(w) /\ w.list[Func] \in OpenObjects(w) /\ Beside(w, u, Func)
      /\ w.data = u.data /\ w.full = u.full
  BY <1>1, ArtDialogScreen
<1>3. openPage(u, Func) = v
  BY DEF openPage
<1> HIDE DEF w
<1>4. w \in Window /\ w.list[Func] \in Object
  BY <1>2, Openings DEF Screen
<1>5. /\ v \in Window /\ v.list = w.list /\ v.pool = w.pool /\ v.focus = w.focus
      /\ v.stack = w.stack /\ v.shows = w.shows /\ v.config = w.config /\ v.timer = w.timer
      /\ v.data = [w.data EXCEPT ![Func] = w.list[Func]] /\ v.full = w.full
      /\ v.drag = w.drag /\ v.hidden = w.hidden
  BY <1>4 DEF data, Window, ObjectOrNone
<1> HIDE DEF v
<1>6. OpenObjects(v) = OpenObjects(w)
  BY <1>5 DEF OpenObjects
<1>7. Listed(v)
  BY <1>2, <1>5, <1>6 DEF Screen, Listed
<1>8. Stacked(v)
  BY <1>2, <1>5, <1>6 DEF Screen, Stacked, Locked
<1>9. Framed(v)
  <2>1. v.timer \subseteq OpenObjects(v)
    BY <1>2, <1>5, <1>6 DEF Screen, Framed
  <2>2. v.data[Func] = w.list[Func] /\ \A j \in DialogId : j # Func => v.data[j] = w.data[j]
    BY <1>1, <1>4, <1>5, WindowFields
  <2>3. \A j \in DialogId : v.data[j] \in {NoObject, v.list[j]} /\ (j # Func => v.data[j] = NoObject)
    BY <1>2, <1>5, <2>2 DEF Screen, Framed
  <2>4. \A p \in Object : p \in v.full <=> p \in OpenObjects(v) /\ v.shows[p] = "frame"
    BY <1>2, <1>5, <1>6 DEF Screen, Framed
  <2>5. w.full = {}
    <3>1. u.data[Func] = NoObject
      BY <1>1 DEF Screen, Framed
    <3>2. \A p \in u.full : p = NoObject /\ p \in Object
      BY <3>1, WindowFields DEF Screen, Framed
    <3> QED
      BY <1>2, <3>2, Masks
  <2> QED
    BY <1>5, <2>1, <2>3, <2>4, <2>5 DEF Framed
<1>10. v.list[Func] \in OpenObjects(v)
  BY <1>2, <1>5, <1>6
<1>11. Beside(v, u, Func)
  <2>1. Beside(v, w, Func)
    BY <1>5 DEF Beside, Keeps, Locked
  <2> QED
    BY <1>2, <2>1, BesideOn
<1> QED
  BY <1>3, <1>5, <1>7, <1>8, <1>9, <1>10, <1>11 DEF Screen

\* What a window finds its frame by is the object it has; no other dialog has a frame.
LEMMA FrameOfWindow ==
  ASSUME NEW u, Screen(u)
  PROVE  /\ u.data[Func] # NoObject => u.data[Func] = u.list[Func] /\ u.data[Func] \in OpenObjects(u)
         /\ u.full \subseteq OpenObjects(u)
         /\ u.list[Wait] \notin u.full
<1>1. u \in Window /\ {Func, Wait} \subseteq DialogId /\ Func # Wait
  BY HomeAssumption DEF HomeAssumption, Screen, Func, Wait
<1>2. u.data[Func] # NoObject => u.data[Func] = u.list[Func] /\ u.data[Func] \in OpenObjects(u)
  BY <1>1, Openings DEF Screen, Framed
<1>3. u.full \subseteq OpenObjects(u)
  BY <1>1, WindowFields DEF Screen, Framed
<1>4. ASSUME u.list[Wait] \in u.full PROVE FALSE
  <2>1. u.list[Wait] # NoObject /\ u.list[Wait] = u.data[Func]
    BY <1>1, <1>3, <1>4, Openings DEF Screen, Framed
  <2>2. u.list[Wait] = u.list[Func]
    BY <1>2, <2>1
  <2> QED
    BY <1>1, <2>1, <2>2 DEF Screen, Listed
<1> QED
  BY <1>2, <1>3, <1>4

\* The calls that open and close nothing.
LEMMA LoadScreen ==
  ASSUME NEW u, Screen(u), u.data[Func] # NoObject
  PROVE  LET v == load(u, Func)
         IN /\ Screen(v) /\ v.hidden = u.hidden /\ v.drag = u.drag
            /\ \A j \in DialogId : Keeps(v, u, j)
<1> DEFINE o == u.data[Func]
           v == load(u, Func)
<1>1. u \in Window /\ o \in OpenObjects(u) /\ o \in Object
  BY FrameOfWindow, Openings DEF Screen
<1>2. v = [[u EXCEPT !.shows[o] = "frame"] EXCEPT !.full = @ \cup {o}]
  BY DEF load, content
<1> HIDE DEF o, v
<1>3. /\ v \in Window /\ v.list = u.list /\ v.pool = u.pool /\ v.focus = u.focus
      /\ v.stack = u.stack /\ v.shows = [u.shows EXCEPT ![o] = "frame"]
      /\ v.config = u.config /\ v.timer = u.timer /\ v.data = u.data /\ v.full = u.full \cup {o}
      /\ v.drag = u.drag /\ v.hidden = u.hidden
  BY <1>1, <1>2 DEF Window, Texts
<1>4. OpenObjects(v) = OpenObjects(u)
  BY <1>3 DEF OpenObjects
<1>5. Listed(v)
  BY <1>3, <1>4 DEF Screen, Listed
<1>6. Stacked(v)
  BY <1>3, <1>4 DEF Screen, Stacked, Locked
<1>7. Framed(v)
  <2>1. v.shows[o] = "frame" /\ \A p \in Object : p # o => v.shows[p] = u.shows[p]
    BY <1>1, <1>3, WindowFields
  <2>2. \A p \in Object : p \in v.full <=> p \in OpenObjects(v) /\ v.shows[p] = "frame"
    BY <1>1, <1>3, <1>4, <2>1 DEF Screen, Framed
  <2> QED
    BY <1>3, <1>4, <2>2 DEF Screen, Framed, o
<1>8. \A j \in DialogId : Keeps(v, u, j)
  BY <1>3 DEF Keeps, Locked
<1> QED
  BY <1>3, <1>5, <1>6, <1>7, <1>8 DEF Screen, v

LEMMA ContentScreen ==
  ASSUME NEW u, Screen(u), u.list[Wait] # NoObject, NEW text \in Texts, text # "frame"
  PROVE  LET v == content(u, u.list[Wait], text)
         IN /\ Screen(v) /\ v.hidden = u.hidden /\ v.drag = u.drag
            /\ \A j \in DialogId : Keeps(v, u, j)
<1> DEFINE o == u.list[Wait]
           v == content(u, o, text)
<1>1. u \in Window /\ o \in Object /\ o \notin u.full /\ o \in OpenObjects(u)
  BY FrameOfWindow, Openings, HomeAssumption DEF HomeAssumption, Screen
<1> HIDE DEF o
<1>2. /\ v \in Window /\ v.list = u.list /\ v.pool = u.pool /\ v.focus = u.focus
      /\ v.stack = u.stack /\ v.shows = [u.shows EXCEPT ![o] = text]
      /\ v.config = u.config /\ v.timer = u.timer /\ v.data = u.data /\ v.full = u.full
      /\ v.drag = u.drag /\ v.hidden = u.hidden
  BY <1>1 DEF content, Window
<1> HIDE DEF v
<1>3. OpenObjects(v) = OpenObjects(u)
  BY <1>2 DEF OpenObjects
<1>4. Listed(v)
  BY <1>2, <1>3 DEF Screen, Listed
<1>5. Stacked(v)
  BY <1>2, <1>3 DEF Screen, Stacked, Locked
<1>6. Framed(v)
  <2>1. v.shows[o] = text /\ \A p \in Object : p # o => v.shows[p] = u.shows[p]
    BY <1>1, <1>2, WindowFields
  <2>2. \A p \in Object : p \in v.full <=> p \in OpenObjects(v) /\ v.shows[p] = "frame"
    BY <1>1, <1>2, <1>3, <2>1 DEF Screen, Framed
  <2> QED
    BY <1>2, <1>3, <2>2 DEF Screen, Framed
<1>7. \A j \in DialogId : Keeps(v, u, j)
  BY <1>2 DEF Keeps, Locked
<1> QED
  BY <1>2, <1>4, <1>5, <1>6, <1>7 DEF Screen, v, o

\* A drag begins or ends.
Dragged(u, d, h) == [u EXCEPT !.drag = d, !.hidden = h]

LEMMA DragScreen ==
  ASSUME NEW u, Screen(u), NEW d \in ObjectOrNone, NEW h \in SUBSET Object
  PROVE  LET v == Dragged(u, d, h)
         IN Screen(v) /\ (\A j \in DialogId : Keeps(v, u, j)) /\ v.drag = d /\ v.hidden = h
<1> DEFINE v == Dragged(u, d, h)
<1>1. /\ v \in Window /\ v.list = u.list /\ v.pool = u.pool /\ v.focus = u.focus
      /\ v.stack = u.stack /\ v.shows = u.shows /\ v.config = u.config
      /\ v.timer = u.timer /\ v.data = u.data /\ v.full = u.full /\ v.drag = d /\ v.hidden = h
  BY DEF Dragged, Screen, Window
<1> HIDE DEF v
<1>2. OpenObjects(v) = OpenObjects(u)
  BY <1>1 DEF OpenObjects
<1>3. Listed(v)
  BY <1>1, <1>2 DEF Screen, Listed
<1>4. Stacked(v)
  BY <1>1, <1>2 DEF Screen, Stacked, Locked
<1>5. Framed(v)
  BY <1>1, <1>2 DEF Screen, Framed
<1>6. \A j \in DialogId : Keeps(v, u, j)
  BY <1>1 DEF Keeps, Locked
<1> QED
  BY <1>1, <1>3, <1>4, <1>5, <1>6 DEF Screen, v

LEMMA NoDialogsScreen == Screen(NoDialogs)
<1> DEFINE v == NoDialogs
<1>1. /\ v.list = [i \in DialogId |-> NoObject] /\ v.pool = NoObject /\ v.focus = NoObject
      /\ v.stack = <<>> /\ v.shows = [o \in Object |-> "nothing"]
      /\ v.config = [o \in Object |-> "nothing"] /\ v.timer = {}
      /\ v.data = [i \in DialogId |-> NoObject] /\ v.full = {} /\ v.drag = NoObject /\ v.hidden = {}
  BY DEF NoDialogs
<1>2. v \in Window
  BY DEF NoDialogs, Window, ObjectOrNone, Texts
<1> HIDE DEF v
<1>3. \A o : o \notin OpenObjects(v)
  BY <1>1, <1>2, Openings
<1>4. Listed(v)
  BY <1>1, <1>3 DEF Listed
<1>5. Stacked(v)
  BY <1>1, <1>3 DEF Stacked, Once, Contains, Locked
<1>6. Framed(v)
  BY <1>1, <1>3 DEF Framed
<1> QED
  BY <1>2, <1>4, <1>5, <1>6 DEF Screen, v

-----------------------------------------------------------------------------
(* The home page.                                                          *)

\* The parts of the invariant: the calls of autoLink, the flags, the dialogs, and the box
\* of the restart, which has a mask from the start, and a timer only for a success.
Calls ==
  /\ interval \in [Probe -> {"none", "delayed", "running", "cleared"}]
  /\ images \in [Probe -> 0 .. Images]
  /\ fails \in [Probe -> Nat] /\ flash \subseteq Probe
Flags ==
  /\ pending \in BOOLEAN /\ leaving \in BOOLEAN /\ dismissed \in BOOLEAN
  /\ overtaken \in BOOLEAN /\ interrupted \in BOOLEAN
MaskedBox ==
  LET o == ui.list[Wait]
  IN o # NoObject => Locked(ui, o) /\ (o \in ui.timer => ui.config[o] = "success")

HomeInv == Calls /\ Flags /\ Screen(ui) /\ MaskedBox /\ WaitsVisibly

LEMMA HomeInvTypes == HomeInv => HomeTypeOK
<1> SUFFICES ASSUME HomeInv PROVE HomeTypeOK
  OBVIOUS
<1>1. Screen(ui) /\ ui \in Window
  BY DEF HomeInv, Screen
<1>2. /\ ui.list \in [DialogId -> Object \cup {NoObject}] /\ ui.pool \in Object \cup {NoObject}
      /\ ui.shows \in [Object -> Texts] /\ ui.config \in [Object -> Texts]
  BY <1>1, WindowFields DEF ObjectOrNone
<1>3. ListIsScreen
  <2>1. Range(ui.stack) \ {Mask(o) : o \in Object} = OpenObjects(ui)
    <3>1. \A y : y \in Range(ui.stack) <=> Contains(ui.stack, y)
      BY <1>1, WindowStack DEF Range, Contains
    <3>2. \A y \in Range(ui.stack) : y \in Layer
      BY <1>1, WindowStack DEF Range
    <3>3. \A o \in Object : Contains(ui.stack, o) <=> o \in OpenObjects(ui)
      BY <1>1 DEF Screen, Stacked
    <3> QED
      BY <1>1, <3>1, <3>2, <3>3, Masks, Openings DEF Layer
  <2>2. ui.full = {o \in OpenObjects(ui) : ui.shows[o] = "frame"}
    BY <1>1, Openings, WindowFields DEF Screen, Framed
  <2>3. ui.full \subseteq Range(ui.data)
    BY <1>1, WindowFields, HomeAssumption DEF HomeAssumption, Screen, Framed, Range
  <2>4. \A o \in Object : Locked(ui, o) => o \in OpenObjects(ui)
    BY <1>1 DEF Screen, Stacked
  <2> QED
    BY <1>1, <2>1, <2>2, <2>3, <2>4 DEF ListIsScreen, Screen, Listed, Stacked, Framed
<1> QED
  BY <1>2, <1>3 DEF HomeInv, Calls, Flags, HomeTypeOK

LEMMA Ids == Wait \in DialogId /\ Func \in DialogId /\ Wait # Func /\ Wait \notin Notes
BY HomeAssumption DEF HomeAssumption, Wait, Func, Notes

\* The box stays as it is, and nothing is hidden that may not be.
LEMMA KeptVisible ==
  ASSUME WaitsVisibly, MaskedBox, Keeps(ui', ui, Wait),
         \A p \in Probe : Waits(p)' => Waits(p),
         dismissed => dismissed', overtaken => overtaken',
         ~interrupted' => ui'.hidden \subseteq {ui'.drag}
  PROVE  MaskedBox' /\ WaitsVisibly'
<1> DEFINE o == ui.list[Wait]
           u == ui
<1>1. /\ ui'.list[Wait] = o
      /\ o # NoObject => /\ Locked(u, o) => Locked(ui', o)
                         /\ ui'.config[o] = ui.config[o]
                         /\ o \in ui'.timer => o \in ui.timer
  BY DEF Keeps
<1>2. MaskedBox'
  BY <1>1 DEF MaskedBox
<1>3. WaitsVisibly'
  BY <1>1 DEF WaitsVisibly
<1> QED
  BY <1>2, <1>3

\* ... which may not be if it was not: what the user sees stays.
LEMMA StaysVisible ==
  ASSUME WaitsVisibly, MaskedBox, Keeps(ui', ui, Wait),
         \A p \in Probe : Waits(p)' => Waits(p),
         dismissed => dismissed', overtaken => overtaken',
         ui'.hidden \subseteq ui.hidden, ui'.drag = ui.drag, interrupted' = interrupted
  PROVE  MaskedBox' /\ WaitsVisibly'
<1>1. ~interrupted' => ui'.hidden \subseteq {ui'.drag}
  BY DEF WaitsVisibly
<1> QED
  BY <1>1, KeptVisible

\* A box is opened anew, in the place of one that is there or not.
LEMMA BoxOpened ==
  ASSUME WaitsVisibly, ui'.list[Wait] # NoObject, Locked(ui, ui.list[Wait])',
         (ui.list[Wait] \in ui.timer => ui.config[ui.list[Wait]] = "success")',
         (\E p \in Probe : Waits(p))' /\ ~dismissed' /\ ~overtaken'
           => ui'.config[ui'.list[Wait]] = "wait",
         ui'.hidden \subseteq ui.hidden, ui'.drag = ui.drag, interrupted' = interrupted
  PROVE  MaskedBox' /\ WaitsVisibly'
BY DEF MaskedBox, WaitsVisibly

\* A dialog is opened that is not the box, or closed.
LEMMA BesideBox ==
  ASSUME WaitsVisibly, MaskedBox, NEW i \in DialogId, i # Wait, Beside(ui', ui, i),
         UNCHANGED <<interval, boxMarks, interrupted>>
  PROVE  MaskedBox' /\ WaitsVisibly'
<1>1. Keeps(ui', ui, Wait) /\ ui'.hidden \subseteq ui.hidden /\ ui'.drag = ui.drag
  BY Ids DEF Beside
<1> QED
  BY <1>1, StaysVisible DEF Waits, boxMarks

\* The page can be clicked only when there is no box, which would have its mask over it.
LEMMA AskRestartStep == ASSUME HomeInv, AskRestart PROVE HomeInv'
<1>1. Screen(ui) /\ HasRoom(ui) /\ "confirm" \in Texts /\ "confirm" # "frame"
  BY DEF HomeInv, AskRestart, Texts
<1>2. ui.list[Wait] = NoObject
  <2>1. ui.list[Wait] # NoObject => ui.list[Wait] \in OpenObjects(ui) /\ Locked(ui, ui.list[Wait])
    BY Ids DEF HomeInv, MaskedBox, OpenObjects
  <2> QED
    BY <2>1 DEF AskRestart, PageReachable
<1>3. ui' = Opened(ui, Wait, "confirm")
  BY DEF AskRestart
<1>4. /\ Screen(ui') /\ ui'.list[Wait] # NoObject /\ Beside(ui', ui, Wait)
      /\ Locked(ui', ui'.list[Wait]) /\ Shown(ui', ui, Wait, "confirm")
  BY <1>1, <1>3, Ids, OpenedScreen DEF OpenObjects
<1>5. ui'.list[Wait] \notin ui'.timer
  BY <1>2, <1>4 DEF Shown
<1>6. ~((\E p \in Probe : Waits(p))' /\ ~dismissed' /\ ~overtaken')
  BY <1>2 DEF HomeInv, AskRestart, WaitsVisibly, Waits, probes, boxMarks
<1>7. MaskedBox' /\ WaitsVisibly'
  <2>1. UNCHANGED interrupted /\ WaitsVisibly
    BY DEF HomeInv, AskRestart
  <2> QED
    BY <1>4, <1>5, <1>6, <2>1, BoxOpened DEF Beside
<1> QED
  BY <1>4, <1>7 DEF HomeInv, AskRestart, probes, boxMarks, Calls, Flags

\* A call of autoLink begins.
LEMMA NewCall ==
  ASSUME Calls, HasProbe, interval' = [interval EXCEPT ![NewProbe] = "delayed"],
         UNCHANGED <<images, fails>>, flash' = flash \/ flash' = flash \cup {NewProbe}
  PROVE  Calls'
<1>1. NewProbe \in Probe
  BY DEF HasProbe, NewProbe
<1> QED
  BY <1>1 DEF Calls

LEMMA ConfirmedStep == ASSUME HomeInv, Confirmed PROVE HomeInv'
<1> DEFINE o == ui.list[Wait]
           v == close(ui, o)
<1>1. o # NoObject /\ pending' = TRUE /\ DoRestart(v, NewProbe)
  BY DEF Confirmed
<1>2. Screen(v) /\ HasRoom(v) /\ Beside(v, ui, Wait) /\ v.list[Wait] = NoObject
  BY <1>1, Ids, CloseScreen DEF HomeInv
<1> HIDE DEF v
<1>3. ui' = Opened(v, Wait, "wait") /\ "wait" \in Texts /\ "wait" # "frame"
  BY <1>1 DEF DoRestart, Texts
<1>4. /\ Screen(ui') /\ ui'.list[Wait] # NoObject /\ Beside(ui', v, Wait)
      /\ Locked(ui', ui'.list[Wait]) /\ Shown(ui', v, Wait, "wait")
  BY <1>2, <1>3, Ids, OpenedScreen DEF OpenObjects
<1>5. MaskedBox' /\ WaitsVisibly'
  <2>1. UNCHANGED interrupted /\ WaitsVisibly
    BY <1>1 DEF HomeInv, DoRestart
  <2>2. ui'.config[ui'.list[Wait]] = "wait" /\ ui'.list[Wait] \notin ui'.timer
    BY <1>2, <1>4 DEF Shown
  <2> QED
    BY <1>2, <1>4, <2>1, <2>2, BoxOpened DEF Beside
<1>6. Calls'
  BY <1>1, NewCall DEF HomeInv, DoRestart
<1>7. Flags'
  BY <1>1 DEF HomeInv, Flags, DoRestart
<1> QED
  BY <1>4, <1>5, <1>6, <1>7 DEF HomeInv

LEMMA RefusedStep == ASSUME HomeInv, Refused PROVE HomeInv'
<1>1. PICK i \in Notes : ui.list[i] = NoObject /\ ui' = TimedOpened(ui, i, "note")
  BY DEF Refused
<1>2. Screen(ui) /\ HasRoom(ui) /\ i \in DialogId /\ i # Wait /\ "note" \in Texts /\ "note" # "frame"
  BY Ids DEF HomeInv, Refused, Notes, Texts
<1>3. Screen(ui') /\ Beside(ui', ui, i)
  BY <1>1, <1>2, TimedOpenedScreen
<1>4. MaskedBox' /\ WaitsVisibly'
  BY <1>2, <1>3, BesideBox DEF HomeInv, Refused, probes
<1> QED
  BY <1>3, <1>4 DEF HomeInv, Refused, probes, boxMarks, Calls, Flags

LEMMA CancelledStep ==
  ASSUME HomeInv, NEW o \in OpenObjects(ui), Cancelled(o) PROVE HomeInv'
<1>1. PICK i \in DialogId : ui.list[i] = o /\ o # NoObject
  BY DEF OpenObjects
<1>2. ui' = close(ui, ui.list[i]) /\ dismissed' = (dismissed \/ ui.list[Wait] = o)
  BY <1>1 DEF Cancelled
<1>3. Screen(ui') /\ Beside(ui', ui, i) /\ ui'.list[i] = NoObject
  BY <1>1, <1>2, CloseScreen DEF HomeInv
<1>4. UNCHANGED <<interval, overtaken, interrupted>> /\ WaitsVisibly /\ MaskedBox
  BY DEF HomeInv, Cancelled, probes
<1>5. MaskedBox' /\ WaitsVisibly'
  <2>1. CASE i = Wait
    <3>1. dismissed' /\ ui'.list[Wait] = NoObject
      BY <1>1, <1>2, <1>3, <2>1
    <3> QED
      BY <1>3, <1>4, <3>1 DEF Beside, MaskedBox, WaitsVisibly
  <2>2. CASE i # Wait
    <3>1. Keeps(ui', ui, Wait) /\ (dismissed => dismissed')
      BY <1>2, <1>3, <2>2, Ids DEF Beside
    <3> QED
      BY <1>3, <1>4, <3>1, StaysVisible DEF Beside, Waits
  <2> QED
    BY <2>1, <2>2
<1> QED
  BY <1>2, <1>3, <1>5 DEF HomeInv, Cancelled, probes, Calls, Flags

\* A timer closes a dialog; the box only when it tells of a success.
LEMMA TimeOverStep == ASSUME HomeInv, NEW o \in Object, TimeOver(o) PROVE HomeInv'
<1>1. o \in OpenObjects(ui) /\ o \in ui.timer
  BY DEF HomeInv, TimeOver, Screen, Framed
<1>2. PICK i \in DialogId : ui.list[i] = o /\ o # NoObject
  BY <1>1 DEF OpenObjects
<1>3. Screen(ui') /\ Beside(ui', ui, i) /\ ui'.list[i] = NoObject
  BY <1>2, CloseScreen DEF HomeInv, TimeOver
<1>4. UNCHANGED <<interval, boxMarks, interrupted>> /\ WaitsVisibly /\ MaskedBox
  BY DEF HomeInv, TimeOver, probes
<1>5. MaskedBox' /\ WaitsVisibly'
  <2>1. CASE i = Wait
    <3>1. ui.config[ui.list[Wait]] = "success" /\ ui'.list[Wait] = NoObject
      BY <1>1, <1>2, <1>3, <1>4, <2>1 DEF MaskedBox
    <3>2. ~((\E p \in Probe : Waits(p)) /\ ~dismissed /\ ~overtaken)
      BY <1>4, <3>1 DEF WaitsVisibly
    <3> QED
      BY <1>3, <1>4, <3>1, <3>2 DEF Beside, MaskedBox, WaitsVisibly, Waits, boxMarks
  <2>2. CASE i # Wait
    BY <1>3, <1>4, <2>2, BesideBox
  <2> QED
    BY <2>1, <2>2
<1> QED
  BY <1>3, <1>5 DEF HomeInv, TimeOver, probes, boxMarks, Calls, Flags

LEMMA OpenWindowStep == ASSUME HomeInv, OpenWindow PROVE HomeInv'
<1> DEFINE w == ClosedById(ui, Func)
           v == openPage(w, Func)
<1>1. Screen(w) /\ w.list[Func] = NoObject /\ Beside(w, ui, Func) /\ HasRoom(w)
  BY Ids, ClosedByIdScreen DEF HomeInv, OpenWindow
<1> HIDE DEF w
<1>2. Screen(v) /\ v.list[Func] \in OpenObjects(v) /\ Beside(v, w, Func)
  BY <1>1, OpenPageScreen
<1>3. ui' = lock(v, v.list[Func])
  BY DEF OpenWindow, w
<1> HIDE DEF v
<1>4. Screen(ui') /\ Raised(ui', v) /\ Masked(ui', v)
  BY <1>2, <1>3, LockScreen
<1>5. Beside(ui', ui, Func)
  <2>1. Beside(ui', v, Func)
    BY <1>2, <1>4, RaisedKeeps DEF Raised, Beside, Screen
  <2> QED
    BY <1>1, <1>2, <2>1, BesideOn
<1>6. MaskedBox' /\ WaitsVisibly'
  BY <1>5, Ids, BesideBox DEF HomeInv, OpenWindow, probes
<1> QED
  BY <1>4, <1>6 DEF HomeInv, OpenWindow, probes, boxMarks, Calls, Flags

\* The steps that leave the box, the calls and the flags.
LEMMA SameBoxStep ==
  ASSUME HomeInv, Screen(ui'), Keeps(ui', ui, Wait), ui'.hidden = ui.hidden, ui'.drag = ui.drag,
         UNCHANGED <<probes, pending, leaving, boxMarks, interrupted>>
  PROVE  HomeInv'
<1>1. MaskedBox' /\ WaitsVisibly'
  BY StaysVisible DEF HomeInv, probes, Waits, boxMarks
<1> QED
  BY <1>1 DEF HomeInv, probes, boxMarks, Calls, Flags

LEMMA FrameLoadedStep == ASSUME HomeInv, FrameLoaded PROVE HomeInv'
BY Ids, LoadScreen, SameBoxStep DEF FrameLoaded, HomeInv

LEMMA FrameClickedStep == ASSUME HomeInv, FrameClicked PROVE HomeInv'
<1>1. Screen(ui) /\ ui.data[Func] \in OpenObjects(ui) /\ ui' = zIndex(ui, ui.data[Func])
  BY FrameOfWindow DEF HomeInv, FrameClicked
<1>2. Screen(ui') /\ Raised(ui', ui) /\ Masked(ui', ui)
  BY <1>1, ZIndexScreen
<1>3. Keeps(ui', ui, Wait)
  BY <1>1, <1>2, Ids, RaisedKeeps DEF Screen
<1> QED
  BY <1>2, <1>3, SameBoxStep DEF FrameClicked, Raised

\* The part of the window that is dragged is hidden, and no other.
LEMMA DragStartStep == ASSUME HomeInv, DragStart PROVE HomeInv'
<1> DEFINE o == ui.data[Func]
           w == zIndex(ui, o)
           h == w.hidden \cup (w.full \cap {o})
<1>1. Screen(ui) /\ o \in OpenObjects(ui) /\ ui.drag = NoObject /\ ui' = start(w, o)
  BY FrameOfWindow DEF HomeInv, DragStart
<1> HIDE DEF o
<1>2. /\ Screen(w) /\ Raised(w, ui) /\ w \in Window /\ o \in ObjectOrNone
      /\ Keeps(w, ui, Wait)
  BY <1>1, Ids, ZIndexScreen, RaisedKeeps, Openings DEF Screen, ObjectOrNone
<1> HIDE DEF w
<1>3. h \in SUBSET Object
  BY <1>2, WindowFields
<1>4. ui' = Dragged(w, o, h)
  BY <1>1 DEF start, Dragged
<1> HIDE DEF h
<1>5. Screen(ui') /\ Keeps(ui', ui, Wait) /\ ui'.drag = o /\ ui'.hidden = h
  BY <1>2, <1>3, <1>4, Ids, DragScreen, KeepsOn
<1>6. UNCHANGED <<interval, images, fails, flash, pending, leaving, dismissed, overtaken, interrupted>>
  BY DEF DragStart, probes, boxMarks
<1>7. ~interrupted => h \subseteq {o}
  <2>1. ~interrupted => ui.hidden \subseteq {NoObject} /\ NoObject \notin ui.hidden
    BY <1>1, WindowFields, Masks DEF HomeInv, WaitsVisibly, Screen
  <2> QED
    BY <1>2, <2>1 DEF h, Raised
<1>8. MaskedBox' /\ WaitsVisibly'
  BY <1>5, <1>6, <1>7, KeptVisible DEF HomeInv, Waits
<1> QED
  BY <1>5, <1>6, <1>8 DEF HomeInv, Calls, Flags

\* At the end of a drag the part of the dialog that has the focus is shown.
LEMMA DragEndStep == ASSUME HomeInv, DragEnd PROVE HomeInv'
<1> DEFINE h == ui.hidden \ {ui.focus}
<1>1. Screen(ui) /\ NoObject \in ObjectOrNone /\ h \in SUBSET Object
  BY WindowFields DEF HomeInv, Screen, ObjectOrNone
<1>2. ui' = Dragged(ui, NoObject, h)
  BY DEF DragEnd, end, Dragged
<1> HIDE DEF h
<1>3. Screen(ui') /\ Keeps(ui', ui, Wait) /\ ui'.drag = NoObject /\ ui'.hidden = h
  BY <1>1, <1>2, Ids, DragScreen
<1>4. /\ UNCHANGED <<interval, images, fails, flash, pending, leaving, dismissed, overtaken>>
      /\ interrupted' = ((interrupted \/ ui.focus # ui.drag) /\ h # {})
  BY <1>3 DEF DragEnd, probes, boxMarks
<1>5. ~interrupted' => h = {}
  BY <1>4 DEF h, HomeInv, WaitsVisibly
<1>6. MaskedBox' /\ WaitsVisibly'
  BY <1>3, <1>4, <1>5, KeptVisible DEF HomeInv, Waits
<1>7. Flags'
  BY <1>4 DEF HomeInv, Flags
<1> QED
  BY <1>3, <1>4, <1>6, <1>7 DEF HomeInv, Calls

LEMMA FrameDoneStep == ASSUME HomeInv, FrameDone PROVE HomeInv'
<1>1. PICK i \in Notes : /\ ui.list[i] = NoObject
                         /\ ui' = ClosedById(TimedOpened(ui, i, "note"), Func)
  BY DEF FrameDone
<1> DEFINE v == TimedOpened(ui, i, "note")
<1>2. Screen(ui) /\ HasRoom(ui) /\ i \in DialogId /\ i # Wait /\ "note" \in Texts /\ "note" # "frame"
  BY Ids DEF HomeInv, FrameDone, Notes, Texts
<1>3. Screen(v) /\ Beside(v, ui, i)
  BY <1>2, TimedOpenedScreen
<1> HIDE DEF v
<1>4. Screen(ui') /\ Beside(ui', v, Func)
  BY <1>1, <1>3, Ids, ClosedByIdScreen DEF v
<1>5. Keeps(ui', ui, Wait) /\ ui'.hidden \subseteq ui.hidden /\ ui'.drag = ui.drag
  BY <1>2, <1>3, <1>4, Ids, KeepsOn DEF Beside
<1>6. MaskedBox' /\ WaitsVisibly'
  BY <1>5, StaysVisible DEF HomeInv, FrameDone, probes, Waits, boxMarks
<1> QED
  BY <1>4, <1>6 DEF HomeInv, FrameDone, probes, boxMarks, Calls, Flags

LEMMA FrameRestartsStep == ASSUME HomeInv, FrameRestarts PROVE HomeInv'
<1> DEFINE v == Opened(ui, Wait, "wait")
<1>1. Screen(ui) /\ (ui.list[Wait] # NoObject \/ HasRoom(ui)) /\ "wait" \in Texts /\ "wait" # "frame"
  BY DEF HomeInv, FrameRestarts, Texts
<1>2. /\ Screen(v) /\ v.list[Wait] # NoObject /\ Beside(v, ui, Wait)
      /\ Locked(v, v.list[Wait]) /\ Shown(v, ui, Wait, "wait")
  BY <1>1, Ids, OpenedScreen DEF OpenObjects
<1>3. ui' = ClosedById(v, Func)
  BY DEF FrameRestarts
<1> HIDE DEF v
<1>4. Screen(ui') /\ Beside(ui', v, Func)
  BY <1>2, <1>3, Ids, ClosedByIdScreen
<1>5. Keeps(ui', v, Wait) /\ ui'.hidden \subseteq ui.hidden /\ ui'.drag = ui.drag
  BY <1>2, <1>4, Ids DEF Beside
<1>6. MaskedBox' /\ WaitsVisibly'
  <2>1. /\ UNCHANGED interrupted /\ WaitsVisibly /\ MaskedBox
        /\ overtaken' = (ui.list[Wait] # NoObject /\ ui.config[ui.list[Wait]] # "wait")
    BY DEF HomeInv, FrameRestarts
  <2>2. ui'.list[Wait] # NoObject /\ Locked(ui', ui'.list[Wait])
    BY <1>2, <1>5 DEF Keeps
  <2>3. ui'.list[Wait] \in ui'.timer => ui'.config[ui'.list[Wait]] = "success"
    <3>1. CASE ui.list[Wait] # NoObject
      <4>1. Keeps(ui', ui, Wait)
        BY <1>2, <1>5, <3>1, KeepsOn DEF Shown
      <4> QED
        BY <2>1, <3>1, <4>1 DEF Keeps, MaskedBox
    <3>2. CASE ui.list[Wait] = NoObject
      BY <1>2, <1>5, <3>2 DEF Keeps, Shown
    <3> QED
      BY <3>1, <3>2
  <2>4. ~overtaken' => ui'.config[ui'.list[Wait]] = "wait"
    BY <1>2, <1>5, <2>1 DEF Keeps, Shown
  <2> QED
    BY <1>5, <2>1, <2>2, <2>3, <2>4, BoxOpened
<1>7. Calls'
  BY NewCall DEF HomeInv, FrameRestarts
<1>8. Flags'
  BY DEF HomeInv, Flags, FrameRestarts
<1> QED
  BY <1>4, <1>6, <1>7, <1>8 DEF HomeInv

\* A call of autoLink goes on, and one of its images ends.
LEMMA LeavesCalls ==
  ASSUME Calls, NEW p \in Probe, Ended(p), NEW i \in {"none", "delayed", "running", "cleared"},
         NEW f \in Nat, Leaves(p, i, f)
  PROVE  /\ Calls' /\ interval'[p] \in {"none", i}
         /\ \A q \in Probe : q # p => interval'[q] = interval[q]
<1>1. PICK j \in {"none", i} : interval' = [interval EXCEPT ![p] = j]
  BY DEF Leaves
<1>2. PICK g \in Nat : fails' = [fails EXCEPT ![p] = g]
  BY DEF Leaves
<1>3. flash' \subseteq Probe
  BY DEF Leaves, Calls
<1>4. images' \in [Probe -> 0 .. Images]
  <2>1. images[p] - 1 \in 0 .. Images
    BY HomeAssumption DEF HomeAssumption, Ended, Calls
  <2> QED
    BY <2>1 DEF Ended, Calls
<1>5. interval' \in [Probe -> {"none", "delayed", "running", "cleared"}]
  BY <1>1 DEF Calls
<1>6. fails' \in [Probe -> Nat]
  BY <1>2 DEF Calls
<1>7. interval'[p] = j /\ \A q \in Probe : q # p => interval'[q] = interval[q]
  BY <1>1 DEF Calls
<1> QED
  BY <1>3, <1>4, <1>5, <1>6, <1>7 DEF Calls

LEMMA AutoLinkStep == ASSUME HomeInv, NEW p \in Probe, autoLink(p) PROVE HomeInv'
<1>1. interval' = [interval EXCEPT ![p] = "running"] /\ interval[p] = "delayed"
  BY DEF autoLink
<1>2. Calls'
  BY <1>1 DEF HomeInv, autoLink, Calls
<1>3. MaskedBox' /\ WaitsVisibly'
  BY <1>1 DEF HomeInv, autoLink, MaskedBox, WaitsVisibly, Waits, boxMarks, Calls
<1> QED
  BY <1>2, <1>3 DEF HomeInv, autoLink, boxMarks, Flags

LEMMA AskStep == ASSUME HomeInv, NEW p \in Probe, Ask(p) PROVE HomeInv'
<1>1. Calls'
  <2>1. images[p] + 1 \in 0 .. Images
    BY HomeAssumption DEF HomeAssumption, HomeInv, Ask, Calls
  <2> QED
    BY <2>1 DEF HomeInv, Ask, Calls
<1>2. MaskedBox' /\ WaitsVisibly'
  BY DEF HomeInv, Ask, MaskedBox, WaitsVisibly, Waits, boxMarks
<1> QED
  BY <1>1, <1>2 DEF HomeInv, Ask, boxMarks, Flags

\* What a call displays in the end may be the box that another waits with.
LEMMA OutcomeOvertakes ==
  ASSUME Calls, Flags, NEW p \in Probe, Ended(p), Leaves(p, "cleared", fails[p]), Overtakes(p)
  PROVE  Calls' /\ ((\E q \in Probe : Waits(q)) => overtaken)' /\ overtaken' \in BOOLEAN
<1>1. fails[p] \in Nat
  BY DEF Calls
<1>2. /\ Calls' /\ interval'[p] \in {"none", "cleared"}
      /\ \A q \in Probe : q # p => interval'[q] = interval[q]
  BY <1>1, LeavesCalls
<1>3. ASSUME NEW q \in Probe, Waits(q)' PROVE q # p /\ Waits(q)
  BY <1>2, <1>3 DEF Waits
<1>4. \A q \in Probe : Waits(q)' => overtaken'
  BY <1>3 DEF Overtakes
<1>5. overtaken' \in BOOLEAN
  BY DEF Overtakes, Flags
<1> QED
  BY <1>2, <1>4, <1>5

LEMMA ImageLoadedStep == ASSUME HomeInv, NEW p \in Probe, ImageLoaded(p) PROVE HomeInv'
<1> DEFINE v == ClosedById(ui, Wait)
<1>1. Screen(v) /\ Beside(v, ui, Wait) /\ HasRoom(v) /\ v.list[Wait] = NoObject
  BY Ids, ClosedByIdScreen DEF HomeInv, ImageLoaded
<1>2. ui' = TimedOpened(v, Wait, "success") /\ "success" \in Texts /\ "success" # "frame"
  BY DEF ImageLoaded, Texts
<1> HIDE DEF v
<1>3. /\ Screen(ui') /\ ui'.list[Wait] # NoObject /\ Beside(ui', v, Wait)
      /\ Locked(ui', ui'.list[Wait]) /\ ui'.config[ui'.list[Wait]] = "success"
  BY <1>1, <1>2, Ids, TimedOpenedScreen
<1>4. Calls' /\ ((\E q \in Probe : Waits(q)) => overtaken)' /\ overtaken' \in BOOLEAN
  BY OutcomeOvertakes DEF HomeInv, ImageLoaded
<1>5. MaskedBox' /\ WaitsVisibly'
  <2>1. UNCHANGED interrupted /\ WaitsVisibly
    BY DEF HomeInv, ImageLoaded
  <2> QED
    BY <1>1, <1>3, <1>4, <2>1, BoxOpened DEF Beside
<1>6. Flags'
  BY <1>4 DEF HomeInv, ImageLoaded, Flags
<1> QED
  BY <1>3, <1>4, <1>5, <1>6 DEF HomeInv

LEMMA ImageFailedStep == ASSUME HomeInv, NEW p \in Probe, ImageFailed(p) PROVE HomeInv'
<1> DEFINE text == IF interval[p] = "cleared" THEN "late" ELSE "wait"
<1>1. Screen(ui') /\ Keeps(ui', ui, Wait) /\ ui'.hidden = ui.hidden /\ ui'.drag = ui.drag
  <2>1. CASE ui.list[Wait] = NoObject
    BY <2>1 DEF HomeInv, ImageFailed, Keeps
  <2>2. CASE ui.list[Wait] # NoObject
    <3>1. ui' = content(ui, ui.list[Wait], text)
      BY <2>2 DEF ImageFailed
    <3>2. text \in Texts /\ text # "frame"
      BY DEF Texts
    <3> HIDE DEF text
    <3> QED
      BY <2>2, <3>1, <3>2, Ids, ContentScreen DEF HomeInv
  <2> QED
    BY <2>1, <2>2
<1>2. /\ Calls' /\ interval'[p] \in {"none", interval[p]}
      /\ \A q \in Probe : q # p => interval'[q] = interval[q]
  <2>1. interval[p] \in {"none", "delayed", "running", "cleared"} /\ fails[p] + 1 \in Nat
    BY DEF HomeInv, Calls
  <2> QED
    BY <2>1, LeavesCalls DEF HomeInv, ImageFailed
<1>3. UNCHANGED <<pending, leaving, dismissed, overtaken, interrupted>>
  BY DEF ImageFailed, boxMarks
<1>4. MaskedBox' /\ WaitsVisibly'
  <2>1. \A q \in Probe : Waits(q)' => Waits(q)
    BY <1>2 DEF Waits
  <2> QED
    BY <1>1, <1>3, <2>1, StaysVisible DEF HomeInv
<1> QED
  BY <1>1, <1>2, <1>3, <1>4 DEF HomeInv, Flags

LEMMA GivesUpStep == ASSUME HomeInv, NEW p \in Probe, GivesUp(p) PROVE HomeInv'
<1> DEFINE v == ClosedById(ui, Wait)
<1>1. Screen(v) /\ Beside(v, ui, Wait) /\ HasRoom(v) /\ v.list[Wait] = NoObject
  BY Ids, ClosedByIdScreen DEF HomeInv, GivesUp
<1>2. ui' = Opened(v, Wait, "failed") /\ "failed" \in Texts /\ "failed" # "frame"
  BY DEF GivesUp, Texts
<1> HIDE DEF v
<1>3. /\ Screen(ui') /\ ui'.list[Wait] # NoObject /\ Beside(ui', v, Wait)
      /\ Locked(ui', ui'.list[Wait]) /\ ui'.list[Wait] \notin ui'.timer
  BY <1>1, <1>2, Ids, OpenedScreen DEF OpenObjects, Shown
<1>4. Calls' /\ ((\E q \in Probe : Waits(q)) => overtaken)' /\ overtaken' \in BOOLEAN
  BY OutcomeOvertakes DEF HomeInv, GivesUp
<1>5. MaskedBox' /\ WaitsVisibly'
  <2>1. UNCHANGED interrupted /\ WaitsVisibly
    BY DEF HomeInv, GivesUp
  <2> QED
    BY <1>1, <1>3, <1>4, <2>1, BoxOpened DEF Beside
<1> QED
  BY <1>3, <1>4, <1>5 DEF HomeInv, GivesUp, Flags

LEMMA ConnectByHandStep == ASSUME HomeInv, ConnectByHand PROVE HomeInv'
<1>1. ui.list[Wait] # NoObject /\ ui' = close(ui, ui.list[Wait])
  BY DEF ConnectByHand
<1>2. Screen(ui') /\ Beside(ui', ui, Wait) /\ ui'.list[Wait] = NoObject
  BY <1>1, Ids, CloseScreen DEF HomeInv
<1>3. MaskedBox' /\ WaitsVisibly'
  BY <1>2 DEF HomeInv, ConnectByHand, MaskedBox, WaitsVisibly, Beside
<1> QED
  BY <1>2, <1>3 DEF HomeInv, ConnectByHand, probes, Calls, Flags

\* The page is loaded, for the first time or anew.
LEMMA FreshPage ==
  ASSUME ui' = NoDialogs, interval' = [p \in Probe |-> "none"], images' = [p \in Probe |-> 0],
         fails' = [p \in Probe |-> 0], flash' = {}, pending' = FALSE, leaving' = FALSE,
         dismissed' = FALSE, overtaken' = FALSE, interrupted' = FALSE
  PROVE  HomeInv'
<1>1. Calls'
  BY HomeAssumption DEF HomeAssumption, Calls
<1>2. MaskedBox' /\ WaitsVisibly'
  BY Ids DEF MaskedBox, WaitsVisibly, Waits, NoDialogs
<1> QED
  BY <1>1, <1>2, NoDialogsScreen DEF HomeInv, Flags

LEMMA HomeInitInv == HomeInit => HomeInv
<1> SUFFICES ASSUME HomeInit PROVE HomeInv
  OBVIOUS
<1>1. Calls
  BY HomeAssumption DEF HomeAssumption, HomeInit, Calls
<1>2. MaskedBox /\ WaitsVisibly
  BY Ids DEF HomeInit, MaskedBox, WaitsVisibly, Waits, NoDialogs
<1> QED
  BY <1>1, <1>2, NoDialogsScreen DEF HomeInit, HomeInv, Flags

LEMMA HomeInvStep == HomeInv /\ [HomeNext]_homeVars => HomeInv'
<1> SUFFICES ASSUME HomeInv, [HomeNext]_homeVars PROVE HomeInv'
  OBVIOUS
<1>1. ASSUME Accepted PROVE HomeInv'
  BY <1>1 DEF HomeInv, Accepted, probes, boxMarks, Flags, Calls, MaskedBox, WaitsVisibly, Waits
<1>2. ASSUME Leave PROVE HomeInv'
  BY <1>2, FreshPage DEF Leave
<1>3. ASSUME Escape PROVE HomeInv'
  <2>1. ui.focus \in OpenObjects(ui) /\ Cancelled(ui.focus)
    BY <1>3 DEF Escape, HomeInv, Screen, Stacked
  <2> QED
    BY <2>1, CancelledStep
<1>4. ASSUME NEW o \in Object, Click(o) PROVE HomeInv'
  BY <1>4, CancelledStep DEF Click
<1>5. CASE UNCHANGED homeVars
  BY <1>5 DEF homeVars, probes, boxMarks, HomeInv, Calls, Flags, MaskedBox, WaitsVisibly, Waits
<1> QED
  BY <1>1, <1>2, <1>3, <1>4, <1>5, TimeOverStep, AskRestartStep, ConfirmedStep, RefusedStep, OpenWindowStep,
     FrameLoadedStep, FrameClickedStep, DragStartStep, DragEndStep, FrameDoneStep,
     FrameRestartsStep, AutoLinkStep, AskStep, ImageLoadedStep, ImageFailedStep, GivesUpStep,
     ConnectByHandStep DEF HomeNext

\* For every number of dialogs, of objects and of calls of autoLink: while a restart is
\* waited for its own box is open, with its mask over the page, until the user closes it,
\* unless the outcome of an earlier restart, whose box the user had closed, takes the
\* place of the box; no timer closes it.  And what a drag has hidden is shown at its end,
\* if no other dialog had the focus then (home.htm:508-563, util.js:26-53,
\* iframeTools.source.js).
THEOREM WaitingIsVisible == HomeSpec => []WaitsVisibly
<1>1. HomeInv => WaitsVisibly
  BY DEF HomeInv
<1> QED
  BY <1>1, HomeInitInv, HomeInvStep, PTL DEF HomeSpec

-----------------------------------------------------------------------------
(* The pages together.                                                     *)

LiveInv == PollInv /\ HomeInv /\ RelayInv

\* The invariants with which the theorems above are proved are true of the pages as they
\* are checked, so each keeps the types that its source gives its variables
\* (traffic.js:233-333, home.htm:508-563, internet_relay.htm:308-441).
THEOREM LiveTypes == MCSpec => []LiveTypesOK
<1>1. MCInit => LiveInv
  BY InitPollInv, HomeInitInv, RelayInitInv DEF MCInit, LiveInv
<1>2. LiveInv /\ [MCNext]_<<part, pollVars, homeVars, relayVars>> => LiveInv'
  <2> SUFFICES ASSUME LiveInv, [MCNext]_<<part, pollVars, homeVars, relayVars>> PROVE LiveInv'
    OBVIOUS
  <2>1. [PollNext]_pollVars /\ [HomeNext]_homeVars /\ [RelayNext]_relayVars
    BY DEF MCNext
  <2> QED
    BY <2>1, PollInvStep, HomeInvStep, RelayInvStep DEF LiveInv
<1>3. LiveInv => LiveTypesOK
  BY HomeInvTypes, RelayInvTypes DEF LiveInv, PollInv, LiveTypesOK
<1> QED
  BY <1>1, <1>2, <1>3, PTL DEF MCSpec
=============================================================================
