--------------------------- MODULE WebPagesProofs ---------------------------
(***************************************************************************)
(* Proofs about the pages of MCWebPages, for every value of the constants. *)
(***************************************************************************)
EXTENDS MCWebPages, Counting

-----------------------------------------------------------------------------
(* Numbers and sequences.                                                  *)

\* A set of numbers up to n has a last one: the numbers after it are fewest.
LEMMA MaxExists ==
  ASSUME NEW n \in Nat, NEW K, K \subseteq 1 .. n, K # {}
  PROVE  \E k \in K : \A j \in K : j <= k
<1>1. K \subseteq 0 .. n
  OBVIOUS
<1> QED
  BY <1>1, LastExists

\* The elements of a sequence that is extended or cut off at either end.
LEMMA CutAndAppend ==
  ASSUME NEW S, NEW s \in Seq(S), NEW k \in 1 .. Len(s), NEW x \in S
  PROVE  LET t == Append(SubSeq(s, 1, k), x)
         IN t \in Seq(S) /\ Len(t) = k + 1 /\ t[k + 1] = x
<1>1. SubSeq(s, 1, k) \in Seq(S) /\ Len(SubSeq(s, 1, k)) = k
  OBVIOUS
<1> QED
  BY <1>1

LEMMA FrontElements ==
  ASSUME NEW S, NEW s \in Seq(S), s # <<>>
  PROVE  /\ Front(s) \in Seq(S) /\ Len(Front(s)) = Len(s) - 1 /\ Len(s) \in Nat \ {0}
         /\ \A k \in 1 .. Len(s) - 1 : Front(s)[k] = s[k]
         /\ Last(s) = s[Len(s)] /\ Last(s) \in S
<1>1. Len(s) \in Nat \ {0}
  OBVIOUS
<1>2. Front(s) = SubSeq(s, 1, Len(s) - 1)
  BY DEF Front
<1>3. /\ SubSeq(s, 1, Len(s) - 1) \in Seq(S) /\ Len(SubSeq(s, 1, Len(s) - 1)) = Len(s) - 1
      /\ \A k \in 1 .. Len(s) - 1 : SubSeq(s, 1, Len(s) - 1)[k] = s[k]
  <2>1. CASE Len(s) = 1
    BY <2>1
  <2>2. CASE Len(s) > 1
    BY <2>2
  <2> DEFINE l == Len(s)
  <2>3. l = 1 \/ l > 1
    <3>1. l \in Nat \ {0}
      BY <1>1
    <3> HIDE DEF l
    <3> QED
      BY <3>1
  <2> QED
    BY <2>1, <2>2, <2>3, Zenon
<1> QED
  BY <1>1, <1>2, <1>3 DEF Last

LEMMA PushElements ==
  ASSUME NEW S, NEW s \in Seq(S), NEW x \in S
  PROVE  /\ <<x>> \o s \in Seq(S) /\ Len(<<x>> \o s) = Len(s) + 1
         /\ (<<x>> \o s)[1] = x
         /\ \A k \in 2 .. Len(s) + 1 : (<<x>> \o s)[k] = s[k - 1]
OBVIOUS

LEMMA AppendElements ==
  ASSUME NEW S, NEW s \in Seq(S), NEW x \in S
  PROVE  /\ Append(s, x) \in Seq(S) /\ Len(Append(s, x)) = Len(s) + 1
         /\ \A k \in 1 .. Len(s) : Append(s, x)[k] = s[k]
         /\ Append(s, x)[Len(s) + 1] = x
OBVIOUS

LEMMA TailElements ==
  ASSUME NEW S, NEW s \in Seq(S), s # <<>>
  PROVE  /\ Tail(s) \in Seq(S) /\ Len(Tail(s)) = Len(s) - 1 /\ Head(s) \in S /\ Head(s) = s[1]
         /\ Len(s) \in Nat \ {0}
         /\ \A k \in 1 .. Len(s) - 1 : Tail(s)[k] = s[k + 1]
OBVIOUS

-----------------------------------------------------------------------------
(* The history of the traffic.                                             *)

\* The sum of a window, from its partial sums.
LEMMA SumsUp ==
  ASSUME NEW n \in Nat, NEW s \in [1 .. n -> Nat]
  PROVE  \E sum \in [0 .. n -> Nat] :
           /\ sum[0] = 0
           /\ \A k \in 1 .. n : sum[k] = sum[k - 1] + s[k]
           /\ SumOf(s) = sum[n]
<1> DEFINE Step(f, k) == IF k = 0 THEN 0 ELSE f[k - 1] + s[k]
           Sums(f, m) == f = [k \in 0 .. m |-> Step(f, k)]
           Can == {m \in 0 .. n : \E f : Sums(f, m)}
<1>1. 0 \in Can
  <2>1. Sums([k \in 0 .. 0 |-> 0], 0)
    OBVIOUS
  <2> HIDE DEF Sums
  <2> QED
    BY <2>1
<1>2. ASSUME NEW m \in 0 .. n, m \in Can, m < n PROVE m + 1 \in Can
  <2>1. PICK f : Sums(f, m)
    BY <1>2
  <2> DEFINE g == [k \in 0 .. (m + 1) |-> IF k = m + 1 THEN Step(f, k) ELSE f[k]]
  <2>2. ASSUME NEW k \in 0 .. (m + 1) PROVE g[k] = Step(g, k)
    <3>1. CASE k = 0
      BY <2>1, <3>1
    <3>2. CASE k \in 1 .. m
      <4>1. g[k] = f[k] /\ g[k - 1] = f[k - 1] /\ k \in 0 .. m
        BY <3>2
      <4>2. f[k] = Step(f, k)
        BY <2>1, <4>1
      <4> HIDE DEF g
      <4> QED
        BY <4>1, <4>2
    <3>3. CASE k = m + 1
      <4>1. g[k] = Step(f, k) /\ g[k - 1] = f[k - 1]
        BY <3>3
      <4> HIDE DEF g
      <4> QED
        BY <4>1
    <3> QED
      BY <3>1, <3>2, <3>3
  <2>3. Sums(g, m + 1)
    <3>1. g = [k \in 0 .. (m + 1) |-> g[k]]
      OBVIOUS
    <3> HIDE DEF g
    <3> QED
      BY <2>2, <3>1
  <2>4. m + 1 \in 0 .. n
    BY <1>2
  <2> HIDE DEF g, Sums
  <2> QED
    BY <2>3, <2>4
<1>3. \E f : Sums(f, n)
  <2> HIDE DEF Sums
  <2>1. 0 .. n \subseteq Can
    <3> HIDE DEF Can
    <3> QED
      BY <1>1, <1>2, UpTo
  <2> QED
    BY <2>1
<1> DEFINE F == CHOOSE f : Sums(f, n)
<1>4. Sums(F, n)
  <2> HIDE DEF Sums
  <2> QED
    BY <1>3
<1>5. SumOf(s) = F[n]
  <2>1. Len(s) = n
    OBVIOUS
  <2> QED
    BY <2>1 DEF SumOf
<1> HIDE DEF F
<1>6. F[0] = 0 /\ \A k \in 1 .. n : F[k] = F[k - 1] + s[k]
  BY <1>4
<1> DEFINE Good == {k \in 0 .. n : F[k] \in Nat}
<1>7. 0 .. n \subseteq Good
  <2>1. 0 \in Good
    BY <1>6
  <2>2. ASSUME NEW k \in 0 .. n, k \in Good, k < n PROVE k + 1 \in Good
    <3>1. F[k + 1] = F[k] + s[k + 1] /\ s[k + 1] \in Nat
      BY <1>6, <2>2
    <3> QED
      BY <2>2, <3>1
  <2> HIDE DEF Good
  <2> QED
    BY <2>1, <2>2, UpTo
<1>8. F \in [0 .. n -> Nat]
  <2>1. F = [k \in 0 .. n |-> F[k]]
    BY <1>4
  <2> QED
    BY <1>7, <2>1
<1> QED
  BY <1>5, <1>6, <1>8

\* What a number is short of a multiple of the modulus.
LEMMA Remainder ==
  ASSUME NEW m \in Nat \ {0}, NEW x \in Nat
  PROVE  x % m \in 0 .. m - 1 /\ \E d \in Nat : x = d * m + (x % m)
<1>1. x % m \in 0 .. m - 1
  OBVIOUS
<1>2. x \div m \in Nat /\ x = (x \div m) * m + (x % m)
  OBVIOUS
<1> QED
  BY <1>1, <1>2

\* A counter that was read in an epoch is what was transferred, from where the epoch began.
CountsFrom(first, x) == \E q \in Nat : first + x.at = q * Modulus + x.raw

\* Between two readings of an epoch, with less than a turn between them, the counter
\* wraps once at most, and Difference is short of one byte if it does.
LEMMA OneTurn ==
  ASSUME NEW first \in Nat, NEW x \in Reading, NEW y \in Reading,
         CountsFrom(first, x), CountsFrom(first, y), x.at <= y.at, y.at - x.at < Modulus
  PROVE  /\ Difference(y.raw, x.raw) \in Nat
         /\ Difference(y.raw, x.raw) + (IF y.raw < x.raw THEN 1 ELSE 0) = y.at - x.at
<1> USE HistoryAssumption DEF HistoryAssumption
<1>1. PICK p \in Nat : first + x.at = p * Modulus + x.raw
  BY DEF CountsFrom
<1>2. PICK q \in Nat : first + y.at = q * Modulus + y.raw
  BY DEF CountsFrom
<1>3. /\ x.raw \in Nat /\ y.raw \in Nat /\ x.at \in Nat /\ y.at \in Nat
      /\ x.raw < Modulus /\ y.raw < Modulus
  BY DEF Reading
<1>4. y.at - x.at = (q - p) * Modulus + y.raw - x.raw
  BY <1>1, <1>2, <1>3
<1>5. q - p >= 0
  <2> SUFFICES ASSUME q - p <= -1 PROVE FALSE
    OBVIOUS
  <2>1. (q - p) * Modulus <= -Modulus
    OBVIOUS
  <2> QED
    BY <1>3, <1>4, <2>1
<1>6. q - p <= 1
  <2> SUFFICES ASSUME q - p >= 2 PROVE FALSE
    OBVIOUS
  <2>1. (q - p) * Modulus >= Modulus + Modulus
    OBVIOUS
  <2> QED
    BY <1>3, <1>4, <2>1
<1>7. CASE q - p = 0
  <2>1. y.at - x.at = y.raw - x.raw
    BY <1>3, <1>4, <1>7
  <2> QED
    BY <1>3, <2>1 DEF Difference
<1>8. CASE q - p = 1
  <2>1. y.at - x.at = Modulus + y.raw - x.raw
    BY <1>3, <1>4, <1>8
  <2>2. y.raw < x.raw
    BY <1>3, <2>1
  <2> QED
    BY <1>3, <2>1, <2>2 DEF Difference
<1> QED
  BY <1>5, <1>6, <1>7, <1>8

\* The invariant: the answers of an epoch, and the counter, count from where the epoch
\* began; and the window holds the differences of the answers that are in it.
Now == [raw |-> counter, at |-> bytes, epoch |-> epoch]
Before(x) == x.epoch <= epoch
Readings == {query[r] : r \in Requests} \cup {taken[k] : k \in 1 .. Len(taken)}
CountsFromEpoch ==
  \E first \in [0 .. 1 -> Nat] :
    /\ CountsFrom(first[epoch], Now)
    /\ \A x \in Readings : x \in Reading => Before(x) /\ CountsFrom(first[x.epoch], x)

Entered(s, k) == IF k > 1 THEN Difference(s[k].raw, s[k - 1].raw) ELSE 0
Differences(v, s) == \A j \in 1 .. Window : v[j] = Entered(s, j + Len(s) - Window)
HoldsDifferences ==
  /\ taken = <<>> <=> prev = NoReading
  /\ taken # <<>> => prev = taken[Len(taken)]
  /\ Differences(rx, taken)

HistoryInv == HistoryTypeOK /\ rx_total = SumOf(rx) /\ CountsFromEpoch /\ HoldsDifferences

LEMMA NoReadings ==
  /\ NoReading \notin Reading /\ Unused \notin Reading /\ Asked \notin Reading
  /\ \A x \in Reading : x.epoch \in {0, 1}
BY DEF NoReading, Unused, Asked, Mark, Reading

LEMMA SumIsNat == ASSUME NEW s \in [1 .. Window -> Nat] PROVE SumOf(s) \in Nat
BY SumsUp, HistoryAssumption DEF HistoryAssumption

LEMMA ZerosSum == Zeros \in [1 .. Window -> Nat]
BY DEF Zeros

LEMMA HistoryInitInv == HistoryInit => HistoryInv
<1> SUFFICES ASSUME HistoryInit PROVE HistoryInv
  OBVIOUS
<1> USE HistoryAssumption DEF HistoryAssumption
<1>1. rx \in [1 .. Window -> Nat] /\ rx_total = SumOf(rx)
  <2>1. SumOf(Zeros) = 0
    <3>1. PICK sum \in [0 .. Window -> Nat] :
             /\ sum[0] = 0
             /\ \A k \in 1 .. Window : sum[k] = sum[k - 1] + Zeros[k]
             /\ SumOf(Zeros) = sum[Window]
      BY SumsUp, ZerosSum
    <3> DEFINE Good == {k \in 0 .. Window : sum[k] = 0}
    <3>2. 0 .. Window \subseteq Good
      <4>1. 0 \in Good
        BY <3>1
      <4>2. ASSUME NEW k \in 0 .. Window, k \in Good, k < Window PROVE k + 1 \in Good
        BY <3>1, <4>2 DEF Zeros
      <4> HIDE DEF Good
      <4> QED
        BY <4>1, <4>2, UpTo
    <3> QED
      BY <3>1, <3>2
  <2> QED
    BY <2>1, ZerosSum DEF HistoryInit
<1>2. HistoryTypeOK
  BY <1>1, SumIsNat DEF HistoryInit, HistoryTypeOK
<1>3. CountsFromEpoch
  <2> DEFINE first == [e \in 0 .. 1 |-> counter]
  <2>1. first \in [0 .. 1 -> Nat] /\ first[epoch] = counter
    BY DEF HistoryInit
  <2>2. CountsFrom(first[epoch], Now)
    BY <2>1 DEF CountsFrom, Now, HistoryInit
  <2>3. \A x \in Readings : x \notin Reading
    BY NoReadings DEF Readings, HistoryInit
  <2> HIDE DEF first
  <2> QED
    BY <2>1, <2>2, <2>3 DEF CountsFromEpoch
<1>4. HoldsDifferences
  BY DEF HistoryInit, HoldsDifferences, Differences, Entered, Zeros
<1> QED
  BY <1>1, <1>2, <1>3, <1>4 DEF HistoryInv

\* The window and its total stay with the answers they are made of.
LEMMA SameWindow ==
  ASSUME HistoryInv, UNCHANGED shown
  PROVE  rx_total' = SumOf(rx') /\ HoldsDifferences'
BY DEF HistoryInv, HoldsDifferences, Differences, shown

LEMMA SendStep == ASSUME HistoryInv, NEW r \in Requests, Send(r) PROVE HistoryInv'
<1>1. HistoryTypeOK'
  BY DEF HistoryInv, HistoryTypeOK, Send, kernel, shown
<1>2. CountsFromEpoch'
  <2>1. Readings' \subseteq Readings \cup {Asked}
    BY DEF HistoryInv, HistoryTypeOK, Send, shown, Readings
  <2> QED
    BY <2>1, NoReadings DEF HistoryInv, CountsFromEpoch, Send, kernel, Now, Before
<1> QED
  BY <1>1, <1>2, SameWindow DEF HistoryInv, Send

LEMMA LostStep == ASSUME HistoryInv, NEW r \in Requests, Lost(r) PROVE HistoryInv'
<1>1. HistoryTypeOK'
  BY DEF HistoryInv, HistoryTypeOK, Lost, kernel, shown
<1>2. CountsFromEpoch'
  <2>1. Readings' \subseteq Readings \cup {Unused}
    BY DEF HistoryInv, HistoryTypeOK, Lost, shown, Readings
  <2> QED
    BY <2>1, NoReadings DEF HistoryInv, CountsFromEpoch, Lost, kernel, Now, Before
<1> QED
  BY <1>1, <1>2, SameWindow DEF HistoryInv, Lost

LEMMA ReadStep == ASSUME HistoryInv, NEW r \in Requests, Read(r) PROVE HistoryInv'
<1>1. Now \in Reading
  BY DEF HistoryInv, HistoryTypeOK, Now, Reading
<1>2. HistoryTypeOK'
  BY <1>1 DEF HistoryInv, HistoryTypeOK, Read, kernel, shown, Now
<1>3. CountsFromEpoch'
  <2>1. Readings' \subseteq Readings \cup {Now}
    BY DEF HistoryInv, HistoryTypeOK, Read, shown, Readings, Now
  <2>2. Before(Now) /\ Now.epoch = epoch
    BY DEF Before, Now, HistoryInv, HistoryTypeOK
  <2>3. UNCHANGED Now /\ epoch' = epoch
    BY DEF Read, kernel, Now
  <2>4. PICK first \in [0 .. 1 -> Nat] :
           /\ CountsFrom(first[epoch], Now)
           /\ \A x \in Readings : x \in Reading => Before(x) /\ CountsFrom(first[x.epoch], x)
    BY DEF HistoryInv, CountsFromEpoch
  <2>5. CountsFrom(first[epoch'], Now')
    BY <2>3, <2>4
  <2>6. ASSUME NEW x \in Readings', x \in Reading PROVE Before(x)' /\ CountsFrom(first[x.epoch], x)
    <3>1. Before(x)' = Before(x)
      BY <2>3 DEF Before
    <3>2. CASE x = Now
      BY <2>2, <2>4, <3>1, <3>2
    <3>3. CASE x \in Readings
      BY <2>4, <2>6, <3>1, <3>3
    <3> QED
      BY <2>1, <3>2, <3>3
  <2> QED
    BY <2>5, <2>6 DEF CountsFromEpoch, Before
<1> QED
  BY <1>2, <1>3, SameWindow DEF HistoryInv, Read

LEMMA TransferStep == ASSUME HistoryInv, NEW b \in 1 .. Modulus, Transfer(b) PROVE HistoryInv'
<1> USE HistoryAssumption DEF HistoryAssumption
<1>1. /\ counter' \in 0 .. Modulus - 1
      /\ \E d \in Nat : counter + b = d * Modulus + counter'
  <2>1. counter + b \in Nat
    BY DEF HistoryInv, HistoryTypeOK
  <2> QED
    BY <2>1, Remainder DEF Transfer
<1>2. HistoryTypeOK'
  BY <1>1 DEF HistoryInv, HistoryTypeOK, Transfer, shown
<1>3. CountsFromEpoch'
  <2>1. Readings' = Readings /\ epoch' = epoch
    BY DEF Transfer, shown, Readings
  <2>2. ASSUME NEW f \in Nat, CountsFrom(f, Now) PROVE CountsFrom(f, Now)'
    <3>1. PICK q \in Nat : f + bytes = q * Modulus + counter
      BY <2>2 DEF CountsFrom, Now
    <3>2. PICK d \in Nat : counter + b = d * Modulus + counter'
      BY <1>1
    <3>3. /\ counter \in Nat /\ bytes \in Nat /\ b \in Nat /\ counter' \in Nat
          /\ bytes' = bytes + b
      BY <1>1 DEF HistoryInv, HistoryTypeOK, Transfer
    <3>4. (q + d) * Modulus = q * Modulus + d * Modulus
      OBVIOUS
    <3>5. q * Modulus \in Nat /\ d * Modulus \in Nat
      OBVIOUS
    <3>6. PICK c \in Nat, n \in Nat, e \in Nat, u \in Nat, v \in Nat :
             /\ c = counter /\ n = bytes /\ e = counter'
             /\ u = q * Modulus /\ v = d * Modulus
      BY <3>3, <3>5
    <3>7. f + n = u + c /\ c + b = v + e
      BY <3>1, <3>2, <3>6
    <3>8. f + (n + b) = (u + v) + e
      BY <3>7, <3>3
    <3>9. f + bytes' = (q + d) * Modulus + counter'
      BY <3>3, <3>4, <3>6, <3>8
    <3>10. Now'.raw = counter' /\ Now'.at = bytes'
      BY DEF Now
    <3>11. q + d \in Nat
      OBVIOUS
    <3> QED
      BY <3>9, <3>10, <3>11 DEF CountsFrom
  <2> QED
    BY <2>1, <2>2 DEF HistoryInv, HistoryTypeOK, CountsFromEpoch, Before
<1> QED
  BY <1>2, <1>3, SameWindow DEF HistoryInv, Transfer

LEMMA RestartStep == ASSUME HistoryInv, Restart PROVE HistoryInv'
<1> USE HistoryAssumption DEF HistoryAssumption
<1>1. HistoryTypeOK'
  BY DEF HistoryInv, HistoryTypeOK, Restart, shown
<1>2. CountsFromEpoch'
  <2>1. Readings' = Readings
    BY DEF Restart, shown, Readings
  <2>2. PICK first \in [0 .. 1 -> Nat] :
           \A x \in Readings : x \in Reading => Before(x) /\ CountsFrom(first[x.epoch], x)
    BY DEF HistoryInv, CountsFromEpoch
  <2>3. PICK n \in Nat : n = bytes
    BY DEF HistoryInv, HistoryTypeOK
  <2>4. n * Modulus - n \in Nat
    <3>1. n * Modulus >= n
      OBVIOUS
    <3> QED
      BY <3>1
  <2> DEFINE begun == [first EXCEPT ![1] = n * Modulus - n]
  <2>5. begun \in [0 .. 1 -> Nat] /\ begun[1] = n * Modulus - n /\ begun[0] = first[0]
    BY <2>4
  <2>6. CountsFrom(begun[epoch], Now)'
    <3>1. begun[1] + n = n * Modulus + 0
      BY <2>5
    <3>2. epoch' = 1 /\ Now'.at = n /\ Now'.raw = 0
      BY <2>3 DEF Restart, Now
    <3> HIDE DEF begun
    <3> QED
      BY <2>3, <3>1, <3>2 DEF CountsFrom
  <2>7. ASSUME NEW x \in Readings, x \in Reading
        PROVE  Before(x)' /\ CountsFrom(begun[x.epoch], x)
    <3>1. x.epoch = 0
      BY <2>2, <2>7, NoReadings DEF Before, Restart
    <3>2. Before(x)'
      BY <3>1 DEF Before, Restart
    <3> HIDE DEF begun
    <3> QED
      BY <2>2, <2>5, <2>7, <3>1, <3>2
  <2> HIDE DEF begun
  <2> QED
    BY <2>1, <2>5, <2>6, <2>7 DEF CountsFromEpoch, Before
<1> QED
  BY <1>1, <1>2, SameWindow DEF HistoryInv, Restart

LEMMA DifferenceIsNat ==
  ASSUME NEW x \in Reading, NEW y \in Reading
  PROVE  Difference(y.raw, x.raw) \in Nat
BY HistoryAssumption DEF HistoryAssumption, Difference, Reading

\* An answer is put at the end of a window of them, and the first leaves it when it is full.
Slid(n, s, x) == IF Len(Append(s, x)) > n THEN Tail(Append(s, x)) ELSE Append(s, x)

Slides(n, S, s, x, t) ==
  /\ t \in Seq(S) /\ t # <<>> /\ t[Len(t)] = x
  /\ Len(t) = IF Len(s) < n THEN Len(s) + 1 ELSE n
  /\ \A i \in 1 .. Len(t) - 1 : t[i] = IF Len(s) < n THEN s[i] ELSE s[i + 1]
  /\ \A i \in 1 .. Len(t) : t[i] = x \/ \E k \in 1 .. Len(s) : t[i] = s[k]

LEMMA WindowOf ==
  ASSUME NEW n \in Nat \ {0}, NEW S, NEW s \in Seq(S), NEW x \in S, Len(s) <= n
  PROVE  Slides(n, S, s, x, Slid(n, s, x))
<1> DEFINE t == Slid(n, s, x)
<1>1. t = IF Len(Append(s, x)) > n THEN Tail(Append(s, x)) ELSE Append(s, x)
  BY DEF Slid
<1> SUFFICES Slides(n, S, s, x, t)
  OBVIOUS
<1> HIDE DEF t
<1>2. CASE Len(s) < n
  <2>1. t = Append(s, x)
    BY <1>1, <1>2
  <2>2. t \in Seq(S) /\ Len(t) = Len(s) + 1 /\ t[Len(t)] = x
    BY <2>1
  <2>3. \A i \in 1 .. Len(s) : t[i] = s[i]
    BY <2>1
  <2> QED
    BY <1>2, <2>2, <2>3 DEF Slides
<1>3. CASE Len(s) = n
  <2>1. t = Tail(Append(s, x))
    BY <1>1, <1>3
  <2>2. t \in Seq(S) /\ Len(t) = n /\ t[n] = x
    BY <1>3, <2>1
  <2>3. \A i \in 1 .. n - 1 : t[i] = s[i + 1]
    BY <1>3, <2>1
  <2>4. \A i \in 1 .. n - 1 : i + 1 \in 1 .. Len(s)
    BY <1>3
  <2>5. t # <<>>
    BY <2>2
  <2>6. \A i \in 1 .. Len(t) : i = n \/ i \in 1 .. n - 1
    BY <2>2
  <2>7. ASSUME NEW i \in 1 .. Len(t) PROVE t[i] = x \/ \E k \in 1 .. Len(s) : t[i] = s[k]
    BY <2>2, <2>3, <2>4, <2>6
  <2>8. ~(Len(s) < n) /\ Len(t) - 1 = n - 1
    BY <1>3, <2>2
  <2> QED
    BY <2>2, <2>3, <2>5, <2>7, <2>8 DEF Slides
<1>4. Len(s) < n \/ Len(s) = n
  OBVIOUS
<1> QED
  BY <1>2, <1>3, <1>4, Zenon

\* What a window is when a number is put at its end and the first is taken off.
LEMMA PushedOnto ==
  ASSUME NEW v \in [1 .. Window -> Nat], NEW d \in Nat
  PROVE  /\ Append(Tail(v), d) \in [1 .. Window -> Nat]
         /\ Append(Tail(v), d)[Window] = d
         /\ \A j \in 1 .. Window - 1 : Append(Tail(v), d)[j] = v[j + 1]
<1> USE HistoryAssumption DEF HistoryAssumption
<1>1. v \in Seq(Nat) /\ Len(v) = Window
  OBVIOUS
<1>2. Tail(v) \in Seq(Nat) /\ Len(Tail(v)) = Window - 1 /\ \A j \in 1 .. Window - 1 : Tail(v)[j] = v[j + 1]
  BY <1>1
<1> DEFINE u == Tail(v)
           w == Append(u, d)
<1>3. w \in Seq(Nat) /\ Len(w) = Window
  BY <1>2
<1>4. w[Window] = d /\ \A j \in 1 .. Window - 1 : w[j] = u[j]
  <2> HIDE DEF u
  <2> QED
    BY <1>2 DEF u
<1> HIDE DEF w
<1>5. w \in [1 .. Window -> Nat]
  BY <1>3
<1> QED
  BY <1>2, <1>4, <1>5 DEF w

\* The differences of the answers in the window, when one is put at its end.
LEMMA Shifted ==
  ASSUME NEW s \in Seq(Reading), s # <<>>, Len(s) <= Window + 1, NEW x \in Reading,
         NEW v \in [1 .. Window -> Nat], Differences(v, s)
  PROVE  Differences(Append(Tail(v), Difference(x.raw, s[Len(s)].raw)), Slid(Window + 1, s, x))
<1> USE HistoryAssumption DEF HistoryAssumption
<1> DEFINE t == Slid(Window + 1, s, x)
           w == Append(Tail(v), Difference(x.raw, s[Len(s)].raw))
<1>6. /\ t \in Seq(Reading) /\ t[Len(t)] = x
      /\ Len(t) = IF Len(s) < Window + 1 THEN Len(s) + 1 ELSE Window + 1
      /\ \A i \in 1 .. Len(t) - 1 : t[i] = IF Len(s) < Window + 1 THEN s[i] ELSE s[i + 1]
  <2>1. Window + 1 \in Nat \ {0}
    OBVIOUS
  <2>2. Slides(Window + 1, Reading, s, x, t)
    BY <2>1, WindowOf
  <2> HIDE DEF t
  <2> QED
    BY <2>2 DEF Slides
<1>7. \A j \in 1 .. Window : v[j] = Entered(s, j + Len(s) - Window)
  BY DEF Differences
<1> HIDE DEF t
<1>1. PICK n \in Nat, m \in Nat : n = Len(s) /\ m = Len(t)
  BY <1>6
<1>2. n > 0 /\ n <= Window + 1 /\ m = (IF n < Window + 1 THEN n + 1 ELSE Window + 1)
  BY <1>1, <1>6
<1>3. \A i \in 1 .. m - 1 : t[i] = IF n < Window + 1 THEN s[i] ELSE s[i + 1]
  BY <1>1, <1>6
<1>4. /\ w[Window] = Difference(x.raw, s[n].raw)
      /\ \A j \in 1 .. Window - 1 : w[j] = v[j + 1]
  <2>1. s[n] \in Reading
    BY <1>1, <1>2
  <2>2. Difference(x.raw, s[n].raw) \in Nat
    BY <2>1, DifferenceIsNat
  <2> QED
    BY <1>1, <2>2, PushedOnto
<1> HIDE DEF w
<1>5. ASSUME NEW j \in 1 .. Window PROVE w[j] = Entered(t, j + m - Window)
  <2>1. CASE j = Window
    <3>1. m > 1 /\ m - 1 \in 1 .. m - 1 /\ Window + m - Window = m
      BY <1>2
    <3>2. t[m - 1] = s[n] /\ t[m] = x
      <4>1. CASE n < Window + 1
        BY <1>1, <1>6, <1>2, <1>3, <3>1, <4>1
      <4>2. CASE ~(n < Window + 1)
        <5>1. n = Window + 1 /\ m - 1 + 1 = n
          BY <1>2, <4>2
        <5> QED
          BY <1>1, <1>3, <1>6, <3>1, <4>2, <5>1
      <4> QED
        BY <4>1, <4>2
    <3> QED
      BY <1>4, <2>1, <3>1, <3>2 DEF Entered
  <2>2. CASE j < Window
    <3>1. w[j] = Entered(s, j + 1 + n - Window)
      <4>1. j \in 1 .. Window - 1 /\ j + 1 \in 1 .. Window
        BY <2>2
      <4> QED
        BY <1>1, <1>4, <1>7, <4>1
    <3>2. CASE n < Window + 1
      <4>1. PICK k \in Int : k = j + m - Window
        OBVIOUS
      <4>2. k = j + 1 + n - Window /\ k <= m - 1
        BY <1>2, <2>2, <3>2, <4>1
      <4>3. CASE k > 1
        <5>1. t[k] = s[k] /\ t[k - 1] = s[k - 1]
          BY <1>3, <3>2, <4>2, <4>3
        <5> QED
          BY <3>1, <4>1, <4>2, <5>1 DEF Entered
      <4>4. CASE ~(k > 1)
        BY <3>1, <4>1, <4>2, <4>4 DEF Entered
      <4> QED
        BY <4>3, <4>4
    <3>3. CASE n = Window + 1
      <4>1. /\ j + m - Window = j + 1 /\ j + 1 + n - Window = j + 2
            /\ j + 1 - 1 = j /\ j + 2 - 1 = j + 1 /\ j + 1 > 1 /\ j + 2 > 1
        BY <1>2, <3>3
      <4>2. t[j] = s[j + 1] /\ t[j + 1] = s[j + 2]
        <5>1. m = n /\ j \in 1 .. m - 1 /\ j + 1 \in 1 .. m - 1 /\ ~(n < Window + 1)
          BY <1>2, <2>2, <3>3
        <5>2. t[j] = s[j + 1] /\ t[j + 1] = s[(j + 1) + 1]
          BY <1>3, <5>1
        <5> QED
          BY <5>2
      <4> QED
        BY <3>1, <4>1, <4>2 DEF Entered
    <3> QED
      BY <1>2, <3>2, <3>3
  <2> QED
    BY <2>1, <2>2
<1> QED
  BY <1>1, <1>5 DEF t, w, Differences

LEMMA RefreshedSlides ==
  ASSUME HistoryInv, NEW r \in Requests, refresh(r)
  PROVE  /\ taken' = Slid(Window + 1, taken, query[r])
         /\ Slides(Window + 1, Reading, taken, query[r], taken')
<1>1. taken' = Slid(Window + 1, taken, query[r])
  BY DEF refresh, Slid
<1>2. Window + 1 \in Nat \ {0}
  BY HistoryAssumption DEF HistoryAssumption
<1>3. taken \in Seq(Reading) /\ Len(taken) <= Window + 1 /\ query[r] \in Reading
  BY DEF HistoryInv, HistoryTypeOK, refresh
<1>4. Slides(Window + 1, Reading, taken, query[r], Slid(Window + 1, taken, query[r]))
  BY <1>2, <1>3, WindowOf
<1> QED
  BY <1>1, <1>4

LEMMA RefreshedTypes == ASSUME HistoryInv, NEW r \in Requests, refresh(r) PROVE HistoryTypeOK' /\ rx_total' = SumOf(rx')
<1> USE HistoryAssumption DEF HistoryAssumption
<1>1. rx' \in [1 .. Window -> Nat]
  <2>1. CASE prev = NoReading
    BY <2>1, ZerosSum DEF refresh
  <2>2. CASE prev # NoReading
    <3>1. prev \in Reading /\ query[r] \in Reading /\ rx \in [1 .. Window -> Nat]
      BY <2>2 DEF HistoryInv, HistoryTypeOK, refresh
    <3>2. Difference(query[r].raw, prev.raw) \in Nat
      BY <3>1, DifferenceIsNat
    <3> QED
      BY <2>2, <3>1, <3>2, PushedOnto DEF refresh
  <2> QED
    BY <2>1, <2>2
<1>2. rx_total' = SumOf(rx')
  BY DEF refresh, addUp
<1>3. taken' \in Seq(Reading) /\ Len(taken') <= Window + 1
  <2>1. taken \in Seq(Reading) /\ Len(taken) <= Window + 1
    BY DEF HistoryInv, HistoryTypeOK
  <2> QED
    BY <2>1, RefreshedSlides DEF Slides
<1>4. query' \in [Requests -> Reading \cup {Unused, Asked}] /\ prev' \in Reading
  BY DEF HistoryInv, HistoryTypeOK, refresh
<1>5. UNCHANGED <<counter, bytes, epoch>>
  BY DEF refresh, kernel
<1>6. rx_total' \in Nat
  BY <1>1, <1>2, SumIsNat
<1> QED
  BY <1>1, <1>2, <1>3, <1>4, <1>5, <1>6 DEF HistoryInv, HistoryTypeOK

LEMMA RefreshedCounts == ASSUME HistoryInv, NEW r \in Requests, refresh(r) PROVE CountsFromEpoch'
<1>1. Readings' \subseteq Readings \cup {Unused}
  <2>1. ASSUME NEW k \in 1 .. Len(taken') PROVE taken'[k] \in Readings
    <3>1. taken'[k] = query[r] \/ \E i \in 1 .. Len(taken) : taken'[k] = taken[i]
      BY RefreshedSlides DEF Slides
    <3> QED
      BY <3>1 DEF Readings
  <2>2. ASSUME NEW q \in Requests PROVE query'[q] \in Readings \cup {Unused}
    BY DEF HistoryInv, HistoryTypeOK, refresh, Readings
  <2> QED
    BY <2>1, <2>2 DEF Readings
<1> QED
  BY <1>1, NoReadings DEF HistoryInv, CountsFromEpoch, refresh, kernel, Now, Before

LEMMA RefreshedHolds == ASSUME HistoryInv, NEW r \in Requests, refresh(r) PROVE HoldsDifferences'
<1> USE HistoryAssumption DEF HistoryAssumption
<1>1. /\ taken \in Seq(Reading) /\ query[r] \in Reading /\ Len(taken) <= Window + 1
      /\ prev' = query[r] /\ rx \in [1 .. Window -> Nat]
  BY DEF HistoryInv, HistoryTypeOK, refresh
<1>2. /\ taken' \in Seq(Reading) /\ taken' # <<>> /\ taken'[Len(taken')] = query[r]
      /\ Len(taken') = IF Len(taken) < Window + 1 THEN Len(taken) + 1 ELSE Window + 1
      /\ taken' = Slid(Window + 1, taken, query[r])
  BY RefreshedSlides DEF Slides
<1>3. /\ taken = <<>> <=> prev = NoReading
      /\ taken # <<>> => prev = taken[Len(taken)]
      /\ Differences(rx, taken)
  BY DEF HistoryInv, HoldsDifferences
<1>4. Differences(rx', taken')
  <2>1. CASE taken = <<>>
    <3>1. Len(taken') = 1
      BY <1>2, <2>1
    <3>2. rx' = Zeros
      BY <1>3, <2>1 DEF refresh
    <3> QED
      BY <3>1, <3>2 DEF Zeros, Entered, Differences
  <2>2. CASE taken # <<>>
    <3>1. rx' = Append(Tail(rx), Difference(query[r].raw, taken[Len(taken)].raw))
      BY <1>3, <2>2 DEF refresh
    <3> QED
      BY <1>1, <1>2, <1>3, <2>2, <3>1, Shifted
  <2> QED
    BY <2>1, <2>2
<1>5. query[r] # NoReading
  BY <1>1, NoReadings
<1> QED
  BY <1>1, <1>2, <1>4, <1>5 DEF HoldsDifferences

LEMMA HistoryInvStep == HistoryInv /\ [HistoryNext]_historyVars => HistoryInv'
<1> SUFFICES ASSUME HistoryInv, [HistoryNext]_historyVars PROVE HistoryInv'
  OBVIOUS
<1>1. ASSUME NEW r \in Requests, refresh(r) PROVE HistoryInv'
  BY <1>1, RefreshedTypes, RefreshedCounts, RefreshedHolds DEF HistoryInv
<1>2. CASE UNCHANGED historyVars
  <2>1. HistoryTypeOK' /\ CountsFromEpoch'
    BY <1>2 DEF historyVars, kernel, shown, HistoryInv, HistoryTypeOK, CountsFromEpoch, Now, Before, Readings
  <2> QED
    BY <1>2, <2>1, SameWindow DEF historyVars, HistoryInv
<1> QED
  BY <1>1, <1>2, SendStep, ReadStep, LostStep, TransferStep, RestartStep DEF HistoryNext

\* What two answers make of the counter is what was transferred between them.
Turn(x, y) == Difference(y.raw, x.raw) + (IF y.raw < x.raw THEN 1 ELSE 0) = y.at - x.at

\* So is what a window of them makes, for the differences telescope.
LEMMA WindowSum ==
  ASSUME NEW s \in Seq(Reading), Len(s) <= Window + 1, NEW v \in [1 .. Window -> Nat],
         Differences(v, s), \A k \in 1 .. Len(s) - 1 : Turn(s[k], s[k + 1])
  PROVE  SumOf(v) + Cardinality({k \in 1 .. Len(s) - 1 : s[k + 1].raw < s[k].raw})
           = IF s = <<>> THEN 0 ELSE s[Len(s)].at - s[1].at
<1> USE HistoryAssumption DEF HistoryAssumption
<1>1. PICK n \in Nat : n = Len(s)
  OBVIOUS
<1>2. PICK sum \in [0 .. Window -> Nat] :
         /\ sum[0] = 0
         /\ \A j \in 1 .. Window : sum[j] = sum[j - 1] + v[j]
         /\ SumOf(v) = sum[Window]
  BY SumsUp
<1> DEFINE raw == [k \in 1 .. n |-> s[k].raw]
           at == [k \in 1 .. n |-> s[k].at]
           Turned(k) == IF raw[k + 1] < raw[k] THEN 1 ELSE 0
           Wrapped(k) == {i \in 1 .. n - 1 : i < k /\ raw[i + 1] < raw[i]}
           Since(k) == IF k > 1 THEN at[k] - at[1] ELSE 0
           Good == {j \in 0 .. Window : sum[j] + Cardinality(Wrapped(j + n - Window)) = Since(j + n - Window)}
<1>3. raw \in [1 .. n -> Nat] /\ at \in [1 .. n -> Nat]
  <2>1. \A k \in 1 .. n : s[k] \in Reading
    BY <1>1
  <2> QED
    BY <2>1 DEF Reading
<1>4. \A k \in Int : k <= 1 => Wrapped(k) = {} /\ Since(k) = 0
  OBVIOUS
<1>5. \A k \in Int : IsFiniteSet(Wrapped(k)) /\ Cardinality(Wrapped(k)) \in Nat
  <2>1. IsFiniteSet(1 .. n - 1)
    BY FS_Interval
  <2>2. \A k \in Int : Wrapped(k) \subseteq 1 .. n - 1
    OBVIOUS
  <2> HIDE DEF Wrapped
  <2> QED
    BY <2>1, <2>2, FS_Subset, FS_CardinalityType
<1>6. ASSUME NEW k \in 1 .. n - 1
      PROVE  Cardinality(Wrapped(k + 1)) = Cardinality(Wrapped(k)) + Turned(k)
  <2> HIDE DEF raw
  <2>1. \A i \in 1 .. n - 1 : i < k + 1 <=> i < k \/ i = k
    OBVIOUS
  <2>2. k \in Int /\ ~(k < k)
    OBVIOUS
  <2>3. CASE raw[k + 1] < raw[k]
    <3>1. Wrapped(k + 1) = Wrapped(k) \cup {k}
      BY <2>1, <2>3
    <3>2. k \notin Wrapped(k)
      BY <2>2
    <3> HIDE DEF Wrapped
    <3>3. Cardinality(Wrapped(k) \cup {k}) = Cardinality(Wrapped(k)) + 1
      BY <1>5, <2>2, <3>2, FS_AddElement
    <3> QED
      BY <2>3, <3>1, <3>3
  <2>4. CASE ~(raw[k + 1] < raw[k])
    <3>1. Wrapped(k + 1) = Wrapped(k)
      BY <2>1, <2>4
    <3>2. Cardinality(Wrapped(k)) \in Nat
      BY <1>5, <2>2
    <3> HIDE DEF Wrapped
    <3> QED
      BY <2>4, <3>1, <3>2
  <2> QED
    BY <2>3, <2>4
<1>7. Cardinality({}) = 0
  BY FS_EmptySet
<1>8. 0 \in Good
  <2>1. 0 + n - Window <= 1 /\ 0 + n - Window \in Int /\ 0 \in 0 .. Window
    BY <1>1
  <2> HIDE DEF Wrapped, Since
  <2>2. Wrapped(0 + n - Window) = {} /\ Since(0 + n - Window) = 0
    BY <1>4, <2>1
  <2>3. sum[0] + Cardinality({}) = 0
    BY <1>2, <1>7
  <2> QED
    BY <2>1, <2>2, <2>3
<1>9. ASSUME NEW j \in 0 .. Window, j \in Good, j < Window PROVE j + 1 \in Good
  <2>1. PICK k \in Int : k = j + n - Window
    OBVIOUS
  <2>2. j + 1 + n - Window = k + 1 /\ j + 1 \in 1 .. Window /\ j + 1 \in 0 .. Window /\ k + 1 <= n
    BY <1>9, <2>1
  <2>3. sum[j + 1] = sum[j] + Entered(s, k + 1)
    BY <1>1, <1>2, <2>1, <2>2 DEF Differences
  <2>4. sum[j] + Cardinality(Wrapped(k)) = Since(k)
    BY <1>9, <2>1
  <2>5. sum[j] \in Nat /\ Cardinality(Wrapped(k)) \in Nat
    BY <1>2, <1>5
  <2>6. sum[j + 1] + Cardinality(Wrapped(k + 1)) = Since(k + 1)
    <3>1. CASE k + 1 <= 1
      <4>1. Entered(s, k + 1) = 0
        BY <3>1 DEF Entered
      <4>2. sum[j + 1] = sum[j]
        BY <2>3, <2>5, <4>1
      <4>3. k <= 1 /\ k + 1 \in Int
        BY <3>1
      <4> HIDE DEF Wrapped, Since
      <4>4. Wrapped(k) = Wrapped(k + 1) /\ Since(k) = Since(k + 1)
        BY <1>4, <3>1, <4>3
      <4> QED
        BY <2>4, <4>2, <4>4
    <3>2. CASE k + 1 > 1
      <4>1. k \in 1 .. n - 1 /\ k \in 1 .. n /\ k + 1 \in 1 .. n /\ 1 \in 1 .. n
        BY <1>1, <2>2, <3>2
      <4>2. s[k] \in Reading /\ s[k + 1] \in Reading
        BY <1>1, <4>1
      <4>3. PICK d \in Nat : d = Difference(s[k + 1].raw, s[k].raw)
        BY <4>2, DifferenceIsNat
      <4>4. Entered(s, k + 1) = d
        BY <3>2, <4>3 DEF Entered
      <4>5. Turn(s[k], s[k + 1])
        BY <1>1, <4>1
      <4>6. PICK a \in Nat, c \in Nat, p \in Nat, q \in Nat, r \in Nat, w \in {0, 1} :
               /\ a = sum[j] /\ c = Cardinality(Wrapped(k)) /\ w = Turned(k)
               /\ p = at[1] /\ q = at[k] /\ r = at[k + 1]
        <5>1. at[1] \in Nat /\ at[k] \in Nat /\ at[k + 1] \in Nat
          BY <1>3, <4>1
        <5>2. Turned(k) \in {0, 1}
          OBVIOUS
        <5> HIDE DEF Wrapped, Turned, at
        <5> QED
          BY <2>5, <5>1, <5>2
      <4>7. d + w = r - q
        <5>1. d + (IF s[k + 1].raw < s[k].raw THEN 1 ELSE 0) = s[k + 1].at - s[k].at
          BY <4>3, <4>5 DEF Turn
        <5>2. raw[k] = s[k].raw /\ raw[k + 1] = s[k + 1].raw /\ at[k] = s[k].at /\ at[k + 1] = s[k + 1].at
          BY <4>1
        <5> HIDE DEF raw, at, Wrapped
        <5> QED
          BY <4>6, <5>1, <5>2
      <4>8. Since(k) = q - p /\ Since(k + 1) = r - p
        <5>1. k > 1 \/ k = 1
          BY <4>1
        <5> HIDE DEF raw, at, Wrapped
        <5>2. k = 1 => q = p
          BY <4>6
        <5>3. k > 1 => at[k] - at[1] = q - p
          BY <4>6
        <5>4. Since(k) = q - p
          BY <5>1, <5>2, <5>3
        <5>5. Since(k + 1) = r - p
          BY <3>2, <4>6
        <5> QED
          BY <5>4, <5>5
      <4> HIDE DEF Wrapped, Since, Turned, raw, at
      <4>9. a + c = q - p
        BY <2>4, <4>6, <4>8
      <4>10. (a + d) + (c + w) = r - p
        BY <4>7, <4>9
      <4>11. Cardinality(Wrapped(k + 1)) = c + w /\ sum[j + 1] = a + d
        BY <1>6, <2>3, <4>1, <4>4, <4>6
      <4> QED
        BY <4>8, <4>10, <4>11
    <3>3. k + 1 <= 1 \/ k + 1 > 1
      OBVIOUS
    <3> HIDE DEF Wrapped, Since
    <3> QED
      BY <3>1, <3>2, <3>3
  <2> HIDE DEF Wrapped, Since
  <2> QED
    BY <2>2, <2>6
<1>10. Window \in Good
  <2>1. 0 .. Window \subseteq Good
    <3> HIDE DEF Good
    <3> QED
      BY <1>8, <1>9, UpTo
  <2> HIDE DEF Good
  <2> QED
    BY <2>1
<1>11. Window + n - Window = n
  OBVIOUS
<1>12. Wrapped(n) = {k \in 1 .. Len(s) - 1 : s[k + 1].raw < s[k].raw}
  <2>1. \A k \in 1 .. n - 1 : k < n /\ raw[k] = s[k].raw /\ raw[k + 1] = s[k + 1].raw
    OBVIOUS
  <2> HIDE DEF raw
  <2> QED
    BY <1>1, <2>1
<1>13. Since(n) = IF s = <<>> THEN 0 ELSE s[Len(s)].at - s[1].at
  <2>1. s = <<>> <=> n = 0
    BY <1>1
  <2>2. CASE n = 0
    BY <2>1, <2>2
  <2>3. CASE n > 0
    <3>1. at[n] = s[n].at /\ at[1] = s[1].at /\ at[1] \in Nat /\ n \in 1 .. n
      <4>1. n \in 1 .. n /\ 1 \in 1 .. n
        BY <2>3
      <4>2. at[n] = s[n].at /\ at[1] = s[1].at
        BY <4>1
      <4>3. at[1] \in Nat
        BY <1>3, <4>1
      <4> QED
        BY <4>1, <4>2, <4>3
    <3> HIDE DEF at, raw
    <3>2. n = 1 => at[n] - at[1] = 0
      BY <3>1
    <3>3. Since(n) = at[n] - at[1]
      BY <2>3, <3>2
    <3> QED
      BY <1>1, <2>1, <2>3, <3>1, <3>3
  <2> QED
    BY <2>2, <2>3
<1> HIDE DEF Wrapped, Since
<1> QED
  BY <1>2, <1>10, <1>11, <1>12, <1>13

LEMMA CountedIsTraffic == HistoryInv => TotalIsTraffic
<1> SUFFICES ASSUME HistoryInv, InOrder
             PROVE  rx_total + Wraps = IF taken = <<>> THEN 0
                                       ELSE taken[Len(taken)].at - taken[1].at
  BY DEF TotalIsTraffic
<1>1. taken \in Seq(Reading) /\ Len(taken) <= Window + 1 /\ rx \in [1 .. Window -> Nat]
  BY DEF HistoryInv, HistoryTypeOK
<1>2. ASSUME NEW k \in 1 .. Len(taken) - 1 PROVE Turn(taken[k], taken[k + 1])
  <2>1. k \in 1 .. Len(taken) /\ k + 1 \in 1 .. Len(taken)
    BY <1>1
  <2>2. PICK x \in Reading, y \in Reading : x = taken[k] /\ y = taken[k + 1]
    BY <1>1, <2>1
  <2>3. x \in Readings /\ y \in Readings
    BY <2>1, <2>2 DEF Readings
  <2>4. PICK first \in [0 .. 1 -> Nat] :
           \A z \in Readings : z \in Reading => CountsFrom(first[z.epoch], z)
    BY DEF HistoryInv, CountsFromEpoch
  <2>5. x.epoch = y.epoch /\ x.at <= y.at /\ y.at - x.at < Modulus
    BY <2>2 DEF InOrder
  <2>6. first[x.epoch] \in Nat
    BY DEF Reading
  <2>7. CountsFrom(first[x.epoch], x) /\ CountsFrom(first[x.epoch], y)
    BY <2>3, <2>4, <2>5
  <2> QED
    BY <2>2, <2>5, <2>6, <2>7, OneTurn DEF Turn
<1> QED
  BY <1>1, <1>2, WindowSum DEF HistoryInv, HoldsDifferences, Wraps

\* For every modulus of the counters, every length of the window and any number of requests
\* in any order: what the page displays as the total is what was transferred over the
\* window (trafficinfo.htm:140-196, traffic.js:653-698).
THEOREM TotalIsTransferred == HistorySpec => [](HistoryTypeOK /\ TotalIsTraffic)
<1>1. HistoryInv => HistoryTypeOK
  BY DEF HistoryInv
<1> QED
  BY <1>1, HistoryInitInv, HistoryInvStep, CountedIsTraffic, PTL DEF HistorySpec

-----------------------------------------------------------------------------
(* The search box.                                                         *)

\* A late answer never replaces the list for what was typed since, for any texts, results
\* and caches (jquery.autocomplete.js:428-430, 584-587).
THEOREM AnswersAreFresh == AutoSpec => NoStaleAnswer
<1>1. [AutoNext]_autoVars
        => [suggestions' # suggestions
              => suggestions' = <<>> \/ suggestions' = Results[getQuery(currentValue')]]_autoVars
  <2> SUFFICES ASSUME AutoNext, suggestions' # suggestions
               PROVE  suggestions' = <<>> \/ suggestions' = Results[getQuery(currentValue')]
    OBVIOUS
  <2>1. ASSUME NEW t \in Typed, Type(t) PROVE FALSE
    BY <2>1 DEF Type, list
  <2>2. ASSUME onValueChange PROVE suggestions' = Results[getQuery(currentValue')]
    BY <2>2 DEF onValueChange, getSuggestions, suggest
  <2>3. CASE onKeyUp
    BY <2>2, <2>3 DEF onKeyUp, list
  <2>4. CASE Deferred
    BY <2>2, <2>4 DEF Deferred
  <2>5. CASE Answer
    BY <2>5 DEF Answer, suggest
  <2>6. ~RequestFails
    BY DEF RequestFails, list
  <2>7. ASSUME NEW i, select(i) PROVE suggestions' = <<>>
    BY <2>7 DEF select
  <2>8. CASE Enter
    BY <2>7, <2>8 DEF Enter
  <2>9. ASSUME NEW i, ClickLine(i) PROVE suggestions' = <<>>
    BY <2>7, <2>9 DEF ClickLine
  <2>10. ~ShowAgain /\ ~Escape /\ ~moveUp /\ ~moveDown /\ ~MouseOut /\ \A i : ~MouseOver(i)
    BY DEF ShowAgain, suggest, Escape, moveUp, moveDown, MouseOut, MouseOver
  <2>11. ~onBlur /\ ~ClickElsewhere /\ ~Kill /\ ~Switch /\ ~clearCache
    BY DEF onBlur, ClickElsewhere, Kill, Switch, clearCache, list
  <2> QED
    BY <2>1, <2>3, <2>4, <2>5, <2>6, <2>8, <2>9, <2>10, <2>11 DEF AutoNext
<1> QED
  BY <1>1, PTL DEF AutoSpec, NoStaleAnswer

AutoValues ==
  /\ options \in [local : BOOLEAN, defer : BOOLEAN]
  /\ val \in Text /\ currentValue \in Text
  /\ suggestions \in Seq(Text)
  /\ cached \subseteq Query /\ badQueries \subseteq Query
  /\ request \in Query \cup {NoRequest}

AutoFlags ==
  /\ visible \in BOOLEAN /\ onChange \in BOOLEAN /\ killer \in BOOLEAN /\ killing \in BOOLEAN
  /\ disabled \in BOOLEAN /\ unanswered \in BOOLEAN /\ over \in BOOLEAN

Selected == selectedIndex \in -2 .. MaxIndex /\ SelectionInRange

\* A list is the one for the current value, whether it is displayed or not, or it waits
\* for an answer, or there will be none.
ListFits ==
  suggestions # <<>>
  => LET q == getQuery(currentValue)
     IN suggestions = Results[q] \/ unanswered \/ q = Blank \/ request = q

AutoInv == AutoValues /\ AutoFlags /\ Selected /\ ListFits

\* What the constants are.
LEMMA QueryTypes ==
  /\ Blank \in Query /\ Query \subseteq Text /\ NoRequest \notin Query
  /\ \A t \in Text : getQuery(t) \in Query
  /\ \A q \in Query : Results[q] \in Seq(Text)
  /\ <<>> \in Seq(Text)
BY AutocompleteAssumption DEF Query, getQuery

LEMMA AutoInvTypes == AutoInv => AutoTypeOK
<1> SUFFICES ASSUME AutoInv PROVE AutoTypeOK
  OBVIOUS
<1>1. request = NoRequest => request # getQuery(currentValue)
  BY QueryTypes DEF AutoInv, AutoValues
<1>2. QuietListFits
  BY <1>1 DEF AutoInv, ListFits, QuietListFits
<1> QED
  BY <1>2 DEF AutoInv, AutoValues, AutoFlags, Selected, AutoTypeOK

\* Texts stay texts: what comes into the box is one of the list.
LEMMA ValuesStep == AutoValues /\ [AutoNext]_autoVars => AutoValues'
<1> SUFFICES ASSUME AutoValues, [AutoNext]_autoVars PROVE AutoValues'
  OBVIOUS
<1> USE DEF AutoValues, list, cache
<1>1. ASSUME NEW t \in Typed, Type(t) PROVE AutoValues'
  BY <1>1, AutocompleteAssumption DEF Type
<1>2. ASSUME onValueChange PROVE AutoValues'
  <2>1. getQuery(val) \in Query /\ Results[getQuery(val)] \in Seq(Text)
    BY QueryTypes
  <2> QED
    BY <1>2, <2>1 DEF onValueChange, getSuggestions, suggest
<1>3. CASE onKeyUp \/ Deferred
  BY <1>2, <1>3 DEF onKeyUp, Deferred
<1>4. CASE Answer \/ RequestFails
  BY <1>4, QueryTypes DEF Answer, RequestFails, suggest
<1>5. CASE ShowAgain \/ Escape \/ MouseOut
  BY <1>5 DEF ShowAgain, Escape, MouseOut, suggest, KeepOthers
<1>6. ASSUME NEW i, select(i), KeepOthers PROVE AutoValues'
  <2>1. i \in 0 .. Len(suggestions) - 1 => suggestions[i + 1] \in Text
    OBVIOUS
  <2> QED
    BY <1>6, <2>1, QueryTypes DEF select, KeepOthers
<1>7. CASE Enter
  BY <1>6, <1>7 DEF Enter, KeepOthers
<1>8. ASSUME NEW i, adjustScroll(i) PROVE val' \in Text
  <2>1. i \in 0 .. Shown /\ i < Len(suggestions) => i + 1 \in 1 .. Len(suggestions)
    <3>1. PICK n \in Nat : n = Len(suggestions)
      OBVIOUS
    <3>2. Shown \in Nat
      BY <3>1, AutocompleteAssumption DEF Shown
    <3> QED
      BY <3>1, <3>2
  <2> QED
    BY <1>8, <2>1 DEF adjustScroll
<1>9. CASE moveUp \/ moveDown
  <2>1. val' \in Text
    BY <1>8, <1>9 DEF moveUp, moveDown
  <2> QED
    BY <1>9, <2>1 DEF moveUp, moveDown, KeepOthers
<1>10. ASSUME NEW i, MouseOver(i) \/ ClickLine(i) PROVE AutoValues'
  BY <1>6, <1>10 DEF MouseOver, ClickLine, KeepOthers
<1>11. CASE onBlur \/ ClickElsewhere \/ Kill \/ Switch \/ clearCache
  BY <1>11 DEF onBlur, ClickElsewhere, Kill, Switch, clearCache, KeepInput
<1>12. CASE UNCHANGED autoVars
  BY <1>12 DEF autoVars
<1> QED
  BY <1>1, <1>3, <1>4, <1>5, <1>7, <1>9, <1>10, <1>11, <1>12 DEF AutoNext

\* Flags stay flags, and an answer over a selection is not forgotten.
LEMMA FlagsStep == AutoFlags /\ [AutoNext]_autoVars => AutoFlags' /\ (over => over')
<1> SUFFICES ASSUME AutoFlags, [AutoNext]_autoVars PROVE AutoFlags' /\ (over => over')
  OBVIOUS
<1> USE DEF AutoFlags, list, blurring
<1>1. ASSUME NEW t, Type(t) PROVE AutoFlags' /\ (over => over')
  BY <1>1 DEF Type
<1>2. ASSUME onValueChange PROVE AutoFlags' /\ (over => over')
  BY <1>2 DEF onValueChange, getSuggestions, suggest, hide
<1>3. CASE onKeyUp \/ Deferred
  BY <1>2, <1>3 DEF onKeyUp, Deferred
<1>4. CASE Answer \/ RequestFails
  BY <1>4 DEF Answer, RequestFails, suggest
<1>5. CASE ShowAgain \/ Escape \/ Enter \/ moveUp \/ moveDown \/ MouseOut
  BY <1>5 DEF ShowAgain, Escape, Enter, moveUp, moveDown, MouseOut, suggest, select, hide, KeepOthers
<1>6. ASSUME NEW i, MouseOver(i) \/ ClickLine(i) PROVE AutoFlags' /\ (over => over')
  BY <1>6 DEF MouseOver, ClickLine, select, hide, KeepOthers
<1>7. CASE onBlur \/ ClickElsewhere \/ Kill \/ Switch \/ clearCache
  BY <1>7 DEF onBlur, ClickElsewhere, Kill, Switch, clearCache, hide, KeepInput
<1>8. CASE UNCHANGED autoVars
  BY <1>8 DEF autoVars
<1> QED
  BY <1>1, <1>3, <1>4, <1>5, <1>6, <1>7, <1>8 DEF AutoNext

InList(i, s) == i \in {-1, Undefined} \cup 0 .. Len(s) - 1

\* The arrows and the mouse move the selection in the list; what replaces the list while
\* something is selected is an answer.
LEMMA SelectedStep ==
  AutoValues /\ AutoFlags /\ Selected /\ [AutoNext]_autoVars => Selected'
<1> SUFFICES ASSUME AutoValues, AutoFlags, Selected, [AutoNext]_autoVars PROVE Selected'
  OBVIOUS
<1>1. PICK n \in Nat, i \in -2 .. MaxIndex, m \in Nat :
         n = Len(suggestions) /\ i = selectedIndex /\ m = MaxIndex
  BY AutocompleteAssumption DEF AutoValues, Selected
<1>2. InList(i, suggestions) \/ over
  BY <1>1 DEF Selected, SelectionInRange, InList
<1>3. Shown \in Nat /\ Shown <= n /\ Shown <= SuggestionLimit
  BY <1>1, AutocompleteAssumption DEF Shown
<1>4. -1 \in -2 .. m /\ Undefined \in -2 .. m /\ InList(-1, suggestions') /\ InList(Undefined, suggestions')
  BY <1>1 DEF InList, Undefined
<1> DEFINE Keeps == selectedIndex' = i /\ suggestions' = suggestions
           Loses == selectedIndex' = -1
           Moves_(k) == selectedIndex' = k /\ suggestions' = suggestions /\ k \in -2 .. m
                        /\ (InList(i, suggestions) => InList(k, suggestions))
<1>5. ASSUME Loses PROVE Selected'
  BY <1>1, <1>4, <1>5 DEF Selected, SelectionInRange, InList
<1>6. ASSUME NEW k \in Int, Moves_(k) PROVE Selected'
  <2>1. over => over'
    BY FlagsStep
  <2> QED
    BY <1>1, <1>2, <1>6, <2>1 DEF Selected, SelectionInRange, InList
<1>7. ASSUME Keeps PROVE Selected'
  <2>1. Moves_(i)
    BY <1>1, <1>7
  <2> HIDE DEF Moves_
  <2> QED
    BY <1>6, <2>1
<1> HIDE DEF Keeps, Loses, Moves_
<1>8. ASSUME NEW t, Type(t) PROVE Keeps
  BY <1>1, <1>8 DEF Type, list, Keeps
<1>9. CASE onKeyUp \/ Deferred
  <2>1. onValueChange => Loses
    BY DEF onValueChange, Loses
  <2>2. CASE onValueChange
    BY <1>5, <2>1, <2>2
  <2>3. CASE UNCHANGED list
    BY <1>1, <1>7, <2>3 DEF list, Keeps
  <2> QED
    BY <1>9, <2>2, <2>3 DEF onKeyUp, Deferred
<1>10. CASE Answer
  <2>1. selectedIndex' = i
    BY <1>1, <1>10 DEF Answer
  <2>2. CASE i = -1
    BY <1>5, <2>1, <2>2 DEF Loses
  <2>3. CASE i # -1
    <3>1. over' \/ suggestions' = suggestions
      BY <1>1, <1>10, <2>3 DEF Answer
    <3>2. CASE over'
      BY <1>1, <2>1, <3>2 DEF Selected, SelectionInRange
    <3> QED
      BY <1>7, <2>1, <3>1, <3>2 DEF Keeps
  <2> QED
    BY <2>2, <2>3
<1>11. CASE RequestFails \/ ShowAgain \/ onBlur \/ ClickElsewhere \/ Switch \/ clearCache \/ UNCHANGED autoVars
  <2>1. Keeps
    BY <1>1, <1>11 DEF RequestFails, ShowAgain, suggest, onBlur, ClickElsewhere, Switch, clearCache,
                       autoVars, list, Keeps
  <2> QED
    BY <1>7, <2>1
<1>12. CASE Escape \/ Enter \/ MouseOut \/ Kill \/ \E k : ClickLine(k)
  <2>1. Loses
    BY <1>12 DEF Escape, Enter, MouseOut, Kill, ClickLine, select, hide, Loses
  <2> QED
    BY <1>5, <2>1
<1>13. CASE moveUp
  <2>1. CASE i = 0
    <3>1. selectedIndex' = -1
      BY <1>1, <1>13, <2>1 DEF moveUp, Undefined
    <3> QED
      BY <1>5, <3>1 DEF Loses
  <2>2. CASE i # 0
    <3>1. PICK k \in Int : k = (IF i > 0 THEN i - 1 ELSE Undefined)
      BY DEF Undefined
    <3>2. selectedIndex' = k /\ suggestions' = suggestions
      <4>1. CASE i > 0
        BY <1>1, <1>13, <2>2, <3>1, <4>1 DEF moveUp, adjustScroll, Undefined
      <4>2. CASE ~(i > 0)
        BY <1>1, <1>13, <2>2, <3>1, <4>2 DEF moveUp, adjustScroll
      <4> QED
        BY <4>1, <4>2
    <3>3. k \in -2 .. m /\ (InList(i, suggestions) => InList(k, suggestions))
      BY <1>1, <2>2, <3>1 DEF InList, Undefined
    <3> QED
      BY <1>6, <3>2, <3>3 DEF Moves_
  <2> QED
    BY <2>1, <2>2
<1>14. CASE moveDown
  <2>1. PICK k \in Int : k = (IF i = Undefined THEN Undefined ELSE i + 1)
    BY DEF Undefined
  <2>2. selectedIndex' = k /\ suggestions' = suggestions /\ i # n - 1 /\ i < m
    BY <1>1, <1>14, <2>1 DEF moveDown, adjustScroll
  <2>3. k \in -2 .. m /\ (InList(i, suggestions) => InList(k, suggestions))
    BY <1>1, <2>1, <2>2 DEF InList, Undefined
  <2> QED
    BY <1>6, <2>2, <2>3 DEF Moves_
<1>15. ASSUME NEW k, MouseOver(k) PROVE Selected'
  <2>1. selectedIndex' = k /\ suggestions' = suggestions /\ k \in Lines
    BY <1>15 DEF MouseOver
  <2>2. k \in Int /\ k \in -2 .. m /\ InList(k, suggestions)
    BY <1>1, <1>3, <2>1, AutocompleteAssumption DEF Lines, InList, Undefined
  <2> QED
    BY <1>6, <2>1, <2>2 DEF Moves_
<1> QED
  BY <1>7, <1>8, <1>9, <1>10, <1>11, <1>12, <1>13, <1>14, <1>15 DEF AutoNext

\* A list stays the one for the current value, or waits for its own.
LEMMA FitsStep == AutoValues /\ ListFits /\ [AutoNext]_autoVars => ListFits'
<1> SUFFICES ASSUME AutoValues, ListFits, [AutoNext]_autoVars PROVE ListFits'
  OBVIOUS
<1> USE DEF ListFits, getQuery, list
<1>1. ASSUME NEW t, Type(t) PROVE ListFits'
  BY <1>1 DEF Type
<1>2. ASSUME onValueChange PROVE ListFits'
  BY <1>2 DEF onValueChange, getSuggestions, suggest
<1>3. CASE onKeyUp \/ Deferred
  BY <1>2, <1>3 DEF onKeyUp, Deferred
<1>4. CASE Answer \/ RequestFails
  BY <1>4 DEF Answer, RequestFails, suggest
<1>5. CASE ShowAgain \/ Escape \/ moveUp \/ moveDown \/ MouseOut
  BY <1>5 DEF ShowAgain, Escape, moveUp, moveDown, MouseOut, suggest, KeepOthers
<1>6. ASSUME NEW i, select(i), KeepOthers PROVE ListFits'
  BY <1>6 DEF select, KeepOthers
<1>7. CASE Enter
  BY <1>6, <1>7 DEF Enter, KeepOthers
<1>8. ASSUME NEW i, MouseOver(i) \/ ClickLine(i) PROVE ListFits'
  BY <1>6, <1>8 DEF MouseOver, ClickLine, KeepOthers
<1>9. CASE onBlur \/ ClickElsewhere \/ Kill \/ Switch \/ clearCache
  BY <1>9 DEF onBlur, ClickElsewhere, Kill, Switch, clearCache, KeepInput
<1>10. CASE UNCHANGED autoVars
  BY <1>10 DEF autoVars
<1> QED
  BY <1>1, <1>3, <1>4, <1>5, <1>7, <1>8, <1>9, <1>10 DEF AutoNext

\* Return never meets a selection that there is not, but after a late answer, and a quiet
\* list is the one for what is in the box, for any texts, lists and limit
\* (jquery.autocomplete.js:431, 584-587).
THEOREM SelectionAndListFit == AutoSpec => []AutoTypeOK
<1>1. AutoInit => AutoInv
  <2> SUFFICES ASSUME AutoInit PROVE AutoInv
    OBVIOUS
  <2>1. Selected
    BY AutocompleteAssumption DEF AutoInit, Selected, SelectionInRange
  <2> QED
    BY <2>1, QueryTypes DEF AutoInit, AutoInv, AutoValues, AutoFlags, ListFits
<1>2. AutoInv /\ [AutoNext]_autoVars => AutoInv'
  BY ValuesStep, FlagsStep, SelectedStep, FitsStep DEF AutoInv
<1> QED
  BY <1>1, <1>2, AutoInvTypes, PTL DEF AutoSpec

-----------------------------------------------------------------------------
(* The page of the traffic.                                                *)

\* There are tabs for the interfaces that answers have told of, and the cookie is the
\* tab that was clicked last, unless another window has set it.
TabsFollow ==
  /\ tabs = Told(speed_history)
  /\ ~htmReady => tabs = {}
  /\ clicked # NoDevice => clicked \in tabs /\ tabCookie = clicked

ViewInv == ViewTypeOK /\ TabsFollow /\ ShowsOne

LEMMA NowhereIsPicture == Nowhere \in Picture /\ Nowhere.of = NoDevice
BY ViewAssumption DEF Nowhere, Picture, ViewAssumption

\* A history of pictures that can be shown.
LEMMA ShowTabPicture ==
  ASSUME NEW h \in [Device -> 0 .. MaxAnswers], NEW i \in Device, NEW ready \in BOOLEAN,
         graph \in Picture, showTab(i, h, ready)
  PROVE  /\ ifname' = i /\ tabCookie' = i /\ active' = i
         /\ numbers' = [of |-> i, answers |-> h[i]] /\ numbers' \in Picture
         /\ graph' \in Picture /\ (ready => graph' = numbers')
BY DEF showTab, tabHigh, Picture

\* What initData leaves, for histories h that have not lost an interface.
LEMMA LoadDataShows ==
  ASSUME ViewInv, NEW h \in [Device -> 0 .. MaxAnswers], NEW ready \in BOOLEAN,
         tabs \subseteq Told(h), loadData(h, ready),
         speed_history' = h, svgReady' = ready, htmReady', clicked' = clicked,
         htmReady' \in BOOLEAN
  PROVE  ViewInv'
<1>1. tabs' = Told(h) /\ Told(h) \subseteq Device
  BY DEF loadData, tabCreate, Told
<1>2. ASSUME NEW i \in Told(h), showTab(i, h, ready), clicked # NoDevice => i = clicked
      PROVE  ViewInv'
  <2>1. /\ ifname' = i /\ tabCookie' = i /\ active' = i
        /\ numbers' = [of |-> i, answers |-> h[i]] /\ numbers' \in Picture
        /\ graph' \in Picture /\ (ready => graph' = numbers')
    BY <1>1, <1>2, ShowTabPicture DEF ViewInv, ViewTypeOK
  <2>2. ViewTypeOK'
    BY <1>1, <1>2, <2>1 DEF ViewInv, ViewTypeOK
  <2>3. TabsFollow'
    BY <1>1, <1>2, <2>1 DEF ViewInv, TabsFollow, Told
  <2>4. ShowsOne'
    BY <1>2, <2>1 DEF ShowsOne
  <2> QED
    BY <2>2, <2>3, <2>4 DEF ViewInv
<1>3. CASE tabCookie \in Told(h)
  BY <1>1, <1>2, <1>3 DEF loadData, ViewInv, TabsFollow
<1>4. CASE tabCookie \notin Told(h) /\ \E i \in Told(h) : showTab(i, h, ready)
  BY <1>2, <1>4 DEF ViewInv, TabsFollow
<1>5. CASE Told(h) = {} /\ UNCHANGED <<active, ifname, numbers, graph, tabCookie>>
  BY <1>1, <1>5 DEF ViewInv, ViewTypeOK, TabsFollow, ShowsOne, Told
<1> QED
  BY <1>3, <1>4, <1>5 DEF loadData

LEMMA ViewInvStep == ViewInv /\ [ViewNext]_viewVars => ViewInv'
<1> SUFFICES ASSUME ViewInv, [ViewNext]_viewVars PROVE ViewInv'
  OBVIOUS
<1> USE ViewAssumption DEF ViewAssumption
<1>1. CASE initCommon
  BY <1>1, LoadDataShows DEF initCommon, ViewInv, ViewTypeOK, TabsFollow
<1>2. CASE DrawingReady
  <2>1. CASE htmReady
    BY <1>2, <2>1, LoadDataShows DEF DrawingReady, ViewInv, ViewTypeOK, TabsFollow
  <2>2. CASE ~htmReady
    BY <1>2, <2>2 DEF DrawingReady, ViewInv, ViewTypeOK, TabsFollow, ShowsOne
  <2> QED
    BY <2>1, <2>2
<1>3. CASE reloadPage
  <2>1. ViewTypeOK'
    <3>1. [i \in Device |-> 0] \in [Device -> 0 .. MaxAnswers]
      OBVIOUS
    <3>2. tabCookie \in Device \cup {NoDevice}
      BY DEF ViewInv, ViewTypeOK
    <3> QED
      BY <1>3, <3>1, <3>2, NowhereIsPicture DEF reloadPage, ViewTypeOK
  <2> QED
    BY <1>3, <2>1 DEF reloadPage, ViewInv, TabsFollow, ShowsOne, Told
<1>4. ASSUME NEW S \in SUBSET Device, Answered(S) PROVE ViewInv'
  <2>1. speed_history' \in [Device -> 0 .. MaxAnswers]
    BY <1>4 DEF Answered, ViewInv, ViewTypeOK
  <2>2. tabs \subseteq Told(speed_history')
    BY <1>4 DEF Answered, ViewInv, ViewTypeOK, TabsFollow, Told
  <2> QED
    BY <1>4, <2>1, <2>2, LoadDataShows DEF Answered, ViewInv, ViewTypeOK
<1>5. ASSUME NEW i \in Device, tabSelect(i) PROVE ViewInv'
  <2>1. /\ ifname' = i /\ tabCookie' = i /\ active' = i
        /\ numbers' = [of |-> i, answers |-> speed_history[i]] /\ numbers' \in Picture
        /\ graph' \in Picture /\ (svgReady => graph' = numbers')
    BY <1>5, ShowTabPicture DEF tabSelect, ViewInv, ViewTypeOK
  <2> QED
    BY <1>5, <2>1 DEF tabSelect, ViewInv, ViewTypeOK, TabsFollow, ShowsOne
<1>6. ASSUME NEW i \in Device, OtherWindow(i) PROVE ViewInv'
  BY <1>6 DEF OtherWindow, ViewInv, ViewTypeOK, TabsFollow, ShowsOne
<1>7. CASE UNCHANGED viewVars
  BY <1>7 DEF viewVars, ViewInv, ViewTypeOK, TabsFollow, ShowsOne
<1> QED
  BY <1>1, <1>2, <1>3, <1>4, <1>5, <1>6, <1>7 DEF ViewNext

\* The page of the traffic displays one interface, the one that was clicked last, as
\* new as the last answer (traffic.js:369-446), for any number of interfaces.
THEOREM ViewShowsOne == ViewSpec => [](ViewTypeOK /\ ShowsOne)
<1>1. ViewInit => ViewInv
  <2> SUFFICES ASSUME NEW c \in Device \cup {NoDevice}, Loads(c) PROVE ViewInv
    BY DEF ViewInit
  <2>1. ViewTypeOK
    <3>1. [i \in Device |-> 0] \in [Device -> 0 .. MaxAnswers]
      BY ViewAssumption DEF ViewAssumption
    <3> QED
      BY <3>1, NowhereIsPicture DEF Loads, ViewTypeOK
  <2> QED
    BY <2>1 DEF Loads, ViewInv, TabsFollow, ShowsOne, Told
<1>2. ViewInv => ViewTypeOK /\ ShowsOne
  BY DEF ViewInv
<1> QED
  BY <1>1, <1>2, ViewInvStep, PTL DEF ViewSpec

-----------------------------------------------------------------------------
(* The list of networks.                                                   *)

\* The list is not displayed while it is made; and the select is at the mark, unless
\* keys have moved that.
DropInv ==
  /\ DropTypeOK
  /\ refreshing # "no" => ~displayed
  /\ displayed /\ ~moved => marked = selectedOf
  /\ DisplayedIsSubmitted

LEMMA NoEntries == <<>> \in Seq(Network) /\ Len(<<>>) = 0
OBVIOUS

LEMMA FillDisplays ==
  ASSUME DropInv, NEW bridge \in Network \cup {NoNetwork}, NEW found \in Lists,
         Fill(found, bridge)
  PROVE  DropInv'
<1> DEFINE at == {k \in 1 .. Len(found) : found[k] = bridge}
           mark == IF at = {} THEN 1 ELSE CHOOSE k \in at : TRUE
<1>1. found \in Seq(Network) /\ found # <<>>
  BY DropDownAssumption DEF DropDownAssumption, Fill
<1>2. mark \in 1 .. Len(found) /\ (at # {} => found[mark] = bridge)
  BY <1>1
<1>3. /\ entries' = found /\ marked' = mark /\ selectedOf' = mark /\ title' = found[mark]
      /\ inputs' = (IF at = {} THEN found[1] ELSE bridge)
      /\ displayed' = TRUE /\ refreshing' = "no" /\ moved' = FALSE
      /\ insideWindow' = TRUE /\ hovers' = FALSE /\ opened' = opened /\ keys' = keys
      /\ refreshing = "list"
  BY DEF Fill, createDropDown, createATags, createTitleDiv
<1> HIDE DEF mark
<1>4. ~opened /\ ~keys
  BY <1>3 DEF DropInv, DropTypeOK
<1>5. found[mark] \in Network /\ found[1] \in Network
  BY <1>1, <1>2
<1>6. DropTypeOK'
  <2>1. title' \in Network /\ inputs' \in Network \cup {NoNetwork}
    BY <1>3, <1>5 DEF DropInv, DropTypeOK
  <2>2. {opened', keys', insideWindow', hovers', displayed', moved'} \subseteq BOOLEAN
    <3>1. {opened', keys'} \subseteq BOOLEAN
      BY <1>3 DEF DropInv, DropTypeOK
    <3> QED
      BY <1>3, <3>1, Zenon
  <2> QED
    BY <1>1, <1>2, <1>3, <1>4, <2>1, <2>2 DEF DropTypeOK
<1>7. at # {} => bridge # NoNetwork
  BY <1>2, <1>5, DropDownAssumption DEF DropDownAssumption
<1>8. at = {} => mark = 1
  BY DEF mark
<1>9. DisplayedIsSubmitted'
  BY <1>2, <1>3, <1>7, <1>8 DEF DisplayedIsSubmitted
<1> QED
  BY <1>3, <1>6, <1>9 DEF DropInv

LEMMA DropInvStep == DropInv /\ [DropNext]_dropVars => DropInv'
<1> SUFFICES ASSUME DropInv, [DropNext]_dropVars PROVE DropInv'
  OBVIOUS
<1> USE DropDownAssumption DEF DropDownAssumption, DropInv, DropTypeOK, DisplayedIsSubmitted, choice, mouse
<1>1. CASE sta_reflash
  BY <1>1 DEF sta_reflash
<1>2. CASE Scanning
  BY <1>2 DEF Scanning
<1>3. ASSUME NEW b \in Network \cup {NoNetwork}, FillNothing(b) PROVE DropInv'
  <2>1. CASE entries' = <<>> /\ selectedOf' = 0 /\ marked' = 0
    BY <1>3, <2>1, NoEntries DEF FillNothing
  <2>2. CASE UNCHANGED <<choice, marked>>
    BY <1>3, <2>2 DEF FillNothing
  <2> QED
    BY <1>3, <2>1, <2>2 DEF FillNothing
<1>4. ASSUME NEW b \in Network \cup {NoNetwork}, NEW found \in Lists, Fill(found, b)
      PROVE  DropInv'
  BY <1>4, FillDisplays
<1>5. CASE ClickTitle
  BY <1>5 DEF ClickTitle, setInsideWindow
<1>6. CASE MouseEnters \/ MouseLeaves
  BY <1>6 DEF MouseEnters, MouseLeaves, setInsideWindow
<1>7. CASE ClickOutside
  BY <1>7 DEF ClickOutside, close
<1>8. ASSUME NEW k \in 1 .. Len(entries), moveTo(k) PROVE DropInv'
  BY <1>8 DEF moveTo, setTitleText
<1>9. CASE next \/ previous
  BY <1>8, <1>9 DEF next, previous, moveTo
<1>10. CASE Confirm
  BY <1>10 DEF Confirm, close, setValue
<1>11. ASSUME NEW k \in 1 .. Len(entries), Click(k) PROVE DropInv'
  <2>1. entries[k] \in Network
    BY <1>11
  <2>2. {opened', keys', insideWindow', hovers', displayed', moved'} \subseteq BOOLEAN
    <3>1. displayed' \in BOOLEAN
      BY <1>11 DEF Click
    <3>2. /\ opened' = FALSE /\ keys' = FALSE /\ insideWindow' = FALSE /\ hovers' = FALSE
          /\ moved' = FALSE
      BY <1>11 DEF Click, setInsideWindow, close
    <3> QED
      BY <3>1, <3>2, Zenon
  <2> QED
    BY <1>11, <2>1, <2>2 DEF Click, manageSelection, setTitleText, setInsideWindow, close, setValue
<1>12. CASE UNCHANGED dropVars
  BY <1>12 DEF dropVars
<1> QED
  BY <1>1, <1>2, <1>3, <1>4, <1>5, <1>6, <1>7, <1>9, <1>10, <1>11, <1>12 DEF DropNext

\* The network that the list displays is the one that is selected and submitted
\* (jquery.dd.js:159-176, net_setup.htm:963-1083), for any networks and scans, whatever the router is
\* bridged to.
THEOREM DropDisplaysSubmitted == DropSpec => [](DropTypeOK /\ DisplayedIsSubmitted)
<1>1. DropInit => DropInv
  <2> SUFFICES ASSUME DropInit PROVE DropInv
    OBVIOUS
  <2>1. {opened, keys, insideWindow, hovers, displayed, moved} \subseteq BOOLEAN
    BY Zenon DEF DropInit
  <2> QED
    BY <2>1, NoEntries DEF DropInit, DropInv, DropTypeOK, DisplayedIsSubmitted
<1>2. DropInv => DropTypeOK /\ DisplayedIsSubmitted
  BY DEF DropInv
<1> QED
  BY <1>1, <1>2, DropInvStep, PTL DEF DropSpec

-----------------------------------------------------------------------------
(* The form of the network on a telephone.                                 *)

\* By the parts of the form: the radios, their labels and the inputs of the address agree
\* in every box; and no radio is checked before a box is opened.
TabsOK ==
  /\ overridden \in BOOLEAN
  /\ is_wifi_brige \in {-1, 0, 1} /\ format_type \in {"", "sta", "pppoe"} \cup IpType
  /\ network_type \subseteq Boxes /\ value \in Boxes \cup {""} /\ box \in Boxes \cup {"loading"}
TabsAgree ==
  /\ box # "loading" /\ ~overridden => SubmittedType(network_type) = box
  /\ box = "loading" => network_type = {}
IpOK ==
  /\ ip_type \in IpType \cup {""} /\ ip_label = ip_type
  /\ table \in BOOLEAN /\ table = (ip_type = "static")
SpeedOK ==
  /\ hidden \in BOOLEAN /\ shows \in [Show -> BOOLEAN] /\ marks \in [Show -> BOOLEAN]
  /\ \A k \in Show : shows[k] = hidden /\ marks[k] = hidden
ScansOK == scans \in 0 .. MaxScans /\ reflash \in BOOLEAN
ListOK ==
  /\ ssid_list \in Seq(Ssid) /\ selected \in Ssid \cup {NoSsid}
  /\ button \in Ssid \cup {NoSsid} /\ ssid \in Ssid \cup {NoSsid} /\ unnamed \in BOOLEAN
  /\ ~unnamed => button = ssid /\ selected = ssid
TouchOK ==
  /\ touch \in {"up", "select", "moved", "picker"} /\ pressed \in BOOLEAN
  /\ touch \in {"up", "moved"} => ~pressed
RouterOK ==
  /\ router \in [bridged : BOOLEAN, ssid : Ssid \cup {NoSsid}]
  /\ pending \subseteq {"bridge", "wan"}

FormInv == RouterOK /\ TabsOK /\ TabsAgree /\ IpOK /\ SpeedOK /\ ScansOK /\ ListOK /\ TouchOK

\* The radio of a type that comes before all others that are checked is sent.
LEMMA NetworkTypes ==
  /\ DOMAIN NetworkType = 1 .. 3
  /\ NetworkType[1] = "pppoe" /\ NetworkType[2] = "ip" /\ NetworkType[3] = "sta"
BY DEF NetworkType

LEMMA FirstIsSubmitted ==
  ASSUME NEW radios, NEW k \in 1 .. 3, NetworkType[k] \in radios,
         \A j \in 1 .. k - 1 : NetworkType[j] \notin radios
  PROVE  SubmittedType(radios) = NetworkType[k]
<1> DEFINE F(i) == /\ NetworkType[i] \in radios
                   /\ \A j \in 1 .. i - 1 : NetworkType[j] \notin radios
<1>1. F(k) /\ \A i \in 1 .. 3 : F(i) => i = k
  <2> SUFFICES ASSUME NEW i \in 1 .. 3, F(i), i # k PROVE FALSE
    OBVIOUS
  <2>1. CASE i < k
    <3>1. i \in 1 .. k - 1
      BY <2>1
    <3> QED
      BY <3>1
  <2>2. CASE k < i
    <3>1. k \in 1 .. i - 1
      BY <2>2
    <3> QED
      BY <3>1
  <2> QED
    BY <2>1, <2>2
<1>2. (CHOOSE i \in 1 .. 3 : F(i)) = k
  BY <1>1
<1> QED
  BY <1>2, NetworkTypes DEF SubmittedType

LEMMA OnlyIsSubmitted ==
  ASSUME NEW t \in Boxes
  PROVE  SubmittedType({t}) = t
<1>1. PICK k \in 1 .. 3 : NetworkType[k] = t /\ \A j \in 1 .. k - 1 : NetworkType[j] # t
  BY NetworkTypes DEF Boxes
<1> QED
  BY <1>1, FirstIsSubmitted

LEMMA PppoeIsSubmitted == ASSUME NEW radios, "pppoe" \in radios PROVE SubmittedType(radios) = "pppoe"
<1>1. \A j \in 1 .. 1 - 1 : NetworkType[j] \notin radios
  OBVIOUS
<1> QED
  BY <1>1, FirstIsSubmitted, NetworkTypes

LEMMA IpIsSubmitted ==
  ASSUME NEW radios, "ip" \in radios, "pppoe" \notin radios
  PROVE  SubmittedType(radios) = "ip"
<1>1. \A j \in 1 .. 2 - 1 : NetworkType[j] \notin radios
  BY NetworkTypes
<1> QED
  BY <1>1, FirstIsSubmitted, NetworkTypes

LEMMA FormNumbers == MaxScans \in Nat \ {0} /\ FormLists \subseteq Seq(Ssid)
BY FormAssumption DEF FormAssumption

\* The scans on their way.
LEMMA ScanStarts == ASSUME ScansOK, wifi_ctl_scan PROVE ScansOK'
<1>1. scans' \in 0 .. MaxScans
  BY FormNumbers DEF ScansOK, wifi_ctl_scan
<1>2. reflash' \in BOOLEAN
  BY Zenon DEF wifi_ctl_scan
<1> QED
  BY <1>1, <1>2, Zenon DEF ScansOK

LEMMA ScanEnds ==
  ASSUME ScansOK, scans > 0, scans' = scans - 1, reflash' \in {reflash, TRUE}
  PROVE  ScansOK'
<1>1. scans' \in 0 .. MaxScans
  BY FormNumbers DEF ScansOK
<1>2. reflash' \in BOOLEAN
  BY Zenon DEF ScansOK
<1> QED
  BY <1>1, <1>2, Zenon DEF ScansOK

LEMMA MembershipIsBoolean ==
  ASSUME NEW S, NEW e, NEW x, x = (e \in S)
  PROVE  x \in BOOLEAN
OBVIOUS

\* What an answer opens.
LEMMA AutoExpandOpens ==
  ASSUME TabsOK, TabsAgree, IpOK, ScansOK,
         NEW b \in {-1, 0, 1}, NEW f \in {"", "sta", "pppoe"} \cup IpType, autoExpand(b, f)
  PROVE  TabsOK' /\ TabsAgree' /\ IpOK' /\ ScansOK'
<1>b. is_wifi_brige' \in {-1, 0, 1} /\ format_type' \in {"", "sta", "pppoe"} \cup IpType
  BY DEF autoExpand
<1>1. CASE UNCHANGED <<network_type, value, box, scans, reflash, ipVars, overridden>>
  BY <1>1, <1>b DEF TabsOK, TabsAgree, IpOK, ScansOK, ipVars
<1>2. CASE /\ b = 0 /\ f \in IpType
           /\ network_type' = network_type \cup {"ip"} /\ value' = "ip"
           /\ swich_box("ip") /\ ipt_type_switch(f) /\ ip_label' = f
           /\ overridden' = ("pppoe" \in network_type)
  <2>1. box' = "ip" /\ UNCHANGED <<scans, reflash>>
    BY <1>2 DEF swich_box
  <2>2. ~overridden' => "pppoe" \notin network_type'
    BY <1>2
  <2>3. ~overridden' => SubmittedType(network_type') = "ip"
    BY <1>2, <2>2, IpIsSubmitted
  <2>4. TabsOK'
    <3>1. overridden' \in BOOLEAN
      BY <1>2, MembershipIsBoolean
    <3> QED
      BY <1>2, <1>b, <2>1, <3>1 DEF TabsOK, Boxes
  <2>5. TabsAgree'
    BY <2>1, <2>3 DEF TabsAgree
  <2> QED
    BY <1>2, <2>1, <2>4, <2>5 DEF IpOK, ScansOK, IpType, ipt_type_switch
<1>3. CASE /\ b = 0 /\ f = "pppoe"
           /\ network_type' = network_type \cup {"pppoe"} /\ value' = "pppoe"
           /\ swich_box("pppoe")
           /\ ip_label' = ip_type
           /\ overridden' = FALSE
           /\ UNCHANGED <<ip_type, table>>
  <2>1. box' = "pppoe" /\ UNCHANGED <<scans, reflash>>
    BY <1>3 DEF swich_box
  <2>2. SubmittedType(network_type') = "pppoe"
    BY <1>3, PppoeIsSubmitted
  <2>3. TabsOK' /\ TabsAgree'
    BY <1>3, <1>b, <2>1, <2>2 DEF TabsOK, TabsAgree, Boxes
  <2> QED
    BY <1>3, <2>1, <2>3 DEF IpOK, ScansOK
<1>4. CASE /\ b = 1 /\ f # ""
           /\ network_type' = {"sta"} /\ value' = "sta"
           /\ swich_box("sta")
           /\ overridden' = FALSE
           /\ UNCHANGED ipVars
  <2>1. box' = "sta" /\ ScansOK'
    BY <1>4, ScanStarts DEF swich_box
  <2>2. SubmittedType(network_type') = "sta"
    BY <1>4, OnlyIsSubmitted DEF Boxes
  <2>3. TabsOK' /\ TabsAgree'
    BY <1>4, <1>b, <2>1, <2>2 DEF TabsOK, TabsAgree, Boxes
  <2> QED
    BY <1>4, <2>1, <2>3 DEF IpOK, ipVars
<1> QED
  BY <1>1, <1>2, <1>3, <1>4 DEF autoExpand

LEMMA FormInvStep == FormInv /\ [FormNext]_formVars => FormInv'
<1> SUFFICES ASSUME FormInv, [FormNext]_formVars PROVE FormInv'
  OBVIOUS
<1>a. RouterOK /\ TabsOK /\ TabsAgree /\ IpOK /\ SpeedOK /\ ScansOK /\ ListOK /\ TouchOK
  BY DEF FormInv
\* A part that a step leaves alone stays as it should be.
<1>b. UNCHANGED tabVars => TabsOK' /\ TabsAgree'
  <2>1. UNCHANGED tabVars => TabsOK'
    BY <1>a DEF tabVars, TabsOK
  <2>2. UNCHANGED tabVars => TabsAgree'
    BY <1>a DEF tabVars, TabsAgree
  <2> QED
    BY <2>1, <2>2
<1>c. UNCHANGED ipVars => IpOK'
  BY <1>a DEF ipVars, IpOK
<1>d. UNCHANGED speedVars => SpeedOK'
  BY <1>a DEF speedVars, SpeedOK
<1>e. UNCHANGED listVars => ListOK'
  BY <1>a DEF listVars, ListOK
<1>f. UNCHANGED touchVars => TouchOK'
  BY <1>a DEF touchVars, TouchOK
<1>g. UNCHANGED <<scans, reflash>> => ScansOK'
  BY <1>a DEF ScansOK
<1>h. UNCHANGED router /\ pending' \subseteq pending => RouterOK'
  BY <1>a DEF RouterOK
<1>1. CASE BridgeAnswer
  <2>1. PICK b \in {-1, 0, 1}, f \in {"", "sta", "pppoe"} \cup IpType : autoExpand(b, f)
    BY <1>1, <1>a DEF BridgeAnswer, TabsOK
  <2>2. TabsOK' /\ TabsAgree' /\ IpOK' /\ ScansOK'
    BY <1>a, <2>1, AutoExpandOpens
  <2> QED
    BY <1>1, <1>d, <1>e, <1>f, <1>h, <2>2 DEF BridgeAnswer, FormInv
<1>2. ASSUME NEW t \in {"pppoe"} \cup IpType, NEW fast \in BOOLEAN, WanAnswer(t, fast)
      PROVE  FormInv'
  <2>1. autoExpand(is_wifi_brige, t) /\ is_wifi_brige \in {-1, 0, 1}
    BY <1>2, <1>a DEF WanAnswer, TabsOK
  <2>2. TabsOK' /\ TabsAgree' /\ IpOK' /\ ScansOK'
    BY <1>a, <2>1, AutoExpandOpens
  <2>3. SpeedOK'
    BY <1>2 DEF WanAnswer, SpeedOK
  <2> QED
    BY <1>2, <1>e, <1>f, <1>h, <2>2, <2>3 DEF WanAnswer, FormInv
<1>3. ASSUME NEW t \in Boxes, ClickTab(t) PROVE FormInv'
  <2>1. box' = t /\ ScansOK'
    BY <1>3, <1>a, <1>g, ScanStarts DEF ClickTab, swich_box
  <2>2. SubmittedType(network_type') = t
    BY <1>3, OnlyIsSubmitted DEF ClickTab
  <2>3. TabsOK' /\ TabsAgree'
    BY <1>3, <1>a, <2>1, <2>2 DEF ClickTab, TabsOK, TabsAgree, Boxes
  <2>4. IpOK'
    BY <1>3, <1>a DEF ClickTab, IpOK, IpType
  <2> QED
    BY <1>3, <1>d, <1>e, <1>f, <1>h, <2>1, <2>3, <2>4 DEF ClickTab, FormInv
<1>4. ASSUME NEW t \in IpType, ClickIpType(t) PROVE FormInv'
  <2>1. IpOK'
    BY <1>4 DEF ClickIpType, ipt_type_switch, IpOK
  <2> QED
    BY <1>4, <1>b, <1>d, <1>e, <1>f, <1>g, <1>h, <2>1 DEF ClickIpType, FormInv
<1>5. ASSUME NEW k \in Show, ClickSpeed(k) PROVE FormInv'
  <2>1. SpeedOK'
    BY <1>5, <1>a DEF ClickSpeed, SpeedOK
  <2> QED
    BY <1>5, <1>b, <1>c, <1>e, <1>f, <1>g, <1>h, <2>1 DEF ClickSpeed, FormInv
<1>6. CASE Rescan \/ ScanFails
  <2>1. ScansOK'
    BY <1>6, <1>a, ScanStarts, ScanEnds DEF Rescan, ScanFails, ScansOK
  <2> QED
    BY <1>6, <1>b, <1>c, <1>d, <1>e, <1>f, <1>h, <2>1 DEF Rescan, ScanFails, FormInv
<1>7. CASE NoList
  <2>1. ScansOK'
    BY <1>7, <1>a, ScanEnds DEF NoList
  <2>2. ListOK'
    BY <1>7, <1>a DEF NoList, ListOK, RouterOK
  <2> QED
    BY <1>7, <1>b, <1>c, <1>d, <1>f, <1>h, <2>1, <2>2 DEF NoList, FormInv
<1>8. ASSUME NEW l \in FormLists, fill_select(l) PROVE FormInv'
  <2>1. l \in Seq(Ssid) /\ (l # <<>> => Head(l) \in Ssid)
    BY FormNumbers
  <2>2. ListOK'
    BY <1>8, <1>a, <2>1 DEF fill_select, ListOK, RouterOK
  <2>3. ScansOK'
    BY <1>8, <1>a, ScanEnds DEF fill_select
  <2> QED
    BY <1>8, <1>b, <1>c, <1>d, <1>f, <1>h, <2>2, <2>3 DEF fill_select, FormInv
<1>9. CASE Press \/ Move \/ LetGo \/ Blur
  <2>1. TouchOK'
    <3>1. CASE Press
      BY <1>a, <3>1 DEF Press, TouchOK
    <3>2. CASE Move
      BY <1>a, <3>2 DEF Move, TouchOK
    <3>3. CASE LetGo
      BY <1>a, <3>3 DEF LetGo, TouchOK
    <3>4. CASE Blur
      BY <1>a, <3>4 DEF Blur, TouchOK
    <3> QED
      BY <1>9, <3>1, <3>2, <3>3, <3>4
  <2> QED
    BY <1>9, <1>b, <1>c, <1>d, <1>e, <1>g, <1>h, <2>1 DEF Press, Move, LetGo, Blur, FormInv
<1>10. ASSUME NEW s \in Ssid, Choose(s) PROVE FormInv'
  <2>1. ListOK' /\ TouchOK'
    BY <1>10, <1>a DEF Choose, ListOK, TouchOK
  <2> QED
    BY <1>10, <1>b, <1>c, <1>d, <1>g, <1>h, <2>1 DEF Choose, FormInv
<1>11. CASE UNCHANGED formVars
  BY <1>11, <1>b, <1>c, <1>d, <1>e, <1>f, <1>g, <1>h DEF formVars, FormInv
<1> QED
  BY <1>1, <1>2, <1>3, <1>4, <1>5, <1>6, <1>7, <1>8, <1>9, <1>10, <1>11 DEF FormNext

LEMMA FormInvTypes == FormInv => FormTypeOK
<1> SUFFICES ASSUME FormInv PROVE FormTypeOK
  OBVIOUS
<1>1. RouterOK /\ TabsOK /\ IpOK /\ SpeedOK /\ ScansOK /\ ListOK /\ TouchOK
  BY DEF FormInv
<1>2. ip_type \in IpType \cup {""} /\ ip_label \in IpType \cup {""} /\ table \in BOOLEAN
  BY <1>1 DEF IpOK
<1>3. /\ touch \in {"up", "select", "moved", "picker"} /\ pressed \in BOOLEAN
      /\ touch = "up" => ~pressed
  BY <1>1 DEF TouchOK
<1>4. hidden \in BOOLEAN /\ shows \in [Show -> BOOLEAN] /\ marks \in [Show -> BOOLEAN]
  BY <1>1 DEF SpeedOK
<1> QED
  BY <1>1, <1>2, <1>3, <1>4, Zenon DEF FormTypeOK, RouterOK, TabsOK, ScansOK, ListOK

\* What the form of a telephone sends is what it displays (net_setup.htm,
\* jquery.mobile-1.1.0.js), for any networks, in any order of answers, scans and clicks.
THEOREM FormSubmitsDisplayed == FormSpec => [](FormTypeOK /\ FormIsSubmitted)
<1>1. FormInit => FormInv
  <2> SUFFICES ASSUME FormInit PROVE FormInv
    OBVIOUS
  <2>1. RouterOK /\ TabsOK /\ TabsAgree /\ IpOK /\ TouchOK
    BY DEF FormInit, FormLoaded, RouterOK, TabsOK, TabsAgree, IpOK, TouchOK
  <2>2. SpeedOK
    BY DEF FormInit, FormLoaded, SpeedOK
  <2>3. scans \in 0 .. MaxScans /\ ssid_list \in Seq(Ssid)
    <3>1. <<>> \in Seq(Ssid) /\ 0 \in 0 .. MaxScans
      BY FormNumbers
    <3> QED
      BY <3>1 DEF FormInit, FormLoaded
  <2>4. ScansOK
    BY <2>3, Zenon DEF FormInit, FormLoaded, ScansOK
  <2>5. ListOK
    BY <2>3, Zenon DEF FormInit, FormLoaded, ListOK
  <2> QED
    BY <2>1, <2>2, <2>4, <2>5 DEF FormInv
<1>2. FormInv => FormIsSubmitted
  BY DEF FormInv, FormIsSubmitted, TabsAgree, IpOK, SpeedOK, ListOK
<1> QED
  BY <1>1, <1>2, FormInvStep, FormInvTypes, PTL DEF FormSpec

-----------------------------------------------------------------------------
(* The touches: the look of the buttons.                                   *)

\* What looks pressed, or will when a timer is over, is touched or will stay so; and the
\* one timer of a touch is the one that its end clears.
HoverOK ==
  /\ finger \in Element \cup {Nothing} /\ hov \in Element \cup {Nothing}
  /\ hover \in [Element -> 0 .. MaxClicks] /\ stuck \subseteq Element
  /\ down \subseteq Element /\ down \subseteq {finger} \cup stuck
  /\ \A e \in Element : hover[e] > 0 => e \in {finger} \cup stuck
  /\ finger # Nothing /\ finger \notin stuck =>
       hover[finger] = 0 \/ (hover[finger] = 1 /\ hov = finger)
  /\ hov # Nothing => hover[hov] > 0

LEMMA MouseConstants == MaxClicks \in Nat /\ Nothing \notin Element
BY MouseAssumption DEF MouseAssumption

\* The timer that is cleared is gone.
LEMMA VmouseoutClears ==
  ASSUME HoverOK, NEW e \in Element, vmouseout(e)
  PROVE  /\ hover' \in [Element -> 0 .. MaxClicks] /\ hov' = Nothing /\ down' = down \ {e}
         /\ \A f \in Element : hover'[f] = IF f = hov THEN hover[f] - 1 ELSE hover[f]
BY MouseConstants DEF HoverOK, vmouseout

LEMMA HoverOKStep == HoverOK /\ [MouseNext]_mouseVars => HoverOK'
<1> SUFFICES ASSUME HoverOK, [MouseNext]_mouseVars PROVE HoverOK'
  OBVIOUS
<1> USE MouseConstants
<1>1. ASSUME NEW e \in Element, TouchStart(e) PROVE HoverOK'
  <2>1. /\ hover' = [hover EXCEPT ![e] = @ + 1] /\ hover[e] < MaxClicks /\ hov' = e
        /\ finger = Nothing /\ finger' = e /\ stuck' = stuck \cup ({hov} \ {Nothing})
        /\ down' = down
    BY <1>1 DEF TouchStart, vmousedown
  <2>2. /\ hover' \in [Element -> 0 .. MaxClicks] /\ hover'[e] = hover[e] + 1
        /\ \A f \in Element \ {e} : hover'[f] = hover[f]
    BY <2>1 DEF HoverOK
  <2>3. e \notin stuck' => hover'[e] = 1
    BY <2>1, <2>2 DEF HoverOK
  <2>4. \A f \in Element : hover'[f] > 0 => f \in {finger'} \cup stuck'
    BY <2>1, <2>2 DEF HoverOK
  <2>5. /\ finger' \in Element /\ hov' = finger' /\ stuck' \subseteq Element
        /\ down' \subseteq Element /\ down' \subseteq {finger'} \cup stuck' /\ hover'[hov'] > 0
    <3>1. hover[e] \in 0 .. MaxClicks
      BY DEF HoverOK
    <3>2. hover'[hov'] > 0
      BY <2>1, <2>2, <3>1
    <3> QED
      BY <2>1, <3>2 DEF HoverOK
  <2>6. finger' \notin stuck' => hover'[finger'] = 1 /\ hov' = finger'
    BY <2>1, <2>3
  <2> QED
    BY <2>2, <2>4, <2>5, <2>6 DEF HoverOK
<1>2. ASSUME NEW e \in Element, NativeClick(e) PROVE HoverOK'
  <2>1. CASE makesVclick(e)
    <3>1. /\ hover' = [hover EXCEPT ![e] = @ + 1] /\ hover[e] < MaxClicks /\ hov' = e
          /\ finger' = finger /\ stuck' = stuck \cup ({e, hov} \ {Nothing})
          /\ down' = down \ {e}
      BY <1>2, <2>1 DEF NativeClick, vmousedown
    <3> QED
      BY <3>1 DEF HoverOK
  <2>2. CASE ~makesVclick(e)
    BY <1>2, <2>2 DEF NativeClick, press, HoverOK
  <2> QED
    BY <2>1, <2>2
<1>3. ASSUME NEW e \in Element, HoverOver(e) PROVE HoverOK'
  BY <1>3 DEF HoverOver, HoverOK
<1>4. ASSUME NEW far \in BOOLEAN, TouchMove(far) PROVE HoverOK'
  <2>1. finger # Nothing /\ UNCHANGED <<finger, stuck>>
    BY <1>4 DEF TouchMove, Moves
  <2>2. CASE vmouseout(finger)
    BY <2>1, <2>2, VmouseoutClears DEF HoverOK
  <2>3. CASE down' \subseteq down /\ UNCHANGED <<hover, hov>>
    BY <2>1, <2>3 DEF HoverOK
  <2> QED
    BY <1>4, <2>2, <2>3 DEF TouchMove
<1>5. ASSUME NEW sends \in BOOLEAN, Lift(sends) PROVE HoverOK'
  <2>1. finger # Nothing /\ finger' = Nothing
    BY <1>5 DEF Lift, TouchEnd, TouchEndIgnored
  <2>2. CASE TouchEnd
    <3>1. vmouseout(finger) /\ finger \in Element
      BY <2>1, <2>2 DEF TouchEnd, HoverOK
    <3>2. stuck' = IF hover'[finger] = 0 THEN stuck \ {finger} ELSE stuck
      BY <2>2 DEF TouchEnd
    <3> QED
      BY <2>1, <3>1, <3>2, VmouseoutClears DEF HoverOK
  <2>3. CASE TouchEndIgnored
    BY <2>1, <2>3 DEF TouchEndIgnored, HoverOK
  <2> QED
    BY <1>5, <2>2, <2>3 DEF Lift
<1>6. CASE Scroll \/ ScrollStop \/ Reset
  BY <1>6 DEF Scroll, Moves, ScrollStop, Reset, press, HoverOK
<1>7. CASE UNCHANGED mouseVars
  BY <1>7 DEF mouseVars, press, HoverOK
<1> QED
  BY <1>1, <1>2, <1>3, <1>4, <1>5, <1>6, <1>7 DEF MouseNext

LEMMA HoverInit == MouseInit => HoverOK
BY MouseConstants DEF MouseInit, HoverOK

\* Nothing looks pressed but what is touched (jquery.mobile-1.1.0.js:294, 4387), for any
\* number of timers and clicks.
THEOREM ButtonsAreReleased == MouseSpec => []ButtonsRelease
<1>1. MouseInit => HoverOK
  BY HoverInit
<1>2. HoverOK => ButtonsRelease
  BY DEF HoverOK, ButtonsRelease
<1> QED
  BY <1>1, <1>2, HoverOKStep, PTL DEF MouseSpec

-----------------------------------------------------------------------------
(* The touches: the clicks after them.                                     *)

Quiet == blockedAt = {} /\ blockedId = {}

\* Of the clicks that are in time: one of a touch that was a vclick is blocked if it is
\* for the label; one of a touch that the reset has ended is alone, and nothing blocks
\* it, for the touch found nothing to wait for.
ClicksOK ==
  /\ finger \in Element \cup {Nothing}
  /\ clicks \in Seq([at : Element, done : BOOLEAN])
  /\ ~late =>
       /\ \A k \in 1 .. Len(clicks) :
            /\ clicks[k].done /\ clicks[k].at = Label => Label \in blockedAt
            /\ ~clicks[k].done => Len(clicks) = 1 /\ finger = Nothing /\ Quiet
       /\ finger # Nothing /\ blockTouch => clicks = <<>> /\ Quiet

\* A touch that ends while it counts.
LEMMA TouchEndBlocks ==
  ASSUME ClicksOK, NEW sends \in BOOLEAN, Lift(sends), TouchEnd
  PROVE  ClicksOK'
<1>1. /\ finger # Nothing /\ finger' = Nothing /\ ~blockTouch /\ late' = late
      /\ (sends => ~didScroll)
      /\ clicks' = IF sends THEN Append(clicks, [at |-> finger, done |-> ~blockTouch]) ELSE clicks
  BY DEF Lift, TouchEnd
<1>2. blockedAt \subseteq blockedAt' /\ (~didScroll /\ finger = Label => Label \in blockedAt')
  BY DEF TouchEnd
<1>3. CASE ~sends
  BY <1>1, <1>2, <1>3, MouseConstants DEF ClicksOK
<1>4. CASE sends
  <2> DEFINE c == [at |-> finger, done |-> TRUE]
  <2>1. c \in [at : Element, done : BOOLEAN] /\ c.done /\ c.at = finger
    BY <1>1 DEF ClicksOK
  <2>2. clicks' = Append(clicks, c)
    BY <1>1, <1>4
  <2>3. /\ clicks' \in Seq([at : Element, done : BOOLEAN]) /\ Len(clicks') = Len(clicks) + 1
        /\ \A k \in 1 .. Len(clicks) : clicks'[k] = clicks[k]
        /\ clicks'[Len(clicks) + 1] = c
    BY <2>1, <2>2, AppendElements DEF ClicksOK
  <2>4. ASSUME ~late, NEW k \in 1 .. Len(clicks')
        PROVE  clicks'[k].done /\ (clicks'[k].at = Label => Label \in blockedAt')
    <3>1. CASE k \in 1 .. Len(clicks)
      BY <1>1, <1>2, <2>3, <2>4, <3>1 DEF ClicksOK
    <3>2. CASE k = Len(clicks) + 1
      BY <1>1, <1>2, <1>4, <2>1, <2>3, <3>2
    <3> QED
      BY <2>3, <3>1, <3>2 DEF ClicksOK
  <2> QED
    BY <1>1, <2>3, <2>4 DEF ClicksOK
<1> QED
  BY <1>3, <1>4

\* No click is left to a touch that was one.
LEMMA TouchEndSent ==
  ASSUME ClicksOK, NEW sends \in BOOLEAN, Lift(sends), TouchEnd, ~late,
         NEW k \in 1 .. Len(clicks')
  PROVE  clicks'[k].done
<1>1. /\ finger \in Element /\ finger # Nothing /\ ~blockTouch
      /\ clicks' = IF sends THEN Append(clicks, [at |-> finger, done |-> ~blockTouch]) ELSE clicks
  BY MouseConstants DEF Lift, TouchEnd, ClicksOK
<1> DEFINE c == [at |-> finger, done |-> TRUE]
<1>2. c \in [at : Element, done : BOOLEAN] /\ c.done
  BY <1>1
<1>3. CASE clicks' = Append(clicks, c)
  BY <1>1, <1>2, <1>3, AppendElements DEF ClicksOK
<1> QED
  BY <1>1, <1>3 DEF ClicksOK

\* A touch that ends after the reset.
LEMMA TouchEndIgnoredOwes ==
  ASSUME ClicksOK, NEW sends \in BOOLEAN, Lift(sends), TouchEndIgnored
  PROVE  /\ ClicksOK'
         /\ ~late => IF sends THEN /\ clicks' # <<>> /\ ~Head(clicks').done
                                  /\ Head(clicks').at = finger
                     ELSE clicks' = <<>>
<1>1. /\ finger \in Element /\ finger' = Nothing /\ blockTouch /\ late' = late
      /\ clicks' = IF sends THEN Append(clicks, [at |-> finger, done |-> ~blockTouch]) ELSE clicks
      /\ UNCHANGED <<blockTouch, blockedAt, blockedId>>
  BY DEF Lift, TouchEndIgnored, ClicksOK, block
<1>2. ~late => clicks = <<>> /\ Quiet /\ Quiet'
  BY <1>1, MouseConstants DEF ClicksOK, Quiet
<1>3. CASE ~sends
  BY <1>1, <1>2, <1>3, MouseConstants DEF ClicksOK, Quiet
<1>4. CASE sends
  <2> DEFINE c == [at |-> finger, done |-> FALSE]
  <2>1. c \in [at : Element, done : BOOLEAN] /\ ~c.done /\ c.at = finger
    BY <1>1
  <2>2. clicks' = Append(clicks, c)
    BY <1>1, <1>4
  <2>3. /\ clicks' \in Seq([at : Element, done : BOOLEAN]) /\ Len(clicks') = Len(clicks) + 1
        /\ clicks'[Len(clicks) + 1] = c
    BY <2>1, <2>2, AppendElements DEF ClicksOK
  <2>4. ~late => Len(clicks') = 1 /\ clicks'[1] = c /\ Head(clicks') = c /\ clicks' # <<>>
    <3>1. ~late => Len(clicks) = 0
      BY <1>2
    <3>2. ~late => Len(clicks') = 1 /\ clicks'[1] = c
      BY <2>3, <3>1
    <3>3. clicks' # <<>>
      BY <2>2, <2>3
    <3>4. Head(clicks') = clicks'[1]
      BY <2>3, <3>3, TailElements
    <3> QED
      BY <3>2, <3>3, <3>4
  <2> QED
    BY <1>1, <1>2, <2>1, <2>3, <2>4 DEF ClicksOK
<1> QED
  BY <1>3, <1>4

LEMMA ClicksOKStep == ClicksOK /\ [MouseNext]_mouseVars => ClicksOK'
<1> SUFFICES ASSUME ClicksOK, [MouseNext]_mouseVars PROVE ClicksOK'
  OBVIOUS
<1>1. ASSUME NEW e \in Element, TouchStart(e) PROVE ClicksOK'
  <2>1. /\ finger' = e /\ clicks' = clicks /\ blockedAt' = blockedAt /\ ~blockTouch'
        /\ ~late' => ~late /\ \A k \in DOMAIN clicks : clicks[k].done
    BY <1>1 DEF TouchStart
  <2> QED
    BY <2>1 DEF ClicksOK
<1>2. ASSUME NEW e \in Element, NativeClick(e) PROVE ClicksOK'
  <2>1. /\ clicks # <<>> /\ clicks' = Tail(clicks)
        /\ UNCHANGED <<finger, blockTouch, blockedAt, blockedId, late>>
    BY <1>2 DEF NativeClick, block
  <2>2. /\ clicks' \in Seq([at : Element, done : BOOLEAN]) /\ Len(clicks') = Len(clicks) - 1
        /\ \A k \in 1 .. Len(clicks) - 1 : clicks'[k] = clicks[k + 1]
        /\ Len(clicks) \in Nat \ {0}
    BY <2>1, TailElements DEF ClicksOK
  <2>3. ~late => ~(finger # Nothing /\ blockTouch)
    BY <2>1 DEF ClicksOK
  <2>4. ASSUME ~late, NEW k \in 1 .. Len(clicks')
        PROVE  clicks'[k].done /\ (clicks'[k].at = Label => Label \in blockedAt)
    <3>1. k + 1 \in 1 .. Len(clicks) /\ Len(clicks) # 1 /\ clicks'[k] = clicks[k + 1]
      BY <2>2
    <3> QED
      BY <2>4, <3>1 DEF ClicksOK
  <2> QED
    BY <2>1, <2>2, <2>3, <2>4 DEF ClicksOK
<1>3. ASSUME NEW e \in Element, HoverOver(e) PROVE ClicksOK'
  BY <1>3 DEF HoverOver, block, ClicksOK, Quiet
<1>4. ASSUME NEW far \in BOOLEAN, TouchMove(far) PROVE ClicksOK'
  BY <1>4 DEF TouchMove, Moves, block, ClicksOK, Quiet
<1>5. ASSUME NEW sends \in BOOLEAN, Lift(sends) PROVE ClicksOK'
  BY <1>5, TouchEndBlocks, TouchEndIgnoredOwes DEF Lift
<1>6. CASE Reset
  <2>1. /\ UNCHANGED <<finger, clicks>> /\ Quiet'
        /\ ~late' => ~late /\ \A k \in DOMAIN clicks : ~clicks[k].done
    BY <1>6 DEF Reset, Quiet
  <2>2. ~late' => \A k \in 1 .. Len(clicks) : Len(clicks) = 1 /\ finger = Nothing
    BY <2>1 DEF ClicksOK
  <2>3. ~late' /\ finger # Nothing => clicks = <<>>
    BY <2>2 DEF ClicksOK
  <2> QED
    BY <2>1, <2>2, <2>3 DEF ClicksOK
<1>7. CASE Scroll \/ ScrollStop
  BY <1>7 DEF Scroll, Moves, ScrollStop, block, ClicksOK, Quiet
<1>8. CASE UNCHANGED mouseVars
  BY <1>8 DEF mouseVars, block, ClicksOK, Quiet
<1> QED
  BY <1>1, <1>2, <1>3, <1>4, <1>5, <1>6, <1>7, <1>8 DEF MouseNext

\* The click that is to come is the one that has still to toggle the checkbox.
Owes == clicks # <<>> /\ ~Head(clicks).done /\ Head(clicks).at = Label

CheckedOK ==
  /\ checked \in BOOLEAN /\ wanted \in BOOLEAN
  /\ ~late /\ ~stray => ((checked = wanted) <=> ~Owes)

TouchesInv == ClicksOK /\ CheckedOK

\* A truth value that is toggled if x = y, and if s as well, or not s.
LEMMA Toggled ==
  ASSUME NEW c \in BOOLEAN, NEW x, NEW y, NEW d, d = (c # (x = y))
  PROVE  d \in BOOLEAN /\ (x = y => d # c) /\ (x # y => d = c)
OBVIOUS

LEMMA ToggledIf ==
  ASSUME NEW c \in BOOLEAN, NEW s, NEW x, NEW y, NEW d, d = (c # (s /\ x = y))
  PROVE  d \in BOOLEAN /\ (s /\ x = y => d # c) /\ (~(s /\ x = y) => d = c)
OBVIOUS

LEMMA ToggledUnless ==
  ASSUME NEW c \in BOOLEAN, NEW s, NEW x, NEW y, NEW d, d = (c # (~s /\ x = y))
  PROVE  d \in BOOLEAN /\ (~s /\ x = y => d # c) /\ (~(~s /\ x = y) => d = c)
OBVIOUS

LEMMA ToggledBoth ==
  ASSUME NEW c \in BOOLEAN, NEW w \in BOOLEAN, NEW c1 \in BOOLEAN, NEW w1 \in BOOLEAN,
         c1 # c <=> w1 # w
  PROVE  (c1 = w1) <=> (c = w)
OBVIOUS

\* Nothing is owed while a touch is on.
LEMMA TouchOwesNothing ==
  ASSUME ClicksOK, ~late, finger # Nothing
  PROVE  ~Owes
<1>1. ASSUME clicks # <<>> PROVE Head(clicks).done
  <2>1. Head(clicks) = clicks[1] /\ 1 \in 1 .. Len(clicks)
    BY <1>1, TailElements DEF ClicksOK
  <2> QED
    BY <2>1 DEF ClicksOK
<1> QED
  BY <1>1 DEF Owes

\* A click to the element that was touched toggles the checkbox if that is owed.
LEMMA ClickPays ==
  ASSUME TouchesInv, NEW e \in Element, NativeClick(e), ~late, ~stray'
  PROVE  /\ ~Owes' /\ checked' \in BOOLEAN
         /\ Owes => checked' # checked
         /\ ~Owes => checked' = checked
<1>1. /\ clicks # <<>> /\ clicks' = Tail(clicks) /\ e = Head(clicks).at
      /\ IF isBlocked(Head(clicks).at, e) THEN UNCHANGED <<checked, link>>
         ELSE checked' = (checked # (e = Label))
  BY DEF NativeClick
<1>2. /\ Head(clicks) = clicks[1] /\ 1 \in 1 .. Len(clicks)
      /\ clicks' \in Seq([at : Element, done : BOOLEAN]) /\ Len(clicks') = Len(clicks) - 1
      /\ \A k \in 1 .. Len(clicks) - 1 : clicks'[k] = clicks[k + 1]
      /\ Len(clicks) \in Nat
  BY <1>1, TailElements DEF TouchesInv, ClicksOK
<1>3. ~Owes'
  <2>1. ASSUME clicks' # <<>> PROVE Head(clicks').done
    <3>1. Head(clicks') = clicks'[1] /\ 1 \in 1 .. Len(clicks')
      BY <1>2, <2>1, TailElements
    <3>2. 1 + 1 \in 1 .. Len(clicks) /\ Len(clicks) # 1 /\ clicks'[1] = clicks[1 + 1]
      BY <1>2, <3>1
    <3>3. clicks[1 + 1].done
      BY <3>2 DEF TouchesInv, ClicksOK
    <3> QED
      BY <3>1, <3>2, <3>3
  <2> QED
    BY <2>1 DEF Owes
<1>4. CASE Owes
  <2>1. Quiet /\ e = Label
    BY <1>1, <1>2, <1>4 DEF Owes, TouchesInv, ClicksOK
  <2>2. checked' = (checked # (e = Label))
    BY <1>1, <2>1 DEF isBlocked, Quiet
  <2>3. checked' \in BOOLEAN /\ checked' # checked
    BY <2>1, <2>2, Toggled DEF TouchesInv, CheckedOK
  <2> QED
    BY <1>3, <1>4, <2>3
<1>5. CASE ~Owes
  <2>1. e = Label => isBlocked(Head(clicks).at, e)
    BY <1>1, <1>2, <1>5 DEF Owes, TouchesInv, ClicksOK, isBlocked
  <2>2. CASE isBlocked(Head(clicks).at, e)
    BY <1>1, <1>3, <1>5, <2>2 DEF TouchesInv, CheckedOK
  <2>3. CASE ~isBlocked(Head(clicks).at, e)
    <3>1. checked' = (checked # (e = Label)) /\ e # Label
      BY <1>1, <2>1, <2>3
    <3>2. checked' \in BOOLEAN /\ checked' = checked
      BY <3>1, Toggled DEF TouchesInv, CheckedOK
    <3> QED
      BY <1>3, <1>5, <3>2
  <2> QED
    BY <2>2, <2>3
<1> QED
  BY <1>4, <1>5

\* A touch toggles the checkbox by its vclick, or leaves that to its click.
LEMMA LiftToggles ==
  ASSUME TouchesInv, NEW sends \in BOOLEAN, Lift(sends)
  PROVE  CheckedOK'
<1>1. finger # Nothing /\ late' = late /\ stray' = stray /\ (sends => ~didScroll)
  BY DEF Lift, TouchEnd, TouchEndIgnored
<1>2. CASE TouchEnd /\ wanted' = (wanted # (~didScroll /\ finger = Label))
  <2>1. wanted' \in BOOLEAN /\ (wanted' # wanted <=> ~didScroll /\ finger = Label)
    BY <1>2, ToggledUnless DEF TouchesInv, CheckedOK
  <2>2. checked' \in BOOLEAN /\ (checked' # checked <=> ~didScroll /\ finger = Label)
    <3>1. CASE didScroll
      BY <1>2, <3>1 DEF TouchEnd, TouchesInv, CheckedOK
    <3>2. CASE ~didScroll
      BY <1>2, <3>2, Toggled DEF TouchEnd, TouchesInv, CheckedOK
    <3> QED
      BY <3>1, <3>2
  <2>3. (checked' = wanted') <=> (checked = wanted)
    BY <2>1, <2>2, ToggledBoth DEF TouchesInv, CheckedOK
  <2>4. ~late => ~Owes
    BY <1>1, TouchOwesNothing DEF TouchesInv
  <2>5. ~late => ~Owes'
    <3>1. ClicksOK'
      BY <1>2, TouchEndBlocks DEF TouchesInv
    <3>2. ASSUME ~late, clicks' # <<>> PROVE Head(clicks').done
      <4>1. Head(clicks') = clicks'[1] /\ 1 \in 1 .. Len(clicks')
        BY <3>1, <3>2, TailElements DEF ClicksOK
      <4> QED
        BY <1>2, <3>2, <4>1, TouchEndSent DEF TouchesInv
    <3> QED
      BY <3>2 DEF Owes
  <2> QED
    BY <1>1, <2>1, <2>2, <2>3, <2>4, <2>5 DEF TouchesInv, CheckedOK
<1>3. CASE TouchEndIgnored /\ wanted' = (wanted # (sends /\ finger = Label))
  <2>1. wanted' \in BOOLEAN /\ (wanted' # wanted <=> sends /\ finger = Label)
    BY <1>3, ToggledIf DEF TouchesInv, CheckedOK
  <2>2. checked' = checked
    BY <1>3 DEF TouchEndIgnored
  <2>3. ~late => ~Owes
    BY <1>1, TouchOwesNothing DEF TouchesInv
  <2>4. ~late => (Owes' <=> sends /\ finger = Label)
    <3>1. ~late => IF sends THEN /\ clicks' # <<>> /\ ~Head(clicks').done
                                 /\ Head(clicks').at = finger
                   ELSE clicks' = <<>>
      BY <1>3, TouchEndIgnoredOwes DEF TouchesInv
    <3> QED
      BY <3>1 DEF Owes
  <2>5. (checked = wanted) => ((checked' = wanted') <=> ~(sends /\ finger = Label))
    BY <2>1, <2>2 DEF TouchesInv, CheckedOK
  <2> QED
    BY <1>1, <2>1, <2>2, <2>3, <2>4, <2>5 DEF TouchesInv, CheckedOK
<1> QED
  BY <1>2, <1>3 DEF Lift

LEMMA TouchesInvStep == TouchesInv /\ [MouseNext]_mouseVars => TouchesInv'
<1> SUFFICES ASSUME TouchesInv, [MouseNext]_mouseVars PROVE CheckedOK'
  BY ClicksOKStep DEF TouchesInv
<1>1. ASSUME NEW e \in Element, TouchStart(e) PROVE CheckedOK'
  BY <1>1 DEF TouchStart, TouchesInv, CheckedOK, Owes
<1>2. ASSUME NEW e \in Element, NativeClick(e) PROVE CheckedOK'
  <2>1. wanted' = wanted /\ late' = late /\ (~stray' => ~stray)
    BY <1>2 DEF NativeClick
  <2>2. checked' \in BOOLEAN
    BY <1>2, Toggled DEF NativeClick, TouchesInv, CheckedOK
  <2>3. CASE ~late /\ ~stray'
    BY <1>2, <2>1, <2>2, <2>3, ClickPays DEF TouchesInv, CheckedOK
  <2> QED
    BY <2>1, <2>2, <2>3 DEF TouchesInv, CheckedOK
<1>3. ASSUME NEW e \in Element, HoverOver(e) PROVE CheckedOK'
  BY <1>3 DEF HoverOver, TouchesInv, CheckedOK, Owes
<1>4. ASSUME NEW far \in BOOLEAN, TouchMove(far) PROVE CheckedOK'
  BY <1>4 DEF TouchMove, Moves, TouchesInv, CheckedOK, Owes
<1>5. ASSUME NEW sends \in BOOLEAN, Lift(sends) PROVE CheckedOK'
  BY <1>5, LiftToggles
<1>6. CASE Reset \/ Scroll \/ ScrollStop
  BY <1>6 DEF Reset, Scroll, Moves, ScrollStop, TouchesInv, CheckedOK, Owes
<1>7. CASE UNCHANGED mouseVars
  BY <1>7 DEF mouseVars, TouchesInv, CheckedOK, Owes
<1> QED
  BY <1>1, <1>2, <1>3, <1>4, <1>5, <1>6, <1>7 DEF MouseNext

LEMMA TouchesInit == MouseInit => TouchesInv
<1> SUFFICES ASSUME MouseInit PROVE TouchesInv
  OBVIOUS
<1>1. <<>> \in Seq([at : Element, done : BOOLEAN]) /\ Len(<<>>) = 0
  OBVIOUS
<1>2. ClicksOK
  BY <1>1 DEF MouseInit, ClicksOK
<1>3. CheckedOK
  BY DEF MouseInit, CheckedOK, Owes
<1> QED
  BY <1>2, <1>3 DEF TouchesInv

\* Each tap on the label toggles the checkbox once (jquery.mobile-1.1.0.js:160-168), for
\* any number of clicks on their way.
THEOREM TapsToggleOnce == MouseSpec => []TapTogglesOnce
<1>1. MouseInit => TouchesInv
  BY TouchesInit
<1>2. TouchesInv => TapTogglesOnce
  BY DEF TouchesInv, CheckedOK, TapTogglesOnce, Owes
<1> QED
  BY <1>1, <1>2, TouchesInvStep, PTL DEF MouseSpec

-----------------------------------------------------------------------------
(* The touches: the address of the link.                                   *)

\* The address is in the attribute or in the data, and nothing else is.
LinkOK ==
  /\ href \in {"address", "#"} /\ saved \in {"address", Nothing}
  /\ LinkKeepsAddress

TouchFlags ==
  /\ didScroll \in BOOLEAN /\ blockMouse \in BOOLEAN /\ blockTouch \in BOOLEAN
  /\ resetTimer \in BOOLEAN /\ late \in BOOLEAN /\ stray \in BOOLEAN /\ scrolling \in BOOLEAN
  /\ lastTouch \in Element \cup {Nothing}
  /\ blockedAt \subseteq Element /\ blockedId \subseteq Element

LEMMA LinkOKStep == LinkOK /\ [MouseNext]_mouseVars => LinkOK'
<1> SUFFICES ASSUME LinkOK, [MouseNext]_mouseVars PROVE LinkOK'
  OBVIOUS
<1> USE DEF LinkOK, LinkKeepsAddress
<1>0. Nothing # "address" /\ Nothing # "#"
  BY MouseAssumption
<1>1. ASSUME UNCHANGED link PROVE LinkOK'
  BY <1>1 DEF link
<1>2. ASSUME NEW e \in Element, NativeClick(e) PROVE LinkOK'
  <2>1. CASE UNCHANGED link
    BY <1>1, <2>1
  <2>2. CASE ~UNCHANGED link
    <3>1. e = Anchor /\ ~isBlocked(Head(clicks).at, e)
      BY <1>2, <2>2 DEF NativeClick, link
    <3>2. PICK kept_ : /\ kept_ = (IF e = Anchor /\ makesVclick(e) /\ href # "#" THEN href ELSE saved)
                       /\ saved' = kept_
                       /\ href' = IF kept_ = Nothing THEN href ELSE kept_
                       /\ gone' = href'
      BY <1>2, <3>1 DEF NativeClick
    <3>3. kept_ = "address" \/ (kept_ = Nothing /\ href = "address")
      BY <1>0, <3>2
    <3> QED
      BY <1>0, <3>2, <3>3
  <2> QED
    BY <2>1, <2>2
<1>3. ASSUME NEW sends \in BOOLEAN, Lift(sends) PROVE LinkOK'
  <2>1. UNCHANGED link \/ (HideAddress(finger) /\ UNCHANGED gone)
    BY <1>3 DEF Lift, TouchEnd, TouchEndIgnored
  <2>2. CASE HideAddress(finger) /\ UNCHANGED gone
    BY <1>0, <2>2 DEF HideAddress
  <2> QED
    BY <1>1, <2>1, <2>2
<1>4. CASE \E e \in Element : TouchStart(e) \/ HoverOver(e)
  BY <1>1, <1>4 DEF TouchStart, HoverOver
<1>5. CASE \E far \in BOOLEAN : TouchMove(far)
  BY <1>1, <1>5 DEF TouchMove, Moves
<1>6. CASE Scroll \/ ScrollStop \/ Reset \/ UNCHANGED mouseVars
  BY <1>1, <1>6 DEF Scroll, Moves, ScrollStop, Reset, mouseVars
<1> QED
  BY <1>2, <1>3, <1>4, <1>5, <1>6 DEF MouseNext

LEMMA TouchFlagsStep ==
  finger \in Element \cup {Nothing} /\ TouchFlags /\ [MouseNext]_mouseVars => TouchFlags'
<1> SUFFICES ASSUME finger \in Element \cup {Nothing}, TouchFlags, [MouseNext]_mouseVars
             PROVE  TouchFlags'
  OBVIOUS
<1> USE DEF TouchFlags, block
<1>1. ASSUME NEW e \in Element, TouchStart(e) PROVE TouchFlags'
  <2>1. late' \in BOOLEAN
    BY <1>1, Zenon DEF TouchStart
  <2> QED
    BY <1>1, <2>1 DEF TouchStart
<1>2. ASSUME NEW e \in Element, NativeClick(e) PROVE TouchFlags'
  <2>1. stray' \in BOOLEAN
    BY <1>2, Zenon DEF NativeClick
  <2> QED
    BY <1>2, <2>1 DEF NativeClick
<1>3. ASSUME NEW e \in Element, HoverOver(e) PROVE TouchFlags'
  BY <1>3 DEF HoverOver
<1>4. ASSUME NEW far \in BOOLEAN, Moves(far) PROVE TouchFlags'
  <2>1. didScroll' \in BOOLEAN
    BY <1>4, Zenon DEF Moves
  <2> QED
    BY <1>4, <2>1 DEF Moves
<1>5. ASSUME NEW sends \in BOOLEAN, Lift(sends) PROVE TouchFlags'
  <2>1. CASE TouchEnd
    <3>1. blockMouse' \in BOOLEAN
      BY <2>1, Zenon DEF TouchEnd
    <3>2. finger \in Element
      BY <2>1 DEF TouchEnd
    <3> QED
      BY <1>5, <2>1, <3>1, <3>2 DEF Lift, TouchEnd
  <2>2. CASE TouchEndIgnored
    BY <1>5, <2>2 DEF Lift, TouchEndIgnored
  <2> QED
    BY <1>5, <2>1, <2>2 DEF Lift
<1>6. CASE Reset
  <2>1. late' \in BOOLEAN
    BY <1>6, Zenon DEF Reset
  <2> QED
    BY <1>6, <2>1 DEF Reset
<1>7. CASE ScrollStop \/ UNCHANGED mouseVars
  BY <1>7 DEF ScrollStop, mouseVars
<1> QED
  BY <1>1, <1>2, <1>3, <1>4, <1>5, <1>6, <1>7 DEF MouseNext, TouchMove, Scroll

\* The link never loses its address: while vclick hides it (jquery.mobile-1.1.0.js:3521-3550)
\* it is kept, until a click puts it back (3553-3576), whatever vclicks come without a click
\* and clicks without a vclick, for any number of either.
THEOREM LinkIsKept == MouseSpec => []MouseTypeOK
<1> DEFINE Inv == HoverOK /\ TouchesInv /\ LinkOK /\ TouchFlags
<1>1. MouseInit => Inv
  BY MouseConstants, HoverInit, TouchesInit DEF MouseInit, LinkOK, LinkKeepsAddress, TouchFlags
<1>2. Inv /\ [MouseNext]_mouseVars => Inv'
  BY HoverOKStep, TouchesInvStep, LinkOKStep, TouchFlagsStep DEF HoverOK
<1>3. Inv => MouseTypeOK
  <2> SUFFICES ASSUME Inv PROVE MouseTypeOK
    OBVIOUS
  <2>1. {didScroll, blockMouse, blockTouch, resetTimer, checked, wanted, late, stray} \subseteq BOOLEAN
    BY Zenon DEF TouchFlags, TouchesInv, CheckedOK
  <2>2. {href, saved, gone} \subseteq {"address", "#", Nothing} /\ LinkKeepsAddress
    BY DEF LinkOK, LinkKeepsAddress
  <2>3. /\ finger \in Element \cup {Nothing} /\ hov \in Element \cup {Nothing}
        /\ hover \in [Element -> 0 .. MaxClicks] /\ stuck \subseteq Element
        /\ down \subseteq Element /\ (hov # Nothing => hover[hov] > 0)
    BY DEF HoverOK
  <2>4. clicks \in Seq([at : Element, done : BOOLEAN])
    BY DEF TouchesInv, ClicksOK
  <2> QED
    BY <2>1, <2>2, <2>3, <2>4 DEF TouchFlags, MouseTypeOK
<1> QED
  BY <1>1, <1>2, <1>3, PTL DEF MouseSpec

-----------------------------------------------------------------------------
(* The pages of a telephone.                                               *)

Nav == [entries : Seq(Page), at : Nat, stack : Seq(Page), index : Nat,
        page : Page, dom : SUBSET Page, phase : {"idle", "loading", "moving"},
        to : Request, leaving : Page, queue : Seq(Request),
        loader : {"off", "loading", "error"}, showTimer : BOOLEAN]

\* Both histories know where they are, and urlHistory knows the page.
WellFormed(n) ==
  /\ n \in Nav
  /\ n.at \in 1 .. Len(n.entries) /\ n.index \in 1 .. Len(n.stack)
  /\ n.page \in n.dom /\ First \in n.dom
  /\ n.stack[n.index] = n.page

\* But for urlHistory, m is n.
SameButStack(m, n) ==
  /\ m.entries = n.entries /\ m.at = n.at /\ m.page = n.page /\ m.dom = n.dom
  /\ m.phase = n.phase /\ m.to = n.to /\ m.leaving = n.leaving /\ m.queue = n.queue
  /\ m.loader = n.loader /\ m.showTimer = n.showTimer

LEMMA NavIndex ==
  ASSUME NEW n \in Nav, NEW i \in Nat
  PROVE  LET m == [n EXCEPT !.index = i]
         IN m \in Nav /\ SameButStack(m, n) /\ m.stack = n.stack /\ m.index = i
BY DEF Nav, SameButStack

LEMMA AddNewKnows ==
  ASSUME NEW n \in Nav, n.index \in 1 .. Len(n.stack), NEW p \in Page
  PROVE  LET m == addNew(n, p)
         IN /\ m \in Nav /\ SameButStack(m, n)
            /\ m.index \in 1 .. Len(m.stack) /\ m.stack[m.index] = p
<1> DEFINE t == Append(SubSeq(n.stack, 1, n.index), p)
           i == n.index + 1
           m == [n EXCEPT !.stack = t, !.index = i]
<1>1. t \in Seq(Page) /\ Len(t) = i /\ t[i] = p
  BY CutAndAppend DEF Nav
<1>2. i \in Nat /\ i \in 1 .. i
  OBVIOUS
<1>3. addNew(n, p) = m
  BY DEF addNew
<1> HIDE DEF t, i
<1>4. m \in Nav /\ SameButStack(m, n) /\ m.stack = t /\ m.index = i
  BY <1>1, <1>2 DEF Nav, SameButStack
<1> HIDE DEF m
<1> QED
  BY <1>1, <1>2, <1>3, <1>4

LEMMA LastWithKnows ==
  ASSUME NEW n \in Nav, NEW p \in Page, Known(n, p)
  PROVE  LastWith(n, p) \in 1 .. Len(n.stack) /\ n.stack[LastWith(n, p)] = p
<1> DEFINE K == {k \in 1 .. Len(n.stack) : n.stack[k] = p}
<1>1. n.stack \in Seq(Page) /\ DOMAIN n.stack = 1 .. Len(n.stack) /\ Len(n.stack) \in Nat
  BY DEF Nav
<1>2. K # {} /\ K \subseteq 1 .. Len(n.stack)
  BY <1>1 DEF Known
<1>3. \E k \in K : \A j \in K : j <= k
  BY <1>1, <1>2, MaxExists
<1>4. \E k \in DOMAIN n.stack :
        n.stack[k] = p /\ \A j \in DOMAIN n.stack : n.stack[j] = p => j <= k
  BY <1>1, <1>3
<1> QED
  BY <1>1, <1>4 DEF LastWith

LEMMA DirectHashChangeKnows ==
  ASSUME NEW n \in Nav, n.index \in 1 .. Len(n.stack), NEW p \in Page
  PROVE  LET m == directHashChange(n, p)
         IN /\ m \in Nav /\ SameButStack(m, n)
            /\ m.index \in 1 .. Len(m.stack) /\ m.stack[m.index] = p
<1>1. CASE Known(n, p)
  <2>1. directHashChange(n, p) = [n EXCEPT !.index = LastWith(n, p)]
    BY <1>1 DEF directHashChange
  <2>2. LastWith(n, p) \in 1 .. Len(n.stack) /\ n.stack[LastWith(n, p)] = p
    BY <1>1, LastWithKnows
  <2>3. LastWith(n, p) \in Nat
    BY <2>2
  <2> QED
    BY <2>1, <2>2, <2>3, NavIndex
<1>2. CASE ~Known(n, p)
  BY <1>2, AddNewKnows DEF directHashChange
<1> QED
  BY <1>1, <1>2

\* A page in the document is shown: a link sets the address, a step of the browser has.
LEMMA ShowPageShows ==
  ASSUME NEW n, WellFormed(n), NEW r \in Request, r.page \in n.dom, r.page # n.page
  PROVE  LET m == showPage(n, r)
         IN /\ WellFormed(m)
            /\ m.page = r.page /\ m.leaving = n.page /\ m.phase = "moving" /\ m.loader = "off"
            /\ m.dom = n.dom /\ m.to = n.to /\ m.queue = n.queue /\ m.showTimer = n.showTimer
            /\ IF r.fromHash THEN m.at = n.at /\ m.entries = n.entries
               ELSE m.at # n.at /\ m.entries[m.at] = r.page
<1>1. n \in Nav /\ n.index \in 1 .. Len(n.stack) /\ r.page \in Page /\ n.page \in Page
  BY DEF WellFormed, Nav, Request
<1> DEFINE AfterShow(k) == transitionPages(k, r.page)
<1>2. ASSUME NEW k \in Nav, k.index \in 1 .. Len(k.stack), k.stack[k.index] = r.page,
             k.at \in 1 .. Len(k.entries), k.dom = n.dom
      PROVE  /\ WellFormed(AfterShow(k)) /\ AfterShow(k).page = r.page /\ AfterShow(k).leaving = k.page
             /\ AfterShow(k).phase = "moving" /\ AfterShow(k).loader = "off" /\ AfterShow(k).dom = k.dom
             /\ AfterShow(k).to = k.to /\ AfterShow(k).queue = k.queue /\ AfterShow(k).showTimer = k.showTimer
             /\ AfterShow(k).at = k.at /\ AfterShow(k).entries = k.entries
  BY <1>1, <1>2 DEF transitionPages, WellFormed, Nav
<1> HIDE DEF AfterShow
<1>3. CASE r.fromHash
  <2> DEFINE k == directHashChange(n, r.page)
  <2>1. /\ k \in Nav /\ SameButStack(k, n)
        /\ k.index \in 1 .. Len(k.stack) /\ k.stack[k.index] = r.page
    BY <1>1, DirectHashChangeKnows
  <2>2. showPage(n, r) = AfterShow(k)
    BY <1>3 DEF showPage, AfterShow
  <2> HIDE DEF k
  <2> QED
    BY <1>2, <1>3, <2>1, <2>2 DEF SameButStack, WellFormed
<1>4. CASE ~r.fromHash
  <2> DEFINE t == Append(SubSeq(n.entries, 1, n.at), r.page)
             i == n.at + 1
             l == [n EXCEPT !.entries = t, !.at = i]
             k == addNew(l, r.page)
  <2>1. t \in Seq(Page) /\ Len(t) = i /\ t[i] = r.page
    BY <1>1, CutAndAppend DEF WellFormed, Nav
  <2>2. showPage(n, r) = AfterShow(k)
    BY <1>4 DEF showPage, setPath, AfterShow
  <2>5. i \in Nat /\ i \in 1 .. i /\ i # n.at
    BY <1>1 DEF Nav
  <2> HIDE DEF t, i, k
  <2>3. /\ l \in Nav /\ l.index = n.index /\ l.stack = n.stack /\ l.dom = n.dom /\ l.page = n.page
        /\ l.to = n.to /\ l.queue = n.queue /\ l.showTimer = n.showTimer
        /\ l.entries = t /\ l.at = i
    BY <1>1, <2>1, <2>5 DEF Nav
  <2> USE DEF k
  <2> HIDE DEF l
  <2>4. /\ k \in Nav /\ SameButStack(k, l)
        /\ k.index \in 1 .. Len(k.stack) /\ k.stack[k.index] = r.page
    BY <1>1, <2>3, AddNewKnows
  <2> HIDE DEF k
  <2>6. k.at \in 1 .. Len(k.entries) /\ k.at # n.at /\ k.entries[k.at] = r.page
    BY <2>1, <2>3, <2>4, <2>5 DEF SameButStack
  <2> QED
    BY <1>2, <1>4, <2>2, <2>3, <2>4, <2>6 DEF SameButStack
<1> QED
  BY <1>3, <1>4

\* One call of changePage: the page is the one that is displayed, or asked for, or shown.
IsPage(m, n, r) ==
  /\ r.page = n.page /\ m.phase = "idle" /\ m.page = n.page /\ m.at = n.at /\ m.entries = n.entries
  /\ m.showTimer = n.showTimer /\ m.loader = n.loader
IsAsked(m, n, r) ==
  /\ r.page \notin n.dom /\ m.phase = "loading" /\ m.to = r /\ m.page = n.page
  /\ m.at = n.at /\ m.entries = n.entries
IsShown(m, n, r) ==
  /\ r.page # n.page /\ m.phase = "moving" /\ m.page = r.page /\ m.leaving = n.page
  /\ m.loader = "off" /\ m.showTimer = n.showTimer
  /\ IF r.fromHash THEN m.at = n.at /\ m.entries = n.entries
     ELSE m.at # n.at /\ m.entries[m.at] = r.page

LEMMA ChangePageServes ==
  ASSUME NEW n, WellFormed(n), n.phase = "idle", NEW r \in Request
  PROVE  LET m == changePage(n, r)
         IN /\ WellFormed(m) /\ m.dom = n.dom /\ m.queue = n.queue
            /\ IsPage(m, n, r) \/ IsAsked(m, n, r) \/ IsShown(m, n, r)
<1>1. changePage(n, r) = loadPage(n, r)
  BY DEF changePage
<1>2. CASE r.page = n.page
  <2>1. changePage(n, r) = [n EXCEPT !.phase = "idle"]
    BY <1>1, <1>2 DEF loadPage, showPage, WellFormed
  <2> QED
    BY <1>2, <2>1 DEF WellFormed, Nav, IsPage
<1>3. CASE r.page # n.page /\ r.page \in n.dom
  <2>1. changePage(n, r) = showPage(n, r)
    BY <1>1, <1>3 DEF loadPage
  <2> QED
    BY <1>3, <2>1, ShowPageShows DEF IsShown
<1>4. CASE r.page \notin n.dom
  <2>1. changePage(n, r) = [n EXCEPT !.phase = "loading", !.to = r, !.showTimer = TRUE]
    BY <1>1, <1>4 DEF loadPage
  <2> QED
    BY <1>4, <2>1 DEF WellFormed, Nav, IsAsked
<1> QED
  BY <1>2, <1>3, <1>4

LEMMA ChangePageQueues ==
  ASSUME NEW n, WellFormed(n), n.phase # "idle", NEW r \in Request
  PROVE  LET m == changePage(n, r)
         IN /\ WellFormed(m) /\ m.queue = <<r>> \o n.queue
            /\ m.phase = n.phase /\ m.to = n.to /\ m.dom = n.dom /\ m.page = n.page
            /\ m.leaving = n.leaving /\ m.at = n.at /\ m.entries = n.entries
            /\ m.loader = n.loader /\ m.showTimer = n.showTimer
<1> DEFINE q == <<r>> \o n.queue
<1>1. q \in Seq(Request)
  BY PushElements DEF WellFormed, Nav
<1>2. changePage(n, r) = [n EXCEPT !.queue = q]
  BY DEF changePage
<1> HIDE DEF q
<1>3. LET m == [n EXCEPT !.queue = q]
      IN /\ WellFormed(m) /\ m.queue = q
         /\ m.phase = n.phase /\ m.to = n.to /\ m.dom = n.dom /\ m.page = n.page
         /\ m.leaving = n.leaving /\ m.at = n.at /\ m.entries = n.entries
         /\ m.loader = n.loader /\ m.showTimer = n.showTimer
  BY <1>1 DEF WellFormed, Nav
<1> QED
  BY <1>2, <1>3 DEF q

\* Requests of the browser's buttons in a queue: none; all behind those of links, which
\* are newer; and the newest one is for the page that the browser is at.
NoPops(q) == \A i \in 1 .. Len(q) : ~q[i].fromHash
Ordered(q) == \A i, j \in 1 .. Len(q) : i < j /\ q[i].fromHash => q[j].fromHash
Settled(q, p) == \A i \in 1 .. Len(q) :
                   q[i].fromHash /\ (\A j \in 1 .. i - 1 : ~q[j].fromHash) => q[i].page = p

\* The page, once the requests of the browser's buttons are served, is the one that the
\* browser is at, unless u.
AddressOK(n, u) ==
  /\ Ordered(n.queue) /\ Settled(n.queue, n.entries[n.at])
  /\ n.phase = "idle" \/ (n.phase = "loading" /\ ~n.to.fromHash) => NoPops(n.queue)
  /\ NoPops(n.queue) =>
       IF n.phase = "loading" /\ n.to.fromHash THEN n.to.page = n.entries[n.at]
       ELSE u \/ n.page = n.entries[n.at]

LEMMA PushLink ==
  ASSUME NEW q \in Seq(Request), NEW r \in Request, ~r.fromHash, NEW p
  PROVE  /\ Ordered(q) => Ordered(<<r>> \o q)
         /\ Settled(q, p) => Settled(<<r>> \o q, p)
         /\ NoPops(<<r>> \o q) <=> NoPops(q)
<1> DEFINE s == <<r>> \o q
<1>1. /\ Len(q) \in Nat /\ Len(s) = Len(q) + 1 /\ s[1] = r
      /\ \A k \in 1 .. Len(q) : s[k + 1] = q[k]
      /\ \A k \in 2 .. Len(q) + 1 : s[k] = q[k - 1]
  BY PushElements
<1> HIDE DEF s
<1>2. NoPops(s) <=> NoPops(q)
  BY <1>1 DEF NoPops
<1>3. ASSUME Ordered(q), NEW i \in 1 .. Len(s), NEW j \in 1 .. Len(s), i < j, s[i].fromHash
      PROVE  s[j].fromHash
  <2>1. i \in 2 .. Len(q) + 1 /\ j \in 2 .. Len(q) + 1
    BY <1>1, <1>3
  <2>2. i - 1 \in 1 .. Len(q) /\ j - 1 \in 1 .. Len(q) /\ i - 1 < j - 1
    BY <1>1, <1>3, <2>1
  <2> QED
    BY <1>1, <1>3, <2>1, <2>2 DEF Ordered
<1>4. ASSUME Settled(q, p), NEW i \in 1 .. Len(s), s[i].fromHash,
             \A j \in 1 .. i - 1 : ~s[j].fromHash
      PROVE  s[i].page = p
  <2>1. i \in 2 .. Len(q) + 1
    BY <1>1, <1>4
  <2>2. i - 1 \in 1 .. Len(q) /\ s[i] = q[i - 1]
    BY <1>1, <2>1
  <2>3. ASSUME NEW j \in 1 .. (i - 1) - 1 PROVE ~q[j].fromHash
    <3>1. j + 1 \in 1 .. i - 1 /\ j \in 1 .. Len(q)
      BY <1>1, <2>1
    <3> QED
      BY <1>1, <1>4, <3>1
  <2> QED
    BY <1>4, <2>2, <2>3 DEF Settled
<1> QED
  BY <1>2, <1>3, <1>4 DEF Ordered, Settled, s

LEMMA PushPop ==
  ASSUME NEW q \in Seq(Request), NEW r \in Request, r.fromHash,
         \A k \in 1 .. Len(q) : q[k].fromHash
  PROVE  Ordered(<<r>> \o q) /\ Settled(<<r>> \o q, r.page) /\ ~NoPops(<<r>> \o q)
<1> DEFINE s == <<r>> \o q
<1>1. /\ Len(q) \in Nat /\ Len(s) = Len(q) + 1 /\ s[1] = r
      /\ \A k \in 2 .. Len(q) + 1 : s[k] = q[k - 1]
  BY PushElements
<1> HIDE DEF s
<1>2. \A k \in 1 .. Len(s) : s[k].fromHash
  BY <1>1
<1>3. \A i \in 1 .. Len(s) : (\A j \in 1 .. i - 1 : ~s[j].fromHash) => i = 1
  <2> SUFFICES ASSUME NEW i \in 1 .. Len(s), i # 1 PROVE \E j \in 1 .. i - 1 : s[j].fromHash
    OBVIOUS
  <2>1. 1 \in 1 .. i - 1 /\ 1 \in 1 .. Len(s)
    BY <1>1
  <2> QED
    BY <1>2, <2>1
<1>4. 1 \in 1 .. Len(s)
  BY <1>1
<1>5. Ordered(s) /\ ~NoPops(s)
  BY <1>2, <1>4 DEF Ordered, NoPops
<1>6. Settled(s, r.page)
  BY <1>1, <1>3 DEF Settled
<1> QED
  BY <1>5, <1>6 DEF s

\* The oldest request leaves the queue.
LEMMA PopOldest ==
  ASSUME NEW q \in Seq(Request), q # <<>>, NEW p, Ordered(q), Settled(q, p)
  PROVE  /\ Ordered(Front(q)) /\ Settled(Front(q), p)
         /\ ~Last(q).fromHash => NoPops(q) /\ NoPops(Front(q))
         /\ Last(q).fromHash /\ NoPops(Front(q)) => Last(q).page = p
<1> DEFINE s == Front(q)
           n == Len(q)
<1>1. /\ Len(s) = n - 1 /\ n \in Nat \ {0} /\ Last(q) = q[n]
      /\ \A k \in 1 .. n - 1 : s[k] = q[k]
  BY FrontElements
<1> HIDE DEF s
<1>2. \A k \in 1 .. n - 1 : k \in 1 .. n /\ k < n /\ k \in 1 .. Len(s)
  BY <1>1
<1>3. n \in 1 .. n /\ \A k \in 1 .. Len(s) : k \in 1 .. n - 1
  BY <1>1
<1>4. Ordered(s)
  BY <1>1, <1>2, <1>3 DEF Ordered
<1>5. Settled(s, p)
  <2> SUFFICES ASSUME NEW i \in 1 .. Len(s), s[i].fromHash, \A j \in 1 .. i - 1 : ~s[j].fromHash
               PROVE  s[i].page = p
    BY DEF Settled
  <2>1. i \in 1 .. n /\ s[i] = q[i]
    BY <1>1, <1>2, <1>3
  <2>2. \A j \in 1 .. i - 1 : j \in 1 .. n - 1
    BY <1>1
  <2>3. \A j \in 1 .. i - 1 : ~q[j].fromHash
    BY <1>1, <2>2
  <2> QED
    BY <2>1, <2>3 DEF Settled
<1>6. ~q[n].fromHash => NoPops(q)
  <2>1. \A k \in 1 .. n : k < n \/ k = n
    BY <1>1
  <2> QED
    BY <1>3, <2>1 DEF NoPops, Ordered
<1>7. NoPops(q) => NoPops(s)
  BY <1>1, <1>2, <1>3 DEF NoPops
<1>8. q[n].fromHash /\ NoPops(s) => q[n].page = p
  <2>1. NoPops(s) => \A j \in 1 .. n - 1 : ~q[j].fromHash
    BY <1>1, <1>2 DEF NoPops
  <2> QED
    BY <1>3, <2>1 DEF Settled
<1> QED
  BY <1>1, <1>4, <1>5, <1>6, <1>7, <1>8 DEF s

\* What is loaded is not in the document; what moves is not what leaves; and the loading
\* message is due to a load, or to one of the e errors.
LoadOK(n, e) ==
  /\ n.phase = "loading" => n.to.page \notin n.dom
  /\ n.showTimer => n.phase = "loading"
  /\ n.phase = "moving" => n.leaving # n.page
  /\ n.loader # "off" => n.phase = "loading" \/ e > 0

\* When a request r is served in a state n in which nothing is under way.
LEMMA ServeLoads ==
  ASSUME NEW n, WellFormed(n), n.phase = "idle", NEW r \in Request, NEW e,
         ~n.showTimer, n.loader # "off" => e > 0
  PROVE  WellFormed(changePage(n, r)) /\ LoadOK(changePage(n, r), e)
<1> DEFINE m == changePage(n, r)
<1>1. /\ WellFormed(m) /\ m.dom = n.dom
      /\ IsPage(m, n, r) \/ IsAsked(m, n, r) \/ IsShown(m, n, r)
  BY ChangePageServes
<1> HIDE DEF m
<1>2. LoadOK(m, e)
  BY <1>1 DEF LoadOK, IsPage, IsAsked, IsShown
<1> QED
  BY <1>1, <1>2 DEF m

LEMMA ServeSetsAddress ==
  ASSUME NEW n, WellFormed(n), n.phase = "idle", NEW r \in Request, NEW u,
         changePage(n, r).at # n.at, NoPops(n.queue)
  PROVE  AddressOK(changePage(n, r), u)
<1> DEFINE m == changePage(n, r)
<1>1. m.queue = n.queue /\ (IsPage(m, n, r) \/ IsAsked(m, n, r) \/ IsShown(m, n, r))
  BY ChangePageServes
<1> HIDE DEF m
<1>2. m.at # n.at
  BY DEF m
<1>3. m.phase = "moving" /\ m.page = m.entries[m.at]
  BY <1>1, <1>2 DEF IsPage, IsAsked, IsShown
<1>4. Ordered(m.queue) /\ Settled(m.queue, m.entries[m.at])
  BY <1>1 DEF NoPops, Ordered, Settled
<1> QED
  BY <1>3, <1>4 DEF AddressOK, m

LEMMA ServeKeepsAddress ==
  ASSUME NEW n, WellFormed(n), n.phase = "idle", NEW r \in Request, NEW u,
         LET m == changePage(n, r) IN m.at = n.at /\ ~IsStuck(m),
         Ordered(n.queue), Settled(n.queue, n.entries[n.at]),
         r.fromHash /\ NoPops(n.queue) => r.page = n.entries[n.at],
         ~r.fromHash => NoPops(n.queue) /\ (u \/ n.page = n.entries[n.at])
  PROVE  AddressOK(changePage(n, r), u)
<1> DEFINE m == changePage(n, r)
<1>1. m.queue = n.queue /\ (IsPage(m, n, r) \/ IsAsked(m, n, r) \/ IsShown(m, n, r))
  BY ChangePageServes
<1>2. m.at = n.at /\ ~IsStuck(m)
  OBVIOUS
<1> HIDE DEF m
<1>3. m.entries = n.entries
  BY <1>1, <1>2 DEF IsPage, IsAsked, IsShown
<1>4. m.phase = "idle" => NoPops(m.queue)
  <2>1. m.phase = "idle" => m.queue = <<>>
    BY <1>2 DEF IsStuck
  <2>2. NoPops(<<>>)
    BY DEF NoPops
  <2> QED
    BY <2>1, <2>2
<1>5. m.phase = "loading" => m.to = r
  BY <1>1 DEF IsPage, IsAsked, IsShown
<1>6. m.phase # "loading" /\ NoPops(m.queue) => u \/ m.page = m.entries[m.at]
  BY <1>1, <1>2, <1>3 DEF IsPage, IsAsked, IsShown
<1>7. Ordered(m.queue) /\ Settled(m.queue, m.entries[m.at])
  BY <1>1, <1>2, <1>3
<1>8. m.phase = "loading" /\ ~m.to.fromHash =>
        NoPops(m.queue) /\ (u \/ m.page = m.entries[m.at])
  BY <1>1, <1>2, <1>3, <1>5 DEF IsPage, IsAsked, IsShown
<1>9. m.phase = "loading" /\ m.to.fromHash /\ NoPops(m.queue) => m.to.page = m.entries[m.at]
  BY <1>1, <1>2, <1>3, <1>5
<1> QED
  BY <1>4, <1>6, <1>7, <1>8, <1>9 DEF AddressOK, m

\* The lock is given up.
LEMMA ReleaseServes ==
  ASSUME NEW n, WellFormed(n), n.phase # "idle", NEW e, ~n.showTimer, n.loader # "off" => e > 0,
         NEW u
  PROVE  LET m == release(n)
         IN /\ WellFormed(m) /\ LoadOK(m, e)
            /\ m.at # n.at /\ NoPops(m.queue) => AddressOK(m, u)
            /\ /\ m.at = n.at /\ ~IsStuck(m)
               /\ Ordered(n.queue) /\ Settled(n.queue, n.entries[n.at])
               /\ NoPops(n.queue) => u \/ n.page = n.entries[n.at]
               => AddressOK(m, u)
<1> DEFINE m == release(n)
           free == [n EXCEPT !.phase = "idle"]
<1>1. CASE n.queue = <<>>
  <2>1. m = free
    BY <1>1 DEF release
  <2>2. /\ WellFormed(free) /\ free.phase = "idle" /\ free.queue = <<>> /\ free.at = n.at
        /\ free.entries = n.entries /\ free.page = n.page /\ free.loader = n.loader
        /\ free.showTimer = n.showTimer
    BY <1>1 DEF WellFormed, Nav
  <2> HIDE DEF m, free
  <2>3. NoPops(n.queue) /\ NoPops(free.queue)
    BY <1>1, <2>2 DEF NoPops
  <2> QED
    BY <1>1, <2>1, <2>2, <2>3 DEF LoadOK, AddressOK, m
<1>2. CASE n.queue # <<>>
  <2> DEFINE q == Front(n.queue)
             k == [free EXCEPT !.queue = q]
             r == Last(n.queue)
  <2>1. m = changePage(k, r)
    BY <1>2 DEF release
  <2>2. q \in Seq(Request) /\ r \in Request
    BY <1>2, FrontElements DEF WellFormed, Nav
  <2> HIDE DEF q, m
  <2>3. /\ WellFormed(k) /\ k.phase = "idle" /\ k.queue = q /\ k.at = n.at
        /\ k.entries = n.entries /\ k.page = n.page /\ k.loader = n.loader
        /\ k.showTimer = n.showTimer
    BY <2>2 DEF WellFormed, Nav
  <2> HIDE DEF k, r
  <2>4. WellFormed(m) /\ LoadOK(m, e)
    BY <2>1, <2>2, <2>3, ServeLoads
  <2>5. m.queue = q
    BY <2>1, <2>2, <2>3, ChangePageServes
  <2>6. ASSUME m.at # n.at, NoPops(m.queue) PROVE AddressOK(m, u)
    BY <2>1, <2>2, <2>3, <2>5, <2>6, ServeSetsAddress
  <2>7. ASSUME m.at = n.at, ~IsStuck(m),
               Ordered(n.queue), Settled(n.queue, n.entries[n.at]),
               NoPops(n.queue) => u \/ n.page = n.entries[n.at]
        PROVE  AddressOK(m, u)
    <3>1. /\ Ordered(q) /\ Settled(q, n.entries[n.at])
          /\ ~r.fromHash => NoPops(n.queue) /\ NoPops(q)
          /\ r.fromHash /\ NoPops(q) => r.page = n.entries[n.at]
      BY <1>2, <2>7, PopOldest DEF q, r, WellFormed, Nav
    <3> QED
      BY <2>1, <2>2, <2>3, <2>7, <3>1, ServeKeepsAddress
  <2> QED
    BY <2>4, <2>6, <2>7 DEF m
<1> QED
  BY <1>1, <1>2

PagesInv ==
  /\ WellFormed(nav) /\ errTimers \in Nat /\ LoadOK(nav, errTimers)
  /\ ~raced => AddressOK(nav, unreached)

\* What Causes records, where the address is set, and where it is not.
LEMMA CausesNoPops ==
  ASSUME NEW race, NEW failure, WellFormed(nav'), Causes(race, failure), ~raced'
  PROVE  /\ nav'.at # nav.at => NoPops(nav'.queue)
         /\ nav'.at = nav.at => /\ ~raced /\ ~race
                               /\ (unreached => unreached') /\ (failure => unreached')
<1>1. DOMAIN nav'.queue = 1 .. Len(nav'.queue)
  BY DEF WellFormed, Nav
<1> QED
  BY <1>1 DEF Causes, NoPops

LEMMA ClickLinkInv ==
  ASSUME PagesInv, NEW p \in Page, ClickLink(p)
  PROVE  PagesInv'
<1> DEFINE r == Link(p)
<1>1. /\ nav' = changePage(nav, r) /\ Causes(FALSE, FALSE) /\ errTimers' = errTimers
      /\ WellFormed(nav) /\ LoadOK(nav, errTimers)
  BY DEF ClickLink, Becomes, PagesInv
<1>2. r \in Request /\ ~r.fromHash
  BY DEF Link, Request
<1> HIDE DEF r
<1>3. CASE nav.phase = "idle"
  <2>1. WellFormed(nav') /\ LoadOK(nav', errTimers)
    BY <1>1, <1>2, <1>3, ServeLoads DEF LoadOK
  <2>2. nav'.queue = nav.queue /\ (IsPage(nav', nav, r) \/ IsAsked(nav', nav, r) \/ IsShown(nav', nav, r))
    BY <1>1, <1>2, <1>3, ChangePageServes
  <2>3. ASSUME ~raced' PROVE AddressOK(nav', unreached')
    <3>1. CASE nav'.at # nav.at
      BY <1>1, <1>2, <1>3, <2>1, <2>2, <2>3, <3>1, CausesNoPops, ServeSetsAddress
    <3>2. CASE nav'.at = nav.at
      <4>1. ~raced /\ (unreached => unreached')
        BY <1>1, <2>1, <2>3, <3>2, CausesNoPops
      <4>2. AddressOK(nav, unreached)
        BY <4>1 DEF PagesInv
      <4> QED
        BY <1>2, <1>3, <2>2, <3>2, <4>1, <4>2 DEF AddressOK, IsPage, IsAsked, IsShown
    <3> QED
      BY <3>1, <3>2
  <2> QED
    BY <1>1, <2>1, <2>3 DEF PagesInv
<1>4. CASE nav.phase # "idle"
  <2>1. /\ WellFormed(nav') /\ nav'.queue = <<r>> \o nav.queue
        /\ nav'.phase = nav.phase /\ nav'.to = nav.to /\ nav'.dom = nav.dom /\ nav'.page = nav.page
        /\ nav'.leaving = nav.leaving /\ nav'.at = nav.at /\ nav'.entries = nav.entries
        /\ nav'.loader = nav.loader /\ nav'.showTimer = nav.showTimer
    BY <1>1, <1>2, <1>4, ChangePageQueues
  <2>2. LoadOK(nav', errTimers)
    BY <1>1, <2>1 DEF LoadOK
  <2>3. ASSUME ~raced' PROVE AddressOK(nav', unreached')
    <3>1. ~raced /\ (unreached => unreached')
      BY <1>1, <2>1, <2>3, CausesNoPops
    <3>2. AddressOK(nav, unreached)
      BY <3>1 DEF PagesInv
    <3>3. nav.queue \in Seq(Request)
      BY <1>1 DEF WellFormed, Nav
    <3>4. /\ Ordered(nav'.queue) /\ Settled(nav'.queue, nav'.entries[nav'.at])
          /\ NoPops(nav'.queue) <=> NoPops(nav.queue)
      BY <1>2, <2>1, <3>2, <3>3, PushLink DEF AddressOK
    <3> QED
      BY <2>1, <3>1, <3>2, <3>4 DEF AddressOK
  <2> QED
    BY <1>1, <2>1, <2>2, <2>3 DEF PagesInv
<1> QED
  BY <1>3, <1>4

LEMMA TraverseInv ==
  ASSUME PagesInv, NEW k, Traverse(k)
  PROVE  PagesInv'
<1> DEFINE n == [nav EXCEPT !.at = k]
           r == Popped(nav.entries[k])
<1>1. /\ nav' = changePage(n, r) /\ raced' = (raced \/ LinkWaits \/ IsStuck(nav'))
      /\ unreached' = unreached /\ errTimers' = errTimers
      /\ WellFormed(nav) /\ LoadOK(nav, errTimers)
  BY DEF Traverse, Becomes, PagesInv
<1>2. k \in 1 .. Len(nav.entries) /\ k \in Nat /\ nav.entries[k] \in Page
  BY <1>1 DEF Traverse, WellFormed, Nav
<1>3. r \in Request /\ r.fromHash /\ r.page = nav.entries[k]
  BY <1>2 DEF Popped, Request
<1>4. /\ WellFormed(n) /\ n.at = k /\ n.entries = nav.entries /\ n.page = nav.page
      /\ n.phase = nav.phase /\ n.to = nav.to /\ n.dom = nav.dom /\ n.leaving = nav.leaving
      /\ n.queue = nav.queue /\ n.loader = nav.loader /\ n.showTimer = nav.showTimer
  BY <1>1, <1>2 DEF WellFormed, Nav
<1> HIDE DEF n, r
<1>5. ~raced' => /\ ~raced /\ AddressOK(nav, unreached) /\ ~IsStuck(nav')
                 /\ ~(nav.phase = "loading" /\ ~nav.to.fromHash)
                 /\ \A i \in 1 .. Len(nav.queue) : nav.queue[i].fromHash
  <2>1. DOMAIN nav.queue = 1 .. Len(nav.queue)
    BY <1>1 DEF WellFormed, Nav
  <2> QED
    BY <1>1, <2>1 DEF LinkWaits, PagesInv
<1>6. CASE nav.phase = "idle"
  <2>1. WellFormed(nav') /\ LoadOK(nav', errTimers)
    BY <1>1, <1>3, <1>4, <1>6, ServeLoads DEF LoadOK
  <2>2. nav'.queue = nav.queue /\ (IsPage(nav', n, r) \/ IsAsked(nav', n, r) \/ IsShown(nav', n, r))
    BY <1>1, <1>3, <1>4, <1>6, ChangePageServes
  <2>3. nav'.at = n.at
    BY <1>3, <2>2 DEF IsPage, IsAsked, IsShown
  <2>4. ASSUME ~raced' PROVE AddressOK(nav', unreached')
    <3>1. NoPops(nav.queue) /\ \A i \in 1 .. Len(nav.queue) : nav.queue[i].fromHash
      BY <1>5, <1>6, <2>4 DEF AddressOK
    <3>2. Ordered(n.queue) /\ Settled(n.queue, n.entries[n.at])
      BY <1>4, <3>1 DEF NoPops, Ordered, Settled
    <3> QED
      BY <1>1, <1>3, <1>4, <1>5, <1>6, <2>3, <2>4, <3>2, ServeKeepsAddress
  <2> QED
    BY <1>1, <2>1, <2>4 DEF PagesInv
<1>7. CASE nav.phase # "idle"
  <2>1. /\ WellFormed(nav') /\ nav'.queue = <<r>> \o nav.queue
        /\ nav'.phase = nav.phase /\ nav'.to = nav.to /\ nav'.dom = nav.dom /\ nav'.page = nav.page
        /\ nav'.leaving = nav.leaving /\ nav'.at = k /\ nav'.entries = nav.entries
        /\ nav'.loader = nav.loader /\ nav'.showTimer = nav.showTimer
    BY <1>1, <1>3, <1>4, <1>7, ChangePageQueues
  <2>2. LoadOK(nav', errTimers)
    BY <1>1, <2>1 DEF LoadOK
  <2>3. ASSUME ~raced' PROVE AddressOK(nav', unreached')
    <3>1. nav.queue \in Seq(Request)
      BY <1>1 DEF WellFormed, Nav
    <3>2. /\ Ordered(nav'.queue) /\ Settled(nav'.queue, nav'.entries[nav'.at])
          /\ ~NoPops(nav'.queue)
      BY <1>3, <1>5, <2>1, <2>3, <3>1, PushPop
    <3> QED
      BY <1>5, <1>7, <2>1, <2>3, <3>2 DEF AddressOK
  <2> QED
    BY <1>1, <2>1, <2>2, <2>3 DEF PagesInv
<1> QED
  BY <1>6, <1>7

LEMMA LoadedInv == ASSUME PagesInv, Loaded PROVE PagesInv'
<1> DEFINE n == hideMsg([nav EXCEPT !.dom = @ \cup {nav.to.page}, !.phase = "idle"])
           r == nav.to
<1>1. /\ nav' = changePage(n, r) /\ Causes(FALSE, FALSE) /\ errTimers' = errTimers
      /\ WellFormed(nav) /\ LoadOK(nav, errTimers) /\ nav.phase = "loading"
  BY DEF Loaded, Becomes, PagesInv
<1>2. r \in Request /\ r.page \in Page
  BY <1>1 DEF WellFormed, Nav, Request
<1>3. /\ WellFormed(n) /\ n.phase = "idle" /\ n.at = nav.at /\ n.entries = nav.entries
      /\ n.page = nav.page /\ n.dom = nav.dom \cup {r.page} /\ n.queue = nav.queue
      /\ n.loader = "off" /\ ~n.showTimer
  BY <1>1, <1>2 DEF hideMsg, WellFormed, Nav
<1>4. r.page # nav.page
  BY <1>1 DEF LoadOK, WellFormed
<1> HIDE DEF n, r
<1>5. WellFormed(nav') /\ LoadOK(nav', errTimers)
  BY <1>1, <1>2, <1>3, ServeLoads
<1>6. nav'.queue = nav.queue /\ IsShown(nav', n, r)
  BY <1>1, <1>2, <1>3, <1>4, ChangePageServes DEF IsPage, IsAsked
<1>7. ASSUME ~raced' PROVE AddressOK(nav', unreached')
  <2>1. CASE nav'.at # nav.at
    BY <1>1, <1>2, <1>3, <1>5, <1>6, <1>7, <2>1, CausesNoPops, ServeSetsAddress
  <2>2. CASE nav'.at = nav.at
    <3>1. ~raced /\ (unreached => unreached')
      BY <1>1, <1>5, <1>7, <2>2, CausesNoPops
    <3>2. AddressOK(nav, unreached)
      BY <3>1 DEF PagesInv
    <3>3. ~IsStuck(nav')
      BY <1>6 DEF IsShown, IsStuck
    <3>4. /\ r.fromHash /\ NoPops(n.queue) => r.page = n.entries[n.at]
          /\ ~r.fromHash => NoPops(n.queue) /\ (unreached' \/ n.page = n.entries[n.at])
      BY <1>1, <1>3, <3>1, <3>2 DEF AddressOK, r
    <3> QED
      BY <1>1, <1>2, <1>3, <2>2, <3>2, <3>3, <3>4, ServeKeepsAddress DEF AddressOK
  <2> QED
    BY <2>1, <2>2
<1> QED
  BY <1>1, <1>5, <1>7 DEF PagesInv

\* The lock is given up in a state n that differs from nav only in what does not matter.
LEMMA ReleaseInv ==
  ASSUME PagesInv, NEW n, WellFormed(n), n.phase # "idle", ~n.showTimer,
         n.loader # "off" => errTimers' > 0, errTimers' \in Nat,
         n.queue = nav.queue, n.at = nav.at, n.entries = nav.entries, n.page = nav.page,
         nav.phase # "idle", nav' = release(n),
         NEW failure, Causes(IsStuck(nav'), failure),
         nav.phase = "loading" /\ nav.to.fromHash => failure
  PROVE  PagesInv'
<1>1. /\ WellFormed(nav') /\ LoadOK(nav', errTimers')
      /\ nav'.at # nav.at /\ NoPops(nav'.queue) => AddressOK(nav', unreached')
      /\ /\ nav'.at = nav.at /\ ~IsStuck(nav')
         /\ Ordered(nav.queue) /\ Settled(nav.queue, nav.entries[nav.at])
         /\ NoPops(nav.queue) => unreached' \/ nav.page = nav.entries[nav.at]
         => AddressOK(nav', unreached')
  <2> DEFINE m == release(n)
  <2>1. /\ WellFormed(m) /\ LoadOK(m, errTimers')
        /\ m.at # n.at /\ NoPops(m.queue) => AddressOK(m, unreached')
        /\ /\ m.at = n.at /\ ~IsStuck(m)
           /\ Ordered(n.queue) /\ Settled(n.queue, n.entries[n.at])
           /\ NoPops(n.queue) => unreached' \/ n.page = n.entries[n.at]
           => AddressOK(m, unreached')
    BY ReleaseServes
  <2> QED
    BY <2>1
<1>2. ASSUME ~raced' PROVE AddressOK(nav', unreached')
  <2>1. CASE nav'.at # nav.at
    BY <1>1, <1>2, <2>1, CausesNoPops
  <2>2. CASE nav'.at = nav.at
    <3>1. ~raced /\ ~IsStuck(nav') /\ (unreached => unreached') /\ (failure => unreached')
      BY <1>1, <1>2, <2>2, CausesNoPops
    <3>2. AddressOK(nav, unreached)
      BY <3>1 DEF PagesInv
    <3> QED
      BY <1>1, <2>2, <3>1, <3>2 DEF AddressOK
  <2> QED
    BY <2>1, <2>2
<1> QED
  BY <1>1, <1>2 DEF PagesInv

LEMMA LoadFailsInv == ASSUME PagesInv, LoadFails PROVE PagesInv'
<1> DEFINE n == [hideMsg(nav) EXCEPT !.loader = "error"]
<1>1. /\ nav.phase = "loading" /\ nav' = release(n) /\ errTimers' = errTimers + 1
      /\ Causes(IsStuck(nav'), nav.to.fromHash) /\ WellFormed(nav) /\ errTimers \in Nat
  BY DEF LoadFails, Becomes, PagesInv
<1>2. /\ WellFormed(n) /\ n.phase = "loading" /\ ~n.showTimer /\ n.queue = nav.queue
      /\ n.at = nav.at /\ n.entries = nav.entries /\ n.page = nav.page
  BY <1>1 DEF hideMsg, WellFormed, Nav
<1> HIDE DEF n
<1>3. errTimers' > 0 /\ errTimers' \in Nat
  BY <1>1
<1> QED
  BY <1>1, <1>2, <1>3, ReleaseInv

LEMMA AnimationEndsInv == ASSUME PagesInv, AnimationEnds PROVE PagesInv'
<1> DEFINE n == hidePage(nav)
<1>1. /\ nav.phase = "moving" /\ nav' = release(n) /\ errTimers' = errTimers
      /\ Causes(IsStuck(nav'), FALSE) /\ WellFormed(nav) /\ errTimers \in Nat
      /\ LoadOK(nav, errTimers)
  BY DEF AnimationEnds, Becomes, PagesInv
<1>2. /\ WellFormed(n) /\ n.phase = "moving" /\ n.showTimer = nav.showTimer
      /\ n.queue = nav.queue /\ n.at = nav.at /\ n.entries = nav.entries /\ n.page = nav.page
      /\ n.loader = nav.loader
  BY <1>1 DEF hidePage, WellFormed, Nav, LoadOK
<1> HIDE DEF n
<1>3. ~n.showTimer /\ (n.loader # "off" => errTimers' > 0)
  BY <1>1, <1>2 DEF LoadOK
<1> QED
  BY <1>1, <1>2, <1>3, ReleaseInv

LEMMA PagesInvStep == PagesInv /\ [PagesNext]_pageVars => PagesInv'
<1> SUFFICES ASSUME PagesInv, [PagesNext]_pageVars PROVE PagesInv'
  OBVIOUS
<1>1. WellFormed(nav) /\ errTimers \in Nat /\ LoadOK(nav, errTimers)
  BY DEF PagesInv
<1>2. CASE ShowMsg
  <2>1. /\ nav' = [nav EXCEPT !.showTimer = FALSE, !.loader = "loading"] /\ nav.phase = "loading"
        /\ UNCHANGED <<errTimers, raced, unreached>>
    BY <1>1, <1>2 DEF ShowMsg, Becomes, LoadOK
  <2>2. WellFormed(nav') /\ LoadOK(nav', errTimers)
    BY <1>1, <2>1 DEF WellFormed, Nav, LoadOK
  <2>3. AddressOK(nav, unreached) => AddressOK(nav', unreached)
    BY <1>1, <2>1 DEF WellFormed, Nav, AddressOK
  <2> QED
    BY <1>1, <2>1, <2>2, <2>3 DEF PagesInv
<1>3. CASE ErrorOver
  <2>1. /\ nav' = [nav EXCEPT !.loader = "off"] /\ errTimers' = errTimers - 1 /\ errTimers > 0
        /\ UNCHANGED <<raced, unreached>>
    BY <1>3 DEF ErrorOver, Becomes
  <2>2. WellFormed(nav') /\ LoadOK(nav', errTimers')
    BY <1>1, <2>1 DEF WellFormed, Nav, LoadOK
  <2>3. AddressOK(nav, unreached) => AddressOK(nav', unreached)
    BY <1>1, <2>1 DEF WellFormed, Nav, AddressOK
  <2>4. errTimers' \in Nat
    BY <1>1, <2>1
  <2> QED
    BY <2>1, <2>2, <2>3, <2>4 DEF PagesInv
<1>4. CASE UNCHANGED pageVars
  BY <1>4 DEF pageVars, PagesInv
<1> QED
  BY <1>2, <1>3, <1>4, ClickLinkInv, TraverseInv, LoadedInv, LoadFailsInv, AnimationEndsInv
  DEF PagesNext

LEMMA PagesInvInit == PagesInit => PagesInv
<1> SUFFICES ASSUME PagesInit PROVE PagesInv
  OBVIOUS
<1> DEFINE e == <<First>>
           q == <<>>
<1>1. First \in Page /\ e \in Seq(Page) /\ Len(e) = 1 /\ e[1] = First
  BY PagesAssumption DEF PagesAssumption
<1>2. q \in Seq(Request) /\ Len(q) = 0 /\ Link(First) \in Request
  BY <1>1 DEF Request, Link
<1>3. nav = [entries |-> e, at |-> 1, stack |-> e, index |-> 1,
             page |-> First, dom |-> {First}, phase |-> "idle", to |-> Link(First),
             leaving |-> First, queue |-> q, loader |-> "off", showTimer |-> FALSE]
  BY DEF PagesInit
<1> HIDE DEF e, q
<1>4. WellFormed(nav)
  <2>1. {First} \in SUBSET Page /\ 1 \in Nat /\ 1 \in 1 .. 1
    BY <1>1
  <2>2. nav \in Nav
    BY <1>1, <1>2, <1>3, <2>1 DEF Nav
  <2>3. /\ nav.entries = e /\ nav.at = 1 /\ nav.stack = e /\ nav.index = 1
        /\ nav.page = First /\ nav.dom = {First}
    BY <1>3
  <2> QED
    BY <1>1, <2>1, <2>2, <2>3 DEF WellFormed
<1>5. LoadOK(nav, errTimers) /\ AddressOK(nav, unreached)
  BY <1>1, <1>2, <1>3 DEF LoadOK, AddressOK, NoPops, Ordered, Settled
<1> QED
  BY <1>4, <1>5 DEF PagesInv, PagesInit

\* A loading message does not stay when nothing is under way (jquery.mobile-1.1.0.js:3036),
\* whatever order loads, failures and the timers come in, for any number of them.
THEOREM MessagesGo == PagesSpec => []MessageGoes
<1>1. PagesInv => MessageGoes
  BY DEF PagesInv, LoadOK, MessageGoes
<1> QED
  BY <1>1, PagesInvInit, PagesInvStep, PTL DEF PagesSpec

\* What the properties remember of races and failures.
CauseFlags == raced \in BOOLEAN /\ unreached \in BOOLEAN

LEMMA CauseFlagsStep == CauseFlags /\ [PagesNext]_pageVars => CauseFlags'
<1> SUFFICES ASSUME CauseFlags, [PagesNext]_pageVars PROVE CauseFlags'
  OBVIOUS
<1>1. ASSUME NEW race, NEW failure, Causes(race, failure) PROVE CauseFlags'
  <2>1. CASE nav'.at # nav.at
    BY <1>1, <2>1, Zenon DEF Causes, CauseFlags
  <2>2. CASE nav'.at = nav.at
    <3>1. raced' = (raced \/ race) /\ unreached' = (unreached \/ failure)
      BY <1>1, <2>2 DEF Causes
    <3> QED
      BY <3>1, Zenon DEF CauseFlags
  <2> QED
    BY <2>1, <2>2
<1>2. ASSUME NEW p \in Page \ {First}, ClickLink(p) PROVE CauseFlags'
  BY <1>1, <1>2 DEF ClickLink
<1>3. ASSUME NEW k \in 1 .. MaxHistory, Traverse(k) PROVE CauseFlags'
  BY <1>3, Zenon DEF Traverse, CauseFlags
<1>4. CASE Loaded
  BY <1>1, <1>4 DEF Loaded
<1>5. CASE LoadFails
  BY <1>1, <1>5 DEF LoadFails
<1>6. CASE AnimationEnds
  BY <1>1, <1>6 DEF AnimationEnds
<1>7. CASE ShowMsg \/ ErrorOver \/ UNCHANGED pageVars
  BY <1>7 DEF ShowMsg, ErrorOver, pageVars, CauseFlags
<1> QED
  BY <1>2, <1>3, <1>4, <1>5, <1>6, <1>7 DEF PagesNext

LEMMA PagesInvTypes == PagesInv /\ CauseFlags => PagesTypeOK
<1> SUFFICES ASSUME PagesInv, CauseFlags PROVE PagesTypeOK
  OBVIOUS
<1>1. nav \in Nav /\ nav.at \in 1 .. Len(nav.entries) /\ nav.index \in 1 .. Len(nav.stack)
  BY DEF PagesInv, WellFormed
<1>2. nav.entries \in Seq(Page) /\ nav.stack \in Seq(Page)
  BY <1>1 DEF Nav
<1>3. nav.at \in DOMAIN nav.entries /\ nav.index \in DOMAIN nav.stack
  BY <1>1, <1>2
<1>4. HistoryIsPage /\ {nav.page, First} \subseteq nav.dom
  BY DEF PagesInv, WellFormed, HistoryIsPage
<1> QED
  BY <1>1, <1>3, <1>4 DEF PagesTypeOK, CauseFlags, PagesInv, Nav

\* The address is that of the page that is displayed, for any pages, histories and queues.
THEOREM AddressesArePages == PagesSpec => [](PagesTypeOK /\ AddressIsPage)
<1>1. PagesInv => AddressIsPage
  BY DEF PagesInv, AddressOK, AddressIsPage
<1>2. PagesInit => CauseFlags
  BY DEF PagesInit, CauseFlags
<1> QED
  BY <1>1, <1>2, PagesInvInit, PagesInvStep, PagesInvTypes, CauseFlagsStep, PTL DEF PagesSpec

\* urlHistory knows the page that is displayed.
THEOREM HistoryIsOfPage == PagesSpec => []HistoryIsPage
<1>1. PagesInv => HistoryIsPage
  BY DEF PagesInv, WellFormed, HistoryIsPage
<1> QED
  BY <1>1, PagesInvInit, PagesInvStep, PTL DEF PagesSpec

-----------------------------------------------------------------------------
(* The links: paths.                                                       *)

LEMMA AllButLast ==
  ASSUME NEW S, NEW s \in Seq(S), s # <<>>
  PROVE  Front(s) \in Seq(S) /\ Len(Front(s)) = Len(s) - 1 /\ \A k \in 1 .. Len(s) - 1 : Front(s)[k] = s[k]
<1>1. PICK n \in Nat : n + 1 = Len(s)
  OBVIOUS
<1>2. SubSeq(s, 1, n) \in Seq(S) /\ Len(SubSeq(s, 1, n)) = n /\ \A k \in 1 .. n : SubSeq(s, 1, n)[k] = s[k]
  BY <1>1
<1>3. Front(s) = SubSeq(s, 1, n) /\ Len(s) - 1 = n
  BY <1>1 DEF Front
<1> QED
  BY <1>2, <1>3

LEMMA SameElements ==
  ASSUME NEW S, NEW s \in Seq(S), NEW t \in Seq(S), Len(s) = Len(t), \A k \in 1 .. Len(s) : s[k] = t[k]
  PROVE  s = t
OBVIOUS

LEMMA FrontOfAppend ==
  ASSUME NEW S, NEW s \in Seq(S), NEW x \in S
  PROVE  Append(s, x) # <<>> /\ Front(Append(s, x)) = s
<1>1. /\ Append(s, x) \in Seq(S) /\ Len(Append(s, x)) = Len(s) + 1 /\ Len(s) \in Nat
      /\ \A k \in 1 .. Len(s) : Append(s, x)[k] = s[k]
  BY AppendElements
<1>2. Append(s, x) # <<>>
  BY <1>1
<1> DEFINE f == Front(Append(s, x))
<1>3. f \in Seq(S) /\ Len(f) = Len(s) /\ \A k \in 1 .. Len(s) : f[k] = s[k]
  <2>1. PICK t \in Seq(S) : t = Append(s, x)
    BY <1>1
  <2>2. t # <<>> /\ Len(t) - 1 = Len(s)
    BY <1>1, <1>2, <2>1
  <2>3. /\ Front(t) \in Seq(S) /\ Len(Front(t)) = Len(s)
        /\ \A k \in 1 .. Len(s) : Front(t)[k] = t[k]
    BY <2>2, AllButLast
  <2> QED
    BY <1>1, <2>1, <2>3
<1> HIDE DEF f
<1> QED
  <2>1. f = s
    BY <1>3, SameElements
  <2> QED
    BY <1>2, <2>1 DEF f

\* A turn of the loop keeps the dots out.
LEMMA PushType ==
  ASSUME NEW stack \in Seq(Name), NEW d \in STRING
  PROVE  Push(stack, d) \in Seq(Name)
<1>1. CASE d = "."
  BY <1>1 DEF Push
<1>2. CASE d = ".."
  <2>1. Push(stack, d) = IF stack = <<>> THEN stack ELSE Front(stack)
    BY <1>2 DEF Push
  <2> QED
    BY <2>1, AllButLast
<1>3. CASE d \notin {".", ".."}
  <2>1. Push(stack, d) = Append(stack, d) /\ d \in Name
    BY <1>3 DEF Push, Name
  <2> QED
    BY <2>1, AppendElements
<1> QED
  BY <1>1, <1>2, <1>3

\* What the loop holds after each turn.
LEMMA PushedTurns ==
  ASSUME NEW stack \in Seq(Name), NEW s \in Seq(STRING)
  PROVE  \E after \in [0 .. Len(s) -> Seq(Name)] :
           /\ after[0] = stack
           /\ \A k \in 1 .. Len(s) : after[k] = Push(after[k - 1], s[k])
           /\ Pushed(stack, s) = after[Len(s)]
<1>1. PICK n \in Nat : n = Len(s)
  OBVIOUS
<1> DEFINE V == Seq(Name)
           step == [x \in V \X (1 .. n) |-> Push(x[1], s[x[2]])]
<1>2. step \in [V \X (1 .. n) -> V]
  <2>1. ASSUME NEW x \in V \X (1 .. n) PROVE Push(x[1], s[x[2]]) \in V
    <3>1. x[1] \in Seq(Name) /\ s[x[2]] \in STRING
      BY <1>1
    <3> QED
      BY <3>1, PushType
  <2> HIDE DEF V
  <2> QED
    BY <2>1
<1>3. PICK f : Solves(f, n, V, stack, step)
  <2>1. stack \in V
    OBVIOUS
  <2> HIDE DEF step, V
  <2> QED
    BY <1>1, <1>2, <2>1, Recursion
<1>4. f \in [0 .. n -> V] /\ f[0] = stack /\ \A k \in 1 .. n : f[k] = Push(f[k - 1], s[k])
  <2>1. f \in [0 .. n -> V] /\ f[0] = stack /\ \A k \in 1 .. n : f[k] = step[<<f[k - 1], k>>]
    BY <1>3 DEF Solves
  <2>2. ASSUME NEW k \in 1 .. n PROVE step[<<f[k - 1], k>>] = Push(f[k - 1], s[k])
    <3>1. k - 1 \in 0 .. n
      BY <1>1
    <3>2. f[k - 1] \in V
      BY <2>1, <3>1
    <3>3. <<f[k - 1], k>> \in V \X (1 .. n)
      BY <3>2
    <3> HIDE DEF V
    <3> QED
      BY <3>3
  <2> HIDE DEF step, V
  <2> QED
    BY <2>1, <2>2
<1> DEFINE Is(g) == g = [k \in 0 .. n |-> IF k = 0 THEN stack ELSE Push(g[k - 1], s[k])]
           F == CHOOSE g : Is(g)
<1>5. Is(f)
  <2> HIDE DEF V
  <2>1. \A k \in 0 .. n : f[k] = IF k = 0 THEN stack ELSE Push(f[k - 1], s[k])
    BY <1>4
  <2>2. f = [k \in 0 .. n |-> f[k]]
    BY <1>4
  <2> QED
    BY <2>1, <2>2
<1>6. Is(F)
  <2> HIDE DEF Is
  <2> QED
    BY <1>5
<1>7. \A k \in 0 .. n : F[k] = IF k = 0 THEN stack ELSE Push(F[k - 1], s[k])
  <2> HIDE DEF F
  <2> QED
    BY <1>6
<1>8. Pushed(stack, s) = F[n]
  BY <1>1 DEF Pushed
<1> HIDE DEF F, V
<1>9. StepAlike(F, f, n)
  BY <1>1, <1>4, <1>7 DEF StepAlike
<1>10. F[n] = f[n]
  BY <1>1, <1>9, EndAlike
<1> QED
  BY <1>1, <1>4, <1>8, <1>10 DEF V

\* What Only holds after each part.
Gathers(only, s, T) ==
  /\ only \in [0 .. Len(s) -> Seq(Name)] /\ only[0] = <<>>
  /\ \A k \in 1 .. Len(s) : only[k] = IF k \in T THEN Append(only[k - 1], s[k]) ELSE only[k - 1]
  /\ Only(s, T) = only[Len(s)]

LEMMA OnlyTurns ==
  ASSUME NEW s \in Seq(STRING), NEW T, \A k \in 1 .. Len(s) : k \in T => s[k] \in Name
  PROVE  \E only : Gathers(only, s, T)
<1>1. PICK n \in Nat : n = Len(s)
  OBVIOUS
<1> DEFINE V == Seq(Name)
           Turn_(v, k) == IF k \in T THEN Append(v, s[k]) ELSE v
           step == [x \in V \X (1 .. n) |-> Turn_(x[1], x[2])]
<1>2. step \in [V \X (1 .. n) -> V]
  <2>1. ASSUME NEW x \in V \X (1 .. n) PROVE Turn_(x[1], x[2]) \in V
    <3>1. x[1] \in Seq(Name) /\ x[2] \in 1 .. n
      OBVIOUS
    <3>2. x[2] \in T => Append(x[1], s[x[2]]) \in Seq(Name)
      <4>1. x[2] \in T => s[x[2]] \in Name
        BY <1>1, <3>1
      <4> QED
        BY <3>1, <4>1, AppendElements
    <3> QED
      BY <3>1, <3>2
  <2> HIDE DEF V, Turn_
  <2> QED
    BY <2>1
<1> HIDE DEF Turn_
<1>3. PICK f : Solves(f, n, V, <<>>, step)
  <2>1. <<>> \in V
    OBVIOUS
  <2> HIDE DEF step, V
  <2> QED
    BY <1>1, <1>2, <2>1, Recursion
<1>4. f \in [0 .. n -> V] /\ f[0] = <<>> /\ \A k \in 1 .. n : f[k] = Turn_(f[k - 1], k)
  <2>1. f \in [0 .. n -> V] /\ f[0] = <<>> /\ \A k \in 1 .. n : f[k] = step[<<f[k - 1], k>>]
    BY <1>3 DEF Solves
  <2>2. ASSUME NEW k \in 1 .. n PROVE step[<<f[k - 1], k>>] = Turn_(f[k - 1], k)
    <3>1. k - 1 \in 0 .. n
      BY <1>1
    <3>2. f[k - 1] \in V
      BY <2>1, <3>1
    <3>3. <<f[k - 1], k>> \in V \X (1 .. n)
      BY <3>2
    <3> HIDE DEF V
    <3> QED
      BY <3>3
  <2> HIDE DEF step, V
  <2> QED
    BY <2>1, <2>2
<1> USE DEF Turn_
<1> DEFINE Is(g) == g = [k \in 0 .. n |->
                           IF k = 0 THEN <<>> ELSE IF k \in T THEN Append(g[k - 1], s[k]) ELSE g[k - 1]]
           F == CHOOSE g : Is(g)
<1>5. Is(f)
  <2> HIDE DEF V
  <2>1. \A k \in 0 .. n : f[k] = IF k = 0 THEN <<>> ELSE Turn_(f[k - 1], k)
    <3> HIDE DEF Turn_
    <3>1. \A k \in 0 .. n : k = 0 \/ k \in 1 .. n
      BY <1>1
    <3> QED
      BY <1>4, <3>1
  <2>2. f = [k \in 0 .. n |-> f[k]]
    BY <1>4
  <2> QED
    BY <2>1, <2>2
<1>6. Is(F)
  <2> HIDE DEF Is
  <2> QED
    BY <1>5
<1>7. \A k \in 0 .. n : F[k] = IF k = 0 THEN <<>> ELSE Turn_(F[k - 1], k)
  <2> HIDE DEF F
  <2> QED
    BY <1>6
<1>8. Only(s, T) = F[n]
  BY <1>1 DEF Only
<1> HIDE DEF F, V, Turn_
<1>9. StepAlike(F, f, n)
  BY <1>1, <1>4, <1>7 DEF StepAlike
<1>10. F[n] = f[n]
  BY <1>1, <1>9, EndAlike
<1> QED
  BY <1>1, <1>4, <1>8, <1>10 DEF V, Turn_, Gathers

\* How the height goes up and down.
LEMMA HeightTurns ==
  ASSUME NEW s \in Seq(STRING)
  PROVE  LET height == Height(s)
         IN /\ height \in [0 .. Len(s) -> Int] /\ height[0] = 0
            /\ \A k \in 1 .. Len(s) : height[k] = height[k - 1] + Rise(s[k])
<1>1. PICK n \in Nat : n = Len(s)
  OBVIOUS
<1>2. \A d : Rise(d) \in Int
  BY DEF Rise
<1> DEFINE step == [x \in Int \X (1 .. n) |-> x[1] + Rise(s[x[2]])]
<1>3. step \in [Int \X (1 .. n) -> Int]
  BY <1>2
<1>4. PICK f : Solves(f, n, Int, 0, step)
  <2>1. PICK W, zero : W = Int /\ zero = 0 /\ zero \in W
    OBVIOUS
  <2>2. step \in [W \X (1 .. n) -> W]
    BY <1>3, <2>1
  <2> HIDE DEF step
  <2>3. \E f : Solves(f, n, W, zero, step)
    BY <1>1, <2>1, <2>2, Recursion
  <2> QED
    BY <2>1, <2>3
<1>5. f \in [0 .. n -> Int] /\ f[0] = 0 /\ \A k \in 1 .. n : f[k] = f[k - 1] + Rise(s[k])
  <2>1. f \in [0 .. n -> Int] /\ f[0] = 0 /\ \A k \in 1 .. n : f[k] = step[<<f[k - 1], k>>]
    BY <1>4 DEF Solves
  <2>2. ASSUME NEW k \in 1 .. n PROVE step[<<f[k - 1], k>>] = f[k - 1] + Rise(s[k])
    <3>1. k - 1 \in 0 .. n
      BY <1>1
    <3>2. f[k - 1] \in Int
      BY <2>1, <3>1
    <3>3. <<f[k - 1], k>> \in Int \X (1 .. n)
      BY <3>2
    <3> QED
      BY <3>3
  <2> HIDE DEF step
  <2> QED
    BY <2>1, <2>2
<1> DEFINE Is(g) == g = [k \in 0 .. n |-> IF k = 0 THEN 0 ELSE g[k - 1] + Rise(s[k])]
           F == CHOOSE g : Is(g)
<1>6. Is(f)
  <2>1. \A k \in 0 .. n : f[k] = IF k = 0 THEN 0 ELSE f[k - 1] + Rise(s[k])
    BY <1>5
  <2>2. f = [k \in 0 .. n |-> f[k]]
    BY <1>5
  <2> QED
    BY <2>1, <2>2
<1>7. Is(F)
  <2> HIDE DEF Is
  <2> QED
    BY <1>6
<1>8. /\ F = [k \in 0 .. n |-> F[k]]
      /\ \A k \in 0 .. n : F[k] = IF k = 0 THEN 0 ELSE F[k - 1] + Rise(s[k])
  <2> HIDE DEF F
  <2> QED
    BY <1>7
<1>9. Height(s) = F
  BY <1>1 DEF Height
<1> HIDE DEF F
<1> DEFINE Whole == {k \in 0 .. n : F[k] \in Int}
<1>10. 0 .. n \subseteq Whole
  <2>1. 0 \in Whole
    BY <1>8
  <2>2. ASSUME NEW k \in 0 .. n, k \in Whole, k < n PROVE k + 1 \in Whole
    <3>1. k + 1 \in 0 .. n /\ k + 1 # 0 /\ (k + 1) - 1 = k
      BY <2>2
    <3>2. F[k + 1] = F[k] + Rise(s[k + 1])
      BY <1>8, <3>1
    <3> QED
      BY <1>2, <2>2, <3>1, <3>2
  <2> HIDE DEF Whole
  <2> QED
    BY <2>1, <2>2, UpTo
<1>11. F \in [0 .. n -> Int]
  BY <1>8, <1>10
<1> QED
  BY <1>1, <1>8, <1>9, <1>11

LEMMA OnlyType ==
  ASSUME NEW s \in Seq(STRING), NEW T, \A k \in 1 .. Len(s) : k \in T => s[k] \in Name
  PROVE  Only(s, T) \in Seq(Name)
<1>1. PICK only : Gathers(only, s, T)
  BY OnlyTurns
<1>2. Len(s) \in 0 .. Len(s)
  OBVIOUS
<1> QED
  BY <1>1, <1>2 DEF Gathers

LEMMA OnlyNothing ==
  ASSUME NEW s \in Seq(STRING)
  PROVE  Only(s, {}) = <<>>
<1>1. PICK only \in [0 .. Len(s) -> Seq(Name)] :
         /\ only[0] = <<>>
         /\ \A k \in 1 .. Len(s) : only[k] = only[k - 1]
         /\ Only(s, {}) = only[Len(s)]
  <2>1. PICK only : Gathers(only, s, {})
    BY OnlyTurns
  <2> QED
    BY <2>1 DEF Gathers
<1>2. PICK n \in Nat : n = Len(s)
  OBVIOUS
<1> DEFINE Empty == {k \in 0 .. n : only[k] = <<>>}
<1>3. 0 .. n \subseteq Empty
  <2>1. 0 \in Empty
    BY <1>1
  <2>2. ASSUME NEW k \in 0 .. n, k \in Empty, k < n PROVE k + 1 \in Empty
    <3>1. k + 1 \in 0 .. n /\ k + 1 \in 1 .. n /\ (k + 1) - 1 = k
      BY <2>2
    <3> QED
      BY <1>1, <1>2, <2>2, <3>1
  <2> HIDE DEF Empty
  <2> QED
    BY <2>1, <2>2, UpTo
<1>4. n \in Empty
  <2> HIDE DEF Empty
  <2> QED
    BY <1>3
<1> QED
  BY <1>1, <1>2, <1>4

\* One more part, behind the others.
LEMMA OnlyOneMore ==
  ASSUME NEW s \in Seq(STRING), NEW m \in 1 .. Len(s), NEW T, T \subseteq 1 .. m - 1,
         \A k \in T \cup {m} : s[k] \in Name
  PROVE  Only(s, T \cup {m}) = Append(Only(s, T), s[m])
<1>1. PICK n \in Nat : n = Len(s)
  OBVIOUS
<1>2. PICK p :
         /\ p[0] = <<>>
         /\ \A k \in 1 .. n : p[k] = IF k \in T THEN Append(p[k - 1], s[k]) ELSE p[k - 1]
         /\ Only(s, T) = p[n]
  <2>1. PICK p : Gathers(p, s, T)
    BY OnlyTurns
  <2> QED
    BY <1>1, <2>1 DEF Gathers
<1>3. PICK q :
         /\ q[0] = <<>>
         /\ \A k \in 1 .. n : q[k] = IF k \in T \cup {m} THEN Append(q[k - 1], s[k]) ELSE q[k - 1]
         /\ Only(s, T \cup {m}) = q[n]
  <2>1. PICK U : U = T \cup {m}
    OBVIOUS
  <2>2. PICK q : Gathers(q, s, U)
    BY <2>1, OnlyTurns
  <2> QED
    BY <1>1, <2>1, <2>2 DEF Gathers
<1> DEFINE Good == {k \in 0 .. n : q[k] = IF k < m THEN p[k] ELSE Append(p[k], s[m])}
<1>4. 0 \in Good
  BY <1>2, <1>3
<1>5. ASSUME NEW k \in 0 .. n, k \in Good, k < n PROVE k + 1 \in Good
  <2>1. k + 1 \in 0 .. n /\ k + 1 \in 1 .. n /\ (k + 1) - 1 = k
    BY <1>5
  <2>2. /\ p[k + 1] = IF k + 1 \in T THEN Append(p[k], s[k + 1]) ELSE p[k]
        /\ q[k + 1] = IF k + 1 \in T \cup {m} THEN Append(q[k], s[k + 1]) ELSE q[k]
    BY <1>2, <1>3, <2>1
  <2>3. CASE k + 1 < m
    <3>1. q[k] = p[k] /\ k + 1 # m
      BY <1>5, <2>3
    <3> QED
      BY <2>1, <2>2, <2>3, <3>1
  <2>4. CASE k + 1 = m
    <3>1. q[k] = p[k] /\ k + 1 \notin T /\ k + 1 \in T \cup {m} /\ ~(k + 1 < m)
      BY <1>5, <2>4
    <3>2. q[k + 1] = Append(p[k], s[k + 1]) /\ p[k + 1] = p[k] /\ s[k + 1] = s[m]
      BY <2>2, <2>4, <3>1
    <3> QED
      BY <2>1, <3>1, <3>2
  <2>5. CASE k + 1 > m
    <3>1. q[k] = Append(p[k], s[m]) /\ k + 1 \notin T \cup {m} /\ k + 1 \notin T /\ ~(k + 1 < m)
      <4>1. ~(k < m) /\ k + 1 # m /\ k + 1 \notin 1 .. m - 1 /\ ~(k + 1 < m)
        BY <2>5
      <4> QED
        BY <1>5, <4>1
    <3> QED
      BY <2>1, <2>2, <3>1
  <2> QED
    BY <2>1, <2>3, <2>4, <2>5
<1>6. n \in Good
  <2> HIDE DEF Good
  <2>1. 0 .. n \subseteq Good
    BY <1>4, <1>5, UpTo
  <2> QED
    BY <2>1
<1>7. ~(n < m)
  BY <1>1
<1> QED
  BY <1>2, <1>3, <1>6, <1>7

\* A name stays for now; a dot changes nothing.
LEMMA StaysMore ==
  ASSUME NEW s \in Seq(STRING), NEW m \in 0 .. Len(s) - 1
  PROVE  /\ Stays(s, m) \subseteq 1 .. m
         /\ IsName(s[m + 1]) => Stays(s, m + 1) = Stays(s, m) \cup {m + 1}
         /\ s[m + 1] = "." => Stays(s, m + 1) = Stays(s, m)
<1>1. PICK n \in Nat : n = Len(s)
  OBVIOUS
<1>2. PICK h : h = Height(s)
  OBVIOUS
<1>3. h \in [0 .. n -> Int] /\ \A k \in 1 .. n : h[k] = h[k - 1] + Rise(s[k])
  BY <1>1, <1>2, HeightTurns
<1>4. \A i \in Nat : Stays(s, i) = {k \in 1 .. i : IsName(s[k]) /\ \A j \in k .. i : h[k] <= h[j]}
  BY <1>2 DEF Stays
<1>5. m \in 0 .. n /\ m + 1 \in 1 .. n /\ m + 1 \in 0 .. n /\ (m + 1) - 1 = m /\ m \in Nat /\ m + 1 \in Nat
  BY <1>1
<1>6. h[m + 1] = h[m] + Rise(s[m + 1]) /\ h[m] \in Int /\ h[m + 1] \in Int
  BY <1>3, <1>5
<1>7. Stays(s, m) \subseteq 1 .. m
  BY <1>4, <1>5
<1>8. ASSUME h[m] <= h[m + 1], NEW k \in 1 .. m
      PROVE  k \in Stays(s, m + 1) <=> k \in Stays(s, m)
  <2>1. h[k] \in Int /\ m \in k .. m /\ k \in 1 .. m + 1
    BY <1>3, <1>5
  <2>2. (\A j \in k .. m + 1 : h[k] <= h[j]) <=> (\A j \in k .. m : h[k] <= h[j])
    <3>1. \A j \in k .. m + 1 : j \in k .. m \/ j = m + 1
      BY <1>5
    <3>2. \A j \in k .. m : j \in k .. m + 1
      BY <1>5
    <3>3. h[k] <= h[m] => h[k] <= h[m + 1]
      BY <1>6, <1>8, <2>1
    <3> QED
      BY <2>1, <3>1, <3>2, <3>3
  <2> QED
    BY <1>4, <1>5, <2>1, <2>2
<1>9. ASSUME IsName(s[m + 1]) PROVE Stays(s, m + 1) = Stays(s, m) \cup {m + 1}
  <2>1. h[m] <= h[m + 1]
    BY <1>6, <1>9 DEF Rise
  <2>2. m + 1 \in Stays(s, m + 1)
    <3>1. m + 1 \in 1 .. m + 1 /\ \A j \in m + 1 .. m + 1 : j = m + 1
      BY <1>5
    <3>2. h[m + 1] <= h[m + 1]
      BY <1>6
    <3> QED
      BY <1>4, <1>5, <1>9, <3>1, <3>2
  <2>3. Stays(s, m + 1) \subseteq 1 .. m + 1 /\ \A k \in 1 .. m + 1 : k \in 1 .. m \/ k = m + 1
    BY <1>4, <1>5
  <2> QED
    BY <1>7, <1>8, <2>1, <2>2, <2>3
<1>10. ASSUME s[m + 1] = "." PROVE Stays(s, m + 1) = Stays(s, m)
  <2>1. h[m] <= h[m + 1] /\ ~IsName(s[m + 1])
    BY <1>6, <1>10 DEF Rise, IsName
  <2>2. m + 1 \notin Stays(s, m + 1)
    BY <1>4, <1>5, <2>1
  <2>3. Stays(s, m + 1) \subseteq 1 .. m + 1 /\ \A k \in 1 .. m + 1 : k \in 1 .. m \/ k = m + 1
    BY <1>4, <1>5
  <2> QED
    BY <1>7, <1>8, <2>1, <2>2, <2>3
<1> QED
  BY <1>7, <1>9, <1>10

\* A ".." takes back the last name that stays, if there is one: the height after it is
\* the one of the whole path.
LEMMA StaysLess ==
  ASSUME NEW s \in Seq(STRING), NEW m \in 0 .. Len(s) - 1, s[m + 1] = ".."
  PROVE  \/ Stays(s, m) = {} /\ Stays(s, m + 1) = {}
         \/ \E k \in 1 .. m : /\ IsName(s[k]) /\ Stays(s, m + 1) \subseteq 1 .. k - 1
                              /\ Stays(s, m) = Stays(s, m + 1) \cup {k}
<1>1. PICK n \in Nat : n = Len(s)
  OBVIOUS
<1>2. PICK h : h = Height(s)
  OBVIOUS
<1>3. h \in [0 .. n -> Int] /\ \A k \in 1 .. n : h[k] = h[k - 1] + Rise(s[k])
  BY <1>1, <1>2, HeightTurns
<1>4. \A i \in Nat : Stays(s, i) = {k \in 1 .. i : IsName(s[k]) /\ \A j \in k .. i : h[k] <= h[j]}
  BY <1>2 DEF Stays
<1>5. m \in 0 .. n /\ m + 1 \in 1 .. n /\ m + 1 \in 0 .. n /\ (m + 1) - 1 = m /\ m \in Nat /\ m + 1 \in Nat
  BY <1>1
<1>6. h[m] \in Int /\ h[m + 1] \in Int /\ h[m + 1] = h[m] - 1 /\ ~IsName(s[m + 1])
  <2>1. h[m] \in Int /\ h[m + 1] \in Int /\ h[m + 1] = h[m] + Rise(s[m + 1])
    BY <1>3, <1>5
  <2>2. Rise(s[m + 1]) = -1 /\ ~IsName(s[m + 1])
    BY DEF Rise, IsName
  <2> QED
    BY <2>1, <2>2
<1>7. Stays(s, m) \subseteq 1 .. m
  BY <1>4, <1>5
\* What stays is what stayed, if it is low enough.
<1>8. ASSUME NEW k
      PROVE  k \in Stays(s, m + 1) <=> k \in Stays(s, m) /\ h[k] <= h[m + 1]
  <2>1. CASE k \in 1 .. m
    <3>1. /\ \A j \in k .. m + 1 : j \in k .. m \/ j = m + 1
          /\ \A j \in k .. m : j \in k .. m + 1
          /\ m + 1 \in k .. m + 1 /\ k \in 1 .. m + 1
      BY <1>5, <2>1
    <3>2. (\A j \in k .. m + 1 : h[k] <= h[j]) <=> (\A j \in k .. m : h[k] <= h[j]) /\ h[k] <= h[m + 1]
      BY <3>1
    <3> QED
      BY <1>4, <1>5, <2>1, <3>1, <3>2
  <2>2. CASE k = m + 1
    BY <1>4, <1>5, <1>6, <1>7, <2>2
  <2>3. CASE k \notin 1 .. m /\ k # m + 1
    <3>1. k \notin 1 .. m + 1
      BY <1>5, <2>3
    <3> QED
      BY <1>4, <1>5, <1>7, <2>3, <3>1
  <2> QED
    BY <2>1, <2>2, <2>3
<1>9. CASE Stays(s, m) = {}
  BY <1>8, <1>9
<1>10. CASE Stays(s, m) # {}
  <2>1. PICK k \in Stays(s, m) : \A j \in Stays(s, m) : j <= k
    <3>1. PICK T : T = Stays(s, m)
      OBVIOUS
    <3>2. T \subseteq 0 .. m /\ T # {}
      BY <1>7, <1>10, <3>1
    <3>3. \E k \in T : \A j \in T : j <= k
      BY <1>5, <3>2, LastExists
    <3> QED
      BY <3>1, <3>3
  <2>2. k \in 1 .. m /\ IsName(s[k]) /\ \A j \in k .. m : h[k] <= h[j]
    BY <1>4, <1>5, <2>1
  <2>3. k \in 1 .. n /\ k \in 0 .. n /\ k - 1 \in 0 .. n /\ m \in k .. m
    BY <1>5, <2>2
  <2>4. h[k] \in Int /\ h[k - 1] \in Int /\ h[k] = h[k - 1] + 1
    <3>1. h[k] = h[k - 1] + Rise(s[k]) /\ Rise(s[k]) = 1
      BY <1>3, <2>2, <2>3 DEF Rise
    <3> QED
      BY <1>3, <2>3, <3>1
  \* Else the height would rise for good behind k, and a later name would stay.
  <2>5. h[k] = h[m]
    <3>1. SUFFICES ASSUME h[k] < h[m] PROVE FALSE
      BY <1>6, <2>2, <2>3, <2>4
    <3> DEFINE Low == {j \in 0 .. m : k <= j /\ h[j] = h[k]}
    <3>2. PICK l \in Low : \A j \in Low : j <= l
      <4>1. k \in Low /\ Low \subseteq 0 .. m
        BY <2>2
      <4> HIDE DEF Low
      <4> QED
        BY <1>5, <4>1, LastExists
    <3>3. l \in 0 .. m /\ k <= l /\ h[l] = h[k] /\ l # m
      <4>1. h[k] # h[m]
        BY <1>6, <2>4, <3>1
      <4> QED
        BY <3>2, <4>1
    <3>4. l + 1 \in 1 .. m /\ l + 1 \in 1 .. n /\ (l + 1) - 1 = l /\ l + 1 > k
      BY <1>5, <2>2, <3>3
    <3>5. \A j \in l + 1 .. m : j \in k .. m /\ j \in 0 .. n /\ j \notin Low
      BY <1>5, <2>2, <3>2, <3>3
    <3>6. \A j \in l + 1 .. m : h[j] \in Int /\ h[j] >= h[k] + 1
      <4>1. ASSUME NEW j \in l + 1 .. m PROVE h[j] \in Int /\ h[j] >= h[k] + 1
        <5>1. h[j] \in Int /\ h[k] <= h[j]
          BY <1>3, <2>2, <3>5
        <5>2. j \in 0 .. m /\ k <= j
          BY <2>2, <3>5
        <5>3. h[j] # h[k]
          BY <3>5, <5>2
        <5> QED
          BY <2>4, <5>1, <5>3
      <4> QED
        BY <4>1
    <3>7. h[l + 1] = h[k] + Rise(s[l + 1])
      BY <1>3, <3>3, <3>4
    <3>8. l + 1 \in l + 1 .. m
      BY <3>4
    <3>9. IsName(s[l + 1]) /\ h[l + 1] = h[k] + 1
      <4>1. h[l + 1] >= h[k] + 1
        BY <3>6, <3>8
      <4>2. CASE IsName(s[l + 1])
        BY <3>7, <4>2 DEF Rise
      <4>3. CASE ~IsName(s[l + 1])
        <5>1. Rise(s[l + 1]) \in {0, -1}
          BY <4>3 DEF Rise
        <5> QED
          BY <2>4, <3>7, <4>1, <5>1
      <4> QED
        BY <4>2, <4>3
    <3>10. l + 1 \in Stays(s, m)
      <4>1. \A j \in l + 1 .. m : h[l + 1] <= h[j]
        BY <2>4, <3>6, <3>9
      <4> QED
        BY <1>4, <1>5, <3>4, <3>9, <4>1
    <3>11. l + 1 <= k
      BY <2>1, <3>10
    <3> QED
      BY <2>2, <3>3, <3>4, <3>11
  <2>6. k \notin Stays(s, m + 1)
    BY <1>6, <1>8, <2>4, <2>5
  <2>7. ASSUME NEW i \in Stays(s, m), i # k PROVE i \in Stays(s, m + 1) /\ i \in 1 .. k - 1
    <3>1. i \in 1 .. m /\ i <= k /\ \A j \in i .. m : h[i] <= h[j]
      BY <1>4, <1>5, <2>1
    <3>2. i \in 1 .. k - 1 /\ k - 1 \in i .. m /\ i \in 0 .. n
      BY <1>5, <2>2, <2>7, <3>1
    <3>3. h[i] <= h[k - 1] /\ h[i] \in Int
      BY <1>3, <3>1, <3>2
    <3>4. h[i] <= h[m + 1]
      BY <1>6, <2>4, <2>5, <3>3
    <3> QED
      BY <1>8, <3>2, <3>4
  <2>8. Stays(s, m + 1) \subseteq Stays(s, m)
    BY <1>8
  <2> QED
    BY <2>1, <2>2, <2>6, <2>7, <2>8
<1> QED
  BY <1>9, <1>10

LEMMA StaysNames ==
  ASSUME NEW s \in Seq(STRING), NEW m \in 0 .. Len(s), NEW k \in Stays(s, m)
  PROVE  k \in 1 .. m /\ IsName(s[k]) /\ s[k] \in Name
<1>1. k \in 1 .. m /\ IsName(s[k])
  BY DEF Stays
<1>2. s[k] \in STRING
  BY <1>1
<1> QED
  BY <1>1, <1>2 DEF IsName, Name

LEMMA RemainType ==
  ASSUME NEW s \in Seq(STRING), NEW m \in 0 .. Len(s)
  PROVE  Only(s, Stays(s, m)) \in Seq(Name)
<1>1. \A k \in 1 .. Len(s) : k \in Stays(s, m) => s[k] \in Name
  BY StaysNames
<1>2. PICK T : T = Stays(s, m)
  OBVIOUS
<1> QED
  BY <1>1, <1>2, OnlyType

\* What remains follows the turns of the loop.
LEMMA RemainPushes ==
  ASSUME NEW s \in Seq(STRING), NEW m \in 0 .. Len(s) - 1
  PROVE  Only(s, Stays(s, m + 1)) = Push(Only(s, Stays(s, m)), s[m + 1])
<1>1. /\ m \in 0 .. Len(s) /\ m + 1 \in 0 .. Len(s) /\ m + 1 \in 1 .. Len(s) /\ m = (m + 1) - 1
      /\ s[m + 1] \in STRING
  OBVIOUS
<1>2. CASE IsName(s[m + 1])
  <2>1. PICK T : T = Stays(s, m)
    OBVIOUS
  <2>2. PICK l : l = m + 1
    OBVIOUS
  <2>3. T \subseteq 1 .. l - 1 /\ Stays(s, m + 1) = T \cup {l} /\ l \in 1 .. Len(s)
    BY <1>1, <1>2, <2>1, <2>2, StaysMore
  <2>4. \A k \in T \cup {l} : s[k] \in Name
    BY <1>1, <2>1, <2>2, <2>3, StaysNames
  <2>5. Only(s, T \cup {l}) = Append(Only(s, T), s[l])
    BY <2>3, <2>4, OnlyOneMore
  <2>6. Push(Only(s, T), s[l]) = Append(Only(s, T), s[l])
    BY <1>2, <2>2 DEF Push, IsName
  <2> QED
    BY <2>1, <2>2, <2>3, <2>5, <2>6
<1>3. CASE s[m + 1] = "."
  <2>1. Stays(s, m + 1) = Stays(s, m)
    BY <1>3, StaysMore
  <2> QED
    BY <1>3, <2>1 DEF Push
<1>4. CASE s[m + 1] = ".."
  <2>1. \A t : Push(t, s[m + 1]) = IF t = <<>> THEN t ELSE Front(t)
    BY <1>4 DEF Push
  <2>2. CASE Stays(s, m) = {} /\ Stays(s, m + 1) = {}
    BY <2>1, <2>2, OnlyNothing
  <2>3. ASSUME NEW k \in 1 .. m, IsName(s[k]), Stays(s, m + 1) \subseteq 1 .. k - 1,
               Stays(s, m) = Stays(s, m + 1) \cup {k}
        PROVE  Only(s, Stays(s, m + 1)) = Push(Only(s, Stays(s, m)), s[m + 1])
    <3>1. PICK T : T = Stays(s, m + 1)
      OBVIOUS
    <3>2. \A i \in T \cup {k} : s[i] \in Name
      BY <1>1, <2>3, <3>1, StaysNames
    <3>3. T \subseteq 1 .. k - 1 /\ k \in 1 .. Len(s) /\ s[k] \in Name
      BY <1>1, <2>3, <3>1, <3>2
    <3>4. Only(s, T \cup {k}) = Append(Only(s, T), s[k])
      BY <3>2, <3>3, OnlyOneMore
    <3>5. Only(s, T) \in Seq(Name)
      BY <1>1, <3>1, RemainType
    <3>6. PICK u \in Seq(Name) : u = Only(s, T)
      BY <3>5
    <3>7. Append(u, s[k]) # <<>> /\ Front(Append(u, s[k])) = u
      BY <3>3, FrontOfAppend
    <3> QED
      BY <2>1, <2>3, <3>1, <3>4, <3>6, <3>7
  <2> QED
    BY <1>4, <2>2, <2>3, StaysLess
<1> QED
  BY <1>2, <1>3, <1>4 DEF IsName

\* The loop makes what remains of the directory and the path, for any of them.
LEMMA RemainIsPushed ==
  ASSUME NEW dir \in Seq(Name), NEW path \in Seq(STRING)
  PROVE  Remain(dir \o path) = Pushed(dir, path)
<1>1. PICK s : s = dir \o path
  OBVIOUS
<1>2. PICK d \in Nat, p \in Nat : d = Len(dir) /\ p = Len(path)
  OBVIOUS
<1>3. /\ s \in Seq(STRING) /\ Len(s) = d + p
      /\ \A k \in 1 .. d : s[k] = dir[k] /\ IsName(s[k])
      /\ \A k \in 1 .. p : s[d + k] = path[k]
  <2>1. dir \in Seq(STRING)
    BY DEF Name
  <2>2. s \in Seq(STRING) /\ Len(s) = d + p /\ (\A k \in 1 .. d : s[k] = dir[k])
    BY <1>1, <1>2, <2>1
  <2>3. \A k \in 1 .. p : s[d + k] = path[k]
    BY <1>1, <1>2, <2>1
  <2>4. \A k \in 1 .. d : IsName(dir[k])
    BY <1>2 DEF Name, IsName
  <2> QED
    BY <2>2, <2>3, <2>4
<1> DEFINE R(m) == Only(s, Stays(s, m))
<1>4. ASSUME NEW m \in 0 .. (d + p) PROVE R(m) \in Seq(Name)
  BY <1>3, RemainType
<1>5. ASSUME NEW m \in 0 .. (d + p) - 1 PROVE R(m + 1) = Push(R(m), s[m + 1])
  BY <1>3, RemainPushes
<1> DEFINE Begun == {m \in 0 .. d : Len(R(m)) = m /\ \A k \in 1 .. m : R(m)[k] = dir[k]}
<1>6. d \in Begun
  <2>1. 0 \in Begun
    <3>1. Stays(s, 0) = {}
      BY DEF Stays
    <3>2. R(0) = <<>>
      BY <1>3, <3>1, OnlyNothing
    <3> HIDE DEF R
    <3> QED
      BY <3>2
  <2>2. ASSUME NEW m \in 0 .. d, m \in Begun, m < d PROVE m + 1 \in Begun
    <3>1. m \in 0 .. (d + p) - 1 /\ m + 1 \in 1 .. d /\ m + 1 \in 0 .. d /\ m \in 0 .. (d + p)
      BY <1>2, <2>2
    <3> HIDE DEF R
    <3>2. PICK u \in Seq(Name) : u = R(m)
      BY <1>4, <3>1
    <3>3. Len(u) = m /\ \A k \in 1 .. m : u[k] = dir[k]
      BY <2>2, <3>2
    <3>4. dir[m + 1] \in Name /\ s[m + 1] = dir[m + 1] /\ IsName(s[m + 1])
      BY <1>2, <1>3, <3>1
    <3>5. R(m + 1) = Append(u, dir[m + 1])
      BY <1>5, <3>1, <3>2, <3>4 DEF Push, IsName
    <3>6. PICK v : v = R(m + 1)
      OBVIOUS
    <3>7. Len(v) = m + 1 /\ (\A k \in 1 .. m : v[k] = dir[k]) /\ v[m + 1] = dir[m + 1]
      <4>1. PICK x \in Name : x = dir[m + 1]
        BY <3>4
      <4>2. v = Append(u, x)
        BY <3>5, <3>6, <4>1
      <4> QED
        BY <3>3, <4>1, <4>2
    <3>8. \A k \in 1 .. m + 1 : k \in 1 .. m \/ k = m + 1
      BY <3>1
    <3> QED
      BY <3>1, <3>6, <3>7, <3>8
  <2>3. 0 .. d \subseteq Begun
    <3> HIDE DEF Begun
    <3> QED
      BY <1>2, <2>1, <2>2, UpTo
  <2> HIDE DEF Begun
  <2> QED
    BY <1>2, <2>3
<1>7. R(d) = dir
  <2>1. R(d) \in Seq(Name)
    BY <1>2, <1>4
  <2> HIDE DEF R
  <2> QED
    BY <1>2, <1>6, <2>1, SameElements
<1>8. PICK after \in [0 .. p -> Seq(Name)] :
         /\ after[0] = dir
         /\ \A k \in 1 .. p : after[k] = Push(after[k - 1], path[k])
         /\ Pushed(dir, path) = after[p]
  BY <1>2, PushedTurns
<1> DEFINE Same == {k \in 0 .. p : R(d + k) = after[k]}
<1>9. p \in Same
  <2> HIDE DEF R
  <2>1. 0 \in Same
    <3>1. d + 0 = d
      BY <1>2
    <3> QED
      BY <1>7, <1>8, <3>1
  <2>2. ASSUME NEW k \in 0 .. p, k \in Same, k < p PROVE k + 1 \in Same
    <3>1. k + 1 \in 1 .. p /\ k + 1 \in 0 .. p /\ (k + 1) - 1 = k
      BY <1>2, <2>2
    <3>2. d + k \in 0 .. (d + p) - 1 /\ d + (k + 1) = (d + k) + 1
      BY <1>2, <2>2
    <3>3. R((d + k) + 1) = Push(R(d + k), s[(d + k) + 1])
      BY <1>5, <3>2
    <3>4. s[(d + k) + 1] = path[k + 1]
      <4>1. s[d + (k + 1)] = path[k + 1]
        BY <1>3, <3>1
      <4> QED
        BY <3>2, <4>1
    <3>5. after[k + 1] = Push(after[k], path[k + 1]) /\ R(d + k) = after[k]
      BY <1>8, <2>2, <3>1
    <3>6. R(d + (k + 1)) = after[k + 1]
      BY <3>2, <3>3, <3>4, <3>5
    <3> QED
      BY <3>1, <3>6
  <2>3. 0 .. p \subseteq Same
    <3> HIDE DEF Same
    <3> QED
      BY <1>2, <2>1, <2>2, UpTo
  <2> HIDE DEF Same
  <2> QED
    BY <1>2, <2>3
<1>10. Remain(s) = R(d + p)
  BY <1>3 DEF Remain
<1> QED
  BY <1>1, <1>8, <1>9, <1>10

-----------------------------------------------------------------------------
(* The links: addresses.                                                   *)

\* An address of a page of the router.
OfRouter(a) == a \in Address /\ a.domain = Home.domain /\ Rooted(a.path) /\ a.path \in Seq(Name)

\* What the browser makes of a path.
PathFrom(path, from) ==
  IF Rooted(path) THEN path
  ELSE IF path = <<"">> THEN from ELSE <<"">> \o Remain(SubSeq(from, 2, Len(from) - 1) \o path)

LEMMA OneElement ==
  ASSUME NEW S, NEW x \in S
  PROVE  <<x>> \in Seq(S) /\ Len(<<x>>) = 1 /\ <<x>>[1] = x
OBVIOUS

\* One part is not rooted, the root itself included.
LEMMA OnePartIsNotRooted ==
  ASSUME NEW x
  PROVE  ~Rooted(<<x>>)
<1>1. Len(<<x>>) = 1
  OBVIOUS
<1> QED
  BY <1>1 DEF Rooted

LEMMA RootedLength ==
  ASSUME NEW p \in Seq(STRING), Rooted(p)
  PROVE  \E n \in Nat : Len(p) = n + 2
<1>1. PICK m \in Nat : m = Len(p)
  OBVIOUS
<1>2. m > 1
  BY <1>1 DEF Rooted
<1>3. m - 2 \in Nat /\ m = (m - 2) + 2
  BY <1>2
<1> QED
  BY <1>1, <1>3

LEMMA EmptyIsName == "" \in Name
<1>1. PICK h \in Seq(STRING) : Rooted(h)
  BY LinksAssumption DEF Address
<1>2. PICK n \in Nat : Len(h) = n + 2
  BY <1>1, RootedLength
<1>3. h[1] \in STRING
  BY <1>2
<1>4. h[1] = ""
  BY <1>1 DEF Rooted
<1> QED
  BY <1>3, <1>4 DEF Name

\* A rooted path is a directory and a file behind the root.
LEMMA RootedParts ==
  ASSUME NEW p \in Seq(Name), Rooted(p)
  PROVE  LET dir == SubSeq(p, 2, Len(p) - 1)
         IN /\ dir \in Seq(Name) /\ Last(p) \in Name
            /\ <<"">> \o Append(dir, Last(p)) = p
<1>1. PICK n \in Nat : Len(p) = n + 2
  <2>1. p \in Seq(STRING)
    BY DEF Name
  <2> QED
    BY <2>1, RootedLength
<1>2. p[1] = ""
  BY DEF Rooted
<1>3. PICK dir : dir = SubSeq(p, 2, Len(p) - 1)
  OBVIOUS
<1>4. dir \in Seq(Name) /\ Len(dir) = n /\ \A k \in 1 .. n : dir[k] = p[k + 1]
  <2>1. Len(p) - 1 = n + 1 /\ \A k \in 2 .. n + 1 : p[k] \in Name
    BY <1>1
  <2>2. dir = SubSeq(p, 2, n + 1)
    BY <1>3, <2>1
  <2>3. dir \in Seq(Name)
    BY <1>1, <2>1, <2>2
  <2>4. Len(dir) = n
    BY <1>1, <2>2
  <2>5. \A k \in 1 .. n : dir[k] = p[k + 1]
    BY <1>1, <2>2
  <2> QED
    BY <2>3, <2>4, <2>5
<1>5. PICK x \in Name : x = p[n + 2]
  BY <1>1
<1>6. Last(p) = x
  BY <1>1, <1>5 DEF Last
<1>7. PICK t : t = Append(dir, x)
  OBVIOUS
<1>8. t \in Seq(Name) /\ Len(t) = n + 1 /\ t[n + 1] = x /\ \A k \in 1 .. n : t[k] = p[k + 1]
  BY <1>4, <1>7, AppendElements
<1>9. PICK e \in Name : e = ""
  BY EmptyIsName
<1>10. PICK u : u = <<e>> \o t
  OBVIOUS
<1>11. u \in Seq(Name) /\ Len(u) = n + 2 /\ u[1] = e /\ \A k \in 2 .. n + 2 : u[k] = t[k - 1]
  <2>1. u \in Seq(Name) /\ Len(u) = Len(t) + 1 /\ u[1] = e /\ \A k \in 2 .. Len(t) + 1 : u[k] = t[k - 1]
    BY <1>8, <1>10, PushElements
  <2>2. Len(t) + 1 = n + 2
    BY <1>8
  <2> QED
    BY <2>1, <2>2
<1>12. ASSUME NEW k \in 1 .. n + 2 PROVE u[k] = p[k]
  <2>1. CASE k = 1
    BY <1>2, <1>9, <1>11, <2>1
  <2>2. CASE k \in 2 .. n + 1
    <3>1. k - 1 \in 1 .. n /\ (k - 1) + 1 = k /\ k \in 2 .. n + 2
      BY <2>2
    <3>2. t[k - 1] = p[(k - 1) + 1]
      BY <1>8, <3>1
    <3> QED
      BY <1>11, <3>1, <3>2
  <2>3. CASE k = n + 2
    <3>1. k - 1 = n + 1 /\ k \in 2 .. n + 2
      BY <2>3
    <3> QED
      BY <1>5, <1>8, <1>11, <2>3, <3>1
  <2>4. k = 1 \/ k \in 2 .. n + 1 \/ k = n + 2
    OBVIOUS
  <2> QED
    BY <2>1, <2>2, <2>3, <2>4
<1>13. u = p
  BY <1>1, <1>11, <1>12, SameElements
<1> QED
  BY <1>3, <1>4, <1>5, <1>6, <1>7, <1>9, <1>10, <1>13

LEMMA ConcatElements ==
  ASSUME NEW S, NEW a \in Seq(S), NEW b \in Seq(S)
  PROVE  /\ a \o b \in Seq(S) /\ Len(a \o b) = Len(a) + Len(b)
         /\ \A k \in 1 .. Len(b) : (a \o b)[Len(a) + k] = b[k]
OBVIOUS

\* Something remains of a path that does not end in a dot.
LEMMA SomethingRemains ==
  ASSUME NEW dir \in Seq(Name), NEW path \in Seq(STRING), path # <<>>, Last(path) \in Name
  PROVE  Remain(dir \o path) \in Seq(Name) /\ Remain(dir \o path) # <<>>
<1>1. PICK s : s = dir \o path
  OBVIOUS
<1>2. PICK d \in Nat, p \in Nat : d = Len(dir) /\ p + 1 = Len(path)
  <2>1. Len(dir) \in Nat /\ Len(path) \in Nat \ {0}
    OBVIOUS
  <2>2. Len(path) - 1 \in Nat /\ (Len(path) - 1) + 1 = Len(path)
    BY <2>1
  <2> QED
    BY <2>1, <2>2
<1>3. PICK m \in Nat : m = d + p
  OBVIOUS
<1>4. s \in Seq(STRING) /\ Len(s) = m + 1 /\ s[m + 1] = Last(path)
  <2>1. dir \in Seq(STRING)
    BY DEF Name
  <2>2. PICK q \in Nat : q = Len(path) /\ q = p + 1
    BY <1>2
  <2>3. /\ dir \o path \in Seq(STRING) /\ Len(dir \o path) = Len(dir) + Len(path)
        /\ \A k \in 1 .. Len(path) : (dir \o path)[Len(dir) + k] = path[k]
    BY <2>1, ConcatElements
  <2>4. s \in Seq(STRING) /\ Len(s) = d + q /\ \A k \in 1 .. q : s[d + k] = path[k]
    BY <1>1, <1>2, <2>2, <2>3
  <2>5. q \in 1 .. q /\ d + q = m + 1
    BY <1>3, <2>2
  <2>6. Last(path) = path[q]
    BY <2>2 DEF Last
  <2> QED
    BY <2>3, <2>4, <2>5, <2>6
<1>5. m \in 0 .. Len(s) - 1 /\ m \in 0 .. Len(s) /\ m + 1 \in 0 .. Len(s)
  BY <1>4
<1>6. PICK u \in Seq(Name) : u = Only(s, Stays(s, m))
  BY <1>4, <1>5, RemainType
<1>7. Only(s, Stays(s, m + 1)) = Push(u, s[m + 1])
  BY <1>4, <1>5, <1>6, RemainPushes
<1>8. PICK x \in Name : x = s[m + 1]
  BY <1>4
<1>9. Push(u, x) = Append(u, x)
  BY DEF Push, Name
<1>10. Append(u, x) # <<>> /\ Append(u, x) \in Seq(Name)
  BY AppendElements, FrontOfAppend
<1>11. Remain(s) = Append(u, x)
  BY <1>4, <1>7, <1>8, <1>9 DEF Remain
<1> QED
  BY <1>1, <1>10, <1>11

\* A loop of one turn.
LEMMA PushedOnce ==
  ASSUME NEW dir \in Seq(Name), NEW x \in Name
  PROVE  Pushed(dir, <<x>>) = Append(dir, x)
<1>1. PICK s \in Seq(STRING) : s = <<x>> /\ Len(s) = 1 /\ s[1] = x
  <2>1. x \in STRING
    BY DEF Name
  <2> QED
    BY <2>1, OneElement
<1>2. PICK after \in [0 .. Len(s) -> Seq(Name)] :
         /\ after[0] = dir
         /\ \A k \in 1 .. Len(s) : after[k] = Push(after[k - 1], s[k])
         /\ Pushed(dir, s) = after[Len(s)]
  BY PushedTurns
<1>3. after[1] = Push(after[0], s[1]) /\ Pushed(dir, s) = after[1]
  BY <1>1, <1>2
<1>4. Push(dir, x) = Append(dir, x)
  BY DEF Push, Name
<1> QED
  BY <1>1, <1>2, <1>3, <1>4

\* The path that the code makes is the one of the browser.
LEMMA PathIsResolved ==
  ASSUME NEW from \in Seq(Name), Rooted(from), NEW path \in Seq(STRING), Plain(path)
  PROVE  LET made == makePathAbsolute(IF path # <<"">> THEN path ELSE <<Last(from)>>, from)
         IN made = PathFrom(path, from) /\ made \in Seq(Name) /\ Rooted(made)
<1> DEFINE dir == SubSeq(from, 2, Len(from) - 1)
<1>1. dir \in Seq(Name) /\ Last(from) \in Name /\ <<"">> \o Append(dir, Last(from)) = from
  BY RootedParts
<1>2. CASE Rooted(path)
  <2>1. path # <<"">>
    BY <1>2, OnePartIsNotRooted
  <2>2. path \in Seq(Name)
    BY <1>2 DEF Plain
  <2>3. makePathAbsolute(path, from) = path /\ PathFrom(path, from) = path
    BY <1>2 DEF makePathAbsolute, PathFrom
  <2> QED
    BY <1>2, <2>1, <2>2, <2>3
<1> HIDE DEF dir
<1>3. CASE path = <<"">>
  <2>1. PICK x \in Name : x = Last(from)
    BY <1>1
  <2>2. ~Rooted(<<x>>)
    BY OnePartIsNotRooted
  <2>3. Pushed(dir, <<x>>) = Append(dir, x) /\ Append(dir, x) # <<>>
    BY <1>1, <2>1, PushedOnce, FrontOfAppend
  <2>4. makePathAbsolute(<<x>>, from) = from
    BY <1>1, <2>1, <2>2, <2>3 DEF makePathAbsolute, dir
  <2>5. PathFrom(path, from) = from
    BY <1>3, OnePartIsNotRooted DEF PathFrom
  <2> QED
    BY <1>3, <2>1, <2>4, <2>5
<1>4. CASE ~Rooted(path) /\ path # <<"">>
  <2>1. PICK u \in Seq(Name) : u = Remain(dir \o path) /\ u # <<>>
    BY <1>1, SomethingRemains DEF Plain
  <2>2. Pushed(dir, path) = u
    BY <1>1, <2>1, RemainIsPushed
  <2>3. makePathAbsolute(path, from) = <<"">> \o u
    BY <1>4, <2>1, <2>2 DEF makePathAbsolute, dir
  <2>4. PathFrom(path, from) = <<"">> \o u
    BY <1>4, <2>1 DEF PathFrom, dir
  <2>5. <<"">> \o u \in Seq(Name) /\ Rooted(<<"">> \o u)
    <3>1. PICK e \in Name : e = ""
      BY EmptyIsName
    <3>2. <<e>> \o u \in Seq(Name) /\ Len(<<e>> \o u) = Len(u) + 1 /\ (<<e>> \o u)[1] = e
      BY PushElements
    <3>3. Len(u) \in Nat \ {0}
      BY <2>1
    <3>4. Len(<<e>> \o u) > 1
      BY <3>2, <3>3
    <3> QED
      BY <3>1, <3>2, <3>4 DEF Rooted
  <2> QED
    BY <1>4, <2>3, <2>4, <2>5
<1> QED
  BY <1>2, <1>3, <1>4

LEMMA NamesAreStrings ==
  ASSUME NEW s \in Seq(Name)
  PROVE  s \in Seq(STRING)
BY DEF Name

LEMMA MadeDomain ==
  ASSUME NEW rel, NEW from
  PROVE  makeUrlAbsolute(rel, from).domain = IF rel.domain = "" THEN from.domain ELSE rel.domain
<1>1. PICK d : d = IF rel.domain = "" THEN from.domain ELSE rel.domain
  OBVIOUS
<1>2. PICK made : made = makeUrlAbsolute(rel, from)
  OBVIOUS
<1>3. PICK p, s : made = [domain |-> d, path |-> p, search |-> s]
  BY <1>1, <1>2 DEF makeUrlAbsolute
<1>4. made.domain = d
  BY <1>3
<1> QED
  BY <1>1, <1>2, <1>4

\* makeUrlAbsolute: the address of a link, on a page of the router.
LEMMA MadeAbsolute ==
  ASSUME NEW from, OfRouter(from), NEW rel, rel.path \in Seq(STRING), Plain(rel.path),
         rel.search \in STRING, rel.domain = "" \/ rel.domain = Home.domain
  PROVE  /\ makeUrlAbsolute(rel, from) =
              [domain |-> Home.domain, path |-> PathFrom(rel.path, from.path),
               search |-> IF rel.path = <<"">> /\ rel.search = "" THEN from.search ELSE rel.search]
         /\ OfRouter(makeUrlAbsolute(rel, from))
<1>1. from.domain = Home.domain /\ from.search \in STRING /\ Home.domain \in STRING
  BY LinksAssumption DEF OfRouter, Address
<1>2. PICK p \in Seq(STRING) : p = rel.path /\ Plain(p)
  OBVIOUS
<1>3. PICK f \in Seq(Name) : f = from.path /\ Rooted(f)
  BY DEF OfRouter
<1>4. PICK made : made = makePathAbsolute(IF p # <<"">> THEN p ELSE <<Last(f)>>, f)
  OBVIOUS
<1>5. made = PathFrom(p, f) /\ made \in Seq(Name) /\ Rooted(made)
  BY <1>2, <1>3, <1>4, PathIsResolved
<1>6. made \in Seq(STRING)
  BY <1>5, NamesAreStrings
<1>7. PICK search \in STRING :
         search = IF rel.path = <<"">> /\ rel.search = "" THEN from.search ELSE rel.search
  BY <1>1
<1>8. makeUrlAbsolute(rel, from) = [domain |-> Home.domain, path |-> made, search |-> search]
  <2>1. (IF rel.domain = "" THEN from.domain ELSE rel.domain) = Home.domain
    BY <1>1
  <2>2. (IF rel.search = "" /\ ~(rel.path # <<"">>) THEN from.search ELSE rel.search) = search
    BY <1>7
  <2> QED
    BY <1>2, <1>3, <1>4, <2>1, <2>2 DEF makeUrlAbsolute
<1>9. OfRouter(makeUrlAbsolute(rel, from))
  <2>1. PICK d \in STRING : d = Home.domain
    BY <1>1
  <2>2. [domain |-> d, path |-> made, search |-> search] \in Address
    BY <1>6 DEF Address
  <2> QED
    <3>1. PICK a : a = [domain |-> d, path |-> made, search |-> search]
      OBVIOUS
    <3>2. a \in Address /\ a.domain = d /\ a.path = made
      BY <2>2, <3>1
    <3>3. OfRouter(a)
      BY <1>5, <2>1, <3>2 DEF OfRouter
    <3>4. makeUrlAbsolute(rel, from) = a
      BY <1>8, <2>1, <3>1
    <3> QED
      BY <3>3, <3>4
<1> QED
  BY <1>2, <1>3, <1>5, <1>7, <1>8, <1>9

LEMMA HomeIsOfRouter == OfRouter(Home)
BY LinksAssumption DEF OfRouter, Plain

\* What a page keeps of its address gives the address back.
LEMMA ReadBack ==
  ASSUME NEW a, OfRouter(a)
  PROVE  /\ makeUrlAbsolute(convertUrlToDataUrl(a), Home) = a /\ makeUrlAbsolute(a, Home) = a
         /\ convertUrlToDataUrl(a) \in Address
<1>1. PICK d, p, s : a = [domain |-> d, path |-> p, search |-> s] /\ p \in Seq(STRING) /\ s \in STRING
  BY DEF OfRouter, Address
<1>2. d = Home.domain /\ Rooted(p) /\ d # ""
  BY <1>1, LinksAssumption DEF OfRouter
<1>3. p # <<"">> /\ \A q : makePathAbsolute(p, q) = p
  BY <1>2, OnePartIsNotRooted DEF makePathAbsolute
<1>4. convertUrlToDataUrl(a) = [domain |-> "", path |-> p, search |-> s]
  BY <1>1, <1>2 DEF convertUrlToDataUrl
<1>5. makeUrlAbsolute([domain |-> "", path |-> p, search |-> s], Home) = a
  BY <1>1, <1>2, <1>3 DEF makeUrlAbsolute
<1>6. makeUrlAbsolute([domain |-> d, path |-> p, search |-> s], Home) = a
  BY <1>1, <1>2, <1>3 DEF makeUrlAbsolute
<1>7. PICK e \in STRING : e = ""
  BY EmptyIsName DEF Name
<1>8. [domain |-> e, path |-> p, search |-> s] \in Address
  BY <1>1 DEF Address
<1> QED
  BY <1>1, <1>4, <1>5, <1>6, <1>7, <1>8

\* The click handler comes to the address the browser would come to.
LEMMA TargetIsResolved ==
  ASSUME NEW h \in Href, NEW from, from = getClosestBaseUrl, OfRouter(from),
         ~isExternal(Target(h)), ~Ignored(h), ~Embedded(h)
  PROVE  Target(h) = Resolved(h, from) /\ OfRouter(Target(h))
<1>1. /\ h.domain \in STRING /\ h.path \in Seq(STRING) /\ h.search \in STRING /\ h.hash \in Seq(STRING)
      /\ Plain(h.path) /\ (h.hash # NoHash => Plain(h.hash))
  BY LinksAssumption
<1>2. from \in Address /\ from.domain = Home.domain
  BY DEF OfRouter
<1>3. CASE h.hash = NoHash
  <2>1. Target(h) = makeUrlAbsolute(h, from)
    BY <1>3 DEF Target
  <2>2. Target(h).domain = IF h.domain = "" THEN from.domain ELSE h.domain
    BY <2>1, MadeDomain
  <2>3. h.domain = "" \/ h.domain = Home.domain
    BY <2>2 DEF isExternal
  <2>4. PICK p, s : /\ p = PathFrom(h.path, from.path)
                    /\ s = IF h.path = <<"">> /\ h.search = "" THEN from.search ELSE h.search
    OBVIOUS
  <2>5. Target(h) = [domain |-> Home.domain, path |-> p, search |-> s] /\ OfRouter(Target(h))
    BY <1>1, <2>1, <2>3, <2>4, MadeAbsolute
  <2>6. Resolved(h, from) = [domain |-> from.domain, path |-> p, search |-> s]
    BY <1>3, <2>4 DEF Resolved, PathFrom
  <2> QED
    BY <1>2, <2>5, <2>6
<1>4. CASE h.hash # NoHash
  <2>1. PICK rel : rel = [domain |-> "", path |-> h.hash, search |-> ""]
    OBVIOUS
  <2>2. Target(h) = makeUrlAbsolute(rel, from)
    BY <1>4, <2>1 DEF Target
  <2>3. rel.path = h.hash /\ rel.search = "" /\ rel.domain = "" /\ "" \in STRING
    BY <2>1, EmptyIsName DEF Name
  <2>4. h.hash # <<"">>
    BY DEF Ignored
  <2>5. PICK p : p = PathFrom(h.hash, from.path)
    OBVIOUS
  <2>6. Target(h) = [domain |-> Home.domain, path |-> p, search |-> ""] /\ OfRouter(Target(h))
    BY <1>1, <1>4, <2>2, <2>3, <2>4, <2>5, MadeAbsolute
  <2>7. Resolved(h, from) = [domain |-> from.domain, path |-> p, search |-> ""]
    BY <1>4, <2>4, <2>5 DEF Resolved, PathFrom
  <2> QED
    BY <1>2, <2>6, <2>7
<1> QED
  BY <1>3, <1>4

-----------------------------------------------------------------------------
(* The links: the addresses a page, its base and its links come to.        *)

\* The page keeps its address, and the base is that of the page, unless it was reset.
\* While another page is loaded the base is reset: it is right if the first page is shown.
LinksInv ==
  /\ OfRouter(getClosestBaseUrl) /\ page = convertUrlToDataUrl(getClosestBaseUrl)
  /\ base \in Address
  /\ IF loading = NoAddress
     THEN address = getClosestBaseUrl /\ (~kept => base = address)
     ELSE loading = address /\ OfRouter(loading) /\ (~kept => getClosestBaseUrl = Home)

LEMMA LinksStart ==
  ASSUME LinksInit
  PROVE  LinksInv /\ kept \in BOOLEAN
<1>1. OfRouter(Home) /\ Home \in Address
  BY HomeIsOfRouter, LinksAssumption
<1>2. getClosestBaseUrl = Home
  BY <1>1, ReadBack DEF LinksInit, getClosestBaseUrl
<1> QED
  BY <1>1, <1>2 DEF LinksInit, LinksInv

\* A page is left as it is known, at its address.
LEMMA PageAt ==
  ASSUME NEW a, OfRouter(a), page' = convertUrlToDataUrl(a)
  PROVE  /\ getClosestBaseUrl' = a /\ OfRouter(getClosestBaseUrl')
         /\ page' = convertUrlToDataUrl(getClosestBaseUrl')
<1>1. getClosestBaseUrl' = makeUrlAbsolute(page', Home)
  BY DEF getClosestBaseUrl
<1> QED
  BY <1>1, ReadBack

LEMMA FollowHereStep ==
  ASSUME LinksInv, NEW h \in Href, FollowHere(h)
  PROVE  LinksInv' /\ kept' \in BOOLEAN
<1>1. PICK from : from = getClosestBaseUrl /\ OfRouter(from) /\ page = convertUrlToDataUrl(from)
  BY DEF LinksInv
<1>2. PICK to : to = Target(h)
  OBVIOUS
<1>3. to = Resolved(h, from) /\ OfRouter(to)
  BY <1>1, <1>2, TargetIsResolved DEF FollowHere
<1>4. loading = NoAddress /\ loading' = NoAddress /\ base' = Home /\ page' = convertUrlToDataUrl(to)
  BY <1>2 DEF FollowHere
<1>5. address' = to
  BY <1>1, <1>3 DEF FollowHere, LinksInv
<1>6. to = from \/ to = Home
  BY <1>1, <1>2, <1>3, ReadBack DEF FollowHere, isFirstPageUrl
<1>7. kept' \in BOOLEAN /\ (~kept' => page' # page \/ from = Home)
  BY <1>1 DEF FollowHere
<1>8. ~kept' => to = Home
  BY <1>1, <1>4, <1>6, <1>7
<1>9. getClosestBaseUrl' = to /\ OfRouter(to) /\ page' = convertUrlToDataUrl(getClosestBaseUrl')
  BY <1>3, <1>4, PageAt
<1> QED
  BY <1>3, <1>4, <1>5, <1>7, <1>8, <1>9, LinksAssumption DEF LinksInv

LEMMA FollowStep ==
  ASSUME LinksInv, NEW h \in Href, Follow(h)
  PROVE  LinksInv' /\ kept' \in BOOLEAN
<1>1. PICK from : from = getClosestBaseUrl /\ OfRouter(from) /\ page = convertUrlToDataUrl(from)
  BY DEF LinksInv
<1>2. PICK to : to = Target(h)
  OBVIOUS
<1>3. to = Resolved(h, from) /\ OfRouter(to) /\ to # NoAddress
  <2>1. to = Resolved(h, from) /\ OfRouter(to)
    BY <1>1, <1>2, TargetIsResolved DEF Follow
  <2> QED
    BY <2>1, LinksAssumption DEF OfRouter
<1>4. loading = NoAddress /\ loading' = to /\ base' = Home /\ page' = page
  BY <1>2 DEF Follow
<1>5. address' = to
  BY <1>1, <1>3 DEF Follow, LinksInv
<1>6. kept' \in BOOLEAN /\ (~kept' => from = Home)
  BY <1>1 DEF Follow
<1>7. getClosestBaseUrl' = from /\ page' = convertUrlToDataUrl(getClosestBaseUrl')
  BY <1>1, <1>4, PageAt
<1> QED
  BY <1>1, <1>3, <1>4, <1>5, <1>6, <1>7, LinksAssumption DEF LinksInv

LEMMA PageLoadedStep ==
  ASSUME LinksInv, PageLoaded
  PROVE  LinksInv' /\ kept' \in BOOLEAN
<1>1. PICK to : to = loading /\ OfRouter(to) /\ to = address
  BY DEF LinksInv, PageLoaded
<1>2. /\ page' = convertUrlToDataUrl(to) /\ base' = to /\ loading' = NoAddress /\ address' = to
      /\ kept' = FALSE
  BY <1>1, ReadBack DEF PageLoaded
<1>3. getClosestBaseUrl' = to /\ page' = convertUrlToDataUrl(getClosestBaseUrl')
  BY <1>1, <1>2, PageAt
<1>4. to \in Address
  BY <1>1 DEF OfRouter
<1> QED
  BY <1>1, <1>2, <1>3, <1>4 DEF LinksInv

\* The address of nothing is the one it is resolved from, here that of the first page.
LEMMA NoPath == makeUrlAbsolute([domain |-> "", path |-> <<"">>, search |-> ""], Home) = Home
<1>1. PICK d, p, s : Home = [domain |-> d, path |-> p, search |-> s]
  BY LinksAssumption DEF Address
<1>2. PICK rel : rel = [domain |-> "", path |-> <<"">>, search |-> ""]
  OBVIOUS
<1>3. rel.domain = "" /\ rel.path = <<"">> /\ rel.search = "" /\ "" \in STRING
  BY <1>2, EmptyIsName DEF Name
<1>4. rel.path \in Seq(STRING)
  BY <1>3, OneElement
<1>5. Plain(rel.path)
  <2>1. PICK e \in Name : e = ""
    BY EmptyIsName
  <2>2. PICK q : q = <<e>>
    OBVIOUS
  <2>3. q # <<>> /\ Len(q) = 1 /\ Last(q) = e
    BY <2>2 DEF Last
  <2>4. \A k \in 2 .. Len(q) - 1 : FALSE
    BY <2>3
  <2>5. ~Rooted(q)
    BY <2>2, OnePartIsNotRooted
  <2>6. Plain(q)
    BY <2>3, <2>4, <2>5 DEF Plain
  <2> QED
    BY <1>3, <2>1, <2>2, <2>6
<1>6. PICK q, t : q = PathFrom(rel.path, Home.path) /\ t = Home.search
  OBVIOUS
<1>7. makeUrlAbsolute(rel, Home) = [domain |-> Home.domain, path |-> q, search |-> t]
  BY <1>3, <1>4, <1>5, <1>6, HomeIsOfRouter, MadeAbsolute
<1>8. q = Home.path
  BY <1>3, <1>6, OnePartIsNotRooted DEF PathFrom
<1> QED
  BY <1>1, <1>2, <1>6, <1>7, <1>8

LEMMA PageFailsStep ==
  ASSUME LinksInv, PageFails
  PROVE  LinksInv' /\ kept' = kept
<1>1. PICK from : from = getClosestBaseUrl /\ OfRouter(from) /\ page = convertUrlToDataUrl(from)
  BY DEF LinksInv
<1>2. ~kept => from = Home
  BY <1>1 DEF LinksInv, PageFails
<1>3. /\ page' = page /\ base' = Home /\ loading' = NoAddress /\ address' = from /\ kept' = kept
  BY <1>1, NoPath DEF PageFails
<1>4. getClosestBaseUrl' = from /\ page' = convertUrlToDataUrl(getClosestBaseUrl')
  BY <1>1, <1>3, PageAt
<1> QED
  BY <1>1, <1>2, <1>3, <1>4, LinksAssumption DEF LinksInv

LEMMA GoElsewhereStep ==
  ASSUME NEW h \in Href, GoElsewhere(h)
  PROVE  LinksInv' /\ kept' \in BOOLEAN
<1>1. getClosestBaseUrl' = Home /\ OfRouter(Home) /\ page' = convertUrlToDataUrl(getClosestBaseUrl')
  BY HomeIsOfRouter, PageAt DEF GoElsewhere
<1> QED
  BY <1>1, LinksAssumption DEF GoElsewhere, LinksInv

LEMMA LinksStep ==
  ASSUME LinksInv, kept \in BOOLEAN, [LinksNext]_linksVars
  PROVE  LinksInv' /\ kept' \in BOOLEAN
<1>1. ASSUME NEW h \in Href, FollowHere(h) PROVE LinksInv' /\ kept' \in BOOLEAN
  BY <1>1, FollowHereStep
<1>2. ASSUME NEW h \in Href, Follow(h) PROVE LinksInv' /\ kept' \in BOOLEAN
  BY <1>2, FollowStep
<1>3. ASSUME NEW h \in Href, GoElsewhere(h) PROVE LinksInv' /\ kept' \in BOOLEAN
  BY <1>3, GoElsewhereStep
<1>4. CASE PageLoaded
  BY <1>4, PageLoadedStep
<1>5. CASE PageFails
  BY <1>5, PageFailsStep
<1>6. CASE UNCHANGED linksVars
  BY <1>6 DEF linksVars, LinksInv, getClosestBaseUrl
<1> QED
  BY <1>1, <1>2, <1>3, <1>4, <1>5, <1>6 DEF LinksNext

LEMMA LinksRight ==
  ASSUME LinksInv, kept \in BOOLEAN
  PROVE  LinksTypeOK /\ LinksResolve
<1>1. PICK from : from = getClosestBaseUrl /\ OfRouter(from) /\ page = convertUrlToDataUrl(from)
  BY DEF LinksInv
<1>2. from \in Address /\ page \in Address
  BY <1>1, ReadBack DEF OfRouter
<1>3. address \in Address /\ loading \in Address \cup {NoAddress}
  BY <1>1, <1>2 DEF LinksInv, OfRouter
<1>4. LinksTypeOK
  BY <1>2, <1>3 DEF LinksInv, LinksTypeOK
<1>5. LinksResolve
  BY DEF LinksInv, LinksResolve
<1> QED
  BY <1>4, <1>5

\* After any sequence of links the page is at the address that the browser itself would have
\* come to, and so is the base of the document unless it was reset: the click handler
\* (jquery.mobile-1.1.0.js:5002-5120), path.makePathAbsolute and makeUrlAbsolute (2384-2484).
THEOREM LinksLeadRight == LinksSpec => [](LinksTypeOK /\ LinksResolve)
<1>1. LinksInit => LinksInv /\ kept \in BOOLEAN
  BY LinksStart
<1>2. (LinksInv /\ kept \in BOOLEAN) /\ [LinksNext]_linksVars => (LinksInv /\ kept \in BOOLEAN)'
  BY LinksStep
<1>3. LinksInv /\ kept \in BOOLEAN => LinksTypeOK /\ LinksResolve
  BY LinksRight
<1> QED
  BY <1>1, <1>2, <1>3, PTL DEF LinksSpec

-----------------------------------------------------------------------------
(* The parts together, as they are checked.                                *)

LEMMA PartsRun ==
  /\ MCSpec => HistorySpec
  /\ MCSpec => ViewSpec
  /\ MCSpec => AutoSpec
  /\ MCSpec => DropSpec
  /\ MCSpec => PagesSpec
  /\ MCSpec => MouseSpec
  /\ MCSpec => FormSpec
  /\ MCSpec => LinksSpec
<1>1. MCInit => /\ HistoryInit /\ ViewInit /\ AutoInit /\ DropInit /\ PagesInit /\ MouseInit
                /\ FormInit /\ LinksInit
  BY DEF MCInit
<1>2. [MCNext]_<<part, historyVars, viewVars, autoVars, dropVars, pageVars, mouseVars,
                 formVars, linksVars>>
      => /\ [HistoryNext]_historyVars /\ [ViewNext]_viewVars /\ [AutoNext]_autoVars
         /\ [DropNext]_dropVars /\ [PagesNext]_pageVars /\ [MouseNext]_mouseVars
         /\ [FormNext]_formVars /\ [LinksNext]_linksVars
  BY Zenon DEF MCNext, Idle
<1> QED
  BY <1>1, <1>2, PTL DEF MCSpec, HistorySpec, ViewSpec, AutoSpec, DropSpec, PagesSpec, MouseSpec,
                         FormSpec, LinksSpec

\* The values of every part are of their types, the suggestions are those of what is typed,
\* and the selection is one of them.
THEOREM PagesAreTyped == MCSpec => []PageTypesOK
<1>1. /\ HistoryTypeOK /\ ViewTypeOK /\ AutoTypeOK /\ DropTypeOK /\ PagesTypeOK /\ MouseTypeOK
      /\ FormTypeOK /\ LinksTypeOK
      => PageTypesOK
  BY DEF PageTypesOK
<1> QED
  BY <1>1, PartsRun, TotalIsTransferred, ViewShowsOne, SelectionAndListFit, DropDisplaysSubmitted,
     AddressesArePages, LinkIsKept, FormSubmitsDisplayed, LinksLeadRight, PTL

\* What the forms of a computer and of a telephone display is what they submit.
THEOREM FormsSubmitDisplayed == MCSpec => []ShownIsSubmitted
<1>1. DisplayedIsSubmitted /\ FormIsSubmitted => ShownIsSubmitted
  BY DEF ShownIsSubmitted
<1> QED
  BY <1>1, PartsRun, DropDisplaysSubmitted, FormSubmitsDisplayed, PTL

\* A telephone displays the page of its address, whatever its buttons, links and failures
\* do; and each link leads where the browser itself would have led.
THEOREM AddressesAreRight == MCSpec => []AddressIsRight
<1>1. AddressIsPage /\ LinksResolve => AddressIsRight
  BY DEF AddressIsRight
<1> QED
  BY <1>1, PartsRun, AddressesArePages, LinksLeadRight, PTL

\* A tap does its work once, and takes the look of the button back.
THEOREM TapsDoSettle == MCSpec => []TapsSettle
<1>1. TapTogglesOnce /\ ButtonsRelease => TapsSettle
  BY DEF TapsSettle
<1> QED
  BY <1>1, PartsRun, TapsToggleOnce, ButtonsAreReleased, PTL
=============================================================================
