--------------------------- MODULE TrafficHistory ---------------------------
(***************************************************************************)
(* What the page of the traffic makes of the answers: refresh of           *)
(* view/admin_web/trafficinfo.htm turns the byte counters of an interface  *)
(* into a window of differences, and loadData of traffic.js adds the       *)
(* window up.  Requests are sent as in TrafficPoll, at any time here, and  *)
(* may be answered in any order.                                           *)
(***************************************************************************)
EXTENDS Naturals, FiniteSetsExt, SequencesExt

CONSTANTS Requests,        \* requests that can be open at the same time
          Modulus,         \* where a counter wraps around: 2^32
          Window,          \* length of the history: 300
          MaxBytes         \* bound on what the interface transfers

ASSUME HistoryAssumption ==
  /\ Modulus \in Nat \ {0}
  /\ Window \in Nat \ {0}
  /\ MaxBytes \in Nat

VARIABLES
  counter,     \* the counter of the interface in the kernel
  bytes,       \* what the interface has transferred
  epoch,       \* how often the interface was restarted, which clears its counter
  query,       \* query[r]: not in use, sent, or what its answer holds
  prev,        \* prev[i] of the page: what the last answer held
  rx,          \* speed_history[i].rx
  rx_total,
  taken        \* only for the properties: the last answers in the order they came

kernel == <<counter, bytes, epoch>>
shown == <<prev, rx, rx_total, taken>>
historyVars == <<kernel, query, shown>>

\* An answer holds the counter; at and epoch are only for the properties.
Reading == [raw : 0 .. Modulus - 1, at : 0 .. MaxBytes, epoch : 0 .. 1]
Mark(n) == [raw |-> 0, at |-> 0, epoch |-> n]
NoReading == Mark(2)
Unused == Mark(3)
Asked == Mark(4)

Zeros == [j \in 1 .. Window |-> 0]
SumOf(s) ==
  LET sum[k \in 0 .. Len(s)] == IF k = 0 THEN 0 ELSE sum[k - 1] + s[k]
  IN sum[Len(s)]

\* Types; the window never changes its length.
HistoryTypeOK ==
  /\ counter \in 0 .. Modulus - 1
  /\ bytes \in 0 .. MaxBytes
  /\ epoch \in 0 .. 1
  /\ query \in [Requests -> Reading \cup {Unused, Asked}]
  /\ prev \in Reading \cup {NoReading}
  /\ rx \in [1 .. Window -> Nat]
  /\ rx_total \in Nat
  /\ taken \in Seq(Reading) /\ Len(taken) <= Window + 1

-----------------------------------------------------------------------------
HistoryInit ==
  /\ counter \in 0 .. Modulus - 1
  /\ bytes = 0
  /\ epoch = 0
  /\ query = [r \in Requests |-> Unused]
  /\ prev = NoReading
  /\ rx = Zeros
  /\ rx_total = 0
  /\ taken = <<>>

Send(r) ==
  /\ query[r] = Unused
  /\ query' = [query EXCEPT ![r] = Asked]
  /\ UNCHANGED <<kernel, shown>>

\* The router reads the counter.
Read(r) ==
  /\ query[r] = Asked
  /\ query' = [query EXCEPT ![r] = [raw |-> counter, at |-> bytes, epoch |-> epoch]]
  /\ UNCHANGED <<kernel, shown>>

\* Mutant: a counter that has wrapped counts from zero.
DifferenceFromZero(c, p) == IF c < p THEN c ELSE c - p

\* What is pushed for a counter that was p and is c: one that is less than
\* before is taken for one that wrapped at 0xFFFFFFFF.
Difference(c, p) == IF c < p THEN c + ((Modulus - 1) - p) ELSE c - p

\* loadData: the total is that of the window.
addUp(w) == rx_total' = SumOf(w)

\* refresh: the first answer only sets prev.
refresh(r) ==
  /\ query[r] \in Reading
  /\ rx' = IF prev = NoReading THEN Zeros
           ELSE Append(Tail(rx), Difference(query[r].raw, prev.raw))
  /\ prev' = query[r]
  /\ addUp(rx')
  /\ taken' = LET all == Append(taken, query[r])
              IN IF Len(all) > Window + 1 THEN Tail(all) ELSE all
  /\ query' = [query EXCEPT ![r] = Unused]
  /\ UNCHANGED kernel

\* The request fails, or its text is no program: the catch of refresh.
Lost(r) ==
  /\ query[r] # Unused
  /\ query' = [query EXCEPT ![r] = Unused]
  /\ UNCHANGED <<kernel, shown>>

\* The interface transfers, or is restarted.
Transfer(b) ==
  /\ bytes + b <= MaxBytes
  /\ bytes' = bytes + b
  /\ counter' = (counter + b) % Modulus
  /\ UNCHANGED <<epoch, query, shown>>

Restart ==
  /\ epoch = 0
  /\ epoch' = 1
  /\ counter' = 0
  /\ UNCHANGED <<bytes, query, shown>>

HistoryNext ==
  \/ \E r \in Requests : Send(r) \/ Read(r) \/ refresh(r) \/ Lost(r)
  \/ \E b \in 1 .. Modulus : Transfer(b)
  \/ Restart

HistorySpec == HistoryInit /\ [][HistoryNext]_historyVars

-----------------------------------------------------------------------------
\* The answers of the window came in the order they were read, with less than a
\* full turn of the counter and no restart between two of them.
InOrder ==
  \A k \in 1 .. Len(taken) - 1 :
    /\ taken[k].epoch = taken[k + 1].epoch
    /\ taken[k].at <= taken[k + 1].at
    /\ taken[k + 1].at - taken[k].at < Modulus

Wraps == Cardinality({k \in 1 .. Len(taken) - 1 : taken[k + 1].raw < taken[k].raw})

\* The total that is displayed is what was transferred over the window, short of
\* one byte for each time the counter wrapped (trafficinfo.htm:176 counts from
\* 0xFFFFFFFF and not from 2^32); what may break it is only what InOrder names.
TotalIsTraffic ==
  InOrder => rx_total + Wraps = IF taken = <<>> THEN 0
                                ELSE taken[Len(taken)].at - taken[1].at
=============================================================================
