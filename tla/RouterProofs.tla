----------------------------- MODULE RouterProofs -----------------------------
(***************************************************************************)
(* Proofs about NetState and MacFilter, the parts of MCRouter, for every   *)
(* number of link events and of requests at once, of devices and of        *)
(* interfaces: the display of the connection follows the file, what is     *)
(* stored is what filters, and a request that ran alone takes effect.      *)
(***************************************************************************)
EXTENDS MCRouter, TLAPS

-----------------------------------------------------------------------------
(* The display of the connection.                                          *)

\* Of the steps of an update, those that the lock should have covered.
Writing == {"led", "agreement", "guide", "guide all", "up", "up all", "down", "down port"}

LedRight == led = (inet_stat = "inet_up")

\* What an update of p has done when it comes to each of its steps.
Wrote(p) ==
  /\ state[p] = inet_stat
  /\ at[p] # "led" => LedRight
  /\ at[p] \in {"guide", "guide all"} => ~agreed
  /\ at[p] \in {"up", "up all"} => agreed /\ inet_stat = "inet_up"
  /\ at[p] \in {"down", "down port"} => agreed /\ inet_stat = "inet_down"
  /\ at[p] \in {"guide all", "up all"} => kproxy.port = 81
  /\ at[p] = "down port" => kproxy.all = TRUE

\* The file was updated, and no other update has met this one.
OneWrites == settled => /\ inet_stat \in States
                    /\ \A p, q \in Proc : at[p] \in Writing /\ at[q] \in Writing => p = q

Progress == settled => \A p \in Proc : at[p] \in Writing => Wrote(p)

Finished == settled /\ (\A p \in Proc : at[p] \notin Writing)
              => LedRight /\ kproxy.port = Page(inet_stat).port /\ kproxy.all = Page(inet_stat).all

\* The parts of NetTypeOK.
Place == {"ready", "expire", "test"} \cup Updating
Placed ==
  /\ at \in [Proc -> Place]
  /\ at[Checker] = "own led" => measured # "none"
  /\ \A p \in Event : at[p] # "own led"
NetValues ==
  /\ inet_stat \in States \cup {"none"}
  /\ kproxy \in [port : {0, 81, 83}, all : BOOLEAN]
  /\ switch \in {"on", "off", "timed", "over"}
  /\ phase \in {"boot down", "boot up", "guide", "watch"}
  /\ state \in [Proc -> States]
  /\ measured \in States \cup {"none"}
NetFlags == led \in BOOLEAN /\ agreed \in BOOLEAN /\ settled \in BOOLEAN

NetInv == NetTypeOK /\ OneWrites /\ Progress /\ Finished

\* The Boolean variables.
LEMMA NetFlagsStep == NetFlags /\ [NetNext]_netVars => NetFlags'
<1> SUFFICES ASSUME NetFlags, [NetNext]_netVars PROVE NetFlags'
  OBVIOUS
<1> USE DEF NetFlags, display, user
<1>1. CASE Boot
  BY <1>1 DEF Boot, Boots
<1>2. CASE Agreement
  BY <1>2 DEF Agreement
<1>3. CASE OwnLed
  BY <1>3 DEF OwnLed
<1>4. CASE Agree
  BY <1>4 DEF Agree
<1>5. CASE inet_chk_switch \/ TimeOver
  BY <1>5 DEF inet_chk_switch, TimeOver, SetSwitch
<1>6. ASSUME NEW s \in States, Measure(s) PROVE NetFlags'
  BY <1>6 DEF Measure
<1>7. ASSUME NEW p \in Event, Relay(p) PROVE NetFlags'
  BY <1>7 DEF Relay
<1>8. ASSUME NEW p \in Event, NEW s \in States, LinkEvent(p, s) PROVE NetFlags'
  BY <1>8 DEF LinkEvent
<1>9. ASSUME NEW p \in Proc, Update(p) PROVE NetFlags'
  <2>1. CASE Expire(p)
    BY <2>1 DEF Expire
  <2>2. CASE Unchanged(p)
    BY <2>2 DEF Unchanged, AfterUpdate
  <2>3. CASE Changed(p)
    BY <2>3 DEF Changed
  <2>4. CASE Led(p)
    BY <2>4 DEF Led
  <2>5. CASE ReadAgreement(p)
    BY <2>5 DEF ReadAgreement
  <2>6. CASE FirstCall(p)
    BY <2>6 DEF FirstCall, setPort, setAll, PortOf
  <2>7. CASE SecondCall(p)
    BY <2>7 DEF SecondCall, setPort, setAll, PortOf, AfterUpdate
  <2> QED
    BY <1>9, <2>1, <2>2, <2>3, <2>4, <2>5, <2>6, <2>7 DEF Update
<1>10. CASE UNCHANGED netVars
  BY <1>10 DEF netVars
<1> QED
  BY <1>1, <1>2, <1>3, <1>4, <1>5, <1>6, <1>7, <1>8, <1>9, <1>10 DEF NetNext

\* What kproxy is set to.
LEMMA KproxyStep ==
  ASSUME NetValues, NEW page, setPort(page) \/ setAll(page)
  PROVE  kproxy' \in [port : {0, 81, 83}, all : BOOLEAN]
<1>1. CASE setPort(page)
  <2>1. PortOf(page) \in {0, 81, 83}
    BY DEF PortOf
  <2> QED
    BY <1>1, <2>1 DEF NetValues, setPort
<1>2. CASE setAll(page)
  <2>1. (page # "up") \in BOOLEAN
    OBVIOUS
  <2> QED
    BY <1>2, <2>1 DEF NetValues, setAll
<1> QED
  BY <1>1, <1>2

\* The values.
LEMMA BootBoots ==
  ASSUME Boot
  PROVE  \E f, t \in {"boot down", "boot up", "guide"}, s \in States : Boots(f, s, t)
BY DEF Boot, States

LEMMA NetValuesStep == NetValues /\ [NetNext]_netVars => NetValues'
<1> SUFFICES ASSUME NetValues, [NetNext]_netVars PROVE NetValues'
  OBVIOUS
<1> USE NetAssumption DEF NetAssumption, NetValues, Proc, argument, display, user
<1>1. CASE Boot
  <2>1. PICK f, t \in {"boot down", "boot up", "guide"}, s \in States : Boots(f, s, t)
    BY <1>1, BootBoots
  <2>2. state' \in [Proc -> States]
    BY <2>1 DEF Boots
  <2>3. phase' \in {"boot down", "boot up", "guide", "watch"}
    BY <2>1 DEF Boots
  <2>4. UNCHANGED <<inet_stat, kproxy, switch, measured>>
    BY <2>1 DEF Boots
  <2> QED
    BY <2>2, <2>3, <2>4
<1>2. CASE Agreement
  BY <1>2 DEF Agreement
<1>3. CASE OwnLed
  BY <1>3 DEF OwnLed
<1>4. CASE Agree
  BY <1>4 DEF Agree
<1>5. CASE inet_chk_switch \/ TimeOver
  <2>1. PICK v \in {"on", "off", "timed", "over"} : SetSwitch(v)
    BY <1>5 DEF inet_chk_switch, TimeOver
  <2> QED
    BY <2>1 DEF SetSwitch
<1>6. ASSUME NEW s \in States, Measure(s) PROVE NetValues'
  BY <1>6 DEF Measure, States
<1>7. ASSUME NEW p \in Event, Relay(p) PROVE NetValues'
  BY <1>7 DEF Relay
<1>8. ASSUME NEW p \in Event, NEW s \in States, LinkEvent(p, s) PROVE NetValues'
  BY <1>8 DEF LinkEvent
<1>9. ASSUME NEW p \in Proc, Update(p) PROVE NetValues'
  <2>1. CASE Expire(p)
    BY <2>1 DEF Expire
  <2>2. CASE Unchanged(p)
    BY <2>2 DEF Unchanged, AfterUpdate
  <2>3. CASE Changed(p)
    BY <2>3 DEF Changed
  <2>4. CASE Led(p)
    BY <2>4 DEF Led
  <2>5. CASE ReadAgreement(p)
    BY <2>5 DEF ReadAgreement
  <2>6. CASE FirstCall(p)
    <3>1. PICK page : setPort(page) \/ setAll(page)
      BY <2>6 DEF FirstCall
    <3>2. kproxy' \in [port : {0, 81, 83}, all : BOOLEAN]
      BY <3>1, KproxyStep
    <3> QED
      BY <2>6, <3>2 DEF FirstCall
  <2>7. CASE SecondCall(p)
    <3>1. PICK page : setPort(page) \/ setAll(page)
      BY <2>7 DEF SecondCall
    <3>2. kproxy' \in [port : {0, 81, 83}, all : BOOLEAN]
      BY <3>1, KproxyStep
    <3> QED
      BY <2>7, <3>2 DEF SecondCall
  <2> QED
    BY <1>9, <2>1, <2>2, <2>3, <2>4, <2>5, <2>6, <2>7 DEF Update
<1>10. CASE UNCHANGED netVars
  BY <1>10 DEF netVars
<1> QED
  BY <1>1, <1>2, <1>3, <1>4, <1>5, <1>6, <1>7, <1>8, <1>9, <1>10 DEF NetNext

\* The places.
LEMMA PlacedStep == Placed /\ [NetNext]_netVars => Placed'
<1> SUFFICES ASSUME Placed, [NetNext]_netVars PROVE Placed'
  OBVIOUS
<1> USE NetAssumption DEF NetAssumption, Placed, Place, Updating, Proc, goes, display, user
<1>1. CASE Boot
  BY <1>1 DEF Boot, Boots
<1>2. CASE Agreement
  BY <1>2 DEF Agreement
<1>3. CASE OwnLed
  BY <1>3 DEF OwnLed
<1>4. CASE Agree
  BY <1>4 DEF Agree
<1>5. CASE inet_chk_switch \/ TimeOver
  BY <1>5 DEF inet_chk_switch, TimeOver, SetSwitch
<1>6. ASSUME NEW s \in States, Measure(s) PROVE Placed'
  BY <1>6 DEF Measure
<1>7. ASSUME NEW p \in Event, Relay(p) PROVE Placed'
  BY <1>7 DEF Relay
<1>8. ASSUME NEW p \in Event, NEW s \in States, LinkEvent(p, s) PROVE Placed'
  BY <1>8 DEF LinkEvent
<1>9. ASSUME NEW p \in Proc, Update(p) PROVE Placed'
  <2>1. CASE Expire(p)
    BY <2>1 DEF Expire
  <2>2. CASE Unchanged(p)
    BY <2>2 DEF Unchanged, AfterUpdate
  <2>3. CASE Changed(p)
    BY <2>3 DEF Changed
  <2>4. CASE Led(p)
    BY <2>4 DEF Led
  <2>5. CASE ReadAgreement(p)
    BY <2>5 DEF ReadAgreement
  <2>6. CASE FirstCall(p)
    <3>1. \E t \in {"guide all", "up all", "down port"} : at' = [at EXCEPT ![p] = t]
      BY <2>6 DEF FirstCall
    <3>2. UNCHANGED measured
      BY <2>6 DEF FirstCall
    <3> QED
      BY <3>1, <3>2
  <2>7. CASE SecondCall(p)
    <3>1. at' = [at EXCEPT ![p] = AfterUpdate(p)] /\ UNCHANGED measured
      BY <2>7 DEF SecondCall
    <3> QED
      BY <3>1 DEF AfterUpdate
  <2> QED
    BY <1>9, <2>1, <2>2, <2>3, <2>4, <2>5, <2>6, <2>7 DEF Update
<1>10. CASE UNCHANGED netVars
  BY <1>10 DEF netVars
<1> QED
  BY <1>1, <1>2, <1>3, <1>4, <1>5, <1>6, <1>7, <1>8, <1>9, <1>10 DEF NetNext

NetTyped == NetFlags /\ NetValues /\ Placed

LEMMA NetTypedStep == NetTyped /\ [NetNext]_netVars => NetTyped'
BY NetFlagsStep, NetValuesStep, PlacedStep DEF NetTyped

\* All steps but Changed: nobody starts to write, and the file stays as it is.
NoNewWriter == \A q \in Proc : at'[q] \in Writing => at[q] \in Writing
Calm == NoNewWriter /\ (settled' => settled) /\ inet_stat' = inet_stat

LEMMA GoesCalm ==
  ASSUME Placed, NEW p \in Proc, NEW from, NEW to, goes(p, from, to),
         to \in Writing => from \in Writing
  PROVE  NoNewWriter
BY DEF Placed, goes, NoNewWriter

LEMMA StaysCalm == ASSUME UNCHANGED at PROVE NoNewWriter
BY DEF NoNewWriter

LEMMA CheckerIsProc == Checker \in Proc /\ \A p \in Event : p \in Proc
BY DEF Proc

LEMMA CalmStep ==
  ASSUME NetTyped, [NetNext]_netVars, ~ \E p \in Proc : Changed(p)
  PROVE  Calm
<1> USE CheckerIsProc DEF NetTyped, display, user
<1>1. CASE Boot
  <2>1. goes(Checker, "ready", "test") /\ UNCHANGED <<inet_stat, settled>>
    BY <1>1 DEF Boot, Boots
  <2>2. NoNewWriter
    BY <2>1, GoesCalm DEF Writing
  <2> QED
    BY <2>1, <2>2 DEF Calm
<1>2. CASE Agreement
  BY <1>2, StaysCalm DEF Agreement, Calm
<1>3. CASE OwnLed
  <2>1. NoNewWriter
    BY <1>3, GoesCalm DEF OwnLed, Writing
  <2> QED
    BY <1>3, <2>1 DEF OwnLed, Calm
<1>4. CASE Agree
  BY <1>4, StaysCalm DEF Agree, Calm
<1>5. CASE inet_chk_switch \/ TimeOver
  <2>1. PICK v : SetSwitch(v)
    BY <1>5 DEF inet_chk_switch, TimeOver
  <2> QED
    BY <2>1, StaysCalm DEF SetSwitch, Calm
<1>6. ASSUME NEW s \in States, Measure(s) PROVE Calm
  <2>1. PICK t : t \in {"expire", "test"} /\ goes(Checker, "ready", t)
    BY <1>6 DEF Measure
  <2>2. NoNewWriter
    BY <2>1, GoesCalm DEF Writing
  <2> QED
    BY <1>6, <2>2 DEF Measure, Calm
<1>7. ASSUME NEW p \in Event, Relay(p) PROVE Calm
  <2>1. NoNewWriter
    BY <1>7, GoesCalm DEF Relay, Writing
  <2> QED
    BY <1>7, <2>1 DEF Relay, Calm
<1>8. ASSUME NEW p \in Event, NEW s \in States, LinkEvent(p, s) PROVE Calm
  <2>1. PICK t : t \in {"expire", "test"} /\ goes(p, "ready", t)
    BY <1>8 DEF LinkEvent
  <2>2. NoNewWriter
    BY <2>1, GoesCalm DEF Writing
  <2> QED
    BY <1>8, <2>2 DEF LinkEvent, Calm
<1>9. ASSUME NEW p \in Proc, Update(p) PROVE Calm
  <2>1. NoNewWriter
    <3>1. AfterUpdate(p) \notin Writing
      BY DEF AfterUpdate, Writing
    <3>2. CASE Expire(p)
      BY <3>2, GoesCalm DEF Expire, Writing
    <3>3. CASE Unchanged(p)
      BY <3>1, <3>3, GoesCalm DEF Unchanged
    <3>4. CASE Led(p)
      BY <3>4, GoesCalm DEF Led, Writing
    <3>5. CASE ReadAgreement(p)
      <4>1. \E t \in {"guide", "up", "down"} : goes(p, "agreement", t)
        BY <3>5 DEF ReadAgreement
      <4> QED
        BY <4>1, GoesCalm DEF Writing
    <3>6. CASE FirstCall(p)
      <4>1. \E f \in {"guide", "up", "down"}, t \in {"guide all", "up all", "down port"} :
               goes(p, f, t)
        BY <3>6 DEF FirstCall
      <4> QED
        BY <4>1, GoesCalm DEF Writing
    <3>7. CASE SecondCall(p)
      <4>1. \E f \in {"guide all", "up all", "down port"} : goes(p, f, AfterUpdate(p))
        BY <3>7 DEF SecondCall
      <4> QED
        BY <3>1, <4>1, GoesCalm
    <3> QED
      BY <1>9, <3>2, <3>3, <3>4, <3>5, <3>6, <3>7 DEF Update
  <2>2. UNCHANGED <<inet_stat, settled>>
    <3>1. CASE Expire(p) \/ Unchanged(p) \/ Led(p) \/ ReadAgreement(p)
      BY <3>1 DEF Expire, Unchanged, Led, ReadAgreement
    <3>2. CASE FirstCall(p)
      BY <3>2 DEF FirstCall
    <3>3. CASE SecondCall(p)
      BY <3>3 DEF SecondCall
    <3> QED
      BY <1>9, <3>1, <3>2, <3>3 DEF Update
  <2> QED
    BY <2>1, <2>2 DEF Calm
<1>10. CASE UNCHANGED netVars
  BY <1>10, StaysCalm DEF netVars, Calm
<1> QED
  BY <1>1, <1>2, <1>3, <1>4, <1>5, <1>6, <1>7, <1>8, <1>9, <1>10 DEF NetNext

\* The step Changed: if it is settled afterwards, nobody else writes.
LEMMA ChangedStep ==
  ASSUME NetTyped, NEW p \in Proc, Changed(p), settled'
  PROVE  /\ inet_stat' = state[p] /\ inet_stat' \in States
         /\ at' = [at EXCEPT ![p] = "led"]
         /\ \A q \in Proc : at[q] \notin Writing
<1>1. inet_stat' = state[p] /\ at' = [at EXCEPT ![p] = "led"]
  BY DEF Changed, goes
<1>2. state[p] \in States
  BY DEF NetTyped, NetValues
<1>3. \A q \in Proc : at[q] \notin Updating
  BY DEF Changed
<1>4. \A q \in Proc : at[q] \notin Writing
  BY <1>3 DEF Updating, Writing
<1> QED
  BY <1>1, <1>2, <1>4

LEMMA OneWritesStep == NetTyped /\ OneWrites /\ [NetNext]_netVars => OneWrites'
<1> SUFFICES ASSUME NetTyped, OneWrites, [NetNext]_netVars PROVE OneWrites'
  OBVIOUS
<1>1. CASE \E p \in Proc : Changed(p)
  <2>1. PICK p \in Proc : Changed(p)
    BY <1>1
  <2>2. ASSUME settled', NEW q \in Proc, at'[q] \in Writing PROVE q = p
    BY <2>1, <2>2, ChangedStep DEF NetTyped, Placed
  <2>3. settled' => inet_stat' \in States
    BY <2>1, ChangedStep
  <2> QED
    BY <2>2, <2>3 DEF OneWrites
<1>2. CASE ~ \E p \in Proc : Changed(p)
  <2>1. Calm
    BY <1>2, CalmStep
  <2> QED
    BY <2>1 DEF Calm, NoNewWriter, OneWrites
<1> QED
  BY <1>1, <1>2

\* A step that neither sets what is displayed nor writes.
Writes(p) == Led(p) \/ ReadAgreement(p) \/ FirstCall(p) \/ SecondCall(p)
Quiet ==
  /\ UNCHANGED <<led, kproxy, agreed>>
  /\ \A q \in Proc : at'[q] \in Writing \/ at[q] \in Writing
       => at'[q] = at[q] /\ state'[q] = state[q]

LEMMA GoesQuiet ==
  ASSUME Placed, NEW p \in Proc, NEW from, NEW to, goes(p, from, to),
         from \notin Writing, to \notin Writing,
         UNCHANGED <<led, kproxy, agreed>>,
         \A q \in Proc : q # p => state'[q] = state[q]
  PROVE  Quiet
<1> SUFFICES ASSUME NEW q \in Proc, at'[q] \in Writing \/ at[q] \in Writing
             PROVE  at'[q] = at[q] /\ state'[q] = state[q]
  BY DEF Quiet
<1>1. q # p
  BY DEF goes, Placed
<1>2. at'[q] = at[q]
  BY <1>1 DEF goes, Placed
<1> QED
  BY <1>1, <1>2

LEMMA StaysQuiet == ASSUME UNCHANGED <<led, kproxy, agreed, at, state>> PROVE Quiet
BY DEF Quiet

LEMMA QuietStep ==
  ASSUME NetTyped, [NetNext]_netVars, ~ Agree, ~ OwnLed,
         ~ \E p \in Proc : Changed(p) \/ Writes(p)
  PROVE  Quiet
<1> USE CheckerIsProc DEF NetTyped, display, user, argument
<1>1. CASE Boot
  <2>1. PICK f, t \in {"boot down", "boot up", "guide"}, s \in States : Boots(f, s, t)
    BY <1>1, BootBoots
  <2>2. UNCHANGED <<led, kproxy, agreed>> /\ goes(Checker, "ready", "test")
    BY <2>1 DEF Boots
  <2>3. \A q \in Proc : q # Checker => state'[q] = state[q]
    BY <2>1 DEF Boots, NetValues
  <2> QED
    BY <2>2, <2>3, GoesQuiet DEF Writing
<1>2. CASE Agreement
  BY <1>2, StaysQuiet DEF Agreement
<1>3. CASE inet_chk_switch \/ TimeOver
  <2>1. PICK v : SetSwitch(v)
    BY <1>3 DEF inet_chk_switch, TimeOver
  <2> QED
    BY <2>1, StaysQuiet DEF SetSwitch
<1>4. ASSUME NEW s \in States, Measure(s) PROVE Quiet
  <2>1. PICK t : t \in {"expire", "test"} /\ goes(Checker, "ready", t)
    BY <1>4 DEF Measure
  <2>2. UNCHANGED <<led, kproxy, agreed>> /\ \A q \in Proc : q # Checker => state'[q] = state[q]
    BY <1>4 DEF Measure, NetValues
  <2> QED
    BY <2>1, <2>2, GoesQuiet DEF Writing
<1>5. ASSUME NEW p \in Event, Relay(p) PROVE Quiet
  <2>1. UNCHANGED <<led, kproxy, agreed, state>> /\ goes(p, "test", "ready")
    BY <1>5 DEF Relay
  <2> QED
    BY <2>1, GoesQuiet DEF Writing
<1>6. ASSUME NEW p \in Event, NEW s \in States, LinkEvent(p, s) PROVE Quiet
  <2>1. PICK t : t \in {"expire", "test"} /\ goes(p, "ready", t)
    BY <1>6 DEF LinkEvent
  <2>2. UNCHANGED <<led, kproxy, agreed>> /\ \A q \in Proc : q # p => state'[q] = state[q]
    BY <1>6 DEF LinkEvent, NetValues
  <2> QED
    BY <2>1, <2>2, GoesQuiet DEF Writing
<1>7. ASSUME NEW p \in Proc, Expire(p) PROVE Quiet
  <2>1. UNCHANGED <<led, kproxy, agreed, state>> /\ goes(p, "expire", "test")
    BY <1>7 DEF Expire
  <2> QED
    BY <2>1, GoesQuiet DEF Writing
<1>8. ASSUME NEW p \in Proc, Unchanged(p) PROVE Quiet
  <2>1. AfterUpdate(p) \notin Writing
    BY DEF AfterUpdate, Writing
  <2>2. goes(p, "test", AfterUpdate(p)) /\ UNCHANGED <<led, kproxy, agreed, state>>
    BY <1>8 DEF Unchanged
  <2>3. "test" \notin Writing
    BY DEF Writing
  <2> QED
    BY <2>1, <2>2, <2>3, GoesQuiet
<1>9. CASE UNCHANGED netVars
  BY <1>9, StaysQuiet DEF netVars
<1> QED
  BY <1>1, <1>2, <1>3, <1>4, <1>5, <1>6, <1>7, <1>8, <1>9 DEF NetNext, Update, Writes

\* Each step of an update finds displayed what the steps before it have set.
LEMMA WroteStep ==
  ASSUME NetTyped, NEW p \in Proc, Writes(p), Wrote(p), at[p] \in Writing, at'[p] \in Writing
  PROVE  Wrote(p)'
<1> USE DEF NetTyped, Placed, NetValues, Wrote, LedRight, goes, Writing, display, user
<1>1. CASE Led(p)
  <2>1. at'[p] = "agreement" /\ led' = (state[p] = "inet_up")
        /\ UNCHANGED <<inet_stat, kproxy, agreed, state>>
    BY <1>1 DEF Led
  <2> QED
    BY <2>1
<1>2. CASE ReadAgreement(p)
  <2>1. state[p] \in States
    OBVIOUS
  <2>2. UNCHANGED <<inet_stat, led, kproxy, agreed, state>> /\ LedRight
    BY <1>2 DEF ReadAgreement
  <2>3. CASE ~agreed
    <3>1. at'[p] = "guide"
      BY <1>2, <2>3 DEF ReadAgreement
    <3> QED
      BY <2>2, <2>3, <3>1
  <2>4. CASE agreed /\ state[p] = "inet_up"
    <3>1. at'[p] = "up"
      BY <1>2, <2>4 DEF ReadAgreement
    <3> QED
      BY <2>2, <2>4, <3>1
  <2>5. CASE agreed /\ state[p] = "inet_down"
    <3>1. at'[p] = "down"
      BY <1>2, <2>5 DEF ReadAgreement
    <3> QED
      BY <2>2, <2>5, <3>1
  <2> QED
    BY <2>1, <2>3, <2>4, <2>5 DEF States
<1>3. CASE FirstCall(p)
  <2>1. UNCHANGED <<inet_stat, led, agreed, state>> /\ kproxy \in [port : {0, 81, 83}, all : BOOLEAN]
    BY <1>3 DEF FirstCall
  <2>2. CASE goes(p, "guide", "guide all") /\ setPort("guide")
    <3>1. at[p] = "guide" /\ at'[p] = "guide all"
      BY <2>2
    <3>2. kproxy'.port = 81
      BY <2>1, <2>2 DEF setPort, setAll, PortOf
    <3> QED
      BY <2>1, <3>1, <3>2
  <2>3. CASE goes(p, "up", "up all") /\ setPort("up")
    <3>1. at[p] = "up" /\ at'[p] = "up all"
      BY <2>3
    <3>2. kproxy'.port = 81
      BY <2>1, <2>3 DEF setPort, setAll, PortOf
    <3> QED
      BY <2>1, <3>1, <3>2
  <2>4. CASE goes(p, "down", "down port") /\ setAll("down")
    <3>1. at[p] = "down" /\ at'[p] = "down port"
      BY <2>4
    <3>2. kproxy'.all = TRUE
      BY <2>1, <2>4 DEF setPort, setAll, PortOf
    <3> QED
      BY <2>1, <3>1, <3>2
  <2> QED
    BY <1>3, <2>2, <2>3, <2>4 DEF FirstCall
<1>4. ~ SecondCall(p)
  <2>1. AfterUpdate(p) \notin Writing
    BY DEF AfterUpdate
  <2>2. SecondCall(p) => at'[p] = AfterUpdate(p)
    BY DEF SecondCall
  <2> QED
    BY <2>1, <2>2
<1> QED
  BY <1>1, <1>2, <1>3, <1>4 DEF Writes

LEMMA LastIsSecond ==
  ASSUME Placed, NEW p \in Proc, Writes(p), at'[p] \notin Writing
  PROVE  SecondCall(p)
<1>1. \A from, to : goes(p, from, to) => at'[p] = to
  BY DEF goes, Placed
<1>2. CASE Led(p)
  BY <1>1, <1>2 DEF Led, Writing
<1>3. CASE ReadAgreement(p)
  <2>1. \E t \in {"guide", "up", "down"} : goes(p, "agreement", t)
    BY <1>3 DEF ReadAgreement
  <2> QED
    BY <1>1, <2>1 DEF Writing
<1>4. CASE FirstCall(p)
  <2>1. \E f \in {"guide", "up", "down"}, t \in {"guide all", "up all", "down port"} :
           goes(p, f, t)
    BY <1>4 DEF FirstCall
  <2> QED
    BY <1>1, <2>1 DEF Writing
<1> QED
  BY <1>2, <1>3, <1>4 DEF Writes

\* The last step completes the display.
LEMMA LastWrite ==
  ASSUME NetTyped, NEW p \in Proc, Writes(p), Wrote(p), at[p] \in Writing, at'[p] \notin Writing
  PROVE  /\ LedRight'
         /\ kproxy'.port = (Page(inet_stat).port)' /\ kproxy'.all = (Page(inet_stat).all)'
<1> USE DEF NetTyped, Placed, NetValues, Wrote, LedRight, goes, Writing, display, user
<1>1. SecondCall(p)
  BY LastIsSecond
<1>2. UNCHANGED <<inet_stat, led, agreed, state>> /\ kproxy \in [port : {0, 81, 83}, all : BOOLEAN]
  BY <1>1 DEF SecondCall
<1>3. at[p] \in {"guide all", "up all", "down port"}
  BY <1>1 DEF SecondCall
<1>4. LedRight'
  BY <1>2, <1>3
<1>5. CASE at[p] = "guide all"
  <2>1. kproxy' = [kproxy EXCEPT !.all = TRUE]
    BY <1>1, <1>5 DEF SecondCall, setAll
  <2>2. ~agreed' /\ kproxy.port = 81
    BY <1>2, <1>5
  <2> QED
    BY <1>2, <1>4, <2>1, <2>2 DEF Page
<1>6. CASE at[p] = "up all"
  <2>1. kproxy' = [kproxy EXCEPT !.all = FALSE]
    BY <1>1, <1>6 DEF SecondCall, setAll
  <2>2. agreed' /\ inet_stat' = "inet_up" /\ kproxy.port = 81
    BY <1>2, <1>6
  <2> QED
    BY <1>2, <1>4, <2>1, <2>2 DEF Page
<1>7. CASE at[p] = "down port"
  <2>1. kproxy' = [kproxy EXCEPT !.port = 83]
    BY <1>1, <1>7 DEF SecondCall, setPort, PortOf
  <2>2. agreed' /\ inet_stat' = "inet_down" /\ kproxy.all = TRUE
    BY <1>2, <1>7
  <2> QED
    BY <1>2, <1>4, <2>1, <2>2 DEF Page
<1> QED
  BY <1>3, <1>4, <1>5, <1>6, <1>7

LEMMA ShownStep ==
  ASSUME NetTyped, OneWrites, Progress, Finished, [NetNext]_netVars
  PROVE  Progress' /\ Finished'
<1>1. CASE \E p \in Proc : Changed(p)
  <2>1. PICK p \in Proc : Changed(p)
    BY <1>1
  <2>2. ASSUME settled' PROVE /\ at'[p] = "led"
                             /\ \A q \in Proc : at'[q] \in Writing => q = p
                             /\ inet_stat' = state'[p]
    BY <2>1, <2>2, ChangedStep DEF NetTyped, Placed, Changed
  <2>3. ASSUME settled', NEW q \in Proc, at'[q] \in Writing PROVE Wrote(q)'
    BY <2>2, <2>3 DEF Wrote
  <2>4. Finished'
    BY <2>2 DEF Finished, Writing
  <2> QED
    BY <2>3, <2>4 DEF Progress
<1>2. CASE Agree
  BY <1>2 DEF Agree, Progress, Finished
<1>3. CASE OwnLed
  <2>0. /\ UNCHANGED <<inet_stat, kproxy, agreed, state>>
        /\ led' = (measured = "inet_up")
        /\ settled' = (settled /\ measured = inet_stat)
    BY <1>3 DEF OwnLed, user
  <2>1. /\ settled' => settled /\ led' = (inet_stat' = "inet_up")
        /\ UNCHANGED <<inet_stat, kproxy, agreed, state>>
    BY <2>0
  <2>2. \A q \in Proc : (at'[q] \in Writing \/ at[q] \in Writing) => at'[q] = at[q]
    BY <1>3 DEF OwnLed, goes, NetTyped, Placed, Writing
  <2>3. ASSUME settled', NEW q \in Proc, at'[q] \in Writing PROVE Wrote(q)'
    BY <2>1, <2>2, <2>3 DEF Progress, Wrote, LedRight
  <2>4. Finished'
    BY <2>1, <2>2 DEF Finished, LedRight, Page
  <2> QED
    BY <2>3, <2>4 DEF Progress
<1>4. ASSUME NEW p \in Proc, Writes(p), ~ \E q \in Proc : Changed(q) PROVE Progress' /\ Finished'
  <2>1. Calm
    BY <1>4, CalmStep
  <2>2. at[p] \in Writing
    BY <1>4 DEF Writes, Led, ReadAgreement, FirstCall, SecondCall, goes, Writing
  <2>3. ASSUME settled' PROVE settled /\ Wrote(p) /\ \A q \in Proc : at'[q] \in Writing => q = p
    BY <2>1, <2>2, <2>3 DEF Calm, NoNewWriter, OneWrites, Progress
  <2>4. ASSUME settled', NEW q \in Proc, at'[q] \in Writing PROVE Wrote(q)'
    BY <1>4, <2>2, <2>3, <2>4, WroteStep
  <2>5. ASSUME settled', \A q \in Proc : at'[q] \notin Writing
        PROVE  /\ LedRight'
               /\ kproxy'.port = (Page(inet_stat).port)' /\ kproxy'.all = (Page(inet_stat).all)'
    BY <1>4, <2>2, <2>3, <2>5, LastWrite
  <2>6. Finished'
    BY <2>5 DEF Finished
  <2> QED
    BY <2>4, <2>6 DEF Progress
<1>5. CASE ~ Agree /\ ~ OwnLed /\ ~ \E p \in Proc : Changed(p) \/ Writes(p)
  <2>1. Quiet
    BY <1>5, QuietStep
  <2>2. Calm
    BY <1>5, CalmStep
  <2>3. ASSUME settled', NEW q \in Proc, at'[q] \in Writing PROVE Wrote(q)'
    BY <2>1, <2>2, <2>3 DEF Quiet, Calm, Progress, Wrote, LedRight
  <2>4. Finished'
    BY <2>1, <2>2 DEF Quiet, Calm, Finished, LedRight, Page
  <2> QED
    BY <2>3, <2>4 DEF Progress
<1> QED
  BY <1>1, <1>2, <1>3, <1>4, <1>5

LEMMA NetInvInit == NetInit => NetInv
<1> SUFFICES ASSUME NetInit PROVE NetInv
  OBVIOUS
<1>1. NetFlags /\ Placed
  BY CheckerIsProc, NetAssumption DEF NetInit, NetAssumption, NetFlags, Placed, Place
<1>2. NetValues
  BY DEF NetInit, NetValues, States
<1>3. NetTypeOK
  BY <1>1, <1>2 DEF NetTypeOK, NetFlags, NetValues, Placed, Place
<1>4. ~settled
  BY DEF NetInit
<1> QED
  BY <1>3, <1>4 DEF NetInv, OneWrites, Progress, Finished

LEMMA NetInvStep == NetInv /\ [NetNext]_netVars => NetInv'
<1> SUFFICES ASSUME NetInv, [NetNext]_netVars PROVE NetInv'
  OBVIOUS
<1>1. NetTyped
  BY DEF NetInv, NetTypeOK, NetTyped, NetFlags, NetValues, Placed, Place
<1>2. NetTyped'
  BY <1>1, NetTypedStep
<1>3. NetTypeOK'
  BY <1>2 DEF NetTypeOK, NetTyped, NetFlags, NetValues, Placed, Place
<1>4. OneWrites'
  BY <1>1, OneWritesStep DEF NetInv
<1>5. Progress' /\ Finished'
  BY <1>1, ShownStep DEF NetInv
<1> QED
  BY <1>3, <1>4, <1>5 DEF NetInv

LEMMA NetInvHolds == NetSpec => []NetInv
<1>1. NetInit => NetInv
  BY NetInvInit
<1>2. NetInv /\ [NetNext]_netVars => NetInv'
  BY NetInvStep
<1> QED
  BY <1>1, <1>2, PTL DEF NetSpec

\* The types of NetState; in it, that only the checker sets the led by itself, and only
\* when it has measured with the switch off (inet_chk.sh:128-142).
THEOREM NetTypes == NetSpec => []NetTypeOK
<1>1. NetInv => NetTypeOK
  BY DEF NetInv
<1> QED
  BY <1>1, NetInvHolds, PTL

\* For every number of link events at once: an update that met no other leaves the led
\* and kproxy at what the file tells (net_update_actions.sh:115-174).
THEOREM DisplayFollowsFile == NetSpec => []DisplaysFile
<1>1. NetInv => DisplaysFile
  <2> SUFFICES ASSUME NetInv, settled, \A p \in Proc : at[p] \notin Updating
               PROVE  led = (inet_stat = "inet_up") /\ kproxy = Page(inet_stat)
    BY DEF DisplaysFile
  <2>1. \A p \in Proc : at[p] \notin Writing
    BY DEF Updating, Writing
  <2>2. /\ LedRight
        /\ kproxy.port = Page(inet_stat).port /\ kproxy.all = Page(inet_stat).all
    BY <2>1 DEF NetInv, Finished
  <2>3. kproxy \in [port : {0, 81, 83}, all : BOOLEAN]
    BY DEF NetInv, NetTypeOK
  <2>4. kproxy = Page(inet_stat)
    BY <2>2, <2>3 DEF Page
  <2> QED
    BY <2>2, <2>4 DEF LedRight
<1> QED
  BY <1>1, NetInvHolds, PTL

-----------------------------------------------------------------------------
(* The filter of devices.                                                  *)

\* The two halves of MacTypeOK: where the processes are, and what they hold.
Walks ==
  /\ owner \in Caller \cup {None}
  /\ place \in [Caller -> Places]
  /\ call \in [Caller -> [fn : Function, mac : Mac \cup {None}] \cup {NoCall}]
  /\ iface \in [Caller -> Iface]
  /\ collected \in BOOLEAN
  /\ last \in Caller \cup {None}
  /\ overlapped \subseteq Caller
Holds ==
  /\ applied \in [Iface -> Settings]
  /\ uci \in Settings
  /\ block_list \in SUBSET Mac
  /\ setting \in [Caller -> Requests]
  /\ blocks \in [Caller -> SUBSET Mac]

LEMMA Halves == MacTypeOK <=> Walks /\ Holds
BY DEF MacTypeOK, Walks, Holds

\* A setting that is valid can be asked for; is_valid_setting tells the ones that are.
LEMMA ValidSettings ==
  /\ Settings \subseteq Requests
  /\ \A s \in Requests : is_valid_setting(s) <=> s \in Settings
  /\ \A s \in Requests : Checked(s) = IF s \in Settings THEN "lock" ELSE "refused"
BY MacAssumption DEF MacAssumption, Settings, Requests, is_valid_setting, Checked, Mode

\* What deny_mac and allow_mac make of a setting can be asked for.
LEMMA ChangedSetting ==
  ASSUME NEW s \in Requests, s.mode \in Mode, NEW m \in Mac
  PROVE  Denied(s, m) \in Requests /\ Allowed(s, m) \in Requests
<1>1. Denied(s, m) \in Requests
  BY DEF Denied, Requests, Mode
<1>2. Allowed(s, m) \in Requests
  <2>1. CASE s.mode = "allow"
    BY <2>1 DEF Allowed, Requests, Mode
  <2>2. CASE s.mode = "deny"
    BY <2>2 DEF Allowed, Requests, Mode
  <2>3. CASE s.mode = "stop"
    BY <2>3 DEF Allowed, Requests, Mode
  <2> QED
    BY <2>1, <2>2, <2>3 DEF Requests, Mode
<1> QED
  BY <1>1, <1>2

LEMMA InitTypes == MacInit => MacTypeOK
<1> SUFFICES ASSUME MacInit PROVE MacTypeOK
  OBVIOUS
<1> USE MacAssumption DEF MacAssumption
<1>1. 1 \in Iface
  BY DEF Iface
<1>2. Empty \in Settings
  BY DEF Empty, Settings, Mode
<1>3. Walks
  BY <1>1 DEF MacInit, Walks, Places, Over, Inside
<1>4. Holds
  BY <1>2, ValidSettings DEF MacInit, Holds
<1> QED
  BY <1>3, <1>4, Halves

\* A process that loads the setting was asked for a device, and what one saves is valid.
Asked ==
  \A p \in Caller :
    /\ place[p] \in {"list", "mode", "block list", "block mode", "block save"}
         => call[p].fn \in {"deny_mac", "allow_mac"} /\ call[p].mac \in Mac
    /\ place[p] \in {"lock"} \cup Inside => setting[p] \in Settings

LEMMA CalledWalks ==
  ASSUME Walks, NEW p \in Caller, NEW fn \in Function, NEW mac \in Mac \cup {None}, NEW to \in Places,
         Called(p, fn, mac, to)
  PROVE  Walks'
<1>1. place' \in [Caller -> Places]
  BY DEF Called, moves, Walks
<1>2. call' \in [Caller -> [fn : Function, mac : Mac \cup {None}] \cup {NoCall}]
  <2>1. [fn |-> fn, mac |-> mac] \in [fn : Function, mac : Mac \cup {None}]
    OBVIOUS
  <2> QED
    BY <2>1 DEF Called, Walks
<1>3. overlapped' \subseteq Caller /\ last' \in Caller
  BY DEF Called, Walks, Running
<1>4. UNCHANGED <<owner, iface, collected>>
  BY DEF Called
<1> QED
  BY <1>1, <1>2, <1>3, <1>4 DEF Walks

\* One half of a setting is replaced.
LEMMA HalfSetting ==
  /\ \A s \in Settings : /\ s.mode \in Mode /\ s.macs \in SUBSET Address
                         /\ \A m \in SUBSET Address : [s EXCEPT !.macs = m] \in Settings
                         /\ \A m \in Mode : [s EXCEPT !.mode = m] \in Settings
  /\ \A s \in Requests : /\ \A m \in SUBSET Mac : [s EXCEPT !.macs = m] \in Requests
                         /\ \A m \in Mode : /\ [s EXCEPT !.mode = m] \in Requests
                                            /\ [s EXCEPT !.mode = m].mode = m
  /\ SUBSET Address \subseteq SUBSET Mac
BY MacAssumption DEF MacAssumption, Settings, Requests, Mode

LEMMA FirstIface == 1 \in Iface /\ (Holds => applied[1] \in Settings)
BY MacAssumption DEF MacAssumption, Iface, Holds

\* Types.
LEMMA WalksStep == Walks /\ [MacNext]_macVars => Walks'
<1> SUFFICES ASSUME Walks, [MacNext]_macVars PROVE Walks'
  OBVIOUS
<1> USE MacAssumption DEF MacAssumption, Walks, Inside, Iface, router, history, saving, moves
<1>1. ASSUME NEW p \in Caller, NEW m \in Mac, deny_mac(p, m) \/ allow_mac(p, m) PROVE Walks'
  <2>1. Function = {"deny_mac", "allow_mac", "save_setting"} /\ {"list", "lock"} \subseteq Places
    BY DEF Function, Places
  <2> QED
    BY <1>1, <2>1, CalledWalks DEF deny_mac, allow_mac
<1>2. ASSUME NEW p \in Caller, NEW s \in Setting, save_setting(p, s) PROVE Walks'
  <2>1. Function = {"deny_mac", "allow_mac", "save_setting"} /\ Checked(s) \in Places
    BY DEF Function, Places, Over, Checked
  <2> QED
    BY <1>2, <2>1, CalledWalks DEF save_setting
<1>3. ASSUME NEW p \in Caller, LoadList(p) PROVE Walks'
  BY <1>3 DEF LoadList, Places, moves
<1>4. ASSUME NEW p \in Caller, LoadMode(p) PROVE Walks'
  BY <1>4 DEF LoadMode, Places, moves
<1>5. ASSUME NEW p \in Caller, BlockList(p) PROVE Walks'
  BY <1>5 DEF BlockList, Places, moves
<1>6. ASSUME NEW p \in Caller, BlockMode(p) PROVE Walks'
  BY <1>6 DEF BlockMode, Places, moves
<1>7. ASSUME NEW p \in Caller, BlockSave(p) PROVE Walks'
  <2>1. Checked(setting[p]) \in Places
    BY DEF Places, Over, Checked
  <2> QED
    BY <1>7, <2>1 DEF BlockSave, moves
<1>8. ASSUME NEW p \in Caller, Lock(p) PROVE Walks'
  BY <1>8 DEF Lock, Places, moves
<1>9. ASSUME NEW p \in Caller, SetAcl(p) PROVE Walks'
  BY <1>9 DEF SetAcl, Places, moves
<1>10. ASSUME NEW p \in Caller, SetAclList(p) PROVE Walks'
  BY <1>10 DEF SetAclList, Places, moves
<1>11. ASSUME NEW p \in Caller, SaveUci(p) PROVE Walks'
  BY <1>11 DEF SaveUci, Places, moves
<1>12. ASSUME NEW p \in Caller, Unlock(p) PROVE Walks'
  <2>1. iface' \in [Caller -> Iface]
    BY <1>12 DEF Unlock
  <2>2. \E to \in {"lock", "done"} : place' = [place EXCEPT ![p] = to]
    BY <1>12 DEF Unlock
  <2>3. place' \in [Caller -> Places]
    BY <2>2 DEF Places, Over
  <2> QED
    BY <1>12, <2>1, <2>3 DEF Unlock
<1>13. ASSUME NEW p \in Caller, Collect(p) PROVE Walks'
  BY <1>13 DEF Collect, Places, moves
<1>14. CASE UNCHANGED macVars
  BY <1>14 DEF macVars
<1> QED
  BY <1>1, <1>2, <1>3, <1>4, <1>5, <1>6, <1>7, <1>8, <1>9, <1>10, <1>11, <1>12, <1>13, <1>14 DEF MacNext

LEMMA HoldsStep == Walks /\ Holds /\ Asked /\ [MacNext]_macVars => Holds'
<1> SUFFICES ASSUME Walks, Holds, Asked, [MacNext]_macVars PROVE Holds'
  OBVIOUS
<1> USE DEF Holds, router, history, saving
<1>1. ASSUME NEW p \in Caller, NEW m \in Mac, deny_mac(p, m) \/ allow_mac(p, m) PROVE Holds'
  BY <1>1 DEF deny_mac, allow_mac, Called, moves
<1>2. ASSUME NEW p \in Caller, NEW s \in Setting, save_setting(p, s) PROVE Holds'
  BY <1>2, MacAssumption DEF save_setting, Called, MacAssumption, Requests
<1>3. ASSUME NEW p \in Caller, LoadList(p) PROVE Holds'
  <2>1. setting' = [setting EXCEPT ![p] = [setting[p] EXCEPT !.macs = applied[1].macs]]
    BY <1>3 DEF LoadList
  <2>2. [setting[p] EXCEPT !.macs = applied[1].macs] \in Requests
    BY FirstIface, HalfSetting
  <2> QED
    BY <1>3, <2>1, <2>2 DEF LoadList
<1>4. ASSUME NEW p \in Caller, LoadMode(p) PROVE Holds'
  <2> DEFINE s == [setting[p] EXCEPT !.mode = applied[1].mode]
  <2>1. s \in Requests /\ s.mode \in Mode
    BY FirstIface, HalfSetting
  <2>2. call[p].mac \in Mac
    BY <1>4 DEF LoadMode, moves, Asked
  <2> HIDE DEF s
  <2>3. Denied(s, call[p].mac) \in Requests /\ Allowed(s, call[p].mac) \in Requests
    BY <2>1, <2>2, ChangedSetting
  <2>4. setting' = [setting EXCEPT ![p] = IF call[p].fn = "deny_mac" THEN Denied(s, call[p].mac)
                                          ELSE Allowed(s, call[p].mac)]
    BY <1>4 DEF LoadMode, s
  <2> QED
    BY <1>4, <2>3, <2>4 DEF LoadMode
<1>5. ASSUME NEW p \in Caller, BlockList(p) PROVE Holds'
  <2>1. applied[1].macs \in SUBSET Mac
    BY FirstIface, HalfSetting
  <2> QED
    BY <1>5, <2>1 DEF BlockList
<1>6. ASSUME NEW p \in Caller, BlockMode(p) PROVE Holds'
  <2>1. call[p].mac \in Mac
    BY <1>6 DEF BlockMode, moves, Asked
  <2>2. blocks[p] \in SUBSET Mac
    OBVIOUS
  <2> QED
    BY <1>6, <2>1, <2>2 DEF BlockMode
<1>7. ASSUME NEW p \in Caller, BlockSave(p) PROVE Holds'
  BY <1>7 DEF BlockSave, moves
<1>8. ASSUME NEW p \in Caller, Lock(p) PROVE Holds'
  BY <1>8 DEF Lock, moves
<1>9. ASSUME NEW p \in Caller, SetAcl(p) PROVE Holds'
  <2>1. applied' = [applied EXCEPT ![iface[p]] = [applied[iface[p]] EXCEPT !.mode = setting[p].mode]]
    BY <1>9 DEF SetAcl
  <2>2. iface[p] \in Iface
    BY DEF Walks
  <2>3. [applied[iface[p]] EXCEPT !.mode = setting[p].mode] \in Settings
    <3>1. setting[p] \in Settings
      BY <1>9 DEF SetAcl, moves, Asked, Inside
    <3> QED
      BY <2>2, <3>1, HalfSetting
  <2> QED
    BY <1>9, <2>1, <2>2, <2>3 DEF SetAcl
<1>10. ASSUME NEW p \in Caller, SetAclList(p) PROVE Holds'
  <2>1. applied' = [applied EXCEPT ![iface[p]] = [applied[iface[p]] EXCEPT !.macs = setting[p].macs]]
    BY <1>10 DEF SetAclList
  <2>2. iface[p] \in Iface
    BY DEF Walks
  <2>3. [applied[iface[p]] EXCEPT !.macs = setting[p].macs] \in Settings
    <3>1. setting[p] \in Settings
      BY <1>10 DEF SetAclList, moves, Asked, Inside
    <3> QED
      BY <2>2, <3>1, HalfSetting
  <2> QED
    BY <1>10, <2>1, <2>2, <2>3 DEF SetAclList
<1>11. ASSUME NEW p \in Caller, SaveUci(p) PROVE Holds'
  BY <1>11 DEF SaveUci, moves, Asked, Inside
<1>12. ASSUME NEW p \in Caller, Unlock(p) PROVE Holds'
  BY <1>12 DEF Unlock, moves
<1>13. ASSUME NEW p \in Caller, Collect(p) PROVE Holds'
  BY <1>13 DEF Collect, moves
<1>14. CASE UNCHANGED macVars
  BY <1>14 DEF macVars
<1> QED
  BY <1>1, <1>2, <1>3, <1>4, <1>5, <1>6, <1>7, <1>8, <1>9, <1>10, <1>11, <1>12, <1>13, <1>14 DEF MacNext

LEMMA AskedStep == Walks /\ Holds /\ Asked /\ [MacNext]_macVars => Asked'
<1> SUFFICES ASSUME Walks, Holds, Asked, [MacNext]_macVars PROVE Asked'
  OBVIOUS
<1> USE DEF Walks, Holds, Asked, Inside, router, history, saving
<1>1. ASSUME NEW p \in Caller, NEW m \in Mac, deny_mac(p, m) \/ allow_mac(p, m) PROVE Asked'
  <2>1. PICK fn \in {"deny_mac", "allow_mac"} : Called(p, fn, m, "list") /\ UNCHANGED setting
    BY <1>1 DEF deny_mac, allow_mac
  <2> QED
    BY <2>1 DEF Called, moves
<1>2. ASSUME NEW p \in Caller, NEW s \in Setting, save_setting(p, s) PROVE Asked'
  BY <1>2, MacAssumption, ValidSettings DEF save_setting, Called, moves, MacAssumption, Requests
<1>3. ASSUME NEW p \in Caller, LoadList(p) PROVE Asked'
  BY <1>3 DEF LoadList, moves
<1>4. ASSUME NEW p \in Caller, LoadMode(p) PROVE Asked'
  BY <1>4 DEF LoadMode, moves
<1>5. ASSUME NEW p \in Caller, BlockList(p) PROVE Asked'
  BY <1>5 DEF BlockList, moves
<1>6. ASSUME NEW p \in Caller, BlockMode(p) PROVE Asked'
  BY <1>6 DEF BlockMode, moves
<1>7. ASSUME NEW p \in Caller, BlockSave(p) PROVE Asked'
  BY <1>7, ValidSettings DEF BlockSave, moves
<1>8. ASSUME NEW p \in Caller, Lock(p) PROVE Asked'
  BY <1>8 DEF Lock, moves
<1>9. ASSUME NEW p \in Caller, SetAcl(p) PROVE Asked'
  BY <1>9 DEF SetAcl, moves
<1>10. ASSUME NEW p \in Caller, SetAclList(p) PROVE Asked'
  BY <1>10 DEF SetAclList, moves
<1>11. ASSUME NEW p \in Caller, SaveUci(p) PROVE Asked'
  BY <1>11 DEF SaveUci, moves
<1>12. ASSUME NEW p \in Caller, Unlock(p) PROVE Asked'
  BY <1>12 DEF Unlock, moves
<1>13. ASSUME NEW p \in Caller, Collect(p) PROVE Asked'
  BY <1>13 DEF Collect, moves
<1>14. CASE UNCHANGED macVars
  BY <1>14 DEF macVars
<1> QED
  BY <1>1, <1>2, <1>3, <1>4, <1>5, <1>6, <1>7, <1>8, <1>9, <1>10, <1>11, <1>12, <1>13, <1>14 DEF MacNext

MacTyped == MacTypeOK /\ Asked

LEMMA MacTypedStep == MacTyped /\ [MacNext]_macVars => MacTyped'
<1> SUFFICES ASSUME MacTyped, [MacNext]_macVars PROVE MacTyped'
  OBVIOUS
<1>1. Walks /\ Holds /\ Asked
  BY Halves DEF MacTyped
<1>2. Walks' /\ Holds' /\ Asked'
  BY <1>1, WalksStep, HoldsStep, AskedStep
<1> QED
  BY <1>2 DEF MacTyped, MacTypeOK, Walks, Holds

\* Unless the collector has given it up, the lock is with the process that is inside.
Guarded == ~collected => \A p \in Caller : place[p] \in Inside <=> owner = p

\* What the one inside has saved to its interface, and to the file.
Saved ==
  ~collected =>
    /\ \A p \in Caller :
         /\ place[p] = "acllist" => applied[iface[p]].mode = setting[p].mode
         /\ place[p] \in {"uci", "unlock"} => applied[iface[p]] = setting[p]
         /\ place[p] = "unlock" => uci = setting[p]
    /\ owner = None => \E i \in Iface : applied[i] = uci

\* The steps outside of the lock.
Outside ==
  /\ UNCHANGED <<applied, uci, owner, iface>> /\ (~collected' => ~collected)
  /\ \A q \in Caller : place'[q] \in Inside \/ place[q] \in Inside
       => place'[q] = place[q] /\ setting'[q] = setting[q]

LEMMA MovesOutside ==
  ASSUME Walks, NEW p \in Caller, NEW from, NEW to, moves(p, from, to),
         from \notin Inside, to \notin Inside,
         \A q \in Caller : q # p => setting'[q] = setting[q],
         UNCHANGED <<applied, uci, owner, iface, collected>>
  PROVE  Outside
<1> SUFFICES ASSUME NEW q \in Caller, place'[q] \in Inside \/ place[q] \in Inside
             PROVE  place'[q] = place[q] /\ setting'[q] = setting[q]
  BY DEF Outside
<1>1. q # p
  BY DEF moves, Walks
<1> QED
  BY <1>1 DEF moves, Walks

LEMMA OutsideStep ==
  ASSUME MacTyped, [MacNext]_macVars,
         ~ \E p \in Caller : Lock(p) \/ SetAcl(p) \/ SetAclList(p) \/ SaveUci(p) \/ Unlock(p) \/ Collect(p)
  PROVE  Outside
<1> USE Halves DEF MacTyped, router, history
<1>1. ASSUME NEW p \in Caller, NEW m \in Mac, deny_mac(p, m) \/ allow_mac(p, m) PROVE Outside
  <2>1. moves(p, "idle", "list") /\ UNCHANGED <<applied, uci, owner, iface, collected, setting>>
    BY <1>1 DEF deny_mac, allow_mac, Called
  <2> QED
    BY <2>1, MovesOutside DEF Inside
<1>2. ASSUME NEW p \in Caller, NEW s \in Setting, save_setting(p, s) PROVE Outside
  <2>1. /\ moves(p, "idle", Checked(s)) /\ UNCHANGED <<applied, uci, owner, iface, collected>>
        /\ \A q \in Caller : q # p => setting'[q] = setting[q]
    BY <1>2 DEF save_setting, Called, Holds
  <2> QED
    BY <2>1, MovesOutside DEF Inside, Checked
<1>3. ASSUME NEW p \in Caller, LoadList(p) PROVE Outside
  <2>1. /\ moves(p, "list", "mode") /\ UNCHANGED <<applied, uci, owner, iface, collected>>
        /\ \A q \in Caller : q # p => setting'[q] = setting[q]
    BY <1>3 DEF LoadList, Holds
  <2> QED
    BY <2>1, MovesOutside DEF Inside
<1>4. ASSUME NEW p \in Caller, LoadMode(p) PROVE Outside
  <2>1. /\ moves(p, "mode", "block list") /\ UNCHANGED <<applied, uci, owner, iface, collected>>
        /\ \A q \in Caller : q # p => setting'[q] = setting[q]
    BY <1>4 DEF LoadMode, Holds
  <2> QED
    BY <2>1, MovesOutside DEF Inside
<1>5. ASSUME NEW p \in Caller, BlockList(p) PROVE Outside
  <2>1. /\ moves(p, "block list", "block mode") /\ UNCHANGED <<applied, uci, owner, iface, collected>>
        /\ \A q \in Caller : q # p => setting'[q] = setting[q]
    BY <1>5 DEF BlockList, Holds
  <2> QED
    BY <2>1, MovesOutside DEF Inside
<1>6. ASSUME NEW p \in Caller, BlockMode(p) PROVE Outside
  <2>1. /\ moves(p, "block mode", "block save") /\ UNCHANGED <<applied, uci, owner, iface, collected>>
        /\ \A q \in Caller : q # p => setting'[q] = setting[q]
    BY <1>6 DEF BlockMode, Holds
  <2> QED
    BY <2>1, MovesOutside DEF Inside
<1>7. ASSUME NEW p \in Caller, BlockSave(p) PROVE Outside
  <2>1. /\ moves(p, "block save", Checked(setting[p])) /\ UNCHANGED <<applied, uci, owner, iface, collected>>
        /\ \A q \in Caller : q # p => setting'[q] = setting[q]
    BY <1>7 DEF BlockSave, Holds
  <2> QED
    BY <2>1, MovesOutside DEF Inside, Checked
<1>8. CASE UNCHANGED macVars
  BY <1>8 DEF macVars, Outside
<1> QED
  BY <1>1, <1>2, <1>3, <1>4, <1>5, <1>6, <1>7, <1>8 DEF MacNext

LEMMA GuardedStep ==
  ASSUME MacTyped, Guarded, Saved, [MacNext]_macVars PROVE Guarded'
<1> USE Halves DEF MacTyped
<1>1. ASSUME NEW p \in Caller, Lock(p) PROVE Guarded'
  BY <1>1, MacAssumption DEF Lock, moves, Walks, Holds, Inside, MacAssumption, Guarded, saving, history
<1>2. ASSUME NEW p \in Caller, SetAcl(p) PROVE Guarded'
  BY <1>2, MacAssumption DEF SetAcl, moves, Walks, Holds, Inside, MacAssumption, Guarded, saving, history
<1>3. ASSUME NEW p \in Caller, SetAclList(p) PROVE Guarded'
  BY <1>3, MacAssumption DEF SetAclList, moves, Walks, Holds, Inside, MacAssumption, Guarded, saving, history
<1>4. ASSUME NEW p \in Caller, SaveUci(p) PROVE Guarded'
  BY <1>4, MacAssumption DEF SaveUci, moves, Walks, Holds, Inside, MacAssumption, Guarded, saving, history
<1>5. ASSUME NEW p \in Caller, Unlock(p) PROVE Guarded'
  BY <1>5, MacAssumption DEF Unlock, moves, Walks, Holds, Inside, MacAssumption, Guarded, saving, history
<1>6. ASSUME NEW p \in Caller, Collect(p) PROVE Guarded'
  BY <1>6 DEF Collect, Guarded
<1>7. CASE ~ \E p \in Caller : Lock(p) \/ SetAcl(p) \/ SetAclList(p) \/ SaveUci(p) \/ Unlock(p) \/ Collect(p)
  BY <1>7, OutsideStep DEF Outside, Guarded, Inside
<1> QED
  BY <1>1, <1>2, <1>3, <1>4, <1>5, <1>6, <1>7

LEMMA OneSetting ==
  ASSUME NEW r \in Settings, NEW s \in Settings, r.mode = s.mode
  PROVE  [r EXCEPT !.macs = s.macs] = s
BY DEF Settings

LEMMA SavedStep ==
  ASSUME MacTyped, Guarded, Saved, [MacNext]_macVars PROVE Saved'
<1> USE Halves DEF MacTyped
<1>1. ASSUME NEW p \in Caller, Lock(p) PROVE Saved'
  BY <1>1, MacAssumption DEF Lock, moves, Walks, Holds, Inside, MacAssumption, Guarded, Saved, saving, history
<1>2. ASSUME NEW p \in Caller, SetAcl(p) PROVE Saved'
  BY <1>2, MacAssumption DEF SetAcl, moves, Walks, Holds, Inside, MacAssumption, Guarded, Saved, saving, history
<1>3. ASSUME NEW p \in Caller, SetAclList(p) PROVE Saved'
  <2> DEFINE r == [applied[iface[p]] EXCEPT !.macs = setting[p].macs]
  <2>1. iface[p] \in Iface /\ place[p] = "acllist"
    BY <1>3 DEF SetAclList, moves, Walks
  <2>2. applied' = [applied EXCEPT ![iface[p]] = r]
    BY <1>3 DEF SetAclList
  <2>3. UNCHANGED <<uci, owner, setting, iface, collected>> /\ place' = [place EXCEPT ![p] = "uci"]
    BY <1>3 DEF SetAclList, saving, history, moves
  <2>4. ASSUME ~collected PROVE r = setting[p]
    <3>1. applied[iface[p]].mode = setting[p].mode
      BY <2>1, <2>4 DEF Saved
    <3>2. applied[iface[p]] \in Settings /\ setting[p] \in Settings
      BY <2>1 DEF Holds, Asked, Inside
    <3> QED
      BY <3>1, <3>2, OneSetting
  <2>5. ASSUME ~collected PROVE owner = p /\ \A q \in Caller : place'[q] \in Inside => q = p
    BY <2>1, <2>3, <2>5 DEF Guarded, Walks, Inside
  <2>6. applied'[iface[p]] = r /\ place'[p] = "uci"
    BY <2>1, <2>2, <2>3 DEF Walks, Holds
  <2> QED
    BY <2>3, <2>4, <2>5, <2>6, MacAssumption DEF Saved, MacAssumption, Inside
<1>4. ASSUME NEW p \in Caller, SaveUci(p) PROVE Saved'
  BY <1>4, MacAssumption DEF SaveUci, moves, Walks, Holds, Inside, MacAssumption, Guarded, Saved, saving, history
<1>5. ASSUME NEW p \in Caller, Unlock(p) PROVE Saved'
  BY <1>5, MacAssumption DEF Unlock, moves, Walks, Holds, Inside, MacAssumption, Guarded, Saved, saving, history
<1>6. ASSUME NEW p \in Caller, Collect(p) PROVE Saved'
  BY <1>6 DEF Collect, Guarded, Saved
<1>7. CASE ~ \E p \in Caller : Lock(p) \/ SetAcl(p) \/ SetAclList(p) \/ SaveUci(p) \/ Unlock(p) \/ Collect(p)
  BY <1>7, OutsideStep DEF Outside, Guarded, Saved, Inside
<1> QED
  BY <1>1, <1>2, <1>3, <1>4, <1>5, <1>6, <1>7


FilterInv == MacTyped /\ Guarded /\ Saved

LEMMA FilterInvHolds == MacSpec => []FilterInv
<1>1. MacInit => FilterInv
  <2> SUFFICES ASSUME MacInit PROVE FilterInv
    OBVIOUS
  <2>1. MacTyped
    BY InitTypes DEF MacTyped, Asked, MacInit, Inside
  <2>2. Guarded
    BY MacAssumption DEF MacInit, Guarded, Inside, MacAssumption
  <2>3. Saved
    BY FirstIface DEF MacInit, Saved
  <2> QED
    BY <2>1, <2>2, <2>3 DEF FilterInv
<1>2. FilterInv /\ [MacNext]_macVars => FilterInv'
  BY MacTypedStep, GuardedStep, SavedStep DEF FilterInv
<1> QED
  BY <1>1, <1>2, PTL DEF MacSpec

\* The types of MacFilter: whatever is asked for, every interface and the file have a mode
\* that there is, and addresses (is_valid_setting, mac_filter.lua:33-44, 72-74).
THEOREM MacTypes == MacSpec => []MacTypeOK
<1>1. FilterInv => MacTypeOK
  BY DEF FilterInv, MacTyped
<1> QED
  BY <1>1, FilterInvHolds, PTL

\* For every number of requests at once, of devices and of interfaces: the file never
\* holds what no interface filters by (mac_filter.lua:94-114).
THEOREM StoredIsUsed == MacSpec => []StoredIsApplied
<1>1. FilterInv => StoredIsApplied
  BY DEF FilterInv, Saved, StoredIsApplied
<1> QED
  BY <1>1, FilterInvHolds, PTL

-----------------------------------------------------------------------------
(* A request that no other one overlaps.                                   *)

\* What a request makes of the setting it has loaded, and of the blocked devices.
ChangedBy(s, c) == IF c.fn = "deny_mac" THEN Denied(s, c.mac) ELSE Allowed(s, c.mac)
Blocked(s, c) ==
  LET all == IF s.mode = "deny" THEN s.macs ELSE {}
  IN IF c.fn = "deny_mac" THEN all \cup {c.mac} ELSE all \ {c.mac}

\* What the setting of p does for the request p serves, and what the file lists.
Takes(p) ==
  call[p].fn # "save_setting"
    => /\ Admits(setting[p], call[p].mac) <=> call[p].fn = "allow_mac"
       /\ setting[p].mode = "deny" => block_list = setting[p].macs

\* A process begins with the first interface.
Loading == {"list", "mode", "block list", "block mode", "block save"}
FromFirst == \A q \in Caller : place[q] \in {"idle"} \cup Loading => iface[q] = 1

\* While p loads, it changes what the first interface has; then it saves to one
\* interface after the other, and in the end it has saved to them all.
Loads(p) ==
  /\ place[p] # "idle"
  /\ place[p] = "mode" => setting[p].macs = applied[1].macs
  /\ place[p] \in {"block list", "block mode", "block save"} => setting[p] = ChangedBy(applied[1], call[p])
  /\ place[p] = "block mode" => blocks[p] = applied[1].macs
  /\ place[p] = "block save" => blocks[p] = Blocked(applied[1], call[p])
Saves(p) ==
  /\ place[p] = "refused" => Takes(p) /\ setting[p] \notin Settings
  /\ place[p] \in {"lock", "done"} \cup Inside =>
       /\ Takes(p)
       /\ \A i \in Iface : i < iface[p] => applied[i] = setting[p]
       /\ iface[p] > 1 => uci = setting[p]
  /\ place[p] = "done" => uci = setting[p] /\ \A i \in Iface : applied[i] = setting[p]

Alone == last # None /\ last \notin overlapped /\ ~collected
Undisturbed == Alone => Running \subseteq {last} /\ Loads(last) /\ Saves(last)

\* A device that deny_mac has denied is not admitted, one that allow_mac has allowed
\* is, and in the mode "deny" block_add and block_del find the same devices.
LEMMA ChangedTakes ==
  ASSUME NEW s \in Settings, NEW m \in Mac, NEW c, c.mac = m, c.fn \in {"deny_mac", "allow_mac"}
  PROVE  /\ Admits(ChangedBy(s, c), m) <=> c.fn = "allow_mac"
         /\ ChangedBy(s, c).mode = "deny" => Blocked(s, c) = ChangedBy(s, c).macs
<1> USE DEF ChangedBy, Admits, Settings, Mode
<1>1. CASE c.fn = "deny_mac"
  <2>1. CASE s.mode = "stop"
    BY <1>1, <2>1 DEF Denied, Blocked
  <2>2. CASE s.mode = "allow"
    BY <1>1, <2>2 DEF Denied, Blocked
  <2>3. CASE s.mode = "deny"
    BY <1>1, <2>3 DEF Denied, Blocked
  <2> QED
    BY <2>1, <2>2, <2>3
<1>2. CASE c.fn = "allow_mac"
  <2>1. CASE s.mode = "stop"
    BY <1>2, <2>1 DEF Allowed, Blocked
  <2>2. CASE s.mode = "allow"
    BY <1>2, <2>2 DEF Allowed, Blocked
  <2>3. CASE s.mode = "deny"
    BY <1>2, <2>3 DEF Allowed, Blocked
  <2> QED
    BY <2>1, <2>2, <2>3
<1> QED
  BY <1>1, <1>2

LEMMA FromFirstStep == Walks /\ FromFirst /\ [MacNext]_macVars => FromFirst'
<1> SUFFICES ASSUME Walks, FromFirst, [MacNext]_macVars PROVE FromFirst'
  OBVIOUS
<1> USE DEF Walks, FromFirst, Loading, Inside, router, history, saving, moves
<1>1. ASSUME NEW p \in Caller, NEW m \in Mac, deny_mac(p, m) \/ allow_mac(p, m) PROVE FromFirst'
  BY <1>1 DEF deny_mac, allow_mac, Called
<1>2. ASSUME NEW p \in Caller, NEW s \in Setting, save_setting(p, s) PROVE FromFirst'
  BY <1>2 DEF save_setting, Called
<1>3. ASSUME NEW p \in Caller, LoadList(p) PROVE FromFirst'
  BY <1>3 DEF LoadList
<1>4. ASSUME NEW p \in Caller, LoadMode(p) PROVE FromFirst'
  BY <1>4 DEF LoadMode
<1>5. ASSUME NEW p \in Caller, BlockList(p) PROVE FromFirst'
  BY <1>5 DEF BlockList
<1>6. ASSUME NEW p \in Caller, BlockMode(p) PROVE FromFirst'
  BY <1>6 DEF BlockMode
<1>7. ASSUME NEW p \in Caller, BlockSave(p) PROVE FromFirst'
  BY <1>7 DEF BlockSave
<1>8. ASSUME NEW p \in Caller, Lock(p) PROVE FromFirst'
  BY <1>8 DEF Lock
<1>9. ASSUME NEW p \in Caller, SetAcl(p) PROVE FromFirst'
  BY <1>9 DEF SetAcl
<1>10. ASSUME NEW p \in Caller, SetAclList(p) PROVE FromFirst'
  BY <1>10 DEF SetAclList
<1>11. ASSUME NEW p \in Caller, SaveUci(p) PROVE FromFirst'
  BY <1>11 DEF SaveUci
<1>12. ASSUME NEW p \in Caller, Unlock(p) PROVE FromFirst'
  BY <1>12 DEF Unlock
<1>13. ASSUME NEW p \in Caller, Collect(p) PROVE FromFirst'
  BY <1>13 DEF Collect
<1>14. CASE UNCHANGED macVars
  BY <1>14 DEF macVars
<1> QED
  BY <1>1, <1>2, <1>3, <1>4, <1>5, <1>6, <1>7, <1>8, <1>9, <1>10, <1>11, <1>12, <1>13, <1>14 DEF MacNext

\* A request that comes while no other is served is alone; the one before is over.
LEMMA CalledAlone ==
  ASSUME Walks, FromFirst, NEW p \in Caller, NEW fn, NEW mac, NEW to, Called(p, fn, mac, to),
         to \in {"list", "lock", "refused"}, to \in {"lock", "refused"} => fn = "save_setting",
         to = "refused" => setting'[p] \notin Settings
  PROVE  Undisturbed'
<1> SUFFICES ASSUME Alone' PROVE (Running \subseteq {last} /\ Loads(last) /\ Saves(last))'
  BY DEF Undisturbed
<1>1. last' = p
  BY DEF Called
<1>2. Running = {}
  BY <1>1 DEF Called, Alone
<1>3. place[p] = "idle" /\ place' = [place EXCEPT ![p] = to] /\ UNCHANGED iface
  BY DEF Called, moves
<1>4. place'[p] = to
  BY <1>3 DEF Walks
<1>5. call' = [call EXCEPT ![p] = [fn |-> fn, mac |-> mac]]
  BY DEF Called
<1>6. call'[p].fn = fn
  BY <1>5 DEF Walks
<1>7. Running' \subseteq {p}
  BY <1>2, <1>3 DEF Running, Walks
<1>8. Loads(p)'
  BY <1>4 DEF Loads
<1>9. iface'[p] = 1
  BY <1>3 DEF FromFirst
<1>10. Saves(p)'
  BY <1>4, <1>6, <1>9 DEF Saves, Takes, Inside, Iface
<1> QED
  BY <1>1, <1>7, <1>8, <1>10

\* The one that goes on is the one that was asked last.
LEMMA GoesOnAlone ==
  ASSUME Walks, Undisturbed, NEW p \in Caller, NEW from, NEW to, moves(p, from, to),
         from \notin {"idle", "done", "refused"}, UNCHANGED history, Alone'
  PROVE  /\ p = last /\ p = last' /\ Alone /\ Running' \subseteq {p}
         /\ place[p] = from /\ place'[p] = to /\ Loads(p) /\ Saves(p)
<1>1. Alone /\ last' = last
  BY DEF Alone, history
<1>2. p \in Running
  BY DEF moves, Running, Over
<1>3. p = last /\ Running \subseteq {p} /\ Loads(p) /\ Saves(p)
  BY <1>1, <1>2 DEF Undisturbed
<1>4. Running' \subseteq {p}
  BY <1>3 DEF moves, Running, Walks, Over
<1> QED
  BY <1>1, <1>3, <1>4 DEF moves, Walks

\* What Undisturbed asks of the process that goes on.
LEMMA StaysAlone ==
  ASSUME Walks, Undisturbed, NEW p \in Caller, NEW from, NEW to, moves(p, from, to),
         from \notin {"idle", "done", "refused"}, UNCHANGED history,
         Alone /\ place[p] = from /\ place'[p] = to /\ Loads(p) /\ Saves(p) => (Loads(p) /\ Saves(p))'
  PROVE  Undisturbed'
<1> SUFFICES ASSUME Alone' PROVE (Running \subseteq {last} /\ Loads(last) /\ Saves(last))'
  BY DEF Undisturbed
<1> QED
  BY GoesOnAlone

LEMMA UndisturbedStep ==
  ASSUME FilterInv, FromFirst, Undisturbed, [MacNext]_macVars PROVE Undisturbed'
<1> USE Halves DEF FilterInv, MacTyped
<1>0. 1 \in Iface /\ applied[1] \in Settings
  BY FirstIface
<1>1. ASSUME NEW p \in Caller, NEW m \in Mac, deny_mac(p, m) \/ allow_mac(p, m) PROVE Undisturbed'
  <2>1. \E fn \in Function : Called(p, fn, m, "list")
    BY <1>1 DEF deny_mac, allow_mac, Function
  <2> QED
    BY <2>1, CalledAlone
<1>2. ASSUME NEW p \in Caller, NEW s \in Setting, save_setting(p, s) PROVE Undisturbed'
  <2>1. Called(p, "save_setting", None, Checked(s)) /\ setting'[p] = s /\ s \in Requests
    BY <1>2, MacAssumption DEF save_setting, Holds, MacAssumption, Requests
  <2>2. Checked(s) \in {"lock", "refused"} /\ (Checked(s) = "refused" => s \notin Settings)
    BY <2>1, ValidSettings
  <2> QED
    BY <2>1, <2>2, CalledAlone
<1>3. ASSUME NEW p \in Caller, LoadList(p) PROVE Undisturbed'
  <2>1. moves(p, "list", "mode") /\ UNCHANGED <<applied, history>>
    BY <1>3 DEF LoadList, router
  <2>2. setting'[p].macs = applied[1].macs
    BY <1>3 DEF LoadList, Holds, Settings
  <2>3. ASSUME place'[p] = "mode" PROVE (Loads(p) /\ Saves(p))'
    BY <2>1, <2>2, <2>3 DEF Loads, Saves, Inside
  <2> QED
    BY <2>1, <2>3, StaysAlone
<1>4. ASSUME NEW p \in Caller, LoadMode(p) PROVE Undisturbed'
  <2> DEFINE s == [setting[p] EXCEPT !.mode = applied[1].mode]
  <2>1. moves(p, "mode", "block list") /\ UNCHANGED <<applied, call, history>>
    BY <1>4 DEF LoadMode, router
  <2>2. setting'[p] = ChangedBy(s, call[p])
    BY <1>4 DEF LoadMode, Holds, ChangedBy
  <2>3. ASSUME Loads(p), place[p] = "mode", place'[p] = "block list" PROVE (Loads(p) /\ Saves(p))'
    <3>1. s = applied[1]
      BY <1>0, <2>3 DEF Loads, Holds, Settings, Requests
    <3> HIDE DEF s
    <3> QED
      BY <2>1, <2>2, <2>3, <3>1 DEF Loads, Saves, Inside
  <2> QED
    BY <2>1, <2>3, StaysAlone
<1>5. ASSUME NEW p \in Caller, BlockList(p) PROVE Undisturbed'
  <2>1. moves(p, "block list", "block mode") /\ UNCHANGED <<applied, call, setting, history>>
    BY <1>5 DEF BlockList, router
  <2>2. blocks'[p] = applied[1].macs
    BY <1>5 DEF BlockList, Holds
  <2>3. ASSUME Loads(p), place[p] = "block list", place'[p] = "block mode" PROVE (Loads(p) /\ Saves(p))'
    BY <2>1, <2>2, <2>3 DEF Loads, Saves, Inside
  <2> QED
    BY <2>1, <2>3, StaysAlone
<1>6. ASSUME NEW p \in Caller, BlockMode(p) PROVE Undisturbed'
  <2>1. moves(p, "block mode", "block save") /\ UNCHANGED <<applied, call, setting, history>>
    BY <1>6 DEF BlockMode, router
  <2>2. ASSUME Loads(p), place[p] = "block mode", place'[p] = "block save" PROVE (Loads(p) /\ Saves(p))'
    <3>1. blocks[p] = applied[1].macs
      BY <2>2 DEF Loads
    <3>2. blocks'[p] = Blocked(applied[1], call[p])
      BY <1>6, <3>1 DEF BlockMode, Holds, Blocked
    <3> QED
      BY <2>1, <2>2, <3>2 DEF Loads, Saves, Inside
  <2> QED
    BY <2>1, <2>2, StaysAlone
<1>7. ASSUME NEW p \in Caller, BlockSave(p) PROVE Undisturbed'
  <2>1. /\ moves(p, "block save", Checked(setting[p])) /\ block_list' = blocks[p]
        /\ UNCHANGED <<call, setting, iface, history>>
    BY <1>7 DEF BlockSave
  <2>2. ASSUME Loads(p), place[p] = "block save", place'[p] = Checked(setting[p])
        PROVE  (Loads(p) /\ Saves(p))'
    <3>1. setting[p] = ChangedBy(applied[1], call[p]) /\ blocks[p] = Blocked(applied[1], call[p])
      BY <2>2 DEF Loads
    <3>2. call[p].fn \in {"deny_mac", "allow_mac"} /\ call[p].mac \in Mac
      BY <2>2 DEF Asked
    <3>3. /\ Admits(setting[p], call[p].mac) <=> call[p].fn = "allow_mac"
          /\ setting[p].mode = "deny" => blocks[p] = setting[p].macs
      BY <1>0, <3>1, <3>2, ChangedTakes
    <3>4. Takes(p)'
      BY <2>1, <3>3 DEF Takes, Admits
    <3>5. iface'[p] = 1
      BY <2>1, <2>2 DEF FromFirst, Loading
    <3>6. Loads(p)'
      BY <2>2 DEF Loads, Checked
    <3>7. \A i \in Iface : ~ i < iface'[p]
      BY <3>5 DEF Iface
    <3>8. ~ iface'[p] > 1
      BY <3>5
    <3>9. place'[p] # "done" /\ (place'[p] = "refused" => setting'[p] \notin Settings)
      BY <2>1, <2>2, ValidSettings DEF Holds
    <3>10. Saves(p)'
      BY <3>4, <3>7, <3>8, <3>9, Zenon DEF Saves
    <3> QED
      BY <3>6, <3>10
  <2> QED
    BY <2>1, <2>2, StaysAlone
<1>8. ASSUME NEW p \in Caller, Lock(p) PROVE Undisturbed'
  <2>1. moves(p, "lock", "acl") /\ UNCHANGED <<saving, applied, uci, iface>>
    BY <1>8 DEF Lock
  <2>2. ASSUME Saves(p), place[p] = "lock", place'[p] = "acl" PROVE (Loads(p) /\ Saves(p))'
    BY <2>1, <2>2 DEF Loads, Saves, Takes, Inside, saving, Admits
  <2> QED
    BY <2>1, <2>2, StaysAlone DEF saving
<1>9. ASSUME NEW p \in Caller, SetAcl(p) PROVE Undisturbed'
  <2>1. moves(p, "acl", "acllist") /\ UNCHANGED <<saving, uci, iface>>
    BY <1>9 DEF SetAcl
  <2>2. \A i \in Iface : i < iface[p] => applied'[i] = applied[i]
    BY <1>9 DEF SetAcl, Walks, Holds, Iface
  <2>3. ASSUME Saves(p), place[p] = "acl", place'[p] = "acllist" PROVE (Loads(p) /\ Saves(p))'
    BY <2>1, <2>2, <2>3 DEF Loads, Saves, Takes, Inside, saving, Admits
  <2> QED
    BY <2>1, <2>3, StaysAlone DEF saving
<1>10. ASSUME NEW p \in Caller, SetAclList(p) PROVE Undisturbed'
  <2>1. moves(p, "acllist", "uci") /\ UNCHANGED <<saving, uci, iface>>
    BY <1>10 DEF SetAclList
  <2>2. \A i \in Iface : i < iface[p] => applied'[i] = applied[i]
    BY <1>10 DEF SetAclList, Walks, Holds, Iface
  <2>3. ASSUME Saves(p), place[p] = "acllist", place'[p] = "uci" PROVE (Loads(p) /\ Saves(p))'
    BY <2>1, <2>2, <2>3 DEF Loads, Saves, Takes, Inside, saving, Admits
  <2> QED
    BY <2>1, <2>3, StaysAlone DEF saving
<1>11. ASSUME NEW p \in Caller, SaveUci(p) PROVE Undisturbed'
  <2>1. moves(p, "uci", "unlock") /\ UNCHANGED <<saving, applied, iface>> /\ uci' = setting[p]
    BY <1>11 DEF SaveUci
  <2>2. ASSUME Saves(p), place[p] = "uci", place'[p] = "unlock" PROVE (Loads(p) /\ Saves(p))'
    BY <2>1, <2>2 DEF Loads, Saves, Takes, Inside, saving, Admits
  <2> QED
    BY <2>1, <2>2, StaysAlone DEF saving
<1>12. ASSUME NEW p \in Caller, Unlock(p) PROVE Undisturbed'
  <2> DEFINE to == IF iface[p] < Ifaces THEN "lock" ELSE "done"
  <2>1. moves(p, "unlock", to) /\ UNCHANGED <<saving, applied, uci>>
    BY <1>12 DEF Unlock
  <2>2. iface'[p] = IF iface[p] < Ifaces THEN iface[p] + 1 ELSE iface[p]
    BY <1>12 DEF Unlock, Walks
  <2>3. ASSUME Alone, Saves(p), place[p] = "unlock", place'[p] = to PROVE (Loads(p) /\ Saves(p))'
    <3>1. applied[iface[p]] = setting[p] /\ uci = setting[p]
      BY <2>3 DEF Saved, Alone
    <3>2. iface[p] \in Nat /\ Ifaces \in Nat /\ iface[p] \in 1 .. Ifaces
      BY MacAssumption DEF Walks, Iface, MacAssumption
    <3>3. \A i \in Iface : i < iface[p] => applied[i] = setting[p]
      BY <2>3 DEF Saves, Inside
    <3>4. \A i \in Iface : i =< iface[p] => applied[i] = setting[p]
      BY <3>1, <3>2, <3>3 DEF Iface
    <3>5. Takes(p)'
      BY <2>1, <2>3 DEF Saves, Takes, Inside, saving, Admits
    <3>6. CASE iface[p] < Ifaces
      <4>1. \A i \in Iface : i < iface[p] + 1 => i =< iface[p]
        BY <3>2 DEF Iface
      <4>2. place'[p] = "lock" /\ iface'[p] = iface[p] + 1
        BY <2>2, <2>3, <3>6
      <4>3. \A i \in Iface : i < iface'[p] => applied'[i] = setting'[p]
        BY <2>1, <3>4, <4>1, <4>2 DEF saving
      <4> QED
        BY <2>1, <3>1, <3>5, <4>2, <4>3 DEF Loads, Saves, saving
    <3>7. CASE ~ iface[p] < Ifaces
      <4>1. \A i \in Iface : i =< iface[p]
        BY <3>2, <3>7 DEF Iface
      <4>2. place'[p] = "done"
        BY <2>3, <3>7
      <4>3. \A i \in Iface : applied'[i] = setting'[p]
        BY <2>1, <3>4, <4>1 DEF saving
      <4> QED
        BY <2>1, <3>1, <3>5, <4>2, <4>3 DEF Loads, Saves, saving
    <3> QED
      BY <3>6, <3>7
  <2> HIDE DEF to
  <2> QED
    BY <2>1, <2>3, StaysAlone DEF saving
<1>13. ASSUME NEW p \in Caller, Collect(p) PROVE Undisturbed'
  BY <1>13 DEF Collect, Undisturbed, Alone
<1>14. CASE UNCHANGED macVars
  BY <1>14 DEF macVars, Undisturbed, Alone, Running, Loads, Saves, Takes, Admits
<1> QED
  BY <1>1, <1>2, <1>3, <1>4, <1>5, <1>6, <1>7, <1>8, <1>9, <1>10, <1>11, <1>12, <1>13, <1>14 DEF MacNext

\* For every number of requests at once, of devices and of interfaces: a request that ran
\* alone and returns true is in all interfaces and in the file of settings, and one that is
\* refused is in none; the file of blocked devices has it either way
\* (mac_filter.lua:33-44, 70-116, 122-152, 177-199).
THEOREM AloneTakes == MacSpec => []AloneTakesEffect
<1> DEFINE AInv == FromFirst /\ Undisturbed
<1>1. MacInit => AInv
  BY DEF MacInit, FromFirst, Undisturbed, Alone
<1>2. FilterInv /\ AInv /\ [MacNext]_macVars => AInv'
  BY FromFirstStep, UndisturbedStep, Halves DEF FilterInv, MacTyped
<1>3. FilterInv /\ AInv => AloneTakesEffect
  <2> SUFFICES ASSUME FilterInv, AInv, last # None, Running = {}, last \notin overlapped, ~collected,
                      NEW c, c = call[last], NEW s, s = setting[last]
               PROVE  /\ place[last] = "done"
                           => /\ uci = s /\ \A i \in Iface : applied[i] = s
                              /\ c.fn # "save_setting" => (Admits(s, c.mac) <=> c.fn = "allow_mac")
                      /\ place[last] = "refused" => s # uci /\ \A i \in Iface : applied[i] # s
                      /\ c.fn # "save_setting" /\ s.mode = "deny" => block_list = s.macs
    BY DEF AloneTakesEffect
  <2>1. Loads(last) /\ Saves(last) /\ last \in Caller
    BY Halves DEF Undisturbed, Alone, FilterInv, MacTyped, Walks
  <2>2. place[last] \in {"done", "refused"}
    BY <2>1 DEF Loads, Running, Over
  <2>3. Takes(last)
    BY <2>1, <2>2 DEF Saves
  <2>4. CASE place[last] = "done"
    BY <2>1, <2>3, <2>4 DEF Saves, Takes
  <2>5. CASE place[last] = "refused"
    <3>1. uci \in Settings /\ \A i \in Iface : applied[i] \in Settings
      BY Halves DEF FilterInv, MacTyped, Holds
    <3> QED
      BY <2>1, <2>3, <2>5, <3>1 DEF Saves, Takes
  <2> QED
    BY <2>2, <2>4, <2>5
<1> HIDE DEF AInv
<1> QED
  BY <1>1, <1>2, <1>3, FilterInvHolds, PTL DEF MacSpec
=============================================================================
