------------------------- MODULE MessageQueueProofs -------------------------
(***************************************************************************)
(* Proofs about MessageQueue, for every set of messages, services and      *)
(* processors, with any number of kills.                                   *)
(***************************************************************************)
EXTENDS MessageQueue, TLAPS

Locks ==
  /\ \A c \in Proc : Working(c) \/ at[c] = "check" => queueLock = c
  /\ \A m \in Msg : Rewriting(m) => indexLock = m

LEMMA InitType == Init => TypeOK
BY ConstantAssumption DEF Init, TypeOK, ProdState, ProcState, Content, NoMsg

\* Type correctness, a step of a producer.
LEMMA ProduceType ==
  ASSUME TypeOK, NEW m \in Msg, Produce(m)
  PROVE  TypeOK'
<1> USE ConstantAssumption DEF TypeOK, ProdState, ProcState, Content, NoMsg, ProdGoes,
        KeepRest, shared, control, locals, outcome
<1>1. CASE Begin(m)          BY <1>1 DEF Begin
<1>2. CASE LockIndex(m)      BY <1>2 DEF LockIndex
<1>3. CASE IndexBusy(m)      BY <1>3 DEF IndexBusy
<1>4. CASE ReadIndex(m)      BY <1>4 DEF ReadIndex
<1>5. CASE TruncateIndex(m)  BY <1>5 DEF TruncateIndex
<1>6. CASE WriteIndex(m)     BY <1>6 DEF WriteIndex
<1>7. CASE UnlockIndex(m)    BY <1>7 DEF UnlockIndex
<1>8. CASE HasService(m)     BY <1>8 DEF HasService
<1>9. CASE MakeTemp(m)       BY <1>9 DEF MakeTemp
<1>10. CASE OpenFile(m)      BY <1>10 DEF OpenFile
<1>11. CASE FillFile(m)      BY <1>11 DEF FillFile
<1> QED
  BY <1>1, <1>2, <1>3, <1>4, <1>5, <1>6, <1>7, <1>8, <1>9, <1>10, <1>11 DEF Produce

\* Type correctness, a step of a processor.
LEMMA RunType ==
  ASSUME TypeOK, NEW c \in Proc, Run(c)
  PROVE  TypeOK'
<1> USE ConstantAssumption DEF TypeOK, ProdState, ProcState, Content, NoMsg, ProcGoes,
        shared, prodVars, control, locals, outcome
<1>1. CASE LockQueue(c)          BY <1>1 DEF LockQueue
<1>2. CASE QueueBusy(c)          BY <1>2 DEF QueueBusy, vars
<1>3. CASE StartProcess(c)       BY <1>3 DEF StartProcess
<1>4. CASE AlreadyProcessing(c)  BY <1>4 DEF AlreadyProcessing
<1>5. CASE LoadServices(c)       BY <1>5 DEF LoadServices
<1>6. CASE NextService(c)        BY <1>6 DEF NextService
<1>7. CASE ScanFile(c)
  <2>1. PICK m \in dir[c] :
          /\ dir' = [dir EXCEPT ![c] = @ \ {m}]
          /\ IF file[m] # "none" /\ old[m]
             THEN expired' = [expired EXCEPT ![c] = @ \cup {m}] /\ UNCHANGED batch
             ELSE batch' = [batch EXCEPT ![c][m] = file[m]] /\ UNCHANGED expired
    BY <1>7 DEF ScanFile
  <2>2. m \in Msg
    BY <2>1
  <2>3. CASE file[m] # "none" /\ old[m]
    BY <1>7, <2>1, <2>2, <2>3 DEF ScanFile
  <2>4. CASE ~(file[m] # "none" /\ old[m])
    <3>1. batch' \in [Proc -> [Msg -> Content]]
      <4>1. batch[c] \in [Msg -> Content] /\ file[m] \in Content
        BY <2>2
      <4>2. [batch[c] EXCEPT ![m] = file[m]] \in [Msg -> Content]
        BY <4>1
      <4>3. batch' = [batch EXCEPT ![c] = [batch[c] EXCEPT ![m] = file[m]]]
        BY <2>1, <2>4
      <4> QED
        BY <4>2, <4>3
    <3>2. \A d \in Proc : d # c => batch'[d] = batch[d]
      BY <2>1, <2>4
    <3>3. at' = at /\ expired' = expired /\ dir' \in [Proc -> SUBSET Msg]
          /\ \A d \in Proc : d # c => dir'[d] = dir[d]
      BY <1>7, <2>1, <2>2, <2>4 DEF ScanFile
    <3>4. at[c] = "scan"
      BY <1>7 DEF ScanFile
    <3>5. \A d \in Proc :
            /\ at'[d] \notin {"scan", "expire", "send", "ack"} => batch'[d] = NoMsg
            /\ at'[d] # "scan" => dir'[d] = {}
            /\ at'[d] \notin {"scan", "expire"} => expired'[d] = {}
      BY <3>2, <3>3, <3>4
    <3> QED
      BY <1>7, <3>1, <3>3, <3>5 DEF ScanFile
  <2> QED
    BY <2>3, <2>4
<1>8. CASE ScanDone(c)           BY <1>8 DEF ScanDone
<1>9. CASE ExpireFile(c)         BY <1>9 DEF ExpireFile, Unlink
<1>10. CASE ExpireDone(c)        BY <1>10 DEF ExpireDone
<1>11. CASE PostAnswered(c)      BY <1>11 DEF PostAnswered, Receive, KeepForPost
<1>12. CASE PostRefused(c)       BY <1>12 DEF PostRefused, Posted, KeepForPost
<1>13. CASE PostUnanswered(c)    BY <1>13 DEF PostUnanswered, Receive, Posted, KeepForPost
<1>14. CASE PostLost(c)          BY <1>14 DEF PostLost, KeepForPost
<1>15. CASE AckFile(c)           BY <1>15 DEF AckFile, Unlink, Posted
<1>16. CASE AckDone(c)
  <2>1. batch[c] = NoMsg
    BY <1>16 DEF AckDone, Posted
  <2> QED
    BY <1>16, <2>1 DEF AckDone
<1>17. CASE AllServed(c)         BY <1>17 DEF AllServed
<1>18. CASE UnlockQueue(c)       BY <1>18 DEF UnlockQueue
<1>19. CASE StopProcess(c)       BY <1>19 DEF StopProcess
<1>20. CASE EndProcess(c)        BY <1>20 DEF EndProcess
<1> QED
  BY <1>1, <1>2, <1>3, <1>4, <1>5, <1>6, <1>7, <1>8, <1>9, <1>10, <1>11, <1>12, <1>13,
     <1>14, <1>15, <1>16, <1>17, <1>18, <1>19, <1>20 DEF Run

\* Type correctness of every step.
LEMMA NextType == TypeOK /\ [Next]_vars => TypeOK'
<1> SUFFICES ASSUME TypeOK, [Next]_vars PROVE TypeOK'
  OBVIOUS
<1> USE ConstantAssumption DEF TypeOK, ProdState, ProcState, Content, NoMsg
<1>1. ASSUME NEW m \in Msg, Age(m) PROVE TypeOK'
  BY <1>1 DEF Age, KeepRest, prodVars, control, locals, outcome
<1>2. ASSUME NEW m \in Msg, ClearFile(m) PROVE TypeOK'
  BY <1>2 DEF ClearFile, Unlink, prodVars, control, locals
<1>3. ASSUME NEW m \in Msg, KillProducer(m) PROVE TypeOK'
  BY <1>3 DEF KillProducer, control, locals, outcome
<1>4. ASSUME NEW c \in Proc, KillProcessor(c) PROVE TypeOK'
  BY <1>4 DEF KillProcessor, shared, prodVars, Posted
<1>5. CASE InitMq
  BY <1>5 DEF InitMq, shared, prodVars, locals, outcome
<1>6. CASE UNCHANGED vars
  BY <1>6 DEF vars, shared, prodVars, locals, control, outcome
<1> QED
  BY <1>1, <1>2, <1>3, <1>4, <1>5, <1>6, ProduceType, RunType DEF Next

(* Every reachable state has the declared types, and a processor's lists    *)
(* are empty outside the phases that use them (mq.lua 354-432): nothing of  *)
(* one service is posted or unlinked with the next.                        *)
THEOREM TypeCorrect == Spec => []TypeOK
BY InitType, NextType, PTL DEF Spec
-----------------------------------------------------------------------------
(* Both locks are held by whoever relies on them.                          *)

LEMMA ProduceLocks ==
  ASSUME TypeOK, Locks, NEW m \in Msg, Produce(m)
  PROVE  Locks'
<1> USE ConstantAssumption DEF Locks, Working, Rewriting, TypeOK, ProdGoes, KeepRest,
        control, shared
<1>1. CASE Begin(m)          BY <1>1 DEF Begin
<1>2. CASE LockIndex(m)      BY <1>2 DEF LockIndex
<1>3. CASE IndexBusy(m)      BY <1>3 DEF IndexBusy
<1>4. CASE ReadIndex(m)      BY <1>4 DEF ReadIndex
<1>5. CASE TruncateIndex(m)  BY <1>5 DEF TruncateIndex
<1>6. CASE WriteIndex(m)     BY <1>6 DEF WriteIndex
<1>7. CASE UnlockIndex(m)    BY <1>7 DEF UnlockIndex
<1>8. CASE HasService(m)     BY <1>8 DEF HasService
<1>9. CASE MakeTemp(m)       BY <1>9 DEF MakeTemp
<1>10. CASE OpenFile(m)      BY <1>10 DEF OpenFile
<1>11. CASE FillFile(m)      BY <1>11 DEF FillFile
<1> QED
  BY <1>1, <1>2, <1>3, <1>4, <1>5, <1>6, <1>7, <1>8, <1>9, <1>10, <1>11 DEF Produce

LEMMA RunLocks ==
  ASSUME TypeOK, Locks, NEW c \in Proc, Run(c)
  PROVE  Locks'
<1> USE ConstantAssumption DEF Locks, Working, Rewriting, TypeOK, ProcGoes, KeepForPost,
        shared, prodVars, control
<1>1. CASE LockQueue(c)          BY <1>1 DEF LockQueue
<1>2. CASE QueueBusy(c)          BY <1>2 DEF QueueBusy, vars
<1>3. CASE StartProcess(c)       BY <1>3 DEF StartProcess
<1>4. CASE AlreadyProcessing(c)  BY <1>4 DEF AlreadyProcessing
<1>5. CASE LoadServices(c)       BY <1>5 DEF LoadServices
<1>6. CASE NextService(c)        BY <1>6 DEF NextService
<1>7. CASE ScanFile(c)           BY <1>7 DEF ScanFile
<1>8. CASE ScanDone(c)           BY <1>8 DEF ScanDone
<1>9. CASE ExpireFile(c)         BY <1>9 DEF ExpireFile
<1>10. CASE ExpireDone(c)        BY <1>10 DEF ExpireDone
<1>11. CASE PostAnswered(c)      BY <1>11 DEF PostAnswered
<1>12. CASE PostRefused(c)       BY <1>12 DEF PostRefused
<1>13. CASE PostUnanswered(c)    BY <1>13 DEF PostUnanswered
<1>14. CASE PostLost(c)          BY <1>14 DEF PostLost
<1>15. CASE AckFile(c)           BY <1>15 DEF AckFile
<1>16. CASE AckDone(c)           BY <1>16 DEF AckDone
<1>17. CASE AllServed(c)         BY <1>17 DEF AllServed
<1>18. CASE UnlockQueue(c)       BY <1>18 DEF UnlockQueue
<1>19. CASE StopProcess(c)       BY <1>19 DEF StopProcess
<1>20. CASE EndProcess(c)        BY <1>20 DEF EndProcess
<1> QED
  BY <1>1, <1>2, <1>3, <1>4, <1>5, <1>6, <1>7, <1>8, <1>9, <1>10, <1>11, <1>12, <1>13,
     <1>14, <1>15, <1>16, <1>17, <1>18, <1>19, <1>20 DEF Run

LEMMA NextLocks == TypeOK /\ Locks /\ [Next]_vars => Locks'
<1> SUFFICES ASSUME TypeOK, Locks, [Next]_vars PROVE Locks'
  OBVIOUS
<1> USE ConstantAssumption DEF Locks, Working, Rewriting, TypeOK
<1>1. ASSUME NEW m \in Msg, Age(m) \/ ClearFile(m) PROVE Locks'
  BY <1>1 DEF Age, ClearFile, KeepRest, prodVars, control
<1>2. ASSUME NEW m \in Msg, KillProducer(m) PROVE Locks'
  BY <1>2 DEF KillProducer, control
<1>3. ASSUME NEW c \in Proc, KillProcessor(c) PROVE Locks'
  BY <1>3 DEF KillProcessor, shared, prodVars
<1>4. CASE InitMq
  BY <1>4 DEF InitMq, shared, prodVars
<1>5. CASE UNCHANGED vars
  BY <1>5 DEF vars, shared, prodVars, control
<1> QED
  BY <1>1, <1>2, <1>3, <1>4, <1>5, ProduceLocks, RunLocks DEF Next

LEMMA LocksHeld == Spec => [](TypeOK /\ Locks)
<1>1. Init => Locks
  BY DEF Init, Locks, Working, Rewriting
<1> QED
  BY <1>1, InitType, NextType, NextLocks, PTL DEF Spec

(* At most one process() works on the queue at a time, whatever the flag    *)
(* says: it is reset outside the lock (mq.lua 452-474).                     *)
THEOREM ProcessorExclusion == Spec => []OneProcessor
<1>1. TypeOK /\ Locks => OneProcessor
  BY DEF Locks, OneProcessor, TypeOK
<1> QED
  BY <1>1, LocksHeld, PTL
-----------------------------------------------------------------------------
(* The index loses no line as long as no producer is killed half way.      *)

\* What the index, or the copy its rewriter holds, lists at each step of the
\* rewriting.
IndexKept ==
  /\ (\A m \in Msg : prod[m] # "write") => Registered \subseteq index
  /\ \A m \in Msg :
       /\ prod[m] = "truncate" => seen[m] = index
       /\ prod[m] = "write" => Registered \subseteq seen[m] /\ index = {}
       /\ prod[m] = "unlock" => SvcOf[m] \in index

LEMMA NoMoreRegistered ==
  ASSUME \A m \in Msg : Adding(m)' => Adding(m)
  PROVE  Registered' \subseteq Registered
BY DEF Registered

LEMMA OneMoreRegistered ==
  ASSUME NEW m \in Msg, \A n \in Msg : Adding(n)' => Adding(n) \/ n = m
  PROVE  Registered' \subseteq Registered \cup {SvcOf[m]}
BY DEF Registered

LEMMA NextIndexKept ==
  ASSUME Mortal \cap Msg = {}, TypeOK, Locks, IndexKept, [Next]_vars
  PROVE  IndexKept'
<1> USE ConstantAssumption DEF IndexKept, Locks, Rewriting, TypeOK, ProdGoes, shared
<1>1. ASSUME NEW m \in Msg, Begin(m) \/ LockIndex(m) \/ IndexBusy(m) PROVE IndexKept'
  <2>1. Registered' \subseteq Registered
    BY <1>1, NoMoreRegistered DEF Begin, LockIndex, IndexBusy, Adding
  <2> QED
    BY <1>1, <2>1 DEF Begin, LockIndex, IndexBusy
<1>2. ASSUME NEW m \in Msg, ReadIndex(m) PROVE IndexKept'
  <2>1. Registered' \subseteq Registered
    BY <1>2, NoMoreRegistered DEF ReadIndex, Adding
  <2> QED
    BY <1>2, <2>1 DEF ReadIndex
<1>3. ASSUME NEW m \in Msg, TruncateIndex(m) PROVE IndexKept'
  <2>1. Registered' \subseteq Registered
    BY <1>3, NoMoreRegistered DEF TruncateIndex, Adding
  <2>2. \A n \in Msg : prod[n] # "write"
    BY <1>3 DEF TruncateIndex
  <2> QED
    BY <1>3, <2>1, <2>2 DEF TruncateIndex
<1>4. ASSUME NEW m \in Msg, WriteIndex(m) PROVE IndexKept'
  <2>1. Registered' \subseteq Registered
    BY <1>4, NoMoreRegistered DEF WriteIndex, Adding
  <2>2. \A n \in Msg : Rewriting(n) => n = m
    BY <1>4 DEF WriteIndex
  <2> QED
    BY <1>4, <2>1, <2>2 DEF WriteIndex
<1>5. ASSUME NEW m \in Msg, UnlockIndex(m) PROVE IndexKept'
  <2>1. Registered' \subseteq Registered \cup {SvcOf[m]}
    BY <1>5, OneMoreRegistered DEF UnlockIndex, Adding
  <2>2. \A n \in Msg : Rewriting(n) => n = m
    BY <1>5 DEF UnlockIndex
  <2> QED
    BY <1>5, <2>1, <2>2 DEF UnlockIndex
<1>6. ASSUME NEW m \in Msg, HasService(m) PROVE IndexKept'
  <2>1. CASE SvcOf[m] \in index
    <3>1. Registered' \subseteq Registered \cup {SvcOf[m]}
      BY <1>6, <2>1, OneMoreRegistered DEF HasService, Adding
    <3> QED
      BY <1>6, <2>1, <3>1 DEF HasService
  <2>2. CASE SvcOf[m] \notin index
    <3>1. Registered' \subseteq Registered
      BY <1>6, <2>2, NoMoreRegistered DEF HasService, Adding
    <3> QED
      BY <1>6, <2>2, <3>1 DEF HasService
  <2> QED
    BY <2>1, <2>2
<1>7. ASSUME NEW m \in Msg, MakeTemp(m) \/ OpenFile(m) \/ FillFile(m) PROVE IndexKept'
  <2>1. Registered' \subseteq Registered
    BY <1>7, NoMoreRegistered DEF MakeTemp, OpenFile, FillFile, Adding
  <2> QED
    BY <1>7, <2>1 DEF MakeTemp, OpenFile, FillFile
<1>8. ASSUME UNCHANGED <<prodVars, index, indexLock>> PROVE IndexKept'
  BY <1>8 DEF prodVars, Registered, Adding
<1>9. ASSUME NEW c \in Proc, Run(c) PROVE UNCHANGED <<prodVars, index, indexLock>>
  BY <1>9 DEF Run, vars, LockQueue, QueueBusy, StartProcess, AlreadyProcessing, LoadServices,
     NextService, ScanFile, ScanDone, ExpireFile, ExpireDone, PostAnswered, PostRefused,
     PostUnanswered, PostLost, KeepForPost, AckFile, AckDone, AllServed, UnlockQueue,
     StopProcess, EndProcess
<1>10. ASSUME NEW m \in Msg, Age(m) \/ ClearFile(m) PROVE UNCHANGED <<prodVars, index, indexLock>>
  BY <1>10 DEF Age, ClearFile
<1>11. ASSUME NEW m \in Msg, KillProducer(m) PROVE FALSE
  BY <1>11 DEF KillProducer
<1>12. ASSUME NEW c \in Proc, KillProcessor(c) PROVE UNCHANGED <<prodVars, index, indexLock>>
  BY <1>12 DEF KillProcessor
<1>13. ASSUME InitMq \/ UNCHANGED vars PROVE UNCHANGED <<prodVars, index, indexLock>>
  BY <1>13 DEF InitMq, vars
<1> QED
  BY <1>1, <1>2, <1>3, <1>4, <1>5, <1>6, <1>7, <1>8, <1>9, <1>10, <1>11, <1>12, <1>13
     DEF Next, Produce

(* When nobody rewrites the index, it lists every registered service, if no *)
(* producer is killed: concurrent init_service calls do not lose each       *)
(* other's lines (mq.lua 287-342).                                         *)
THEOREM IndexKeepsServices ==
  ASSUME Mortal \cap Msg = {}
  PROVE  Spec => []IndexComplete
<1>1. Init => IndexKept
  BY DEF Init, IndexKept, Registered, Adding
<1>2. TypeOK /\ Locks /\ IndexKept => IndexComplete
  BY ConstantAssumption DEF IndexKept, IndexComplete, Locks, Rewriting, TypeOK
<1>3. TypeOK /\ Locks /\ IndexKept /\ [Next]_vars => IndexKept'
  BY NextIndexKept
<1> QED
  BY <1>1, <1>2, <1>3, LocksHeld, PTL DEF Spec
-----------------------------------------------------------------------------
(* A message is received twice only if its first POST was not acted upon.  *)

\* Content exists only once the producer is done, so that a file that was
\* unlinked after it was received does not come back.
WrittenOnce ==
  \A m \in Msg :
    /\ file[m] = "full" \/ got[m] > 0 => prod[m] = "added"
    /\ \A c \in Proc : batch[c][m] = "full" => prod[m] = "added"

\* An answered message is gone, or about to be unlinked by the processor that
\* posted it; nobody is about to post it again.
Settled(m) == m \notin unanswered /\ got[m] > 0

Delivery ==
  \A m \in Msg : Settled(m) =>
    /\ got[m] = 1
    /\ file[m] = "none" \/ \E c \in Proc : at[c] = "ack" /\ batch[c][m] # "none"
    /\ \A c \in Proc : at[c] \in {"scan", "expire", "send"} => batch[c][m] # "full"

DInv == TypeOK /\ Locks /\ WrittenOnce /\ Delivery

\* Steps that touch neither files nor what was posted, except for files that
\* disappear, leave the delivery alone.
LEMMA QuietStep ==
  ASSUME DInv, UNCHANGED <<got, unanswered, batch>>,
         \A m \in Msg : file'[m] \in {file[m], "none"},
         \A m \in Msg : prod[m] = "added" => prod'[m] = "added",
         \A c \in Proc : at'[c] \in {"scan", "expire", "send"} =>
                           at[c] \in {"scan", "expire", "send"} \/ batch[c] = NoMsg,
         \A c \in Proc : at[c] = "ack" => at'[c] = "ack" \/ batch[c] = NoMsg
  PROVE  WrittenOnce' /\ Delivery'
<1> USE DEF DInv, TypeOK, NoMsg
<1>1. WrittenOnce'
  BY DEF WrittenOnce, Content
<1>2. Delivery'
  <2> SUFFICES ASSUME NEW m \in Msg, Settled(m)'
               PROVE  /\ got'[m] = 1
                      /\ file'[m] = "none" \/ \E c \in Proc : at'[c] = "ack" /\ batch'[c][m] # "none"
                      /\ \A c \in Proc : at'[c] \in {"scan", "expire", "send"} => batch'[c][m] # "full"
    BY DEF Delivery
  <2>1. Settled(m)
    BY DEF Settled
  <2>2. got'[m] = 1
    BY <2>1 DEF Delivery
  <2>3. file'[m] = "none" \/ \E c \in Proc : at'[c] = "ack" /\ batch'[c][m] # "none"
    BY <2>1 DEF Delivery
  <2>4. \A c \in Proc : at'[c] \in {"scan", "expire", "send"} => batch'[c][m] # "full"
    BY <2>1 DEF Delivery
  <2> QED
    BY <2>2, <2>3, <2>4
<1> QED
  BY <1>1, <1>2

LEMMA ProduceDelivery ==
  ASSUME DInv, NEW m \in Msg, Produce(m)
  PROVE  WrittenOnce' /\ Delivery'
<1> USE DEF ProdGoes, KeepRest, shared, locals, outcome
<1>1. ASSUME file' = file PROVE WrittenOnce' /\ Delivery'
  <2>1. UNCHANGED <<got, unanswered, batch, at>>
    BY DEF Produce, Begin, LockIndex, IndexBusy, ReadIndex, TruncateIndex, WriteIndex,
       UnlockIndex, HasService, MakeTemp, OpenFile, FillFile
  <2>2. \A n \in Msg : prod[n] = "added" => prod'[n] = "added"
    BY DEF Produce, Begin, LockIndex, IndexBusy, ReadIndex, TruncateIndex, WriteIndex,
       UnlockIndex, HasService, MakeTemp, OpenFile, FillFile, DInv, TypeOK
  <2> QED
    BY <1>1, <2>1, <2>2, QuietStep
<1>2. ASSUME file' # file PROVE MakeTemp(m) \/ OpenFile(m) \/ FillFile(m)
  BY <1>2 DEF Produce, Begin, LockIndex, IndexBusy, ReadIndex, TruncateIndex, WriteIndex,
     UnlockIndex, HasService
<1>3. CASE MakeTemp(m) \/ OpenFile(m) \/ FillFile(m)
  <2>1. UNCHANGED <<got, unanswered, batch, at>>
    BY <1>3 DEF MakeTemp, OpenFile, FillFile
  <2>2. prod[m] # "added" /\ got[m] = 0 /\ file[m] # "full"
    BY <1>3 DEF MakeTemp, OpenFile, FillFile, DInv, TypeOK, WrittenOnce
  <2>3. \A n \in Msg : n # m => file'[n] = file[n] /\ prod'[n] = prod[n]
    BY <1>3 DEF MakeTemp, OpenFile, FillFile, DInv, TypeOK
  <2>4. file'[m] = "full" => prod'[m] = "added"
    BY <1>3, <2>2 DEF MakeTemp, OpenFile, FillFile, DInv, TypeOK
  <2>5. WrittenOnce'
    BY <2>1, <2>2, <2>3, <2>4 DEF DInv, WrittenOnce
  <2>6. Delivery'
    BY <2>1, <2>2, <2>3 DEF DInv, Delivery, Settled
  <2> QED
    BY <2>5, <2>6
<1> QED
  BY <1>1, <1>2, <1>3

\* While c works no other processor does.
LEMMA Alone ==
  ASSUME DInv, NEW c \in Proc, Working(c), NEW d \in Proc, d # c
  PROVE  at[d] \notin {"scan", "expire", "send", "ack"}
BY DEF DInv, Locks, Working

\* Reading a file into the batch: a settled message has no file to read.
LEMMA ScanDelivery ==
  ASSUME DInv, NEW c \in Proc, ScanFile(c)
  PROVE  WrittenOnce' /\ Delivery'
<1> USE DEF DInv, TypeOK
<1>1. PICK m \in dir[c] :
        IF file[m] # "none" /\ old[m]
        THEN UNCHANGED batch
        ELSE batch' = [batch EXCEPT ![c][m] = file[m]]
  BY DEF ScanFile
<1>2. m \in Msg /\ at[c] = "scan" /\ Working(c)
  BY <1>1 DEF ScanFile, Working
<1>3. UNCHANGED <<got, unanswered, at, file, prod>>
  BY DEF ScanFile, shared, prodVars, outcome
<1>4. CASE batch' = batch
  BY <1>3, <1>4, QuietStep
<1>5. CASE batch' = [batch EXCEPT ![c][m] = file[m]]
  <2>1. batch' = [batch EXCEPT ![c] = [batch[c] EXCEPT ![m] = file[m]]]
    BY <1>5
  <2>2. batch[c] \in [Msg -> Content]
    OBVIOUS
  <2>3. batch'[c][m] = file[m] /\ \A n \in Msg : n # m => batch'[c][n] = batch[c][n]
    BY <1>2, <2>1, <2>2
  <2>4. \A d \in Proc : d # c => batch'[d] = batch[d]
    BY <2>1
  <2>5. WrittenOnce'
    BY <1>2, <1>3, <2>3, <2>4 DEF WrittenOnce
  <2>7. ASSUME NEW n \in Msg, Settled(n)'
        PROVE  /\ got'[n] = 1
               /\ file'[n] = "none" \/ \E d \in Proc : at'[d] = "ack" /\ batch'[d][n] # "none"
               /\ \A d \in Proc : at'[d] \in {"scan", "expire", "send"} => batch'[d][n] # "full"
    <3>1. Settled(n)
      BY <1>3, <2>7 DEF Settled
    <3>2. file[n] = "none"
      BY <1>2, <3>1, Alone DEF Delivery
    <3>3. \A d \in Proc : at[d] \in {"scan", "expire", "send"} => batch[d][n] # "full"
      BY <3>1 DEF Delivery
    <3>4. batch'[c][n] # "full"
      BY <1>2, <2>3, <3>2, <3>3
    <3> QED
      BY <1>3, <2>4, <3>1, <3>2, <3>3, <3>4 DEF Delivery
  <2>8. Delivery'
    BY <2>7 DEF Delivery
  <2> QED
    BY <2>5, <2>8
<1> QED
  BY <1>1, <1>4, <1>5

\* An answered POST: what it carried was never received before, or its
\* earlier POST was unanswered.
LEMMA AnswerDelivery ==
  ASSUME DInv, NEW c \in Proc, PostAnswered(c)
  PROVE  WrittenOnce' /\ Delivery'
<1> USE DEF DInv, TypeOK, PostAnswered, ProcGoes, KeepForPost, Receive, shared, prodVars
<1>1. at[c] = "send" /\ Working(c)
  BY DEF Working
<1>2. \A d \in Proc : d # c => at'[d] \notin {"scan", "expire", "send", "ack"}
  BY <1>1, Alone
<1>3. at'[c] = "ack" /\ UNCHANGED <<unanswered, batch, file, prod>>
  OBVIOUS
<1>4. \A m \in Msg : batch[c][m] # "full" => got'[m] = got[m]
  OBVIOUS
<1>5. WrittenOnce'
  BY <1>3, <1>4 DEF WrittenOnce
<1>6. ASSUME NEW m \in Msg, Settled(m)'
      PROVE  /\ got'[m] = 1
             /\ file'[m] = "none" \/ \E d \in Proc : at'[d] = "ack" /\ batch'[d][m] # "none"
  <2>1. CASE batch[c][m] = "full"
    <3>1. ~Settled(m) /\ m \notin unanswered
      BY <1>1, <1>3, <1>6, <2>1 DEF Delivery, Settled
    <3>2. got[m] = 0
      BY <3>1 DEF Settled
    <3>3. got'[m] = 1
      BY <2>1, <3>2
    <3> QED
      BY <1>3, <2>1, <3>3
  <2>2. CASE batch[c][m] # "full"
    <3>1. Settled(m) /\ got'[m] = got[m]
      BY <1>3, <1>4, <1>6, <2>2 DEF Settled
    <3>2. file[m] = "none"
      BY <1>1, <3>1, Alone DEF Delivery
    <3> QED
      BY <1>3, <3>1, <3>2 DEF Delivery
  <2> QED
    BY <2>1, <2>2
<1>7. Delivery'
  BY <1>2, <1>3, <1>6 DEF Delivery
<1> QED
  BY <1>5, <1>7

\* A POST that is not acted upon makes its messages unanswered.
LEMMA NoAnswerDelivery ==
  ASSUME DInv, NEW c \in Proc, PostUnanswered(c)
  PROVE  WrittenOnce' /\ Delivery'
<1> USE DEF DInv, TypeOK, PostUnanswered, ProcGoes, KeepForPost, Receive, Posted, NoMsg,
        shared, prodVars
<1>1. at[c] = "send" /\ Working(c)
  BY DEF Working
<1>2. \A d \in Proc : at'[d] \notin {"scan", "expire", "send", "ack"}
  BY <1>1, Alone
<1>3. batch'[c] = NoMsg /\ \A d \in Proc : d # c => batch'[d] = batch[d]
  OBVIOUS
<1>4. \A m \in Msg : got'[m] # got[m] => batch[c][m] = "full" /\ m \in unanswered'
  OBVIOUS
<1>5. WrittenOnce'
  BY <1>3, <1>4 DEF WrittenOnce
<1>6. ASSUME NEW m \in Msg, Settled(m)' PROVE got'[m] = 1 /\ file'[m] = "none"
  <2>1. Settled(m) /\ got'[m] = got[m]
    BY <1>4, <1>6 DEF Settled
  <2> QED
    BY <1>1, <2>1, Alone DEF Delivery
<1>7. Delivery'
  BY <1>2, <1>6 DEF Delivery
<1> QED
  BY <1>5, <1>7

\* Unlinking an acknowledged file settles its message for good.
LEMMA AckDelivery ==
  ASSUME DInv, NEW c \in Proc, AckFile(c)
  PROVE  WrittenOnce' /\ Delivery'
<1> USE DEF DInv, TypeOK
<1>1. PICK m \in Posted(c) : batch' = [batch EXCEPT ![c][m] = "none"] /\ Unlink(m)
  BY DEF AckFile
<1>2. m \in Msg /\ at[c] = "ack" /\ Working(c)
  BY <1>1 DEF AckFile, Posted, Working
<1>3. UNCHANGED <<got, unanswered, at, prod>>
  BY DEF AckFile, prodVars, outcome
<1>4. file'[m] = "none" /\ \A n \in Msg : n # m => file'[n] = file[n]
  BY <1>1, <1>2 DEF Unlink
<1>5. \A d \in Proc, n \in Msg :
        batch'[d][n] = IF d = c /\ n = m THEN "none" ELSE batch[d][n]
  <2>1. batch' = [batch EXCEPT ![c] = [batch[c] EXCEPT ![m] = "none"]]
    BY <1>1
  <2>2. batch[c] \in [Msg -> Content]
    OBVIOUS
  <2> QED
    BY <1>2, <2>1, <2>2
<1>6. WrittenOnce'
  BY <1>3, <1>4, <1>5 DEF WrittenOnce
<1>7. ASSUME NEW n \in Msg, Settled(n)'
      PROVE  /\ got'[n] = 1
             /\ file'[n] = "none" \/ \E d \in Proc : at'[d] = "ack" /\ batch'[d][n] # "none"
             /\ \A d \in Proc : at'[d] \in {"scan", "expire", "send"} => batch'[d][n] # "full"
  <2>1. Settled(n)
    BY <1>3, <1>7 DEF Settled
  <2>2. got'[n] = 1
    BY <1>3, <2>1 DEF Delivery
  <2>3. CASE n = m
    BY <1>3, <1>4, <1>5, <2>1, <2>2, <2>3 DEF Delivery
  <2>4. CASE n # m
    BY <1>3, <1>4, <1>5, <2>1, <2>2, <2>4 DEF Delivery
  <2> QED
    BY <2>3, <2>4
<1>8. Delivery'
  BY <1>7 DEF Delivery
<1> QED
  BY <1>6, <1>8

LEMMA RunDelivery ==
  ASSUME DInv, NEW c \in Proc, Run(c)
  PROVE  WrittenOnce' /\ Delivery'
<1> USE DEF DInv, TypeOK, ProcGoes, shared, prodVars, locals, outcome, KeepForPost
<1>1. CASE LockQueue(c)          BY <1>1, QuietStep DEF LockQueue
<1>2. CASE QueueBusy(c)          BY <1>2, QuietStep DEF QueueBusy, vars
<1>3. CASE StartProcess(c)       BY <1>3, QuietStep DEF StartProcess
<1>4. CASE AlreadyProcessing(c)  BY <1>4, QuietStep DEF AlreadyProcessing
<1>5. CASE LoadServices(c)       BY <1>5, QuietStep DEF LoadServices
<1>6. CASE NextService(c)        BY <1>6, QuietStep DEF NextService
<1>7. CASE ScanFile(c)           BY <1>7, ScanDelivery
<1>8. CASE ScanDone(c)           BY <1>8, QuietStep DEF ScanDone
<1>9. CASE ExpireFile(c)         BY <1>9, QuietStep DEF ExpireFile, Unlink
<1>10. CASE ExpireDone(c)        BY <1>10, QuietStep DEF ExpireDone
<1>11. CASE PostAnswered(c)      BY <1>11, AnswerDelivery
<1>12. CASE PostRefused(c)       BY <1>12, QuietStep DEF PostRefused
<1>13. CASE PostUnanswered(c)    BY <1>13, NoAnswerDelivery
<1>14. CASE PostLost(c)
  <2>1. UNCHANGED <<got, unanswered, file, prod>> /\ at'[c] = "next" /\ batch'[c] = NoMsg
    BY <1>14 DEF PostLost
  <2>2. \A d \in Proc : d # c => at'[d] = at[d] /\ batch'[d] = batch[d]
    BY <1>14 DEF PostLost
  <2>3. at[c] = "send"
    BY <1>14 DEF PostLost
  <2>4. WrittenOnce'
    BY <2>1, <2>2 DEF WrittenOnce, NoMsg
  <2>5. ASSUME NEW m \in Msg, Settled(m)'
        PROVE  /\ got'[m] = 1
               /\ file'[m] = "none" \/ \E d \in Proc : at'[d] = "ack" /\ batch'[d][m] # "none"
               /\ \A d \in Proc : at'[d] \in {"scan", "expire", "send"} => batch'[d][m] # "full"
    <3>1. Settled(m)
      BY <2>1, <2>5 DEF Settled
    <3>2. \A d \in Proc : at'[d] \in {"scan", "expire", "send"} => batch'[d][m] # "full"
      BY <2>1, <2>2, <3>1 DEF Delivery
    <3>3. file[m] = "none" \/ \E d \in Proc : d # c /\ at[d] = "ack" /\ batch[d][m] # "none"
      BY <2>3, <3>1 DEF Delivery
    <3>4. got[m] = 1
      BY <3>1 DEF Delivery
    <3> QED
      BY <2>1, <2>2, <3>2, <3>3, <3>4
  <2>6. Delivery'
    BY <2>5 DEF Delivery
  <2> QED
    BY <2>4, <2>6
<1>15. CASE AckFile(c)           BY <1>15, AckDelivery
<1>16. CASE AckDone(c)
  <2>1. batch[c] = NoMsg
    BY <1>16 DEF AckDone, Posted, NoMsg
  <2> QED
    BY <1>16, <2>1, QuietStep DEF AckDone
<1>17. CASE AllServed(c)         BY <1>17, QuietStep DEF AllServed
<1>18. CASE UnlockQueue(c)       BY <1>18, QuietStep DEF UnlockQueue
<1>19. CASE StopProcess(c)       BY <1>19, QuietStep DEF StopProcess
<1>20. CASE EndProcess(c)        BY <1>20, QuietStep DEF EndProcess
<1> QED
  BY <1>1, <1>2, <1>3, <1>4, <1>5, <1>6, <1>7, <1>8, <1>9, <1>10, <1>11, <1>12, <1>13,
     <1>14, <1>15, <1>16, <1>17, <1>18, <1>19, <1>20 DEF Run

\* A kill drops a batch; if it was answered its messages become unanswered.
LEMMA KillDelivery ==
  ASSUME DInv, NEW c \in Proc, KillProcessor(c)
  PROVE  WrittenOnce' /\ Delivery'
<1> USE DEF DInv, TypeOK, KillProcessor, shared, prodVars, Posted, NoMsg
<1>1. at'[c] = "idle" /\ batch'[c] = NoMsg /\ UNCHANGED <<got, file, prod>>
  OBVIOUS
<1>2. \A d \in Proc : d # c => at'[d] = at[d] /\ batch'[d] = batch[d]
  OBVIOUS
<1>3. \A m \in Msg : m \in unanswered => m \in unanswered'
  OBVIOUS
<1>4. at[c] = "ack" => \A m \in Msg : batch[c][m] # "none" => m \in unanswered'
  OBVIOUS
<1>5. WrittenOnce'
  BY <1>1, <1>2 DEF WrittenOnce
<1>6. Delivery'
  BY <1>1, <1>2, <1>3, <1>4 DEF Delivery, Settled
<1> QED
  BY <1>5, <1>6

LEMMA NextDelivery == DInv /\ [Next]_vars => WrittenOnce' /\ Delivery'
<1> SUFFICES ASSUME DInv, [Next]_vars PROVE WrittenOnce' /\ Delivery'
  OBVIOUS
<1>1. ASSUME NEW m \in Msg, Age(m) PROVE WrittenOnce' /\ Delivery'
  BY <1>1, QuietStep DEF Age, KeepRest, prodVars, locals, outcome
<1>2. ASSUME NEW m \in Msg, ClearFile(m) PROVE WrittenOnce' /\ Delivery'
  BY <1>2, QuietStep DEF ClearFile, Unlink, prodVars, locals, DInv, TypeOK
<1>3. ASSUME NEW m \in Msg, KillProducer(m) PROVE WrittenOnce' /\ Delivery'
  BY <1>3, QuietStep DEF KillProducer, locals, outcome, DInv, TypeOK
<1>4. CASE InitMq
  BY <1>4, QuietStep DEF InitMq, shared, prodVars, locals, outcome
<1>5. CASE UNCHANGED vars
  BY <1>5, QuietStep DEF vars, shared, prodVars, locals, outcome
<1> QED
  BY <1>1, <1>2, <1>3, <1>4, <1>5, ProduceDelivery, RunDelivery, KillDelivery DEF Next

(* The server receives a message twice only when the first POST was not     *)
(* acted upon, for any number of processors and kills (mq.lua 354-474).     *)
THEOREM AtMostOncePerAnswer == Spec => []NoDoubleDelivery
<1>1. Init => WrittenOnce /\ Delivery
  BY ConstantAssumption DEF Init, WrittenOnce, Delivery, Settled, NoMsg
<1>2. DInv => NoDoubleDelivery
  BY DEF DInv, TypeOK, Delivery, Settled, NoDoubleDelivery
<1>3. DInv /\ [Next]_vars => WrittenOnce' /\ Delivery'
  BY NextDelivery
<1> QED
  BY <1>1, <1>2, <1>3, LocksHeld, PTL DEF Spec, DInv
-----------------------------------------------------------------------------
(* The flag: whoever is past setting it and before resetting it.            *)

LEMMA FlagStep == TypeOK /\ FlagHasOwner /\ [Next]_vars => FlagHasOwner'
<1> SUFFICES ASSUME TypeOK, FlagHasOwner, [Next]_vars PROVE FlagHasOwner'
  OBVIOUS
<1> DEFINE Owns(c) == Working(c) \/ at[c] = "stop"
<1>1. ASSUME processing' = processing, kills' = kills, \A c \in Proc : Owns(c) => Owns(c)'
      PROVE  FlagHasOwner'
  BY <1>1 DEF FlagHasOwner
<1>2. ASSUME NEW m \in Msg, Produce(m) PROVE FlagHasOwner'
  <2>1. UNCHANGED <<processing, kills, at>>
    BY <1>2 DEF Produce, Begin, LockIndex, IndexBusy, ReadIndex, TruncateIndex, WriteIndex,
       UnlockIndex, HasService, MakeTemp, OpenFile, FillFile, KeepRest, control
  <2> QED
    BY <1>1, <2>1 DEF Working
<1>3. ASSUME NEW m \in Msg, Age(m) \/ ClearFile(m) PROVE FlagHasOwner'
  <2>1. UNCHANGED <<processing, kills, at>>
    BY <1>3 DEF Age, ClearFile, KeepRest, control
  <2> QED
    BY <1>1, <2>1 DEF Working
<1>4. ASSUME kills' = kills + 1 PROVE FlagHasOwner'
  BY <1>4 DEF FlagHasOwner, TypeOK
<1>5. ASSUME processing' = 0 PROVE FlagHasOwner'
  BY <1>5 DEF FlagHasOwner
<1>6. ASSUME NEW c \in Proc, Run(c) PROVE FlagHasOwner'
  <2>1. CASE StartProcess(c)
    <3>1. at'[c] = "load"
      BY <2>1 DEF StartProcess, ProcGoes, TypeOK
    <3> QED
      BY <3>1 DEF FlagHasOwner, Working
  <2>2. CASE StopProcess(c)
    BY <1>5, <2>2 DEF StopProcess
  <2>3. CASE ~StartProcess(c) /\ ~StopProcess(c)
    <3>1. UNCHANGED <<processing, kills>>
      BY <1>6, <2>3 DEF Run, LockQueue, QueueBusy, AlreadyProcessing, LoadServices, NextService,
         ScanFile, ScanDone, ExpireFile, ExpireDone, PostAnswered, PostRefused, PostUnanswered,
         PostLost, AckFile, AckDone, AllServed, UnlockQueue, EndProcess, KeepForPost, vars, control
    <3>2. \/ UNCHANGED at
          \/ \E f, t \in ProcState :
               /\ ProcGoes(c, f, t)
               /\ f \in {"idle", "check", "left"} \/ t \notin {"idle", "check", "left"}
               /\ f # "stop"
      BY <1>6, <2>3 DEF Run, LockQueue, QueueBusy, AlreadyProcessing, LoadServices, NextService,
         ScanFile, ScanDone, ExpireFile, ExpireDone, PostAnswered, PostRefused, PostUnanswered,
         PostLost, AckFile, AckDone, AllServed, UnlockQueue, EndProcess, vars, ProcState
    <3>3. \A d \in Proc : Owns(d) => Owns(d)'
      BY <3>2 DEF ProcGoes, Working, ProcState, TypeOK
    <3> QED
      BY <1>1, <3>1, <3>3
  <2> QED
    BY <2>1, <2>2, <2>3
<1>7. CASE InitMq
  BY <1>5, <1>7 DEF InitMq
<1>8. CASE UNCHANGED vars
  BY <1>1, <1>8 DEF vars, control, Working
<1>9. ASSUME NEW m \in Msg, KillProducer(m) PROVE FlagHasOwner'
  BY <1>4, <1>9 DEF KillProducer
<1>10. ASSUME NEW c \in Proc, KillProcessor(c) PROVE FlagHasOwner'
  BY <1>4, <1>10 DEF KillProcessor
<1> QED
  BY <1>2, <1>3, <1>6, <1>7, <1>8, <1>9, <1>10 DEF Next

(* Nothing but a kill leaves the flag set with no process() to reset it,    *)
(* for any number of processors and calls of init_mq (mq.lua 452-474).      *)
THEOREM FlagOwned == Spec => []FlagHasOwner
<1>1. Init => FlagHasOwner
  BY DEF Init, FlagHasOwner
<1> QED
  BY <1>1, FlagStep, TypeCorrect, PTL DEF Spec
-----------------------------------------------------------------------------
(* Where a message went that is no longer in its inbox.                     *)

Accounted(m) == got[m] > 0 \/ m \in excused \/ m \in blank

\* The file of a message that add() still writes, or has written, goes only with a reason.
Kept == \A m \in Msg : prod[m] \in {"fill", "added"} /\ file[m] = "none" => Accounted(m)

\* What an answered POST carried has a reason before it is unlinked.
Acked == \A c \in Proc, m \in Msg : at[c] = "ack" /\ batch[c][m] # "none" => Accounted(m)

Explained == Kept /\ Acked

LEMMA ExplainedFrame ==
  ASSUME Explained,
         \A m \in Msg : Accounted(m) => Accounted(m)',
         \A m \in Msg : prod'[m] \in {"fill", "added"} /\ file'[m] = "none"
                          => (prod[m] \in {"fill", "added"} /\ file[m] = "none") \/ Accounted(m)',
         \A c \in Proc, m \in Msg : at'[c] = "ack" /\ batch'[c][m] # "none"
                          => (at[c] = "ack" /\ batch[c][m] # "none") \/ Accounted(m)'
  PROVE  Explained'
BY DEF Explained, Kept, Acked

\* A step that leaves the files and the server alone, and ends no POST.
LEMMA ExplainedQuiet ==
  ASSUME Explained, UNCHANGED <<got, excused, blank, file, prod>>,
         \A c \in Proc : at'[c] = "ack" => at[c] = "ack" /\ batch'[c] = batch[c]
  PROVE  Explained'
BY ExplainedFrame DEF Accounted

LEMMA ProduceExplained ==
  ASSUME TypeOK, Explained, NEW m \in Msg, Produce(m)
  PROVE  Explained'
<1> USE DEF TypeOK, ProdGoes, KeepRest, shared, control, locals, outcome, Content, Accounted
<1>1. UNCHANGED <<got, excused, blank, at, batch>>
  BY DEF Produce, Begin, LockIndex, IndexBusy, ReadIndex, TruncateIndex, WriteIndex,
     UnlockIndex, HasService, MakeTemp, OpenFile, FillFile
<1>2. \A n \in Msg : prod'[n] \in {"fill", "added"} /\ file'[n] = "none"
                     => prod[n] \in {"fill", "added"} /\ file[n] = "none"
  <2>1. CASE MakeTemp(m)
    BY <2>1 DEF MakeTemp
  <2>2. CASE OpenFile(m)
    BY <2>2 DEF OpenFile
  <2>3. CASE FillFile(m)
    BY <2>3 DEF FillFile
  <2>4. CASE ~MakeTemp(m) /\ ~OpenFile(m) /\ ~FillFile(m)
    <3>1. UNCHANGED file
      BY <2>4 DEF Produce, Begin, LockIndex, IndexBusy, ReadIndex, TruncateIndex, WriteIndex,
         UnlockIndex, HasService
    <3>2. \E t \in {"lock", "failed", "read", "truncate", "write", "unlock", "has", "mktemp"} :
             prod' = [prod EXCEPT ![m] = t]
      BY <2>4 DEF Produce, Begin, LockIndex, IndexBusy, ReadIndex, TruncateIndex, WriteIndex,
         UnlockIndex, HasService
    <3> QED
      BY <3>1, <3>2
  <2> QED
    BY <2>1, <2>2, <2>3, <2>4
<1> QED
  BY <1>1, <1>2, ExplainedFrame

LEMMA ReceivedStays ==
  ASSUME TypeOK, NEW c \in Proc, Receive(c), UNCHANGED excused
  PROVE  \A m \in Msg : Accounted(m) => Accounted(m)'
<1> SUFFICES ASSUME NEW m \in Msg, Accounted(m) PROVE Accounted(m)'
  OBVIOUS
<1>1. got[m] \in 0..2
  BY DEF TypeOK
<1>2. got[m] > 0 => got'[m] > 0
  BY <1>1 DEF Receive
<1>3. m \in blank => m \in blank'
  BY DEF Receive
<1> QED
  BY <1>2, <1>3 DEF Accounted

LEMMA AnswerExplained ==
  ASSUME TypeOK, Explained, NEW c \in Proc, PostAnswered(c)
  PROVE  Explained'
<1> USE DEF TypeOK, PostAnswered, ProcGoes, KeepForPost, Receive, shared, prodVars, Content
<1>1. UNCHANGED <<file, prod, batch, excused>>
  OBVIOUS
<1>2. \A d \in Proc : at'[d] = "ack" => at[d] = "ack" \/ d = c
  OBVIOUS
<1>3. \A m \in Msg : Accounted(m) => Accounted(m)'
  BY ReceivedStays
<1>4. ASSUME NEW m \in Msg, batch[c][m] # "none" PROVE Accounted(m)'
  <2>1. batch[c][m] = "full" => got'[m] > 0
    OBVIOUS
  <2>2. batch[c][m] = "empty" => m \in blank'
    OBVIOUS
  <2> QED
    BY <1>4, <2>1, <2>2 DEF Accounted
<1> QED
  BY <1>1, <1>2, <1>3, <1>4, ExplainedFrame

LEMMA RunExplained ==
  ASSUME TypeOK, Explained, NEW c \in Proc, Run(c)
  PROVE  Explained'
<1> USE DEF TypeOK, ProcGoes, shared, prodVars, locals, outcome, KeepForPost
<1>1. CASE LockQueue(c)          BY <1>1, ExplainedQuiet DEF LockQueue
<1>2. CASE QueueBusy(c)          BY <1>2, ExplainedQuiet DEF QueueBusy, vars
<1>3. CASE StartProcess(c)       BY <1>3, ExplainedQuiet DEF StartProcess
<1>4. CASE AlreadyProcessing(c)  BY <1>4, ExplainedQuiet DEF AlreadyProcessing
<1>5. CASE LoadServices(c)       BY <1>5, ExplainedQuiet DEF LoadServices
<1>6. CASE NextService(c)        BY <1>6, ExplainedQuiet DEF NextService
<1>7. CASE ScanFile(c)
  <2>1. \A d \in Proc : d # c => batch'[d] = batch[d]
    BY <1>7 DEF ScanFile
  <2> QED
    BY <1>7, <2>1, ExplainedQuiet DEF ScanFile
<1>8. CASE ScanDone(c)           BY <1>8, ExplainedQuiet DEF ScanDone
<1>9. CASE ExpireFile(c)
  <2>1. PICK m \in Msg : file' = [file EXCEPT ![m] = "none"] /\ excused' = excused \cup {m}
    BY <1>9 DEF ExpireFile, Unlink
  <2>2. UNCHANGED <<at, batch, got, blank, prod>>
    BY <1>9 DEF ExpireFile
  <2> QED
    BY <2>1, <2>2, ExplainedFrame DEF Accounted
<1>10. CASE ExpireDone(c)        BY <1>10, ExplainedQuiet DEF ExpireDone
<1>11. CASE PostAnswered(c)      BY <1>11, AnswerExplained
<1>12. CASE PostRefused(c)
  <2>1. excused' = excused \cup Posted(c) /\ UNCHANGED <<got, blank, file, prod, batch>>
    BY <1>12 DEF PostRefused
  <2>2. \A d \in Proc : at'[d] = "ack" => at[d] = "ack" \/ d = c
    BY <1>12 DEF PostRefused
  <2>3. \A m \in Msg : batch[c][m] # "none" => m \in Posted(c)
    BY DEF Posted
  <2> QED
    BY <2>1, <2>2, <2>3, ExplainedFrame DEF Accounted
<1>13. CASE PostUnanswered(c)
  <2>1. \A m \in Msg : Accounted(m) => Accounted(m)'
    BY <1>13, ReceivedStays DEF PostUnanswered
  <2>2. UNCHANGED <<file, prod>>
    BY <1>13 DEF PostUnanswered
  <2>3. \A d \in Proc : at'[d] = "ack" => at[d] = "ack" /\ batch'[d] = batch[d]
    BY <1>13 DEF PostUnanswered
  <2> QED
    BY <2>1, <2>2, <2>3, ExplainedFrame
<1>14. CASE PostLost(c)          BY <1>14, ExplainedQuiet DEF PostLost
<1>15. CASE AckFile(c)
  <2>1. PICK m \in Msg : /\ batch[c][m] # "none"
                         /\ batch' = [batch EXCEPT ![c][m] = "none"]
                         /\ file' = [file EXCEPT ![m] = "none"]
    BY <1>15 DEF AckFile, Posted, Unlink
  <2>2. at[c] = "ack" /\ UNCHANGED <<at, got, excused, blank, prod>>
    BY <1>15 DEF AckFile
  <2>3. Accounted(m)'
    BY <2>1, <2>2 DEF Explained, Acked, Accounted
  <2>4. \A d \in Proc, n \in Msg : batch'[d][n] # "none" => batch[d][n] # "none"
    BY <2>1
  <2>5. \A n \in Msg : n # m => file'[n] = file[n]
    BY <2>1
  <2> QED
    BY <2>2, <2>3, <2>4, <2>5, ExplainedFrame DEF Accounted
<1>16. CASE AckDone(c)           BY <1>16, ExplainedQuiet DEF AckDone
<1>17. CASE AllServed(c)         BY <1>17, ExplainedQuiet DEF AllServed
<1>18. CASE UnlockQueue(c)       BY <1>18, ExplainedQuiet DEF UnlockQueue
<1>19. CASE StopProcess(c)       BY <1>19, ExplainedQuiet DEF StopProcess
<1>20. CASE EndProcess(c)        BY <1>20, ExplainedQuiet DEF EndProcess
<1> QED
  BY <1>1, <1>2, <1>3, <1>4, <1>5, <1>6, <1>7, <1>8, <1>9, <1>10, <1>11, <1>12, <1>13,
     <1>14, <1>15, <1>16, <1>17, <1>18, <1>19, <1>20 DEF Run

LEMMA ExplainedStep == TypeOK /\ Explained /\ [Next]_vars => Explained'
<1> SUFFICES ASSUME TypeOK, Explained, [Next]_vars PROVE Explained'
  OBVIOUS
<1> USE DEF shared, prodVars, control, locals, outcome
<1>1. ASSUME NEW m \in Msg, Age(m) PROVE Explained'
  BY <1>1, ExplainedQuiet DEF Age, KeepRest
<1>2. ASSUME NEW m \in Msg, ClearFile(m) PROVE Explained'
  <2>1. file' = [file EXCEPT ![m] = "none"] /\ excused' = excused \cup {m}
        /\ UNCHANGED <<at, batch, got, blank, prod>>
    BY <1>2 DEF ClearFile, Unlink
  <2> QED
    BY <2>1, ExplainedFrame DEF Accounted, TypeOK
<1>3. ASSUME NEW m \in Msg, KillProducer(m) PROVE Explained'
  <2>1. prod' = [prod EXCEPT ![m] = "failed"]
        /\ UNCHANGED <<got, excused, blank, file, at, batch>>
    BY <1>3 DEF KillProducer
  <2> QED
    BY <2>1, ExplainedFrame DEF Accounted, TypeOK
<1>4. ASSUME NEW c \in Proc, KillProcessor(c) PROVE Explained'
  BY <1>4, ExplainedQuiet DEF KillProcessor, TypeOK
<1>5. CASE InitMq
  BY <1>5, ExplainedQuiet DEF InitMq
<1>6. CASE UNCHANGED vars
  BY <1>6, ExplainedQuiet DEF vars
<1> QED
  BY <1>1, <1>2, <1>3, <1>4, <1>5, <1>6, ProduceExplained, RunExplained DEF Next

(* A message that was added and is gone was received, refused, timed out    *)
(* or cleared, or was posted before it was written, for any number of       *)
(* processors, kills and calls of clear_inbox (mq.lua 236-279, 354-432).    *)
THEOREM NothingLostSilently == Spec => []NoSilentLoss
<1>1. Init => Explained
  BY DEF Init, Explained, Kept, Acked
<1>2. Explained => NoSilentLoss
  BY DEF Explained, Kept, Accounted, NoSilentLoss
<1> QED
  BY <1>1, <1>2, ExplainedStep, TypeCorrect, PTL DEF Spec
-----------------------------------------------------------------------------
(* The processors at work implement the abstract Mutex.                    *)

AtWork == {c \in Proc : Working(c)}

LEMMA WorkStarts ==
  ASSUME TypeOK, Locks, NEW c \in Proc, StartProcess(c)
  PROVE  AtWork = {} /\ AtWork' = {c}
<1>1. \A d \in Proc : ~Working(d)
  BY DEF StartProcess, ProcGoes, Locks, Working, TypeOK
<1>2. \A d \in Proc : Working(d)' <=> d = c
  BY <1>1 DEF StartProcess, ProcGoes, Working, TypeOK
<1> QED
  BY <1>1, <1>2 DEF AtWork

LEMMA WorkEnds ==
  ASSUME TypeOK, Locks, NEW c \in Proc, Working(c),
         UnlockQueue(c) \/ KillProcessor(c)
  PROVE  AtWork = {c} /\ AtWork' = {}
<1>1. \A d \in Proc : Working(d) => d = c
  BY DEF Locks
<1>2. \A d \in Proc : ~Working(d)'
  BY <1>1 DEF UnlockQueue, KillProcessor, ProcGoes, Working, TypeOK
<1> QED
  BY <1>1, <1>2 DEF AtWork

LEMMA WorkGoesOn ==
  ASSUME TypeOK, NEW c \in Proc, Run(c), ~StartProcess(c), ~UnlockQueue(c)
  PROVE  AtWork' = AtWork
<1> USE DEF ProcGoes, Working, TypeOK
<1>1. \A d \in Proc : Working(d)' <=> Working(d)
  BY DEF Run, vars, LockQueue, QueueBusy, AlreadyProcessing, LoadServices, NextService,
     ScanFile, ScanDone, ExpireFile, ExpireDone, PostAnswered, PostRefused, PostUnanswered,
     PostLost, AckFile, AckDone, AllServed, StopProcess, EndProcess
<1> QED
  BY <1>1 DEF AtWork

LEMMA WorkSimulation ==
  TypeOK /\ Locks /\ [Next]_vars => [M!Next]_AtWork
<1> SUFFICES ASSUME TypeOK, Locks, [Next]_vars PROVE [M!Next]_AtWork
  OBVIOUS
<1>1. ASSUME NEW c \in Proc, Run(c) PROVE [M!Next]_AtWork
  <2>1. CASE StartProcess(c)
    BY <2>1, WorkStarts DEF M!Next, M!Acquire, AtWork
  <2>2. CASE UnlockQueue(c)
    <3>1. Working(c)
      BY <2>2 DEF UnlockQueue, ProcGoes, Working
    <3> QED
      BY <2>2, <3>1, WorkEnds DEF M!Next, M!Release, AtWork
  <2>3. CASE ~StartProcess(c) /\ ~UnlockQueue(c)
    BY <1>1, <2>3, WorkGoesOn
  <2> QED
    BY <2>1, <2>2, <2>3
<1>2. ASSUME NEW c \in Proc, KillProcessor(c) PROVE [M!Next]_AtWork
  <2>1. CASE Working(c)
    BY <1>2, <2>1, WorkEnds DEF M!Next, M!Release, AtWork
  <2>2. CASE ~Working(c)
    <3>1. \A d \in Proc : Working(d)' <=> Working(d)
      BY <1>2, <2>2 DEF KillProcessor, Working, TypeOK
    <3> QED
      BY <3>1 DEF AtWork
  <2> QED
    BY <2>1, <2>2
<1>3. ASSUME UNCHANGED at PROVE AtWork' = AtWork
  BY <1>3 DEF AtWork, Working
<1>4. ASSUME NEW m \in Msg, Produce(m) PROVE UNCHANGED at
  BY <1>4 DEF Produce, Begin, LockIndex, IndexBusy, ReadIndex, TruncateIndex, WriteIndex,
     UnlockIndex, HasService, MakeTemp, OpenFile, FillFile, KeepRest
<1>5. ASSUME NEW m \in Msg, Age(m) \/ ClearFile(m) \/ KillProducer(m) PROVE UNCHANGED at
  BY <1>5 DEF Age, ClearFile, KillProducer, KeepRest
<1>6. ASSUME InitMq \/ UNCHANGED vars PROVE UNCHANGED at
  BY <1>6 DEF InitMq, vars
<1> QED
  BY <1>1, <1>2, <1>3, <1>4, <1>5, <1>6 DEF Next

(* process() is a critical section: its start acquires, its unlock or a     *)
(* kill releases, nothing else is visible (mq.lua 452-474).                 *)
THEOREM WorkRefinement == Spec => WorkImplementsMutex
<1>1. Init => AtWork = {}
  BY DEF Init, AtWork, Working
<1> QED
  BY <1>1, LocksHeld, WorkSimulation, PTL
     DEF Spec, WorkImplementsMutex, M!Spec, M!Init, AtWork
=============================================================================
