---------------------------- MODULE MessageQueue ----------------------------
(***************************************************************************)
(* hiwifi.mq (usr/lib/lua/hiwifi/mq.lua): a queue of messages kept as one  *)
(* file each in the inbox directory of a service, and the programs that    *)
(* share it:                                                               *)
(*   - producers (etc/app/*.lua): init_service, then add one message;      *)
(*   - processors: process(), started by cron every minute;                *)
(*   - clear_inbox and init_mq, called by other programs.                  *)
(* Each program is a process of its own; what they share is on disk.       *)
(***************************************************************************)
EXTENDS Naturals, FiniteSets

CONSTANTS Msg,             \* messages; the producer of one is named after it
          Svc,             \* services
          SvcOf,           \* SvcOf[m]: the service m is added to
          Default,         \* the service add() registers by itself
          Cleared,         \* the services clear_inbox is called for
          Proc,            \* processes that call process()
          Mortal,          \* the producers and processors that may be killed
          MaxKills,        \* bound on the number of kills
          None

ASSUME ConstantAssumption ==
  /\ SvcOf \in [Msg -> Svc]
  /\ Cleared \subseteq Svc
  /\ Msg \cap Proc = {}
  /\ None \notin Msg \cup Proc
  /\ Mortal \subseteq Msg \cup Proc
  /\ MaxKills \in Nat

VARIABLES
  index,       \* the services listed in the file service_index
  indexLock,   \* who has the lock "service_index"
  queueLock,   \* who has the lock "mq_process"
  processing,  \* the flag kept in the file processing
  file,        \* file[m]: the inbox file of m
  old,         \* old[m]: file[m] is older than the timeout of its service
  prod,        \* prod[m]: where the producer of m is
  seen,        \* seen[m]: the index as the producer of m read it
  at,          \* at[c]: where processor c is
  todo,        \* todo[c]: services c has still to serve in this round
  dir,         \* dir[c]: files of the directory listing c has not visited
  batch,       \* batch[c][m]: the content of m that c has read for its POST
  expired,     \* expired[c]: files c found too old
  got,         \* got[m]: how often the server received the content of m
  blank,       \* messages the server received with empty content
  unanswered,  \* messages of a POST that was received but never acted upon
  excused,     \* messages refused by the server, timed out or cleared
  kills        \* number of processes killed so far

shared == <<index, indexLock, file, old>>
prodVars == <<prod, seen>>
locals == <<todo, dir, batch, expired>>
control == <<queueLock, processing>>
outcome == <<got, blank, unanswered, excused>>
vars == <<shared, prodVars, at, locals, control, outcome, kills>>

ProdState == {"idle", "lock", "read", "truncate", "write", "unlock", "has",
              "mktemp", "open", "fill", "added", "failed"}
ProcState == {"idle", "check", "load", "next", "scan", "expire", "send", "ack",
              "unlock", "stop", "left"}
Content == {"none", "empty", "full"}
NoMsg == [m \in Msg |-> "none"]

\* A process between its lock and its unlock.
Rewriting(m) == prod[m] \in {"read", "truncate", "write", "unlock"}
Working(c) == at[c] \in {"load", "next", "scan", "expire", "send", "ack", "unlock"}

\* Types, and what the local data of a processor are for: they are empty
\* outside the phases that use them.
TypeOK ==
  /\ index \subseteq Svc
  /\ indexLock \in Msg \cup {None}
  /\ queueLock \in Proc \cup {None}
  /\ processing \in {0, 1}
  /\ file \in [Msg -> Content]
  /\ old \in [Msg -> BOOLEAN]
  /\ prod \in [Msg -> ProdState]
  /\ seen \in [Msg -> SUBSET Svc]
  /\ at \in [Proc -> ProcState]
  /\ todo \in [Proc -> SUBSET Svc]
  /\ dir \in [Proc -> SUBSET Msg]
  /\ batch \in [Proc -> [Msg -> Content]]
  /\ expired \in [Proc -> SUBSET Msg]
  /\ got \in [Msg -> 0..2]
  /\ blank \subseteq Msg
  /\ unanswered \subseteq Msg
  /\ excused \subseteq Msg
  /\ kills \in 0..MaxKills
  /\ \A c \in Proc :
       /\ at[c] \notin {"scan", "expire", "send", "ack"} => batch[c] = NoMsg
       /\ at[c] # "scan" => dir[c] = {}
       /\ at[c] \notin {"scan", "expire"} => expired[c] = {}

Init ==
  /\ index = {}
  /\ indexLock = None
  /\ queueLock = None
  /\ processing = 0
  /\ file = NoMsg
  /\ old = [m \in Msg |-> FALSE]
  /\ prod = [m \in Msg |-> "idle"]
  /\ seen = [m \in Msg |-> {}]
  /\ at = [c \in Proc |-> "idle"]
  /\ todo = [c \in Proc |-> {}]
  /\ dir = [c \in Proc |-> {}]
  /\ batch = [c \in Proc |-> NoMsg]
  /\ expired = [c \in Proc |-> {}]
  /\ got = [m \in Msg |-> 0]
  /\ blank = {}
  /\ unanswered = {}
  /\ excused = {}
  /\ kills = 0
-----------------------------------------------------------------------------
(* Producers: init_service(SvcOf[m]), then add(m).                         *)

ProdGoes(m, from, to) == prod[m] = from /\ prod' = [prod EXCEPT ![m] = to]

KeepRest == UNCHANGED <<control, at, locals, outcome, kills>>

\* Users of the default service call add directly.
Begin(m) ==
  /\ ProdGoes(m, "idle", IF SvcOf[m] = Default THEN "has" ELSE "lock")
  /\ UNCHANGED <<shared, seen>> /\ KeepRest

\* Mutant: the result of trylock is not looked at.
LockIndexAnyway(m) ==
  /\ ProdGoes(m, "lock", "read")
  /\ indexLock' = IF indexLock = None THEN m ELSE indexLock
  /\ UNCHANGED <<index, file, old, seen>> /\ KeepRest

LockIndex(m) ==
  /\ ProdGoes(m, "lock", "read")
  /\ indexLock = None
  /\ indexLock' = m
  /\ UNCHANGED <<index, file, old, seen>> /\ KeepRest

\* init_service returns false, 'locking', and its callers give up
IndexBusy(m) ==
  /\ ProdGoes(m, "lock", "failed")
  /\ indexLock # None
  /\ UNCHANGED <<shared, seen>> /\ KeepRest

ReadIndex(m) ==
  /\ ProdGoes(m, "read", "truncate")
  /\ seen' = [seen EXCEPT ![m] = index]
  /\ UNCHANGED shared /\ KeepRest

\* fs.writefile opens with "w", which empties the file, and then writes
TruncateIndex(m) ==
  /\ ProdGoes(m, "truncate", "write")
  /\ index' = {}
  /\ UNCHANGED <<indexLock, file, old, seen>> /\ KeepRest

WriteIndex(m) ==
  /\ ProdGoes(m, "write", "unlock")
  /\ index' = seen[m] \cup {SvcOf[m]}
  /\ seen' = [seen EXCEPT ![m] = {}]
  /\ UNCHANGED <<indexLock, file, old>> /\ KeepRest

\* add() calls init_service after its has_service for the default service,
\* every other producer before it
UnlockIndex(m) ==
  /\ ProdGoes(m, "unlock", IF SvcOf[m] = Default THEN "mktemp" ELSE "has")
  /\ indexLock' = None
  /\ UNCHANGED <<index, file, old, seen>> /\ KeepRest

\* has_service reads the index without the lock
HasService(m) ==
  /\ ProdGoes(m, "has", CASE SvcOf[m] \in index  -> "mktemp"
                          [] SvcOf[m] \notin index /\ SvcOf[m] = Default -> "lock"
                          [] OTHER -> "failed")
  /\ UNCHANGED <<shared, seen>> /\ KeepRest

\* mktemp creates the inbox file with no content
MakeTemp(m) ==
  /\ ProdGoes(m, "mktemp", "open")
  /\ file' = [file EXCEPT ![m] = "empty"]
  /\ UNCHANGED <<index, indexLock, old, seen>> /\ KeepRest

\* fs.writefile opens the path again: it creates the file when it is gone
OpenFile(m) ==
  /\ ProdGoes(m, "open", "fill")
  /\ file' = [file EXCEPT ![m] = "empty"]
  /\ old' = [old EXCEPT ![m] = FALSE]
  /\ UNCHANGED <<index, indexLock, seen>> /\ KeepRest

\* The content reaches the inbox if the open file is still linked there.
FillFile(m) ==
  /\ ProdGoes(m, "fill", "added")
  /\ file' = [file EXCEPT ![m] = IF @ = "empty" THEN "full" ELSE @]
  /\ old' = [old EXCEPT ![m] = FALSE]
  /\ UNCHANGED <<index, indexLock, seen>> /\ KeepRest

Produce(m) ==
  \/ Begin(m) \/ LockIndex(m) \/ IndexBusy(m) \/ ReadIndex(m) \/ TruncateIndex(m)
  \/ WriteIndex(m) \/ UnlockIndex(m) \/ HasService(m) \/ MakeTemp(m)
  \/ OpenFile(m) \/ FillFile(m)
-----------------------------------------------------------------------------
(* Processors: process().                                                  *)

ProcGoes(c, from, to) == at[c] = from /\ at' = [at EXCEPT ![c] = to]

LockQueue(c) ==
  /\ ProcGoes(c, "idle", "check")
  /\ queueLock = None
  /\ queueLock' = c
  /\ UNCHANGED <<shared, prodVars, locals, outcome, processing, kills>>

QueueBusy(c) ==
  /\ at[c] = "idle"
  /\ queueLock # None
  /\ UNCHANGED vars

StartProcess(c) ==
  /\ ProcGoes(c, "check", "load")
  /\ processing = 0
  /\ processing' = 1
  /\ UNCHANGED <<shared, prodVars, locals, outcome, queueLock, kills>>

\* return false, 'processing', with the lock still held
AlreadyProcessing(c) ==
  /\ ProcGoes(c, "check", "left")
  /\ processing = 1
  /\ UNCHANGED <<shared, prodVars, control, locals, outcome, kills>>

\* Mutant: the lock is released as soon as the flag is set.
LoadUnlocked(c) ==
  /\ ProcGoes(c, "load", "next")
  /\ todo' = [todo EXCEPT ![c] = index]
  /\ queueLock' = None
  /\ UNCHANGED <<shared, prodVars, outcome, processing, dir, batch, expired, kills>>

LoadServices(c) ==
  /\ ProcGoes(c, "load", "next")
  /\ todo' = [todo EXCEPT ![c] = index]
  /\ UNCHANGED <<shared, prodVars, control, outcome, dir, batch, expired, kills>>

\* process_service starts with a listing of the inbox
NextService(c) ==
  /\ ProcGoes(c, "next", "scan")
  /\ \E s \in todo[c] :
       /\ todo' = [todo EXCEPT ![c] = @ \ {s}]
       /\ dir' = [dir EXCEPT ![c] = {m \in Msg : SvcOf[m] = s /\ file[m] # "none"}]
  /\ UNCHANGED <<shared, prodVars, control, outcome, batch, expired, kills>>

\* stat and read one file: a missing one is skipped
ScanFile(c) ==
  /\ at[c] = "scan"
  /\ \E m \in dir[c] :
       /\ dir' = [dir EXCEPT ![c] = @ \ {m}]
       /\ IF file[m] # "none" /\ old[m]
          THEN expired' = [expired EXCEPT ![c] = @ \cup {m}] /\ UNCHANGED batch
          ELSE batch' = [batch EXCEPT ![c][m] = file[m]] /\ UNCHANGED expired
  /\ UNCHANGED <<shared, prodVars, control, outcome, at, todo, kills>>

ScanDone(c) ==
  /\ ProcGoes(c, "scan", "expire")
  /\ dir[c] = {}
  /\ UNCHANGED <<shared, prodVars, control, locals, outcome, kills>>

Unlink(m) == file' = [file EXCEPT ![m] = "none"]

ExpireFile(c) ==
  /\ at[c] = "expire"
  /\ \E m \in expired[c] :
       /\ expired' = [expired EXCEPT ![c] = @ \ {m}]
       /\ Unlink(m)
       /\ excused' = excused \cup {m}
  /\ UNCHANGED <<prodVars, control, index, indexLock, old, at, todo, dir, batch, got, blank, unanswered, kills>>

ExpireDone(c) ==
  /\ ProcGoes(c, "expire", IF batch[c] = NoMsg THEN "next" ELSE "send")
  /\ expired[c] = {}
  /\ UNCHANGED <<shared, prodVars, control, locals, outcome, kills>>

Posted(c) == {m \in Msg : batch[c][m] # "none"}

\* The server takes what was posted; got counts up to "twice or more".
Receive(c) ==
  /\ got' = [m \in Msg |-> IF batch[c][m] = "full" /\ got[m] < 2 THEN got[m] + 1 ELSE got[m]]
  /\ blank' = blank \cup {m \in Msg : batch[c][m] = "empty"}

KeepForPost == UNCHANGED <<shared, prodVars, control, todo, dir, expired, kills>>

\* the answer has a 'code': the files that were read will be unlinked
PostAnswered(c) ==
  /\ ProcGoes(c, "send", "ack")
  /\ Receive(c)
  /\ UNCHANGED <<batch, unanswered, excused>> /\ KeepForPost

\* an error code is a 'code' as well
PostRefused(c) ==
  /\ ProcGoes(c, "send", "ack")
  /\ excused' = excused \cup Posted(c)
  /\ UNCHANGED <<batch, got, blank, unanswered>> /\ KeepForPost

\* received, but the answer is lost or has no 'code'
PostUnanswered(c) ==
  /\ ProcGoes(c, "send", "next")
  /\ Receive(c)
  /\ unanswered' = unanswered \cup Posted(c)
  /\ batch' = [batch EXCEPT ![c] = NoMsg]
  /\ UNCHANGED excused /\ KeepForPost

\* Mutant: the messages of a failed POST stay for the next service's.
PostLostKept(c) ==
  /\ ProcGoes(c, "send", "next")
  /\ UNCHANGED <<outcome, batch>> /\ KeepForPost

PostLost(c) ==
  /\ ProcGoes(c, "send", "next")
  /\ batch' = [batch EXCEPT ![c] = NoMsg]
  /\ UNCHANGED <<outcome>> /\ KeepForPost

\* Mutant: the acknowledgement clears the inbox as it is now.
AckInbox(c) ==
  /\ at[c] = "ack"
  /\ batch' = [batch EXCEPT ![c] = NoMsg]
  /\ file' = [m \in Msg |-> IF \E n \in Posted(c) : SvcOf[n] = SvcOf[m]
                            THEN "none" ELSE file[m]]
  /\ UNCHANGED <<prodVars, control, outcome, index, indexLock, old, at, todo, dir, expired, kills>>

AckFile(c) ==
  /\ at[c] = "ack"
  /\ \E m \in Posted(c) :
       /\ batch' = [batch EXCEPT ![c][m] = "none"]
       /\ Unlink(m)
  /\ UNCHANGED <<prodVars, control, outcome, index, indexLock, old, at, todo, dir, expired, kills>>

\* Mutant: some of the files of an answered POST stay.
AckSome(c) ==
  /\ ProcGoes(c, "ack", "next")
  /\ batch' = [batch EXCEPT ![c] = NoMsg]
  /\ UNCHANGED <<shared, prodVars, control, outcome, todo, dir, expired, kills>>

AckDone(c) ==
  /\ ProcGoes(c, "ack", "next")
  /\ Posted(c) = {}
  /\ UNCHANGED <<shared, prodVars, control, locals, outcome, kills>>

AllServed(c) ==
  /\ ProcGoes(c, "next", "unlock")
  /\ todo[c] = {}
  /\ UNCHANGED <<shared, prodVars, control, locals, outcome, kills>>

UnlockQueue(c) ==
  /\ ProcGoes(c, "unlock", "stop")
  /\ queueLock' = None
  /\ UNCHANGED <<shared, prodVars, locals, outcome, processing, kills>>

\* Mutant: the flag is not reset.
StopNothing(c) ==
  /\ ProcGoes(c, "stop", "idle")
  /\ UNCHANGED <<shared, prodVars, locals, outcome, control, kills>>

StopProcess(c) ==
  /\ ProcGoes(c, "stop", "idle")
  /\ processing' = 0
  /\ UNCHANGED <<shared, prodVars, locals, outcome, queueLock, kills>>

\* the process that returned 'processing' ends, and its lock with it
EndProcess(c) ==
  /\ ProcGoes(c, "left", "idle")
  /\ queueLock' = IF queueLock = c THEN None ELSE queueLock
  /\ UNCHANGED <<shared, prodVars, locals, outcome, processing, kills>>

Run(c) ==
  \/ LockQueue(c) \/ QueueBusy(c) \/ StartProcess(c) \/ AlreadyProcessing(c)
  \/ LoadServices(c) \/ NextService(c) \/ ScanFile(c) \/ ScanDone(c)
  \/ ExpireFile(c) \/ ExpireDone(c)
  \/ PostAnswered(c) \/ PostRefused(c) \/ PostUnanswered(c) \/ PostLost(c)
  \/ AckFile(c) \/ AckDone(c) \/ AllServed(c)
  \/ UnlockQueue(c) \/ StopProcess(c) \/ EndProcess(c)
-----------------------------------------------------------------------------
(* The others: time, clear_inbox, init_mq, kills.                          *)

Age(m) ==
  /\ file[m] # "none" /\ ~old[m]
  /\ old' = [old EXCEPT ![m] = TRUE]
  /\ UNCHANGED <<prodVars, index, indexLock, file>> /\ KeepRest

\* clear_inbox unlinks the files one by one, without any lock
ClearFile(m) ==
  /\ SvcOf[m] \in Cleared /\ file[m] # "none"
  /\ Unlink(m)
  /\ excused' = excused \cup {m}
  /\ UNCHANGED <<prodVars, control, locals, index, indexLock, old, at, got, blank, unanswered, kills>>

InitMq ==
  /\ processing' = 0
  /\ UNCHANGED <<shared, prodVars, locals, outcome, queueLock, at, kills>>

KillProducer(m) ==
  /\ m \in Mortal /\ kills < MaxKills
  /\ prod[m] \notin {"idle", "added", "failed"}
  /\ kills' = kills + 1
  /\ prod' = [prod EXCEPT ![m] = "failed"]
  /\ seen' = [seen EXCEPT ![m] = {}]
  /\ indexLock' = IF indexLock = m THEN None ELSE indexLock
  /\ UNCHANGED <<control, locals, outcome, index, file, old, at>>

\* What the processor had posted and not yet unlinked will be posted again.
KillProcessor(c) ==
  /\ c \in Mortal /\ kills < MaxKills
  /\ at[c] # "idle"
  /\ kills' = kills + 1
  /\ at' = [at EXCEPT ![c] = "idle"]
  /\ todo' = [todo EXCEPT ![c] = {}]
  /\ dir' = [dir EXCEPT ![c] = {}]
  /\ batch' = [batch EXCEPT ![c] = NoMsg]
  /\ expired' = [expired EXCEPT ![c] = {}]
  /\ unanswered' = IF at[c] = "ack" THEN unanswered \cup Posted(c) ELSE unanswered
  /\ queueLock' = IF queueLock = c THEN None ELSE queueLock
  /\ UNCHANGED <<shared, prodVars, processing, got, blank, excused>>

Next ==
  \/ \E m \in Msg : Produce(m) \/ Age(m) \/ ClearFile(m) \/ KillProducer(m)
  \/ \E c \in Proc : Run(c) \/ KillProcessor(c)
  \/ InitMq

Spec == Init /\ [][Next]_vars

\* Cron starts the processors for ever and each of them runs on to its end;
\* producers run on as well; a file ages as the clock does.
FairSpec ==
  /\ Spec
  /\ \A m \in Msg : WF_vars(Produce(m)) /\ WF_vars(Age(m))
  /\ \A c \in Proc : WF_vars(Run(c))
-----------------------------------------------------------------------------
(* Properties *)

\* At most one process() is between setting the flag and unlocking, though
\* the flag is also reset outside the lock, by init_mq and by a previous
\* process() that has unlocked already (mq.lua 452-474).
OneProcessor == \A c, d \in Proc : Working(c) /\ Working(d) => c = d

\* The same as a refinement: the processors at work implement Mutex.
M == INSTANCE Mutex WITH holder <- {c \in Proc : Working(c)}

WorkImplementsMutex == M!Spec

\* Nothing but a kill leaves the flag set with no process() to reset it: the
\* early return, the overlap of two process() and init_mq do not (mq.lua
\* 452-474).  After a kill the flag is a file on the storage disk, and every
\* later process() returns 'processing' until init_mq runs.
FlagHasOwner ==
  processing = 1 /\ kills = 0 => \E c \in Proc : Working(c) \/ at[c] = "stop"

\* A message reaches the server a second time only if the first POST was not
\* acted upon: its answer was lost, or the processor was killed before it had
\* unlinked what was answered (mq.lua 354-432).
NoDoubleDelivery == \A m \in Msg : got[m] = 2 => m \in unanswered

\* The producer of m is in add, its service found or just registered.
Adding(m) ==
  \/ prod[m] \in {"mktemp", "open", "fill", "added"}
  \/ prod[m] = "has" /\ SvcOf[m] # Default

Registered == {SvcOf[m] : m \in {n \in Msg : Adding(n)}}

\* While nobody rewrites the index it lists every registered service: the
\* rewriting programs do not lose each other's lines (mq.lua 287-342).
IndexComplete == indexLock = None => Registered \subseteq index

\* A message that was added and is gone was received, refused, timed out or
\* cleared; the only other way is the POST of a file not yet written, after
\* which the file is unlinked whatever it holds by then (mq.lua 236-279, 354-432).
NoSilentLoss ==
  \A m \in Msg : prod[m] = "added" /\ file[m] = "none"
                   => got[m] > 0 \/ m \in excused \/ m \in blank

\* Every message that was added leaves its inbox, at the latest by its
\* timeout: no order of processors blocks the queue (mq.lua 354-474).
Drained == \A m \in Msg : prod[m] = "added" ~> file[m] = "none"

\* Stated of add (mq.lua 234-235): it returns the id of a message, so that a
\* message whose id was returned is in the inbox until it is received with
\* its content, refused, timed out or cleared.
AddedIsKept ==
  \A m \in Msg : prod[m] = "added" /\ file[m] = "none" => got[m] > 0 \/ m \in excused
=============================================================================
