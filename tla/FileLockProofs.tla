--------------------------- MODULE FileLockProofs ---------------------------
(***************************************************************************)
(* Proofs about FileLock, for every set of processes and every Api that    *)
(* satisfies ApiAssumption.                                                *)
(***************************************************************************)
EXTENDS FileLock, TLAPS

HandleUser(p) == {"flock", "trylock"} \cap Api[p] # {}

\* The inductive invariant.  HandleOwnsLock needs to know that a user of the
\* handle interface comes to its bracket with no unreachable file behind it
\* (CleanStart): the collector would otherwise give its lock up half way.
CleanStart ==
  \A p \in Proc :
    /\ inside[p] = "handle" => HandleUser(p)
    /\ inside[p] = "string" => ~HandleUser(p)
    /\ ~HandleUser(p) => "kept" \notin open[p]
    /\ inside[p] = "out" /\ HandleUser(p) => open[p] = {}

IInv == TypeOK /\ CleanStart /\ HandleOwnsLock /\ NoOrphanLock

(* Every reachable state of the lock has the declared types. *)
LEMMA InitIInv == Init => IInv
BY ApiAssumption DEF Init, IInv, TypeOK, CleanStart, HandleOwnsLock, NoOrphanLock

(* Every call of lock.lua, the collector and the end of a process preserve  *)
(* the invariant.                                                          *)
LEMMA NextIInv == IInv /\ [Next]_vars => IInv'
<1> SUFFICES ASSUME IInv, [Next]_vars PROVE IInv'
  OBVIOUS
<1> USE ApiAssumption DEF IInv, TypeOK, CleanStart, HandleOwnsLock, NoOrphanLock,
        HandleUser, Functions, Calls, Grantable, Freed, Opens, Goes
<1>1. ASSUME NEW p \in Proc, LockString(p) PROVE IInv'
  BY <1>1 DEF LockString
<1>2. ASSUME NEW p \in Proc, UnlockString(p) PROVE IInv'
  BY <1>2 DEF UnlockString
<1>3. ASSUME NEW p \in Proc, Flock(p) PROVE IInv'
  BY <1>3 DEF Flock
<1>4. ASSUME NEW p \in Proc, TryLock(p) PROVE IInv'
  BY <1>4 DEF TryLock
<1>5. ASSUME NEW p \in Proc, TryLockBusy(p) PROVE IInv'
  BY <1>5 DEF TryLockBusy
<1>6. ASSUME NEW p \in Proc, UnlockHandle(p) PROVE IInv'
  BY <1>6 DEF UnlockHandle
<1>7. ASSUME NEW p \in Proc, Abandon(p) PROVE IInv'
  BY <1>7 DEF Abandon
<1>8. ASSUME NEW p \in Proc, TestLock(p) PROVE IInv'
  BY <1>8 DEF TestLock
<1>9. ASSUME NEW p \in Proc, Collect(p) PROVE IInv'
  BY <1>9 DEF Collect
<1>10. ASSUME NEW p \in Proc, Exit(p) PROVE IInv'
  BY <1>10 DEF Exit
<1>11. CASE UNCHANGED vars
  BY <1>11 DEF vars
<1> QED
  BY <1>1, <1>2, <1>3, <1>4, <1>5, <1>6, <1>7, <1>8, <1>9, <1>10, <1>11 DEF Next
-----------------------------------------------------------------------------
(* The types of every reachable state: which files and which bracket a     *)
(* process may have (lock.lua 16-73).                                      *)
THEOREM TypeCorrect == Spec => []TypeOK
<1>1. IInv => TypeOK
  BY DEF IInv
<1> QED
  BY <1>1, InitIInv, NextIInv, PTL DEF Spec

(* No lock outlives the program that took it (lock.lua 16-59, mq.lua       *)
(* 457-460).                                                               *)
THEOREM OrphanFree == Spec => []NoOrphanLock
<1>1. IInv => NoOrphanLock
  BY DEF IInv
<1> QED
  BY <1>1, InitIInv, NextIInv, PTL DEF Spec

(* A process inside by the handle interface owns the record lock all the   *)
(* way, whatever the collector does (lock.lua 27-59).                      *)
THEOREM HandleKeepsLock == Spec => []HandleOwnsLock
<1>1. IInv => HandleOwnsLock
  BY DEF IInv
<1> QED
  BY <1>1, InitIInv, NextIInv, PTL DEF Spec

(* At most one process is between flock or trylock and the unlock of its   *)
(* handle (lock.lua 27-59).                                                *)
THEOREM Exclusion == Spec => []HandleExclusion
<1>1. IInv => HandleExclusion
  BY DEF IInv, HandleOwnsLock, HandleExclusion
<1> QED
  BY <1>1, InitIInv, NextIInv, PTL DEF Spec

Holder == {p \in Proc : inside[p] = "handle"}

\* Inside by the handle interface there is nobody or exactly one process.
LEMMA AtMostOneInside ==
  ASSUME IInv, NEW p \in Proc, inside[p] = "handle"
  PROVE  Holder = {p} /\ owner = p
BY DEF IInv, HandleOwnsLock, Holder

\* A step that leaves every process in or out of its bracket is a stutter.
LEMMA SameHolder ==
  ASSUME \A p \in Proc : inside'[p] = "handle" <=> inside[p] = "handle"
  PROVE  Holder' = Holder
BY DEF Holder

\* A successful flock or trylock is Mutex!Acquire.
LEMMA EnterAcquires ==
  ASSUME IInv, NEW p \in Proc, Grantable(p), inside[p] = "out", Goes(p, "handle")
  PROVE  Holder = {} /\ Holder' = {p}
<1>1. \A q \in Proc : inside[q] # "handle"
  BY ApiAssumption DEF IInv, HandleOwnsLock, NoOrphanLock, Grantable, TypeOK
<1>2. \A q \in Proc : inside'[q] = "handle" <=> q = p
  BY <1>1 DEF IInv, TypeOK, Goes
<1> QED
  BY <1>1, <1>2 DEF Holder

\* Leaving the bracket, in whatever way, is Mutex!Release.
LEMMA LeaveReleases ==
  ASSUME IInv, NEW p \in Proc, inside[p] = "handle",
         NEW w \in {"out", "left"}, Goes(p, w)
  PROVE  Holder = {p} /\ Holder' = {}
<1>1. Holder = {p}
  BY AtMostOneInside
<1>2. \A q \in Proc : inside'[q] # "handle"
  BY <1>1 DEF IInv, TypeOK, Goes, Holder
<1> QED
  BY <1>1, <1>2 DEF Holder

\* Every step of the lock is a step of Mutex or leaves its holder alone.
LEMMA StepSimulation == IInv /\ [Next]_vars => [M!Next]_Holder
<1> SUFFICES ASSUME IInv, [Next]_vars PROVE [M!Next]_Holder
  OBVIOUS
<1>1. ASSUME NEW p \in Proc, Flock(p) \/ TryLock(p) PROVE M!Next
  <2>1. Holder = {} /\ Holder' = {p}
    BY <1>1, EnterAcquires DEF Flock, TryLock, Calls
  <2> QED
    BY <2>1 DEF M!Next, M!Acquire, Holder
<1>2. ASSUME NEW p \in Proc, UnlockHandle(p) \/ Abandon(p) PROVE M!Next
  <2>1. Holder = {p} /\ Holder' = {}
    BY <1>2, LeaveReleases DEF UnlockHandle, Abandon
  <2> QED
    BY <2>1 DEF M!Next, M!Release, Holder
<1>3. ASSUME NEW p \in Proc, Exit(p), inside[p] = "handle" PROVE M!Next
  <2>1. Holder = {p} /\ Holder' = {}
    BY <1>3, LeaveReleases DEF Exit
  <2> QED
    BY <2>1 DEF M!Next, M!Release, Holder
<1>4. ASSUME NEW p \in Proc, Exit(p), inside[p] # "handle" PROVE Holder' = Holder
  BY <1>4, SameHolder DEF Exit, Goes, IInv, TypeOK
<1>5. ASSUME NEW p \in Proc, LockString(p) \/ UnlockString(p) PROVE Holder' = Holder
  BY <1>5, SameHolder DEF LockString, UnlockString, Calls, Goes, IInv, TypeOK
<1>6. ASSUME NEW p \in Proc, TryLockBusy(p) \/ TestLock(p) \/ Collect(p)
      PROVE  Holder' = Holder
  BY <1>6, SameHolder DEF TryLockBusy, TestLock, Collect
<1>7. CASE UNCHANGED vars
  BY <1>7, SameHolder DEF vars
<1> QED
  BY <1>1, <1>2, <1>3, <1>4, <1>5, <1>6, <1>7 DEF Next

(* The handle interface of hiwifi.lock implements the abstract Mutex: each  *)
(* of its steps acquires, releases or is invisible (lock.lua 27-59).        *)
THEOREM Refinement == Spec => ImplementsMutex
<1>1. Init => Holder = {}
  BY DEF Init, Holder
<1>2. Holder = {p \in Proc : inside[p] = "handle"}
  BY DEF Holder
<1> QED
  BY <1>1, InitIInv, NextIInv, StepSimulation, PTL
     DEF Spec, ImplementsMutex, M!Spec, M!Init, Holder
=============================================================================
