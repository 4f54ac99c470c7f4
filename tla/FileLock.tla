------------------------------ MODULE FileLock ------------------------------
(***************************************************************************)
(* hiwifi.lock (usr/lib/lua/hiwifi/lock.lua): one lock name, used by a set *)
(* of Lua processes through two interfaces.                                *)
(*                                                                         *)
(*   string:  lock(name) ... unlock(name)                                  *)
(*   handle:  h = flock(name) or trylock(name) ... unlock(h)               *)
(*                                                                         *)
(* Both rest on a POSIX record lock on /tmp/lock/<name>.  It belongs to a  *)
(* process, not to an open file, and closing ANY file of that process on   *)
(* the same path gives it up.  do_lock keeps its file in a local variable, *)
(* so the string interface leaves an unreachable open file behind, which   *)
(* the Lua collector closes at a moment of its own.                        *)
(***************************************************************************)
CONSTANTS Proc,            \* processes
          None,            \* "no process"
          Api              \* Api[p]: the functions the program of p calls

Functions == {"lock", "flock", "trylock", "test_lock", "abandon"}

\* The programs of this tree never mix, on one lock name, the handle
\* interface with the functions that leave an unreachable file behind.
ASSUME ApiAssumption ==
  /\ None \notin Proc
  /\ Api \in [Proc -> SUBSET Functions]
  /\ \A p \in Proc : \/ {"flock", "trylock"} \cap Api[p] = {}
                     \/ {"lock", "test_lock"} \cap Api[p] = {}

VARIABLES owner,           \* the process that has the record lock, or None
          open,            \* open[p]: its open files on the path, by kind
          inside           \* inside[p]: where p is in its bracket of calls

vars == <<owner, open, inside>>

\* "kept" is a file the program still refers to, "dropped" one it does not.
\* A process is "out" of the bracket, in it by "string" or by "handle", or
\* has "left": it returned without unlocking and will call nothing more.
TypeOK ==
  /\ owner \in Proc \cup {None}
  /\ open \in [Proc -> {{}, {"kept"}, {"dropped"}}]
  /\ inside \in [Proc -> {"out", "string", "handle", "left"}]

Init ==
  /\ owner = None
  /\ open = [p \in Proc |-> {}]
  /\ inside = [p \in Proc |-> "out"]
-----------------------------------------------------------------------------
Calls(p, f) == inside[p] = "out" /\ f \in Api[p]

Grantable(p) == owner \in {None, p}

\* The lock after p unlocks, or closes any file it has on the path.
Freed(p) == IF owner = p THEN None ELSE owner

Opens(p, kind) == open' = [open EXCEPT ![p] = @ \cup {kind}]

Goes(p, where) == inside' = [inside EXCEPT ![p] = where]

\* lock(name)
LockString(p) ==
  /\ Calls(p, "lock")
  /\ Grantable(p)
  /\ owner' = p
  /\ Opens(p, "dropped")
  /\ Goes(p, "string")

\* Mutant: unlock(name) opens the path but does not release the lock.
UnlockStringKeeps(p) ==
  /\ inside[p] = "string"
  /\ Opens(p, "dropped")
  /\ Goes(p, "out")
  /\ UNCHANGED owner

\* unlock(name) opens the path once more
UnlockString(p) ==
  /\ inside[p] = "string"
  /\ owner' = Freed(p)
  /\ Opens(p, "dropped")
  /\ Goes(p, "out")

\* Mutant: flock keeps its file in a local variable, as do_lock does.
FlockLocalFile(p) ==
  /\ Calls(p, "flock")
  /\ Grantable(p)
  /\ owner' = p
  /\ Opens(p, "dropped")
  /\ Goes(p, "handle")

\* flock(name): the call blocks until the lock can be granted
Flock(p) ==
  /\ Calls(p, "flock")
  /\ Grantable(p)
  /\ owner' = p
  /\ Opens(p, "kept")
  /\ Goes(p, "handle")

\* Mutant: trylock does not look at the result of file:lock("tlock").
TryLockUnchecked(p) ==
  /\ Calls(p, "trylock")
  /\ owner' = IF Grantable(p) THEN p ELSE owner
  /\ Opens(p, "kept")
  /\ Goes(p, "handle")

TryLock(p) ==
  /\ Calls(p, "trylock")
  /\ Grantable(p)
  /\ owner' = p
  /\ Opens(p, "kept")
  /\ Goes(p, "handle")

\* trylock(name) on a busy lock opens the file, closes it and returns nil
TryLockBusy(p) ==
  /\ Calls(p, "trylock")
  /\ ~Grantable(p)
  /\ owner' = Freed(p)
  /\ UNCHANGED <<open, inside>>

\* Mutant: unlock(handle) neither releases the lock nor closes the file.
UnlockHandleNothing(p) ==
  /\ inside[p] = "handle"
  /\ Goes(p, "out")
  /\ UNCHANGED <<owner, open>>

\* unlock(handle)
UnlockHandle(p) ==
  /\ inside[p] = "handle"
  /\ owner' = Freed(p)
  /\ open' = [open EXCEPT ![p] = @ \ {"kept"}]
  /\ Goes(p, "out")

\* Mutant: the early return leaves the handle referenced as well.
AbandonKept(p) ==
  /\ inside[p] = "handle"
  /\ "abandon" \in Api[p]
  /\ Opens(p, "dropped")
  /\ Goes(p, "left")
  /\ UNCHANGED owner

\* mq.process returns 'processing' without unlocking: the handle is dropped
Abandon(p) ==
  /\ inside[p] = "handle"
  /\ "abandon" \in Api[p]
  /\ open' = [open EXCEPT ![p] = {"dropped"}]
  /\ Goes(p, "left")
  /\ UNCHANGED owner

\* test_lock(name) asks for the state of the lock and forgets its file
TestLock(p) ==
  /\ Calls(p, "test_lock")
  /\ Opens(p, "dropped")
  /\ UNCHANGED <<owner, inside>>

\* the Lua collector finalises unreachable files: it closes them
Collect(p) ==
  /\ "dropped" \in open[p]
  /\ open' = [open EXCEPT ![p] = @ \ {"dropped"}]
  /\ owner' = Freed(p)
  /\ UNCHANGED inside

\* the process ends, or is killed, wherever it is; another one takes its name
Exit(p) ==
  /\ open[p] # {} \/ inside[p] # "out"
  /\ owner' = Freed(p)
  /\ open' = [open EXCEPT ![p] = {}]
  /\ Goes(p, "out")

Next ==
  \E p \in Proc :
    \/ LockString(p) \/ UnlockString(p)
    \/ Flock(p) \/ TryLock(p) \/ TryLockBusy(p) \/ UnlockHandle(p) \/ Abandon(p)
    \/ TestLock(p) \/ Collect(p) \/ Exit(p)

Spec == Init /\ [][Next]_vars

\* Every program that holds the lock runs on to its unlock or ends.
Leave(p) ==
  \/ UnlockString(p)
  \/ UnlockHandle(p)
  \/ inside[p] = "left" /\ Exit(p)

FairSpec == Spec /\ \A p \in Proc : WF_vars(Leave(p))
-----------------------------------------------------------------------------
\* No two processes are at once between a successful flock or trylock and
\* the unlock of its handle, whatever other processes do through the string
\* interface and whenever the collector runs (lock.lua 27-59).
HandleExclusion ==
  \A p, q \in Proc : inside[p] = "handle" /\ inside[q] = "handle" => p = q

\* The record lock is never left with a process that is out of its bracket,
\* or that has no open file any more: no lock outlives the program that took
\* it, even one that was killed or forgot to unlock (mq.lua 457-460).
NoOrphanLock ==
  \A p \in Proc : owner = p => inside[p] # "out" /\ open[p] # {}

\* A process inside by the handle interface has the lock and the handle it
\* will unlock: neither the collector nor a busy trylock has taken it away.
HandleOwnsLock ==
  \A p \in Proc : inside[p] = "handle" => owner = p /\ open[p] = {"kept"}

\* Whoever has the lock gives it up in the end, so a blocked flock
\* (wait_download, wait_upgrade) is not blocked for ever by one holder.
HolderLeaves == \A p \in Proc : owner = p ~> owner # p

\* The handle interface implements the mutual exclusion of Mutex.
M == INSTANCE Mutex WITH holder <- {p \in Proc : inside[p] = "handle"}

ImplementsMutex == M!Spec
=============================================================================
