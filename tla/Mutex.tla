------------------------------- MODULE Mutex -------------------------------
(***************************************************************************)
(* What a lock promises to its users: at most one of them is inside.       *)
(* FileLock implements it for the handle interface of hiwifi.lock, and     *)
(* MessageQueue and Firmware implement it for their own critical sections. *)
(***************************************************************************)
CONSTANT Proc              \* the users of the lock

VARIABLE holder            \* the users inside: empty or a single one

Init == holder = {}

Acquire(p) == holder = {} /\ holder' = {p}

Release(p) == holder = {p} /\ holder' = {}

Next == \E p \in Proc : Acquire(p) \/ Release(p)

Spec == Init /\ [][Next]_holder
=============================================================================
