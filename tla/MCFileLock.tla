----------------------------- MODULE MCFileLock -----------------------------
(* Four users of the handle interface, two of which may return without     *)
(* unlocking, two users of the string interface and one of test_lock.      *)
EXTENDS FileLock

CONSTANTS waiter1, waiter2, runner1, runner2, string1, string2, tester

MCProc == {waiter1, waiter2, runner1, runner2, string1, string2, tester}

MCApi == [p \in MCProc |->
            CASE p \in {waiter1, waiter2} -> {"flock", "trylock"}
              [] p \in {runner1, runner2} -> {"trylock", "abandon"}
              [] p \in {string1, string2} -> {"lock"}
              [] p = tester               -> {"test_lock"}]
=============================================================================
