-------------------------------- MODULE Locks --------------------------------
(***************************************************************************)
(* locks-bench/locks.h and the locks whose state is one word: the spin     *)
(* locks of compare_and_swap.h and test_and_set.h, and the pthread mutex   *)
(* and the POSIX semaphore that mutex_lock.h and semaphore_lock.h wrap.    *)
(* The fifth type, TICKET, is TicketLock; what its word says here is that  *)
(* some thread is inside, as in the Mutex that TicketLock implements.      *)
(*                                                                         *)
(* An attempt that fails changes nothing: the compare-and-swap does not    *)
(* write, and the test-and-set writes the 1 that is there. So acquiring is *)
(* the attempt that succeeds.                                              *)
(***************************************************************************)
EXTENDS Naturals

VARIABLES
    lock_type,
    lock   \* the word; of a semaphore, its value

LockTypes == {"COMPARE_AND_SWAP", "TEST_AND_SET", "TICKET", "MUTEX", "SEMAPHORE"}

------------------------------------------------------------------------------
(* The locks, one by one. *)

caslock_init == lock = 0
taslock_init == lock = 0
mutex_init == lock = 0
semaphore_init == lock = 1

\* Mutant: the attempt that fails ends the loop too.
caslock_lock_Once == lock' = 1

\* The compare-and-swap of 0 with 1 that finds 0 and ends the loop.
caslock_lock == lock = 0 /\ lock' = 1

\* The test-and-set that finds 0 and ends the loop.
taslock_lock == lock = 0 /\ lock' = 1

\* pthread_mutex_lock and sem_wait.
mutex_lock == lock = 0 /\ lock' = 1
semaphore_lock == lock > 0 /\ lock' = lock - 1

\* Mutant: unlocking compares, as caslock_destroy does, where it should assign.
caslock_unlock_Compares == lock' = lock

caslock_unlock == lock' = 0
taslock_unlock == lock' = 0
mutex_unlock == lock' = 0

\* Mutant: the semaphore is posted twice.
semaphore_unlock_Twice == lock' = lock + 2

semaphore_unlock == lock' = lock + 1

\* TicketLock, as the Mutex that it implements.
ticket_init == lock = 0
ticket_acquire == lock = 0 /\ lock' = 1
ticket_release == lock' = 0

------------------------------------------------------------------------------
(* The functions of locks.h go to the lock of the type. *)

init_lock ==
    \/ lock_type = "COMPARE_AND_SWAP" /\ caslock_init
    \/ lock_type = "TEST_AND_SET" /\ taslock_init
    \/ lock_type = "TICKET" /\ ticket_init
    \/ lock_type = "MUTEX" /\ mutex_init
    \/ lock_type = "SEMAPHORE" /\ semaphore_init

acquire_lock ==
    \/ lock_type = "COMPARE_AND_SWAP" /\ caslock_lock
    \/ lock_type = "TEST_AND_SET" /\ taslock_lock
    \/ lock_type = "TICKET" /\ ticket_acquire
    \/ lock_type = "MUTEX" /\ mutex_lock
    \/ lock_type = "SEMAPHORE" /\ semaphore_lock

release_lock ==
    \/ lock_type = "COMPARE_AND_SWAP" /\ caslock_unlock
    \/ lock_type = "TEST_AND_SET" /\ taslock_unlock
    \/ lock_type = "TICKET" /\ ticket_release
    \/ lock_type = "MUTEX" /\ mutex_unlock
    \/ lock_type = "SEMAPHORE" /\ semaphore_unlock
=============================================================================
