------------------------------- MODULE Mutex --------------------------------
(***************************************************************************)
(* The recursive mutex of kernel/sync.c on top of the test-and-set         *)
(* spinlock of kernel/spinlock.c, at the grain at which threads can be     *)
(* switched: every access to the mutex between two spinlock operations is  *)
(* a step of its own, and any context may take the next step.              *)
(*                                                                         *)
(* A context is what current_thread is while the code runs: a thread, or   *)
(* NULL for the boot code, which has no PCB.  The calls are made by the    *)
(* environment (module MutexClients: any call in any order; StressTest:    *)
(* the sync stress threads).                                               *)
(***************************************************************************)
EXTENDS Naturals

CONSTANTS Thread,    \* the threads
          NULL,      \* current_thread of the boot code; "no owner"
          RecMod     \* recursion_count is counted modulo this (2^32)

ASSUME MutexAssumption ==
    /\ NULL \notin Thread
    /\ RecMod \in Nat /\ RecMod > 1

VARIABLES locked,            \* mutex->lock.locked
          owner,             \* mutex->owner
          recursion_count,   \* mutex->recursion_count
          pc,                \* where each context is in the call it makes
          ret,               \* what the call is about to return
          depth              \* how often each context holds the mutex, by
                             \* the returns it has seen

mutex_vars == <<locked, owner, recursion_count, pc, ret, depth>>

Context == Thread \cup {NULL}

PC == {"idle", "lock_spin", "lock_test", "backoff", "wait_spin", "wait_test", "take",
       "try_spin", "try_test", "unlock_spin", "unlock_test", "release"}

Result == {"none", "acquired", "failed", "released", "refused"}

\* mutex_init
MutexInit ==
    /\ locked = FALSE
    /\ owner = NULL
    /\ recursion_count = 0
    /\ pc = [c \in Context |-> "idle"]
    /\ ret = [c \in Context |-> "none"]
    /\ depth = [c \in Context |-> 0]

-----------------------------------------------------------------------------
\* spinlock_lock: wait for locked = 0 and exchange.
SpinTo(c, next) ==
    /\ ~locked
    /\ locked' = TRUE
    /\ pc' = [pc EXCEPT ![c] = next]
    /\ UNCHANGED <<owner, recursion_count, ret, depth>>

\* A step between two spinlock operations.
MoveTo(c, next) ==
    /\ pc' = [pc EXCEPT ![c] = next]
    /\ UNCHANGED <<locked, depth>>

\* A context enters one of the three calls.
Call(c, entry) ==
    /\ pc[c] = "idle"
    /\ pc' = [pc EXCEPT ![c] = entry]
    /\ ret' = [ret EXCEPT ![c] = "none"]
    /\ UNCHANGED <<locked, owner, recursion_count, depth>>

\* The recursive branch of mutex_lock and mutex_try_lock.
LockAgain(c) ==
    /\ owner = c
    /\ recursion_count' = (recursion_count + 1) % RecMod
    /\ ret' = [ret EXCEPT ![c] = "acquired"]
    /\ UNCHANGED owner
    /\ MoveTo(c, "release")

lock_spin(c) == pc[c] = "lock_spin" /\ SpinTo(c, "lock_test")

\* Whose mutex is it?  Mine, somebody else's, nobody's.
lock_test(c) ==
    /\ pc[c] = "lock_test"
    /\ \/ LockAgain(c)
       \/ /\ owner # c
          /\ UNCHANGED <<owner, recursion_count, ret>>
          /\ MoveTo(c, IF owner # NULL THEN "backoff" ELSE "take")

\* The body of the wait loop: release the spinlock, yield, take it again.
backoff(c) ==
    /\ pc[c] = "backoff"
    /\ locked' = FALSE
    /\ pc' = [pc EXCEPT ![c] = "wait_spin"]
    /\ UNCHANGED <<owner, recursion_count, ret, depth>>

wait_spin(c) == pc[c] = "wait_spin" /\ SpinTo(c, "wait_test")

\* Mutant: ownership is taken without looking again.
Mut_wait_test(c) ==
    /\ pc[c] = "wait_test"
    /\ UNCHANGED <<owner, recursion_count, ret>>
    /\ MoveTo(c, "take")

\* The condition of the wait loop, after a yield.
wait_test(c) ==
    /\ pc[c] = "wait_test"
    /\ UNCHANGED <<owner, recursion_count, ret>>
    /\ MoveTo(c, IF owner # NULL THEN "backoff" ELSE "take")

\* Mutant: the first acquisition is not counted.
Mut_take(c) ==
    /\ pc[c] = "take"
    /\ owner' = c
    /\ ret' = [ret EXCEPT ![c] = "acquired"]
    /\ UNCHANGED recursion_count
    /\ MoveTo(c, "release")

\* Acquire ownership.
take(c) ==
    /\ pc[c] = "take"
    /\ owner' = c
    /\ recursion_count' = 1
    /\ ret' = [ret EXCEPT ![c] = "acquired"]
    /\ MoveTo(c, "release")

\* mutex_try_lock gives up when the spinlock is taken.
try_spin(c) ==
    /\ pc[c] = "try_spin"
    /\ \/ SpinTo(c, "try_test")
       \/ /\ locked
          /\ pc' = [pc EXCEPT ![c] = "idle"]
          /\ ret' = [ret EXCEPT ![c] = "failed"]
          /\ UNCHANGED <<locked, owner, recursion_count, depth>>

\* Mutant: mutex_try_lock returns 0 with the spinlock held.
Mut_try_test(c) ==
    /\ pc[c] = "try_test"
    /\ \/ LockAgain(c)
       \/ /\ owner # c /\ owner # NULL
          /\ ret' = [ret EXCEPT ![c] = "failed"]
          /\ UNCHANGED <<owner, recursion_count>>
          /\ MoveTo(c, "idle")
       \/ /\ owner # c /\ owner = NULL
          /\ UNCHANGED <<owner, recursion_count, ret>>
          /\ MoveTo(c, "take")

try_test(c) ==
    /\ pc[c] = "try_test"
    /\ \/ LockAgain(c)
       \/ /\ owner # c /\ owner # NULL
          /\ ret' = [ret EXCEPT ![c] = "failed"]
          /\ UNCHANGED <<owner, recursion_count>>
          /\ MoveTo(c, "release")
       \/ /\ owner # c /\ owner = NULL
          /\ UNCHANGED <<owner, recursion_count, ret>>
          /\ MoveTo(c, "take")

unlock_spin(c) == pc[c] = "unlock_spin" /\ SpinTo(c, "unlock_test")

\* Mutant: the count is tested before it is decremented.
Mut_keep_owner(c) ==
    /\ pc[c] = "unlock_test"
    /\ \/ /\ owner # c
          /\ ret' = [ret EXCEPT ![c] = "refused"]
          /\ UNCHANGED <<owner, recursion_count>>
       \/ /\ owner = c
          /\ recursion_count' = (recursion_count + RecMod - 1) % RecMod
          /\ owner' = IF recursion_count = 0 THEN NULL ELSE owner
          /\ ret' = [ret EXCEPT ![c] = "released"]
    /\ MoveTo(c, "release")

\* Only the owner unlocks; the last unlock gives the mutex up.
unlock_test(c) ==
    /\ pc[c] = "unlock_test"
    /\ \/ /\ owner # c
          /\ ret' = [ret EXCEPT ![c] = "refused"]
          /\ UNCHANGED <<owner, recursion_count>>
       \/ /\ owner = c
          /\ recursion_count' = (recursion_count + RecMod - 1) % RecMod
          /\ owner' = IF recursion_count' = 0 THEN NULL ELSE owner
          /\ ret' = [ret EXCEPT ![c] = "released"]
    /\ MoveTo(c, "release")

\* spinlock_unlock and the return to the caller, who counts what it holds.
release(c) ==
    /\ pc[c] = "release"
    /\ locked' = FALSE
    /\ pc' = [pc EXCEPT ![c] = "idle"]
    /\ depth' = [depth EXCEPT ![c] =
                   CASE ret[c] = "acquired" -> @ + 1
                     [] ret[c] = "released" /\ @ > 0 -> @ - 1
                     [] OTHER -> @]
    /\ UNCHANGED <<owner, recursion_count, ret>>

\* A step of a context inside a call.
Step(c) ==
    \/ lock_spin(c) \/ lock_test(c) \/ backoff(c) \/ wait_spin(c) \/ wait_test(c)
    \/ take(c) \/ try_spin(c) \/ try_test(c) \/ unlock_spin(c) \/ unlock_test(c)
    \/ release(c)

-----------------------------------------------------------------------------
\* Every variable has its type.
MutexTypeOK ==
    /\ locked \in BOOLEAN
    /\ owner \in Context
    /\ recursion_count \in 0 .. RecMod - 1
    /\ pc \in [Context -> PC]
    /\ ret \in [Context -> Result]
    /\ depth \in [Context -> Nat]

\* Contexts between spinlock_lock and spinlock_unlock.
InsideSpin(c) ==
    pc[c] \in {"lock_test", "backoff", "wait_test", "take", "try_test", "unlock_test", "release"}

\* Two threads never both hold the mutex, whatever mixture of lock,
\* try_lock and unlock (of a mutex one does not own, too) the contexts run.
MutualExclusion ==
    \A t, u \in Thread : depth[t] > 0 /\ depth[u] > 0 => t = u

\* Between calls a thread's view of the mutex is the mutex's own: it holds
\* it n times, n > 0, exactly when it is the owner with recursion_count n.
\* Ownership is neither lost nor left behind after the last unlock.
OwnershipMatches ==
    \A t \in Thread : pc[t] = "idle" =>
        /\ owner = t <=> depth[t] > 0
        /\ owner = t => recursion_count = depth[t] % RecMod

\* Every return path of the three calls releases the spinlock.
SpinlockReleased == locked ~> ~locked
=============================================================================
