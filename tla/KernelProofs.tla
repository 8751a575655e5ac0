---------------------------- MODULE KernelProofs ----------------------------
(***************************************************************************)
(* The mutex with the threads of the stress test, and the kernel heap.     *)
(***************************************************************************)
EXTENDS StressTest, Heap, FiniteSetTheorems, TLAPS

-----------------------------------------------------------------------------
(***************************************************************************)
(* Mutual exclusion of the recursive mutex, for any number of threads, any *)
(* nesting below 2^32 and any mixture of calls.                            *)
(*                                                                         *)
(* MutualExclusion alone is not inductive.  The argument has two layers:   *)
(* at most one context is between spinlock_lock and spinlock_unlock        *)
(* (SpinExclusion), so only that one changes owner and recursion_count;    *)
(* and at each place of the three calls the caller's own count (depth)     *)
(* stands in a known relation to owner and recursion_count (Agrees).       *)
(*                                                                         *)
(* The threads of the stress test keep the same invariant, and under it    *)
(* lose no increment (NoLostUpdate).                                       *)
(***************************************************************************)

\* The spinlock protects the sections it brackets: what a context has seen
\* of the owner is still so when it acts on it.
SpinExclusion ==
    /\ \A c \in Context : InsideSpin(c) => locked
    /\ \A c \in Context : pc[c] = "take" => owner = NULL
    /\ \A c, d \in Context : InsideSpin(c) /\ InsideSpin(d) => c = d

\* The mutex's record of thread t is right, with n acquisitions to its name.
Holds(t, n) ==
    /\ owner = t <=> n > 0
    /\ owner = t => recursion_count = n

\* What thread t knows about the mutex at each place of a call.
Agrees(t) ==
    /\ pc[t] \in {"idle", "lock_spin", "lock_test", "try_spin", "try_test",
                  "unlock_spin", "unlock_test", "backoff", "wait_spin", "wait_test", "take"}
         => Holds(t, depth[t])
    /\ pc[t] \in {"backoff", "wait_spin", "wait_test", "take"} => depth[t] = 0
    /\ pc[t] = "release" =>
         /\ ret[t] = "acquired" => Holds(t, depth[t] + 1)
         /\ ret[t] = "released" => depth[t] > 0 /\ Holds(t, depth[t] - 1)
         /\ ret[t] = "released" /\ depth[t] = 1 => owner = NULL
         /\ ret[t] \notin {"acquired", "released"} => Holds(t, depth[t])

\* Nesting stays below the bound, with room for the call in progress.
Bounded(t) ==
    /\ depth[t] <= MaxDepth
    /\ pc[t] \in {"lock_spin", "lock_test", "try_spin", "try_test",
                  "backoff", "wait_spin", "wait_test", "take"} => depth[t] < MaxDepth
    /\ pc[t] = "release" /\ ret[t] = "acquired" => depth[t] < MaxDepth

Inv ==
    /\ MutexTypeOK
    /\ SpinExclusion
    /\ \A t \in Thread : Agrees(t) /\ Bounded(t)

-----------------------------------------------------------------------------
LEMMA ModSmall ==
    ASSUME NEW a \in Nat, NEW m \in Nat, a < m
    PROVE  a % m = a
  BY SMT

LEMMA ModRange ==
    ASSUME NEW a \in Nat, NEW m \in Nat, m > 0
    PROVE  a % m \in 0 .. m - 1
  BY SMT

LEMMA ModDown ==
    ASSUME NEW a \in Nat, NEW m \in Nat, a > 0, a < m
    PROVE  (a + m - 1) % m = a - 1
  BY SMT

-----------------------------------------------------------------------------
\* Every step keeps the types.
LEMMA TypeStep ==
    ASSUME MutexTypeOK, NEW c \in Context, Caller(c) \/ Step(c)
    PROVE  MutexTypeOK'
  <1> USE MutexAssumption, ModRange DEF MutexTypeOK, Context, PC, Result
  <1>1. CASE Caller(c)
    BY <1>1 DEF Caller, Call
  <1>2. CASE lock_spin(c)
    BY <1>2 DEF lock_spin, SpinTo
  <1>3. CASE lock_test(c)
    BY <1>3 DEF lock_test, LockAgain, MoveTo
  <1>4. CASE backoff(c)
    BY <1>4 DEF backoff
  <1>5. CASE wait_spin(c)
    BY <1>5 DEF wait_spin, SpinTo
  <1>6. CASE wait_test(c)
    BY <1>6 DEF wait_test, MoveTo
  <1>7. CASE take(c)
    BY <1>7 DEF take, MoveTo
  <1>8. CASE try_spin(c)
    BY <1>8 DEF try_spin, SpinTo
  <1>9. CASE try_test(c)
    BY <1>9 DEF try_test, LockAgain, MoveTo
  <1>10. CASE unlock_spin(c)
    BY <1>10 DEF unlock_spin, SpinTo
  <1>11. CASE unlock_test(c)
    BY <1>11 DEF unlock_test, MoveTo
  <1>12. CASE release(c)
    <2> DEFINE n == CASE ret[c] = "acquired" -> depth[c] + 1
                      [] ret[c] = "released" /\ depth[c] > 0 -> depth[c] - 1
                      [] OTHER -> depth[c]
    <2>1. n \in Nat
      <3>1. depth[c] \in Nat
        OBVIOUS
      <3> QED
        BY <3>1
    <2>2. depth' = [depth EXCEPT ![c] = n]
      BY <1>12 DEF release
    <2> HIDE DEF n
    <2> QED
      BY <1>12, <2>1, <2>2 DEF release
  <1>13. QED
    BY <1>1, <1>2, <1>3, <1>4, <1>5, <1>6, <1>7, <1>8, <1>9, <1>10, <1>11, <1>12 DEF Step

\* Every step keeps the spinlock exclusive.
LEMMA SpinStep ==
    ASSUME MutexTypeOK, SpinExclusion, NEW c \in Context, Caller(c) \/ Step(c)
    PROVE  SpinExclusion'
  <1> USE DEF MutexTypeOK, SpinExclusion, InsideSpin
  <1>1. CASE Caller(c)
    BY <1>1 DEF Caller, Call
  <1>2. CASE lock_spin(c)
    BY <1>2 DEF lock_spin, SpinTo
  <1>3. CASE lock_test(c)
    BY <1>3 DEF lock_test, LockAgain, MoveTo
  <1>4. CASE backoff(c)
    BY <1>4 DEF backoff
  <1>5. CASE wait_spin(c)
    BY <1>5 DEF wait_spin, SpinTo
  <1>6. CASE wait_test(c)
    BY <1>6 DEF wait_test, MoveTo
  <1>7. CASE take(c)
    BY <1>7 DEF take, MoveTo
  <1>8. CASE try_spin(c)
    BY <1>8 DEF try_spin, SpinTo
  <1>9. CASE try_test(c)
    BY <1>9 DEF try_test, LockAgain, MoveTo
  <1>10. CASE unlock_spin(c)
    BY <1>10 DEF unlock_spin, SpinTo
  <1>11. CASE unlock_test(c)
    BY <1>11 DEF unlock_test, MoveTo
  <1>12. CASE release(c)
    BY <1>12 DEF release
  <1>13. QED
    BY <1>1, <1>2, <1>3, <1>4, <1>5, <1>6, <1>7, <1>8, <1>9, <1>10, <1>11, <1>12 DEF Step

\* A thread outside the spinlock is not disturbed by a change of a mutex
\* that neither was nor becomes its own.
LEMMA Undisturbed ==
    ASSUME NEW t \in Thread, Agrees(t), Bounded(t), ~InsideSpin(t),
           owner # t, owner' # t,
           pc'[t] = pc[t], ret'[t] = ret[t], depth'[t] = depth[t]
    PROVE  (Agrees(t) /\ Bounded(t))'
  BY DEF Agrees, Bounded, Holds, InsideSpin

\* The recursive branch: the owner counts one more.
LEMMA LockAgainStep ==
    ASSUME Inv, NEW c \in Context, NEW t \in Thread, LockAgain(c),
           pc[c] \in {"lock_test", "try_test"}
    PROVE  (Agrees(t) /\ Bounded(t))'
  <1> USE MutexAssumption, DepthAssumption
  <1>0. /\ MutexTypeOK /\ Agrees(t) /\ Bounded(t) /\ t \in Context
        /\ InsideSpin(c)
        /\ InsideSpin(c) /\ InsideSpin(t) => c = t
    BY DEF Inv, SpinExclusion, Context, InsideSpin
  <1>1. CASE c = t
    <2>1. /\ owner = t /\ owner' = t /\ depth' = depth
          /\ recursion_count' = (recursion_count + 1) % RecMod
          /\ pc'[t] = "release" /\ ret'[t] = "acquired"
      BY <1>0, <1>1 DEF LockAgain, MoveTo, MutexTypeOK
    <2>2. recursion_count = depth[t] /\ depth[t] < MaxDepth /\ depth[t] \in Nat
      BY <1>0, <1>1, <2>1 DEF Agrees, Bounded, Holds, MutexTypeOK
    <2>3. recursion_count' = depth[t] + 1
      BY <2>1, <2>2, ModSmall
    <2> QED
      BY <2>1, <2>2, <2>3 DEF Agrees, Bounded, Holds
  <1>2. CASE c # t
    <2>1. owner # t /\ owner' # t
      BY <1>2 DEF LockAgain
    <2>2. pc'[t] = pc[t] /\ ret'[t] = ret[t] /\ depth'[t] = depth[t]
      BY <1>0, <1>2 DEF LockAgain, MoveTo, MutexTypeOK
    <2> QED
      BY <1>0, <1>2, <2>1, <2>2, Undisturbed
  <1> QED
    BY <1>1, <1>2

\* Every step of a context keeps what each thread knows: the one that moves,
\* because of what it does; the others, because it is inside the spinlock
\* when it changes the mutex, and the mutex is not theirs.
LEMMA AgreeStep ==
    ASSUME Inv, NEW c \in Context, Caller(c) \/ Step(c), NEW t \in Thread
    PROVE  (Agrees(t) /\ Bounded(t))'
  <1> USE MutexAssumption, DepthAssumption
  <1>0. /\ MutexTypeOK /\ Agrees(t) /\ Bounded(t)
        /\ c \in Thread => Agrees(c) /\ Bounded(c)
        /\ InsideSpin(c) /\ InsideSpin(t) => c = t
        /\ t \in Context
    BY DEF Inv, SpinExclusion, Context
  <1>1. CASE Caller(c)
    BY <1>0, <1>1 DEF Caller, Call, MutexTypeOK, Agrees, Bounded, Holds
  <1>2. CASE lock_spin(c)
    BY <1>0, <1>2 DEF lock_spin, SpinTo, MutexTypeOK, Agrees, Bounded, Holds, InsideSpin, Context
  <1>3. CASE lock_test(c)
    <2>1. CASE LockAgain(c)
      BY <1>3, <2>1, LockAgainStep DEF lock_test
    <2>2. CASE ~LockAgain(c)
      BY <1>0, <1>3, <2>2 DEF lock_test, MoveTo, MutexTypeOK, Agrees, Bounded, Holds, Context
    <2> QED
      BY <2>1, <2>2
  <1>4. CASE backoff(c)
    BY <1>0, <1>4 DEF backoff, MutexTypeOK, Agrees, Bounded, Holds, InsideSpin, Context
  <1>5. CASE wait_spin(c)
    BY <1>0, <1>5 DEF wait_spin, SpinTo, MutexTypeOK, Agrees, Bounded, Holds, InsideSpin, Context
  <1>6. CASE wait_test(c)
    BY <1>0, <1>6 DEF wait_test, MoveTo, MutexTypeOK, Agrees, Bounded, Holds, InsideSpin, Context
  <1>7. CASE take(c)
    <2>1. CASE c = t
      <3>1. /\ depth[t] = 0 /\ depth[t] < MaxDepth /\ depth' = depth /\ owner' = t
            /\ recursion_count' = 1 /\ pc'[t] = "release" /\ ret'[t] = "acquired"
        BY <1>0, <1>7, <2>1 DEF take, MoveTo, MutexTypeOK, Agrees, Bounded
      <3> QED
        BY <3>1 DEF Agrees, Bounded, Holds
    <2>2. CASE c # t
      <3>1. owner # t
        BY <1>7 DEF Inv, SpinExclusion, take
      <3>2. /\ owner' # t /\ ~InsideSpin(t)
            /\ pc'[t] = pc[t] /\ ret'[t] = ret[t] /\ depth'[t] = depth[t]
        BY <1>0, <1>7, <2>2 DEF take, MoveTo, MutexTypeOK, InsideSpin
      <3> QED
        BY <1>0, <3>1, <3>2, Undisturbed
    <2> QED
      BY <2>1, <2>2
  <1>8. CASE try_spin(c)
    BY <1>0, <1>8 DEF try_spin, SpinTo, MutexTypeOK, Agrees, Bounded, Holds, InsideSpin, Context
  <1>9. CASE try_test(c)
    <2>1. CASE LockAgain(c)
      BY <1>9, <2>1, LockAgainStep DEF try_test
    <2>2. CASE ~LockAgain(c)
      BY <1>0, <1>9, <2>2 DEF try_test, MoveTo, MutexTypeOK, Agrees, Bounded, Holds, Context
    <2> QED
      BY <2>1, <2>2
  <1>10. CASE unlock_spin(c)
    BY <1>0, <1>10 DEF unlock_spin, SpinTo, MutexTypeOK, Agrees, Bounded, Holds, InsideSpin, Context
  <1>11. CASE unlock_test(c)
    <2>0. /\ depth' = depth /\ pc' = [pc EXCEPT ![c] = "release"]
          /\ pc[c] = "unlock_test"
      BY <1>11 DEF unlock_test, MoveTo
    <2>1. CASE owner # c
      BY <1>0, <1>11, <2>0, <2>1 DEF unlock_test, MutexTypeOK, Agrees, Bounded, Holds
    <2>2. CASE owner = c /\ c = t
      <3>1. /\ recursion_count' = (recursion_count + RecMod - 1) % RecMod
            /\ owner' = IF recursion_count' = 0 THEN NULL ELSE owner
            /\ pc'[t] = "release" /\ ret'[t] = "released"
        BY <1>0, <1>11, <2>0, <2>2 DEF unlock_test, MutexTypeOK
      <3>2. /\ recursion_count = depth[t] /\ depth[t] > 0
            /\ depth[t] <= MaxDepth /\ depth[t] \in Nat
        BY <1>0, <2>0, <2>2 DEF Agrees, Bounded, Holds, MutexTypeOK
      <3>3. recursion_count' = depth[t] - 1
        BY <3>1, <3>2, ModDown
      <3> QED
        BY <2>0, <2>2, <3>1, <3>2, <3>3 DEF Agrees, Bounded, Holds
    <2>3. CASE owner = c /\ c # t
      <3>1. /\ owner # t /\ owner' # t /\ ~InsideSpin(t)
            /\ pc'[t] = pc[t] /\ ret'[t] = ret[t] /\ depth'[t] = depth[t]
        BY <1>0, <1>11, <2>0, <2>3 DEF unlock_test, MutexTypeOK, InsideSpin
      <3> QED
        BY <1>0, <3>1, Undisturbed
    <2> QED
      BY <2>1, <2>2, <2>3
  <1>12. CASE release(c)
    BY <1>0, <1>12 DEF release, MutexTypeOK, Agrees, Bounded, Holds, InsideSpin, Context
  <1>13. QED
    BY <1>1, <1>2, <1>3, <1>4, <1>5, <1>6, <1>7, <1>8, <1>9, <1>10, <1>11, <1>12 DEF Step

LEMMA Inductive ==
    ASSUME Inv, [Next]_mutex_vars
    PROVE  Inv'
  <1>1. CASE UNCHANGED mutex_vars
    BY <1>1 DEF Inv, mutex_vars, MutexTypeOK, SpinExclusion, Agrees, Bounded, Holds, InsideSpin
  <1>2. CASE Next
    <2> PICK c \in Context : Caller(c) \/ Step(c)
      BY <1>2 DEF Next
    <2> QED
      BY TypeStep, SpinStep, AgreeStep DEF Inv
  <1> QED
    BY <1>1, <1>2

LEMMA InvInit == MutexInit => Inv
  <1> SUFFICES ASSUME MutexInit PROVE Inv
    OBVIOUS
  <1> USE MutexAssumption, DepthAssumption
  <1>1. MutexTypeOK
    <2>1. locked \in BOOLEAN
      BY ZenonT(10) DEF MutexInit
    <2> QED
      BY <2>1 DEF MutexInit, MutexTypeOK, Context, PC, Result
  <1>2. SpinExclusion
    BY DEF MutexInit, SpinExclusion, InsideSpin
  <1>3. \A t \in Thread : Agrees(t) /\ Bounded(t)
    BY DEF MutexInit, Agrees, Bounded, Holds, Context
  <1> QED
    BY <1>1, <1>2, <1>3 DEF Inv

\* The inductive invariant of sync.c under any callers.
THEOREM Invariance == Spec => []Inv
  BY InvInit, Inductive, PTL DEF Spec

\* Two threads are never both between the return of mutex_lock and the call
\* of mutex_unlock.
LEMMA OneInside ==
    ASSUME Inv, NEW t \in Thread, NEW u \in Thread, depth[t] > 0, depth[u] > 0
    PROVE  t = u
  <1>1. /\ Agrees(t) /\ Agrees(u) /\ MutexTypeOK
        /\ t \in Context /\ u \in Context
        /\ pc[t] = "release" /\ pc[u] = "release" => t = u
    BY DEF Inv, SpinExclusion, InsideSpin, Context
  <1> QED
    BY <1>1, MutexAssumption DEF Agrees, Holds, MutexTypeOK, PC

\* Whatever calls the threads and the boot code make, and however their
\* steps interleave, two threads never both hold the mutex.
THEOREM MutexExcludes == Spec => []MutualExclusion
  <1>1. Inv => MutualExclusion
    BY OneInside DEF MutualExclusion
  <1> QED
    BY <1>1, Invariance, PTL

\* Between its calls a thread that holds the mutex is its owner, with its
\* own count; and a thread that does not is not.
THEOREM OwnershipIsRight == Spec => []OwnershipMatches
  <1>1. Inv => OwnershipMatches
    BY ModSmall, DepthAssumption, MutexAssumption
       DEF Inv, Agrees, Bounded, Holds, OwnershipMatches, MutexTypeOK, Context
  <1> QED
    BY <1>1, Invariance, PTL

\* The mutex's fields, and what each context is doing, stay within their
\* types.
THEOREM MutexTypes == Spec => []MutexTypeOK
  <1>1. Inv => MutexTypeOK
    BY DEF Inv
  <1> QED
    BY <1>1, Invariance, PTL

-----------------------------------------------------------------------------
(***************************************************************************)
(* The stress threads.  That no increment is lost needs the mutex's own    *)
(* invariant (two threads are never both past mutex_lock), where each      *)
(* thread is in its calls and how often it holds the mutex at each place   *)
(* of the loop (InTurn), and that the value in the register is the         *)
(* counter's until it is stored.                                           *)
(***************************************************************************)
Place == {"top", "locking", "load", "store", "stored", "unlocking", "client"}

StressTypeOK ==
    /\ shared_counter \in Nat
    /\ at \in [Thread -> Place]
    /\ i \in [Thread -> Nat]
    /\ loaded \in [Thread -> Nat]

\* The call a stress thread is in, and its count of the mutex.
InTurn(t) ==
    /\ at[t] = "top" => pc[t] = "idle" /\ depth[t] = 0
    /\ at[t] = "locking" =>
         \/ depth[t] = 0 /\ pc[t] \in {"lock_spin", "lock_test", "backoff",
                                       "wait_spin", "wait_test", "take"}
         \/ depth[t] = 0 /\ pc[t] = "release" /\ ret[t] = "acquired"
         \/ depth[t] = 1 /\ pc[t] = "idle"
    /\ at[t] \in {"load", "store", "stored"} => pc[t] = "idle" /\ depth[t] = 1
    /\ at[t] = "unlocking" =>
         \/ depth[t] = 1 /\ pc[t] \in {"unlock_spin", "unlock_test"}
         \/ depth[t] = 1 /\ pc[t] = "release" /\ ret[t] = "released"
         \/ depth[t] = 0 /\ pc[t] = "idle"

\* The rounds of a thread, and the register it increments.
Counted(t) ==
    /\ i[t] <= Iterations
    /\ at[t] \in {"locking", "load", "store", "stored", "unlocking"} => i[t] < Iterations
    /\ at[t] = "store" => loaded[t] = shared_counter

\* A behaviour has one of the two workloads.
OneWorkload == \A t, u \in Thread : at[t] = "client" => at[u] = "client"

StressInv ==
    /\ Inv
    /\ StressTypeOK
    /\ OneWorkload
    /\ \A t \in Thread : InTurn(t) /\ Counted(t)
    /\ NoLostUpdate

\* What a step of the mutex does to thread t's place in the loop: nothing,
\* if another context makes it, and the next place in its call, if it does.
LEMMA PlacedStep ==
    ASSUME Inv, StressTypeOK, NEW t \in Thread, InTurn(t), at[t] # "client",
           NEW c \in Context, Step(c), UNCHANGED at
    PROVE  InTurn(t)'
  <1>0. /\ MutexTypeOK /\ Agrees(t) /\ t \in Context
        /\ at[t] \in Place
    BY DEF Inv, StressTypeOK, Context
  <1>1. CASE c # t
    <2>1. pc'[t] = pc[t] /\ ret'[t] = ret[t] /\ depth'[t] = depth[t]
      BY <1>0, <1>1 DEF Step, lock_spin, lock_test, backoff, wait_spin, wait_test, take,
         try_spin, try_test, unlock_spin, unlock_test, release, SpinTo, MoveTo, LockAgain,
         MutexTypeOK
    <2> QED
      BY <2>1 DEF InTurn
  <1>2. CASE c = t
    <2>1. CASE at[t] = "locking"
      <3>1. depth[t] = 0 \/ pc[t] = "idle"
        BY <2>1 DEF InTurn
      <3>2. owner # t \/ pc[t] \in {"idle", "release"}
        BY <1>0, <2>1, <3>1 DEF InTurn, Agrees, Holds
      <3>3. CASE pc[t] = "release"
        <4>1. depth[t] = 0 /\ ret[t] = "acquired"
          BY <2>1, <3>3 DEF InTurn
        <4>2. pc'[t] = "idle" /\ depth'[t] = 1
          BY <1>0, <1>2, <3>3, <4>1 DEF Step, lock_spin, lock_test, backoff, wait_spin,
             wait_test, take, try_spin, try_test, unlock_spin, unlock_test, release, MutexTypeOK
        <4> QED
          BY <2>1, <4>2 DEF InTurn
      <3>4. CASE pc[t] # "release"
        BY <1>0, <1>2, <2>1, <3>2, <3>4 DEF InTurn, Step, lock_spin, lock_test, backoff,
           wait_spin, wait_test, take, try_spin, try_test, unlock_spin, unlock_test, release,
           SpinTo, MoveTo, LockAgain, MutexTypeOK
      <3> QED
        BY <3>3, <3>4
    <2>2. CASE at[t] = "unlocking"
      <3>1. CASE pc[t] = "release"
        <4>1. depth[t] = 1 /\ ret[t] = "released"
          BY <2>2, <3>1 DEF InTurn
        <4>2. pc'[t] = "idle" /\ depth'[t] = 0
          BY <1>0, <1>2, <3>1, <4>1 DEF Step, lock_spin, lock_test, backoff, wait_spin,
             wait_test, take, try_spin, try_test, unlock_spin, unlock_test, release, MutexTypeOK
        <4> QED
          BY <2>2, <4>2 DEF InTurn
      <3>2. CASE pc[t] = "unlock_test"
        <4>1. depth[t] = 1 /\ owner = t
          BY <1>0, <2>2, <3>2 DEF InTurn, Agrees, Holds
        <4>2. pc'[t] = "release" /\ ret'[t] = "released" /\ depth'[t] = 1
          BY <1>0, <1>2, <3>2, <4>1 DEF Step, lock_spin, lock_test, backoff, wait_spin,
             wait_test, take, try_spin, try_test, unlock_spin, unlock_test, release, MoveTo,
             MutexTypeOK
        <4> QED
          BY <2>2, <4>2 DEF InTurn
      <3>3. CASE pc[t] \notin {"release", "unlock_test"}
        BY <1>0, <1>2, <2>2, <3>3 DEF InTurn, Step, lock_spin, lock_test, backoff,
           wait_spin, wait_test, take, try_spin, try_test, unlock_spin, unlock_test, release,
           SpinTo, MutexTypeOK
      <3> QED
        BY <3>1, <3>2, <3>3
    <2>3. CASE at[t] \in {"top", "load", "store", "stored"}
      BY <1>2, <2>3 DEF InTurn, Step, lock_spin, lock_test, backoff, wait_spin, wait_test,
         take, try_spin, try_test, unlock_spin, unlock_test, release
    <2> QED
      BY <1>0, <2>1, <2>2, <2>3 DEF Place
  <1> QED
    BY <1>1, <1>2

\* Every step of the stress run keeps the mutex's invariant.
LEMMA StressMutexStep ==
    ASSUME StressInv, StressNext
    PROVE  Inv'
  <1>0. Inv /\ Thread \subseteq Context /\ Callers \subseteq Context
    BY StressAssumption DEF StressInv, Context
  <1>1. ASSUME NEW c \in Context, Caller(c) \/ Step(c)
        PROVE  Inv'
    BY <1>0, <1>1, TypeStep, SpinStep, AgreeStep DEF Inv
  <1>2. ASSUME UNCHANGED mutex_vars
        PROVE  Inv'
    BY <1>0, <1>2 DEF Inv, mutex_vars, MutexTypeOK, SpinExclusion, Agrees, Bounded, Holds,
       InsideSpin
  <1>3. ASSUME NEW t \in Thread, sync_stress_thread(t)
        PROVE  Inv'
    <2>1. CASE enter(t)
      <3>1. depth[t] = 0
        BY <2>1 DEF enter, StressInv, InTurn
      <3>2. Caller(t)
        BY <2>1, <3>1, StressAssumption DEF enter, Caller
      <3> QED
        BY <1>0, <1>1, <3>2
    <2>2. CASE leave(t)
      BY <1>0, <1>1, <2>2 DEF leave, Caller
    <2>3. CASE read_old(t) \/ inc_load(t) \/ inc_store(t) \/ verify(t)
      BY <1>2, <2>3 DEF read_old, inc_load, inc_store, verify
    <2>4. CASE Step(t)
      BY <1>0, <1>1, <2>4
    <2> QED
      BY <1>3, <2>1, <2>2, <2>3, <2>4 DEF sync_stress_thread
  <1>4. ASSUME NEW c \in Callers, client_step(c) \/ client_call(c)
        PROVE  Inv'
    BY <1>0, <1>1, <1>4 DEF client_step, client_call
  <1>5. CASE Done
    BY <1>2, <1>5 DEF Done, vars
  <1> QED
    BY <1>3, <1>4, <1>5 DEF StressNext

\* The set of stores is finite, and a store is one more than the others.
LEMMA StoresFinite == IsFiniteSet(Stores)
  <1>1. IsFiniteSet(1 .. Iterations)
    BY StressAssumption, FS_Interval
  <1>2. IsFiniteSet(Thread \X (1 .. Iterations))
    BY <1>1, StressAssumption, FS_Product
  <1>3. Stores \in SUBSET (Thread \X (1 .. Iterations))
    BY DEF Stores
  <1> QED
    BY <1>2, <1>3, FS_Subset

LEMMA OneStoreMore ==
    ASSUME StressInv, NEW t \in Thread, inc_store(t)
    PROVE  Cardinality(Stores') = Cardinality(Stores) + 1
  <1> DEFINE s == <<t, i[t] + 1>>
  <1>1. /\ StressTypeOK /\ at[t] = "store" /\ i[t] \in Nat /\ i[t] < Iterations
        /\ at' = [at EXCEPT ![t] = "stored"] /\ i' = i
    BY DEF StressInv, StressTypeOK, Counted, inc_store, Goto
  <1>2. /\ Stored(t) = i[t] /\ Stored(t)' = i[t] + 1
        /\ \A u \in Thread \ {t} : Stored(u)' = Stored(u)
    BY <1>1 DEF Stored, StressTypeOK
  <1>3. s \in Thread \X (1 .. Iterations) /\ s \notin Stores
    BY <1>1, <1>2, StressAssumption DEF Stores
  <1>4. Stores' = Stores \cup {s}
    <2>1. \A r \in Thread \X (1 .. Iterations) :
             r[2] <= Stored(r[1])' <=> r[2] <= Stored(r[1]) \/ r = s
      <3> TAKE r \in Thread \X (1 .. Iterations)
      <3>1. r[1] \in Thread /\ r[2] \in Nat /\ r = <<r[1], r[2]>>
        OBVIOUS
      <3>2. CASE r[1] = t
        BY <1>1, <1>2, <3>1, <3>2
      <3>3. CASE r[1] # t
        BY <1>2, <3>1, <3>3
      <3> QED
        BY <3>2, <3>3
    <2>2. Stores' = {r \in Thread \X (1 .. Iterations) : r[2] <= Stored(r[1])'}
      BY DEF Stores
    <2> QED
      BY <1>3, <2>1, <2>2 DEF Stores
  <1> QED
    BY <1>3, <1>4, StoresFinite, FS_AddElement

\* The step that ends a round moves a store from its place to the count of
\* rounds; the other steps leave the stores alone.
LEMMA SameStores ==
    ASSUME \A t \in Thread : Stored(t)' = Stored(t)
    PROVE  Stores' = Stores
  <1>1. Stores' = {r \in Thread \X (1 .. Iterations) : r[2] <= Stored(r[1])'}
    BY DEF Stores
  <1>2. \A r \in Thread \X (1 .. Iterations) : Stored(r[1])' = Stored(r[1])
    OBVIOUS
  <1> QED
    BY <1>1, <1>2 DEF Stores

\* A step of a context inside a call, or a call of the other workload.
LEMMA StressCallStep ==
    ASSUME StressInv, Inv', UNCHANGED stress_locals,
           NEW c \in Context, Step(c) \/ Clients
    PROVE  StressInv'
  <1>0. /\ StressTypeOK' /\ OneWorkload' /\ at' = at
        /\ \A t \in Thread : Counted(t)' /\ Stored(t)' = Stored(t)
    BY DEF StressInv, stress_locals, StressTypeOK, OneWorkload, Counted, Stored
  <1>1. NoLostUpdate'
    BY <1>0, SameStores DEF StressInv, NoLostUpdate, stress_locals
  <1>2. ASSUME NEW t \in Thread PROVE InTurn(t)'
    <2>1. CASE at[t] = "client"
      BY <1>0, <2>1 DEF InTurn
    <2>2. CASE at[t] # "client"
      BY <1>0, <2>2, PlacedStep DEF StressInv, Clients
    <2> QED
      BY <2>1, <2>2
  <1> QED
    BY <1>0, <1>1, <1>2 DEF StressInv

\* A step of a stress thread in its own code.
LEMMA StressLoopStep ==
    ASSUME StressInv, Inv', NEW t \in Thread,
           \/ enter(t) \/ read_old(t) \/ inc_load(t) \/ inc_store(t) \/ leave(t) \/ verify(t)
    PROVE  StressInv'
  <1> USE StressAssumption
  <1>0. /\ StressTypeOK /\ MutexTypeOK /\ OneWorkload /\ NoLostUpdate
        /\ at[t] \in Place /\ t \in Context /\ Thread \subseteq Context
        /\ \A u \in Thread : InTurn(u) /\ Counted(u)
    BY DEF StressInv, StressTypeOK, Inv, Context
  <1>1. at[t] # "client" /\ \A u \in Thread : at[u] # "client"
    BY <1>0 DEF enter, read_old, inc_load, inc_store, leave, verify, OneWorkload
  <1>2. StressTypeOK'
    BY <1>0 DEF StressTypeOK, Place, Goto, enter, read_old, inc_load, inc_store, leave, verify
  <1>3. OneWorkload'
    BY <1>0, <1>1 DEF StressTypeOK, OneWorkload, Goto, enter, read_old, inc_load, inc_store,
       leave, verify
  <1>4. ASSUME NEW u \in Thread PROVE InTurn(u)'
    <2>0. InTurn(u) /\ u \in Context
      BY <1>0
    <2>1. CASE enter(t)
      BY <1>0, <2>0, <2>1 DEF enter, Call, Goto, InTurn, StressTypeOK, MutexTypeOK
    <2>2. CASE read_old(t)
      BY <1>0, <2>0, <2>2 DEF read_old, mutex_vars, Goto, InTurn, StressTypeOK, MutexTypeOK
    <2>3. CASE inc_load(t) \/ inc_store(t)
      BY <1>0, <2>0, <2>3
         DEF inc_load, inc_store, mutex_vars, Goto, InTurn, StressTypeOK, MutexTypeOK
    <2>4. CASE leave(t)
      BY <1>0, <2>0, <2>4 DEF leave, Call, Goto, InTurn, StressTypeOK, MutexTypeOK
    <2>5. CASE verify(t)
      BY <1>0, <2>0, <2>5 DEF verify, mutex_vars, Goto, InTurn, StressTypeOK, MutexTypeOK
    <2> QED
      BY <2>1, <2>2, <2>3, <2>4, <2>5
  <1>5. ASSUME NEW u \in Thread PROVE Counted(u)'
    <2>0. Counted(u) /\ Counted(t) /\ i[t] \in Nat /\ i[u] \in Nat
      BY <1>0 DEF StressTypeOK
    <2>1. CASE inc_store(t)
      <3>1. at[t] = "store" /\ at[u] = "store" => t = u
        <4>1. ASSUME at[t] = "store", at[u] = "store" PROVE depth[t] > 0 /\ depth[u] > 0
          BY <1>0, <4>1 DEF InTurn
        <4> QED
          BY <4>1, OneInside DEF StressInv
      <3> QED
        BY <1>0, <2>0, <2>1, <3>1 DEF inc_store, Goto, Counted, StressTypeOK
    <2>2. CASE ~inc_store(t)
      BY <1>0, <2>0, <2>2
         DEF enter, read_old, inc_load, leave, verify, Goto, Counted, StressTypeOK
    <2> QED
      BY <2>1, <2>2
  <1>6. NoLostUpdate'
    <2>1. CASE inc_store(t)
      <3>1. shared_counter' = shared_counter + 1
        BY <1>0, <2>1 DEF inc_store, Counted
      <3> QED
        BY <1>0, <2>1, <3>1, OneStoreMore DEF NoLostUpdate
    <2>2. CASE ~inc_store(t)
      <3>1. shared_counter' = shared_counter
        BY <2>2 DEF enter, read_old, inc_load, leave, verify
      <3>2. ASSUME NEW u \in Thread PROVE Stored(u)' = Stored(u)
        BY <1>0, <2>2 DEF enter, read_old, inc_load, leave, verify, Goto, Stored, StressTypeOK
      <3> QED
        BY <1>0, <3>1, <3>2, SameStores DEF NoLostUpdate
    <2> QED
      BY <2>1, <2>2
  <1> QED
    BY <1>2, <1>3, <1>4, <1>5, <1>6 DEF StressInv

LEMMA StressInductive ==
    ASSUME StressInv, [StressNext]_vars
    PROVE  StressInv'
  <1>1. CASE StressNext
    <2>0. Inv'
      BY <1>1, StressMutexStep
    <2>1. ASSUME NEW t \in Thread, sync_stress_thread(t) PROVE StressInv'
      <3>1. CASE Step(t) /\ UNCHANGED stress_locals
        <4>1. t \in Context
          BY DEF Context
        <4> QED
          BY <2>0, <3>1, <4>1, StressCallStep
      <3> QED
        BY <2>0, <2>1, <3>1, StressLoopStep DEF sync_stress_thread
    <2>2. ASSUME NEW c \in Callers, client_step(c) \/ client_call(c) PROVE StressInv'
      <3>1. c \in Context /\ Clients /\ UNCHANGED stress_locals
        BY <2>2, StressAssumption DEF client_step, client_call
      <3> QED
        BY <2>0, <3>1, StressCallStep
    <2>3. CASE Done
      BY <2>3 DEF Done, vars, mutex_vars, stress_locals, StressInv, Inv, MutexTypeOK,
         SpinExclusion, Agrees, Bounded, Holds, InsideSpin, StressTypeOK, OneWorkload,
         InTurn, Counted, NoLostUpdate, Stores, Stored
    <2> QED
      BY <1>1, <2>1, <2>2, <2>3 DEF StressNext
  <1>2. CASE UNCHANGED vars
    BY <1>2 DEF vars, mutex_vars, stress_locals, StressInv, Inv, MutexTypeOK,
       SpinExclusion, Agrees, Bounded, Holds, InsideSpin, StressTypeOK, OneWorkload,
       InTurn, Counted, NoLostUpdate, Stores, Stored
  <1> QED
    BY <1>1, <1>2

LEMMA StressInvInit == StressInit => StressInv
  <1> SUFFICES ASSUME StressInit PROVE StressInv
    OBVIOUS
  <1>0. PICK place \in {"top", "client"} : at = [t \in Thread |-> place]
    BY DEF StressInit
  <1>1. Inv
    BY InvInit DEF StressInit
  <1>2. StressTypeOK /\ OneWorkload
    BY <1>0 DEF StressInit, StressTypeOK, OneWorkload, Place
  <1>3. \A t \in Thread : InTurn(t) /\ Counted(t)
    <2> TAKE t \in Thread
    <2>1. at[t] \in {"top", "client"} /\ i[t] = 0 /\ pc[t] = "idle" /\ depth[t] = 0
      BY <1>0 DEF StressInit, MutexInit, Context
    <2> QED
      BY <2>1, StressAssumption DEF InTurn, Counted
  <1>4. Stores = {}
    BY <1>0 DEF StressInit, Stores, Stored
  <1> QED
    BY <1>1, <1>2, <1>3, <1>4, FS_EmptySet DEF StressInv, NoLostUpdate, StressInit

\* The mutex invariant holds under the stress threads, and what a thread has
\* loaded of the counter is still its value when it stores.
THEOREM StressInvariance == StressSpec => []StressInv
  BY StressInvInit, StressInductive, PTL DEF StressSpec

\* However the threads interleave, at the mutex and at the three accesses to
\* the counter, no increment of the stress test is lost: for any number of
\* threads and of rounds.
THEOREM CounterIsExact == StressSpec => []NoLostUpdate
  <1>1. StressInv => NoLostUpdate
    BY DEF StressInv
  <1> QED
    BY <1>1, StressInvariance, PTL

\* The number that stress_test.c prints as expected: when every thread has
\* made all its rounds the counter is the number of threads times the rounds.
THEOREM FinalCount ==
    StressSpec => []((\A t \in Thread : i[t] = Iterations)
                        => shared_counter = Cardinality(Thread) * Iterations)
  <1>1. ASSUME StressInv, \A t \in Thread : i[t] = Iterations
        PROVE  shared_counter = Cardinality(Thread) * Iterations
    <2>1. \A t \in Thread : Stored(t) = Iterations
      <3> TAKE t \in Thread
      <3>1. Counted(t) /\ i[t] = Iterations
        BY <1>1 DEF StressInv
      <3>2. at[t] \notin {"stored", "unlocking"}
        BY <3>1, StressAssumption DEF Counted
      <3> QED
        BY <3>1, <3>2, StressAssumption DEF Stored
    <2>2. Stores = Thread \X (1 .. Iterations)
      <3>1. \A r \in Thread \X (1 .. Iterations) : r[2] <= Stored(r[1])
        BY <2>1, StressAssumption
      <3> QED
        BY <3>1 DEF Stores
    <2>3. IsFiniteSet(1 .. Iterations) /\ Cardinality(1 .. Iterations) = Iterations
      BY StressAssumption, FS_Interval
    <2>4. Cardinality(Stores) = Cardinality(Thread) * Iterations
      BY <2>2, <2>3, StressAssumption, FS_Product
    <2> QED
      BY <1>1, <2>4 DEF StressInv, NoLostUpdate
  <1> QED
    BY <1>1, StressInvariance, PTL

\* Under the stress threads, too, the mutex excludes and its record of the
\* owner is right.
THEOREM StressExcludes == StressSpec => [](MutualExclusion /\ OwnershipMatches)
  <1>1. StressInv => MutualExclusion
    BY OneInside DEF StressInv, MutualExclusion
  <1>2. StressInv => OwnershipMatches
    BY ModSmall, DepthAssumption, MutexAssumption
       DEF StressInv, Inv, Agrees, Bounded, Holds, OwnershipMatches, MutexTypeOK, Context
  <1> QED
    BY <1>1, <1>2, StressInvariance, PTL

-----------------------------------------------------------------------------
(***************************************************************************)
(* The kernel heap, for any size of the heap, of a block and of a request, *)
(* and any number of threads: the search loop is first fit (FirstFit),     *)
(* allocations never share a block and the bitmap and the counters are     *)
(* exact (AllocationsDisjoint), and headers are where kfree may believe    *)
(* them (HeadersMatch).                                                    *)
(*                                                                         *)
(* The search is a recursive function of the bitmap, so what it returns is *)
(* shown by induction on the blocks it has looked at.  The principle is    *)
(* stated for sets of numbers (Induction) and follows from the             *)
(* well-foundedness of strict inclusion between finite sets.               *)
(***************************************************************************)

\* A set of numbers with 0 and with the successor of each of its elements
\* has all numbers.
LEMMA Induction ==
    ASSUME NEW S, 0 \in S, \A n \in Nat : n \in S => n + 1 \in S
    PROVE  Nat \subseteq S
  <1> SUFFICES ASSUME NEW bad \in Nat, bad \notin S
               PROVE  FALSE
    OBVIOUS
  <1> DEFINE T == {0 .. n : n \in Nat \ S}
             R == StrictSubsetOrdering(Nat)
             F == FiniteSubsetsOf(Nat)
  <1>1. IsWellFoundedOn(R, F)
    BY FS_StrictSubsetOrderingWellFounded
  <1>2. T \subseteq F
    <2>1. \A n \in Nat : IsFiniteSet(0 .. n) /\ (0 .. n) \subseteq Nat
      BY FS_Interval
    <2> QED
      BY <2>1 DEF FiniteSubsetsOf
  <1>3. T # {}
    OBVIOUS
  <1>4. PICK x \in T : \A y \in T : <<y, x>> \notin R
    <2> HIDE DEF T, R, F
    <2> QED
      BY <1>1, <1>2, <1>3, WFMin
  <1>5. PICK m \in Nat \ S : x = 0 .. m
    BY <1>4
  <1>6. m # 0 /\ m - 1 \in Nat
    BY <1>5
  <1>7. m - 1 \notin S
    BY <1>5, <1>6
  <1>8. (0 .. m - 1) \in T
    BY <1>6, <1>7
  <1>9. (0 .. m - 1) \subseteq (0 .. m) /\ (0 .. m - 1) # (0 .. m)
    BY <1>6
  <1>10. <<0 .. m - 1, 0 .. m>> \in R
    <2>1. (0 .. m - 1) \in SUBSET Nat /\ (0 .. m) \in SUBSET Nat
      BY <1>6
    <2> QED
      BY <1>9, <2>1 DEF StrictSubsetOrdering
  <1> QED
    BY <1>4, <1>5, <1>8, <1>10

-----------------------------------------------------------------------------
(***************************************************************************)
(* The search.  Looked(need, s, j) is the state of the loop of kmalloc     *)
(* after block j - 1, from its state s before.                             *)
(***************************************************************************)
SearchState == [start : Nat, run : Nat]
Begin == [start |-> 0, run |-> 0]

Looked(need, s, j) ==
    IF need > 0 /\ s.run = need THEN s
    ELSE IF j - 1 \in bitmap THEN [s EXCEPT !.run = 0]
    ELSE [start |-> IF s.run = 0 THEN j - 1 ELSE s.start, run |-> s.run + 1]

\* The states of a search over the first n blocks.
IsSearch(need, n, f) ==
    f = [j \in 0 .. n |-> IF j = 0 THEN Begin ELSE Looked(need, f[j - 1], j)]

\* There is a search of any length: one block after the other.
LEMMA SearchExists ==
    ASSUME NEW need
    PROVE  \A n \in Nat : \E f : IsSearch(need, n, f)
  <1> DEFINE S == {n \in Nat : \E f : IsSearch(need, n, f)}
  <1>1. 0 \in S
    <2> DEFINE f == [j \in 0 .. 0 |-> Begin]
    <2>1. f = [j \in 0 .. 0 |-> IF j = 0 THEN Begin ELSE Looked(need, f[j - 1], j)]
      OBVIOUS
    <2> QED
      BY <2>1 DEF IsSearch
  <1>2. ASSUME NEW n \in Nat, n \in S PROVE n + 1 \in S
    <2>1. PICK f : IsSearch(need, n, f)
      BY <1>2
    <2> DEFINE g == [j \in 0 .. n + 1 |-> IF j <= n THEN f[j] ELSE Looked(need, f[n], n + 1)]
               h == [j \in 0 .. n + 1 |-> IF j = 0 THEN Begin ELSE Looked(need, g[j - 1], j)]
    <2>2. \A j \in 0 .. n : f[j] = IF j = 0 THEN Begin ELSE Looked(need, f[j - 1], j)
      BY <2>1 DEF IsSearch
    <2>3. ASSUME NEW j \in 0 .. n + 1 PROVE g[j] = h[j]
      <3>1. CASE j = 0
        BY <2>2, <3>1
      <3>2. CASE j \in 1 .. n
        <4>1. j - 1 \in 0 .. n /\ j \in 0 .. n /\ j # 0 /\ j <= n /\ j - 1 <= n
              /\ j - 1 \in 0 .. n + 1
          BY <3>2
        <4>2. g[j] = f[j] /\ g[j - 1] = f[j - 1]
          BY <4>1
        <4>3. f[j] = Looked(need, f[j - 1], j)
          BY <2>2, <4>1
        <4>4. h[j] = Looked(need, g[j - 1], j)
          BY <4>1
        <4> QED
          BY <4>2, <4>3, <4>4
      <3>3. CASE j = n + 1
        <4>1. j - 1 = n /\ ~(j <= n) /\ j # 0 /\ n \in 0 .. n + 1 /\ n <= n
          BY <3>3
        <4>2. g[j] = Looked(need, f[n], j) /\ g[n] = f[n]
          BY <3>3, <4>1
        <4>3. h[j] = Looked(need, g[j - 1], j)
          BY <4>1
        <4> QED
          BY <4>1, <4>2, <4>3
      <3> QED
        BY <3>1, <3>2, <3>3
    <2>4. g = h
      <3>1. /\ g = [j \in 0 .. n + 1 |-> g[j]]
            /\ h = [j \in 0 .. n + 1 |-> h[j]]
        OBVIOUS
      <3> HIDE DEF g, h
      <3> QED
        BY <2>3, <3>1
    <2>5. IsSearch(need, n + 1, g)
      BY <2>4 DEF IsSearch
    <2> QED
      BY <2>5
  <1>3. Nat \subseteq S
    <2> HIDE DEF S
    <2> QED
      BY <1>1, <1>2, Induction
  <1> QED
    BY <1>3

\* find_run is what the search of all blocks ends with.
LEMMA FindRunSearches ==
    ASSUME NEW need, total_blocks \in Nat
    PROVE  \E f : /\ IsSearch(need, total_blocks, f)
                  /\ find_run(need) = IF need > 0 /\ f[total_blocks].run = need
                                      THEN f[total_blocks].start ELSE -1
  <1> DEFINE f == CHOOSE g : IsSearch(need, total_blocks, g)
  <1>1. IsSearch(need, total_blocks, f)
    BY SearchExists
  <1>2. find_run(need) = IF need > 0 /\ f[total_blocks].run = need
                         THEN f[total_blocks].start ELSE -1
    BY DEF find_run, IsSearch, Looked, Begin
  <1> QED
    BY <1>1, <1>2

\* n blocks from b on are free.
Fits(b, n) == \A x \in b .. b + n - 1 : x \notin bitmap

\* What is known after j blocks: the run that the loop is in is free and
\* cannot be extended to the left, and no run before it is long enough.
SearchOK(need, j, s) ==
    /\ s \in SearchState /\ s.run <= need
    /\ s.run > 0 => s.start + s.run <= j /\ Fits(s.start, s.run)
    /\ s.run < need =>
          LET from == IF s.run = 0 THEN j ELSE s.start
          IN  /\ from + s.run = j
              /\ from = 0 \/ from - 1 \in bitmap
              /\ \A b \in Nat : b + need <= j => ~Fits(b, need)
    /\ s.run = need => \A b \in Nat : b < s.start => ~Fits(b, need)

LEMMA LookedOK ==
    ASSUME NEW need \in Nat \ {0}, NEW j \in Nat, NEW s, SearchOK(need, j, s)
    PROVE  SearchOK(need, j + 1, Looked(need, s, j + 1))
  <1>0. s.start \in Nat /\ s.run \in Nat /\ s.run <= need /\ j + 1 - 1 = j
    BY DEF SearchOK, SearchState
  <1>1. CASE s.run = need
    <2>1. Looked(need, s, j + 1) = s
      BY <1>1 DEF Looked
    <2> QED
      BY <1>0, <1>1, <2>1 DEF SearchOK
  <1>2. CASE s.run # need /\ j \in bitmap
    <2>1. Looked(need, s, j + 1) = [s EXCEPT !.run = 0]
      BY <1>0, <1>2 DEF Looked
    <2> DEFINE t == [s EXCEPT !.run = 0]
    <2>2. t \in SearchState /\ t.run = 0 /\ t.start = s.start
      BY DEF SearchOK, SearchState
    <2>3. ASSUME NEW b \in Nat, b + need <= j + 1 PROVE ~Fits(b, need)
      <3>1. CASE b + need <= j
        BY <1>0, <1>2, <3>1 DEF SearchOK
      <3>2. CASE b + need = j + 1
        <4>1. j \in b .. b + need - 1
          BY <3>2
        <4> QED
          BY <1>2, <4>1 DEF Fits
      <3> QED
        BY <2>3, <3>1, <3>2
    <2> HIDE DEF t
    <2>4. SearchOK(need, j + 1, t)
      BY <1>0, <1>2, <2>2, <2>3 DEF SearchOK
    <2> QED
      BY <2>1, <2>4 DEF t
  <1>3. CASE s.run # need /\ j \notin bitmap
    <2> DEFINE from == IF s.run = 0 THEN j ELSE s.start
               t == [start |-> from, run |-> s.run + 1]
    <2>1. Looked(need, s, j + 1) = t
      BY <1>0, <1>3 DEF Looked
    <2>2. t \in SearchState /\ t.start = from /\ t.run = s.run + 1
      BY <1>0 DEF SearchState
    <2>3. /\ from \in Nat /\ from + s.run = j
          /\ from = 0 \/ from - 1 \in bitmap
          /\ \A b \in Nat : b + need <= j => ~Fits(b, need)
      BY <1>0, <1>3 DEF SearchOK
    <2>4. Fits(from, s.run + 1)
      <3> SUFFICES ASSUME NEW x \in from .. from + (s.run + 1) - 1 PROVE x \notin bitmap
        BY DEF Fits
      <3>1. CASE x = j
        BY <1>3, <3>1
      <3>2. CASE x # j
        <4>1. s.run > 0 /\ from = s.start /\ x \in s.start .. s.start + s.run - 1
          BY <1>0, <2>3, <3>2
        <4> QED
          BY <4>1 DEF SearchOK, Fits
      <3> QED
        BY <3>1, <3>2
    <2> HIDE DEF from, t
    <2>5. ASSUME s.run + 1 < need, NEW b \in Nat, b + need <= j + 1 PROVE ~Fits(b, need)
      <3>1. CASE b + need <= j
        BY <2>3, <3>1
      <3>2. CASE b + need = j + 1
        <4>1. b < from
          BY <1>0, <2>3, <2>5, <3>2
        <4>2. from - 1 \in bitmap /\ from - 1 \in b .. b + need - 1
          BY <1>0, <2>3, <3>2, <4>1
        <4> QED
          BY <4>2 DEF Fits
      <3> QED
        BY <2>5, <3>1, <3>2
    <2>6. ASSUME s.run + 1 = need, NEW b \in Nat, b < from PROVE ~Fits(b, need)
      BY <1>0, <2>3, <2>6
    <2>7. SearchOK(need, j + 1, t)
      BY <1>0, <1>3, <2>2, <2>3, <2>4, <2>5, <2>6 DEF SearchOK
    <2> QED
      BY <2>1, <2>7
  <1> QED
    BY <1>1, <1>2, <1>3

\* What the loop of kmalloc finds: the lowest run of free blocks that is
\* long enough, or nothing when there is none.
LEMMA FindRunIsFirstFit ==
    ASSUME NEW need \in Nat \ {0}, total_blocks \in Nat
    PROVE  \/ /\ find_run(need) \in Nat
              /\ find_run(need) + need <= total_blocks
              /\ Fits(find_run(need), need)
              /\ \A b \in Nat : b < find_run(need) => ~Fits(b, need)
           \/ /\ find_run(need) = -1
              /\ \A b \in Nat : b + need <= total_blocks => ~Fits(b, need)
  <1>1. PICK f : /\ IsSearch(need, total_blocks, f)
                 /\ find_run(need) = IF need > 0 /\ f[total_blocks].run = need
                                     THEN f[total_blocks].start ELSE -1
    BY FindRunSearches
  <1>2. \A j \in 0 .. total_blocks : f[j] = IF j = 0 THEN Begin ELSE Looked(need, f[j - 1], j)
    BY <1>1 DEF IsSearch
  <1> DEFINE S == {j \in Nat : j <= total_blocks => SearchOK(need, j, f[j])}
  <1>3. 0 \in S
    <2>1. f[0] = Begin
      BY <1>2
    <2>2. SearchOK(need, 0, Begin)
      BY DEF SearchOK, SearchState, Begin
    <2> QED
      BY <2>1, <2>2
  <1>4. ASSUME NEW j \in Nat, j \in S PROVE j + 1 \in S
    <2> SUFFICES ASSUME j + 1 <= total_blocks PROVE SearchOK(need, j + 1, f[j + 1])
      BY <1>4
    <2>1. SearchOK(need, j, f[j])
      BY <1>4
    <2>2. f[j + 1] = Looked(need, f[j], j + 1)
      <3>1. j + 1 \in 0 .. total_blocks /\ j + 1 # 0 /\ j + 1 - 1 = j
        OBVIOUS
      <3> QED
        BY <1>2, <3>1
    <2> QED
      BY <2>1, <2>2, LookedOK
  <1>5. Nat \subseteq S
    <2> HIDE DEF S
    <2> QED
      BY <1>3, <1>4, Induction
  <1>6. SearchOK(need, total_blocks, f[total_blocks])
    BY <1>5
  <1> QED
    BY <1>1, <1>6 DEF SearchOK, SearchState

-----------------------------------------------------------------------------
LEMMA DivMod ==
    ASSUME NEW a \in Nat, NEW b \in Nat \ {0}
    PROVE  /\ a \div b \in Nat /\ a % b \in Nat /\ a % b < b
           /\ a = b * (a \div b) + (a % b)
  OBVIOUS

LEMMA ModIs ==
    ASSUME NEW a \in Nat, NEW m \in Nat \ {0}, a < 2 * m
    PROVE  a % m = IF a < m THEN a ELSE a - m
  OBVIOUS

LEMMA BlocksType == total_blocks \in Nat
  BY HeapAssumption, DivMod DEF total_blocks

\* The request fits the blocks that are computed for it, unless none are:
\* the sum with the header or the rounding up has wrapped.
LEMMA RequestFits ==
    ASSUME NEW size \in Sizes
    PROVE  /\ blocks_needed(size) \in Nat \cup {-1}
           /\ blocks_needed(size) > 0 =>
                 size + HeaderSize <= blocks_needed(size) * BlockSize
  <1> USE HeapAssumption
  <1> DEFINE total == (size + HeaderSize) % SizeMod
             up == (total + BlockSize - 1) % SizeMod
  <1>1. size \in Nat /\ size < SizeMod
    OBVIOUS
  <1>2. total = IF size + HeaderSize < SizeMod THEN size + HeaderSize
                ELSE size + HeaderSize - SizeMod
    <2> DEFINE a == size + HeaderSize
    <2>1. a \in Nat /\ a < 2 * SizeMod /\ SizeMod \in Nat \ {0}
      BY <1>1
    <2> HIDE DEF a
    <2>2. a % SizeMod = IF a < SizeMod THEN a ELSE a - SizeMod
      BY <2>1, ModIs
    <2> QED
      BY <2>2 DEF a
  <1>3. CASE total < size
    BY <1>3 DEF blocks_needed
  <1>4. CASE ~(total < size)
    <2>1. total = size + HeaderSize /\ total \in Nat /\ total < SizeMod
      BY <1>1, <1>2, <1>4
    <2>2. up = IF total + BlockSize - 1 < SizeMod THEN total + BlockSize - 1
               ELSE total + BlockSize - 1 - SizeMod
      <3>1. /\ total + BlockSize - 1 \in Nat /\ total + BlockSize - 1 < 2 * SizeMod
            /\ SizeMod \in Nat \ {0}
        BY <2>1
      <3> QED
        BY <3>1, ModIs
    <2>3. blocks_needed(size) = up \div BlockSize
      BY <1>4 DEF blocks_needed
    <2> HIDE DEF total, up
    <2>4. up \in Nat
      BY <2>1, <2>2
    <2> DEFINE q == up \div BlockSize
    <2>5. q \in Nat /\ up % BlockSize \in Nat /\ up % BlockSize < BlockSize
          /\ up = BlockSize * q + (up % BlockSize)
      BY <2>4, DivMod
    <2> HIDE DEF q
    <2>6. CASE total + BlockSize - 1 < SizeMod
      <3>1. total <= BlockSize * q
        BY <2>1, <2>2, <2>5, <2>6
      <3> QED
        BY <2>1, <2>3, <2>5, <3>1 DEF q
    <2>7. CASE ~(total + BlockSize - 1 < SizeMod)
      <3>1. up < BlockSize
        BY <2>1, <2>2, <2>7
      <3>2. q = 0
        BY <2>4, <2>5, <3>1
      <3> QED
        BY <2>3, <3>2 DEF q
    <2> QED
      BY <2>6, <2>7
  <1> QED
    BY <1>3, <1>4

\* What kmalloc has when it goes on: a free run in the heap that the request
\* fits in.
LEMMA RunFound ==
    ASSUME NEW size \in Sizes, find_run(blocks_needed(size)) # -1
    PROVE  LET need == blocks_needed(size)
               start == find_run(need)
           IN  /\ need \in Nat \ {0} /\ start \in Nat /\ start + need <= total_blocks
               /\ (start .. start + need - 1) \cap bitmap = {}
               /\ size + HeaderSize <= need * BlockSize
  <1> DEFINE need == blocks_needed(size)
  <1>1. need \in Nat \cup {-1} /\ (need > 0 => size + HeaderSize <= need * BlockSize)
    BY RequestFits
  <1> HIDE DEF need
  <1>2. need > 0
    <2>1. ~(need > 0) => find_run(need) = -1
      BY BlocksType, FindRunSearches
    <2> QED
      BY <2>1 DEF need
  <1>3. need \in Nat \ {0} /\ find_run(need) # -1
    BY <1>1, <1>2 DEF need
  <1>4. /\ find_run(need) \in Nat /\ find_run(need) + need <= total_blocks
        /\ Fits(find_run(need), need)
    BY <1>3, BlocksType, FindRunIsFirstFit
  <1> QED
    BY <1>1, <1>2, <1>3, <1>4 DEF need, Fits

-----------------------------------------------------------------------------
(***************************************************************************)
(* The inductive invariant.  Beyond the three properties it says that an   *)
(* allocation lies in the heap and is not empty, that one whose header is  *)
(* not written yet is not held, and what the headers are in terms that a   *)
(* step can be followed in: each holds the blocks of one held allocation.  *)
(***************************************************************************)
Placed(a) ==
    /\ a.start \in Nat /\ a.blocks \in Nat \ {0} /\ a.start + a.blocks <= total_blocks
    /\ a.size + HeaderSize <= a.blocks * BlockSize

HeadersAgree ==
    /\ \A a \in held : header[a.start] = a.blocks
    /\ \A b \in Block : header[b] # 0 => \E a \in held : a.start = b

HeapInv ==
    /\ AllocationsDisjoint
    /\ IsFiniteSet(Allocations)
    /\ \A a \in Allocations : Placed(a)
    /\ reserved \cap held = {}
    /\ HeadersAgree

\* The blocks of an allocation.
LEMMA BlocksOfPlaced ==
    ASSUME NEW a, Placed(a)
    PROVE  /\ a.start \in BlocksOf(a) /\ BlocksOf(a) \subseteq Block
           /\ IsFiniteSet(BlocksOf(a)) /\ Cardinality(BlocksOf(a)) = a.blocks
  <1>1. a.start \in Nat /\ a.blocks \in Nat \ {0} /\ a.start + a.blocks <= total_blocks
    BY DEF Placed
  <1>2. a.start \in BlocksOf(a) /\ BlocksOf(a) \subseteq Block
    BY <1>1, BlocksType DEF BlocksOf, Block
  <1> DEFINE lo == a.start
             hi == a.start + a.blocks - 1
  <1>3. lo \in Int /\ hi \in Int /\ ~(lo > hi) /\ hi - lo + 1 = a.blocks
    BY <1>1
  <1>4. IsFiniteSet(lo .. hi) /\ Cardinality(lo .. hi) = hi - lo + 1
    <2> HIDE DEF lo, hi
    <2> QED
      BY <1>3, FS_Interval
  <1> QED
    BY <1>2, <1>3, <1>4 DEF BlocksOf

LEMMA BlockSetFinite == IsFiniteSet(Block) /\ Cardinality(Block) = total_blocks
  <1>1. total_blocks - 1 \in Int /\ 0 \in Int
    BY BlocksType
  <1>2. /\ IsFiniteSet(0 .. total_blocks - 1)
        /\ Cardinality(0 .. total_blocks - 1) =
              IF 0 > total_blocks - 1 THEN 0 ELSE total_blocks - 1 - 0 + 1
    BY <1>1, FS_Interval
  <1> QED
    BY <1>2, BlocksType DEF Block

\* kmalloc: a run of free blocks becomes an allocation.
LEMMA KmallocStep ==
    ASSUME HeapInv, NEW c \in Client, NEW size \in Sizes, kmalloc(c, size)
    PROVE  HeapInv'
  <1> DEFINE need == blocks_needed(size)
             start == find_run(need)
             new == [owner |-> c, start |-> start, blocks |-> need, size |-> size]
  <1>1. /\ bitmap' = bitmap \cup (start .. start + need - 1)
        /\ used_blocks' = used_blocks + need
        /\ peak_used_blocks' = IF used_blocks' > peak_used_blocks THEN used_blocks'
                               ELSE peak_used_blocks
        /\ live_count' = live_count + 1
        /\ reserved' = reserved \cup {new} /\ held' = held /\ header' = header
        /\ start # -1
    BY DEF kmalloc
  <1>2. /\ need \in Nat \ {0} /\ start \in Nat /\ start + need <= total_blocks
        /\ (start .. start + need - 1) \cap bitmap = {}
        /\ size + HeaderSize <= need * BlockSize
    BY <1>1, RunFound
  <1> HIDE DEF need, start
  <1>3. Placed(new) /\ new.blocks = need /\ BlocksOf(new) = start .. start + need - 1
    BY <1>2 DEF Placed, BlocksOf
  <1> HIDE DEF new
  <1>4. /\ new.start \in BlocksOf(new) /\ BlocksOf(new) \subseteq Block
        /\ IsFiniteSet(BlocksOf(new)) /\ Cardinality(BlocksOf(new)) = need
    BY <1>3, BlocksOfPlaced
  <1>5. ASSUME NEW a \in Allocations
        PROVE  BlocksOf(a) \subseteq bitmap /\ BlocksOf(a) \cap BlocksOf(new) = {}
    <2>1. BlocksOf(a) \subseteq bitmap
      BY DEF HeapInv, AllocationsDisjoint
    <2> QED
      BY <1>2, <1>3, <2>1
  <1>6. new \notin Allocations
    BY <1>4, <1>5
  <1>7. Allocations' = Allocations \cup {new}
    BY <1>1 DEF Allocations
  <1>8. /\ IsFiniteSet(Allocations')
        /\ Cardinality(Allocations') = Cardinality(Allocations) + 1
    BY <1>6, <1>7, FS_AddElement DEF HeapInv
  <1>9. bitmap' = UNION {BlocksOf(a) : a \in Allocations'}
    <2>1. bitmap = UNION {BlocksOf(a) : a \in Allocations}
      BY DEF HeapInv, AllocationsDisjoint
    <2> QED
      BY <1>1, <1>3, <1>7, <2>1
  <1>10. \A a, b \in Allocations' : a # b => BlocksOf(a) \cap BlocksOf(b) = {}
    <2>1. \A a, b \in Allocations : a # b => BlocksOf(a) \cap BlocksOf(b) = {}
      BY DEF HeapInv, AllocationsDisjoint
    <2> QED
      BY <1>5, <1>7, <2>1
  <1>11. bitmap' \subseteq Block /\ Cardinality(bitmap') = Cardinality(bitmap) + need
    <2>1. bitmap \subseteq Block
      BY DEF HeapInv, AllocationsDisjoint, HeapTypeOK
    <2>2. IsFiniteSet(bitmap)
      BY <2>1, BlockSetFinite, FS_Subset
    <2>3. bitmap \cap BlocksOf(new) = {} /\ bitmap' = bitmap \cup BlocksOf(new)
      BY <1>1, <1>2, <1>3
    <2>4. Cardinality(bitmap') =
             Cardinality(bitmap) + Cardinality(BlocksOf(new)) - Cardinality({})
      BY <1>4, <2>2, <2>3, FS_Union
    <2>5. Cardinality({}) = 0 /\ Cardinality(bitmap) \in Nat
      BY <2>2, FS_EmptySet, FS_CardinalityType
    <2> QED
      BY <1>2, <1>4, <2>1, <2>3, <2>4, <2>5
  <1>12. Cardinality(bitmap') <= total_blocks
    BY <1>11, BlockSetFinite, FS_Subset
  <1>13. HeapTypeOK'
    <2>1. /\ used_blocks \in Nat /\ used_blocks <= peak_used_blocks
          /\ peak_used_blocks \in Nat /\ peak_used_blocks <= total_blocks
          /\ live_count \in Nat /\ header \in [Block -> 0 .. total_blocks]
          /\ used_blocks = Cardinality(bitmap)
      BY BlocksType DEF HeapInv, AllocationsDisjoint, HeapTypeOK
    <2> QED
      BY <1>1, <1>2, <1>11, <1>12, <2>1, BlocksType DEF HeapTypeOK
  <1>14. AllocationsDisjoint'
    <2>1. used_blocks = Cardinality(bitmap) /\ live_count = Cardinality(Allocations)
      BY DEF HeapInv, AllocationsDisjoint
    <2>2. used_blocks' = Cardinality(bitmap') /\ live_count' = Cardinality(Allocations')
      BY <1>1, <1>8, <1>11, <2>1
    <2>3. /\ (\A a, b \in Allocations : a # b => BlocksOf(a) \cap BlocksOf(b) = {})'
          /\ (bitmap = UNION {BlocksOf(a) : a \in Allocations})'
      BY <1>9, <1>10 DEF BlocksOf
    <2> QED
      BY <1>13, <2>2, <2>3 DEF AllocationsDisjoint
  <1>15. (\A a \in Allocations : Placed(a))'
    BY <1>3, <1>7 DEF HeapInv, Placed
  <1>16. (reserved \cap held = {})'
    BY <1>1, <1>6 DEF HeapInv, Allocations
  <1>17. HeadersAgree'
    BY <1>1 DEF HeapInv, HeadersAgree
  <1> QED
    BY <1>8, <1>14, <1>15, <1>16, <1>17 DEF HeapInv

\* The header is written: a reservation becomes a held allocation.
LEMMA WriteHeaderStep ==
    ASSUME HeapInv, NEW r \in reserved, write_header(r)
    PROVE  HeapInv'
  <1>1. /\ header' = [header EXCEPT ![r.start] = r.blocks]
        /\ reserved' = reserved \ {r} /\ held' = held \cup {r}
        /\ UNCHANGED <<bitmap, used_blocks, peak_used_blocks, live_count>>
    BY DEF write_header
  <1>2. Allocations' = Allocations
    BY <1>1 DEF Allocations
  <1>3. r \in Allocations /\ r \notin held /\ Placed(r)
    BY DEF HeapInv, Allocations
  <1>4. r.start \in BlocksOf(r) /\ BlocksOf(r) \subseteq Block
    BY <1>3, BlocksOfPlaced
  <1>5. /\ header \in [Block -> 0 .. total_blocks]
        /\ r.blocks \in 0 .. total_blocks /\ r.blocks # 0 /\ r.start \in Block
    BY <1>3, <1>4, BlocksType DEF HeapInv, AllocationsDisjoint, HeapTypeOK, Placed
  <1>6. HeapTypeOK'
    BY <1>1, <1>5 DEF HeapInv, AllocationsDisjoint, HeapTypeOK
  <1>7. AllocationsDisjoint'
    BY <1>1, <1>2, <1>6 DEF HeapInv, AllocationsDisjoint, BlocksOf
  <1>8. ASSUME NEW a \in held PROVE a.start # r.start
    <2>1. a \in Allocations /\ a # r /\ Placed(a)
      BY <1>3 DEF HeapInv, Allocations
    <2>2. a.start \in BlocksOf(a)
      BY <2>1, BlocksOfPlaced
    <2>3. BlocksOf(a) \cap BlocksOf(r) = {}
      BY <1>3, <2>1 DEF HeapInv, AllocationsDisjoint
    <2> QED
      BY <1>4, <2>2, <2>3
  <1>9. HeadersAgree'
    <2>1. ASSUME NEW a \in held' PROVE header'[a.start] = a.blocks
      <3>1. CASE a = r
        BY <1>1, <1>5, <3>1
      <3>2. CASE a \in held
        <4>1. a \in Allocations /\ Placed(a)
          BY <3>2 DEF HeapInv, Allocations
        <4>2. a.start \in Block
          BY <4>1, BlocksOfPlaced
        <4> QED
          BY <1>1, <1>5, <1>8, <3>2, <4>2 DEF HeapInv, HeadersAgree
      <3> QED
        BY <1>1, <2>1, <3>1, <3>2
    <2>2. ASSUME NEW b \in Block, header'[b] # 0 PROVE \E a \in held' : a.start = b
      BY <1>1, <1>5, <2>2 DEF HeapInv, HeadersAgree
    <2> QED
      BY <2>1, <2>2 DEF HeadersAgree
  <1>10. (IsFiniteSet(Allocations) /\ \A a \in Allocations : Placed(a))'
    BY <1>2 DEF HeapInv, Placed
  <1>11. (reserved \cap held = {})'
    BY <1>1 DEF HeapInv
  <1> QED
    BY <1>7, <1>9, <1>10, <1>11 DEF HeapInv

\* kfree: without a header nothing happens; with one, the allocation that
\* starts there is gone, blocks, header and all.
LEMMA KfreeStep ==
    ASSUME HeapInv, NEW b \in Block, kfree(b)
    PROVE  HeapInv'
  <1>1. CASE header[b] = 0
    <2>1. /\ UNCHANGED <<bitmap, header, used_blocks, peak_used_blocks, live_count, reserved>>
          /\ held' = {a \in held : a.start # b}
      BY <1>1 DEF kfree
    <2>2. ASSUME NEW a \in held PROVE a.start # b
      <3>1. Placed(a) /\ header[a.start] = a.blocks
        BY DEF HeapInv, Allocations, HeadersAgree
      <3> QED
        BY <1>1, <3>1 DEF Placed
    <2>3. held' = held
      BY <2>1, <2>2
    <2> QED
      BY <2>1, <2>3 DEF HeapInv, AllocationsDisjoint, HeapTypeOK, Allocations, BlocksOf, Placed,
         HeadersAgree
  <1>2. CASE header[b] # 0
    <2>1. PICK a \in held : a.start = b
      BY <1>2 DEF HeapInv, HeadersAgree
    <2>2. /\ a \in Allocations /\ Placed(a) /\ a \notin reserved /\ header[b] = a.blocks
      BY <2>1 DEF HeapInv, Allocations, HeadersAgree
    <2>3. /\ a.start \in BlocksOf(a) /\ BlocksOf(a) \subseteq Block
          /\ IsFiniteSet(BlocksOf(a)) /\ Cardinality(BlocksOf(a)) = a.blocks
      BY <2>2, BlocksOfPlaced
    <2>4. BlocksOf(a) \subseteq bitmap
      BY <2>2 DEF HeapInv, AllocationsDisjoint
    <2>5. {x \in b .. b + header[b] - 1 : x < total_blocks} \cap bitmap = BlocksOf(a)
      <3>1. BlocksOf(a) = b .. b + header[b] - 1
        BY <2>1, <2>2 DEF BlocksOf
      <3>2. \A x \in BlocksOf(a) : x < total_blocks
        BY <2>3, BlocksType DEF Block
      <3> QED
        BY <2>4, <3>1, <3>2
    <2>6. /\ bitmap' = bitmap \ BlocksOf(a)
          /\ used_blocks' = used_blocks - Cardinality(BlocksOf(a))
          /\ header' = [header EXCEPT ![b] = 0]
          /\ live_count' = live_count - 1
          /\ UNCHANGED <<peak_used_blocks, reserved>>
          /\ held' = {d \in held : d.start # b}
      BY <1>2, <2>5 DEF kfree, free_blocks
    <2>7. ASSUME NEW d \in Allocations, d # a
          PROVE  d.start # b /\ BlocksOf(d) \cap BlocksOf(a) = {}
      <3>1. Placed(d) /\ BlocksOf(d) \cap BlocksOf(a) = {}
        BY <2>2, <2>7 DEF HeapInv, AllocationsDisjoint
      <3>2. d.start \in BlocksOf(d)
        BY <3>1, BlocksOfPlaced
      <3> QED
        BY <2>1, <2>3, <3>1, <3>2
    <2>8. held' = held \ {a} /\ Allocations' = Allocations \ {a}
      BY <2>1, <2>2, <2>6, <2>7 DEF Allocations
    <2>9. /\ IsFiniteSet(Allocations')
          /\ Cardinality(Allocations') = Cardinality(Allocations) - 1
      BY <2>2, <2>8, FS_RemoveElement DEF HeapInv
    <2>10. bitmap' = UNION {BlocksOf(d) : d \in Allocations'}
      <3>1. bitmap = UNION {BlocksOf(d) : d \in Allocations}
        BY DEF HeapInv, AllocationsDisjoint
      <3> QED
        BY <2>6, <2>7, <2>8, <3>1
    <2>11. /\ bitmap \subseteq Block /\ IsFiniteSet(bitmap)
      <3>1. bitmap \subseteq Block
        BY DEF HeapInv, AllocationsDisjoint, HeapTypeOK
      <3> QED
        BY <3>1, BlockSetFinite, FS_Subset
    <2>12. /\ Cardinality(bitmap') = Cardinality(bitmap) - Cardinality(BlocksOf(a))
           /\ Cardinality(bitmap') \in Nat /\ Cardinality(bitmap) \in Nat
      <3>1. bitmap \cap BlocksOf(a) = BlocksOf(a)
        BY <2>4
      <3>2. /\ IsFiniteSet(bitmap')
            /\ Cardinality(bitmap') = Cardinality(bitmap) - Cardinality(BlocksOf(a))
        <4> DEFINE B == BlocksOf(a)
        <4>1. /\ IsFiniteSet(bitmap \ B)
              /\ Cardinality(bitmap \ B) = Cardinality(bitmap) - Cardinality(bitmap \cap B)
          <5> HIDE DEF B
          <5> QED
            BY <2>11, FS_Difference
        <4> QED
          BY <2>6, <3>1, <4>1, Zenon
      <3> QED
        BY <2>11, <3>2, FS_CardinalityType
    <2>13. /\ used_blocks = Cardinality(bitmap) /\ live_count = Cardinality(Allocations)
           /\ used_blocks <= peak_used_blocks /\ peak_used_blocks \in 0 .. total_blocks
           /\ header \in [Block -> 0 .. total_blocks]
      BY BlocksType DEF HeapInv, AllocationsDisjoint, HeapTypeOK
    <2>14. /\ used_blocks' = Cardinality(bitmap') /\ live_count' = Cardinality(Allocations')
           /\ used_blocks' \in Nat /\ used_blocks' <= peak_used_blocks
           /\ live_count' \in Nat
      <3>1. Cardinality(Allocations') \in Nat
        BY <2>9, FS_CardinalityType
      <3>2. Cardinality(BlocksOf(a)) \in Nat
        BY <2>3, FS_CardinalityType
      <3> QED
        BY <2>6, <2>9, <2>12, <2>13, <3>1, <3>2, BlocksType
    <2>15. HeapTypeOK'
      BY <2>6, <2>11, <2>13, <2>14, BlocksType DEF HeapTypeOK
    <2>16. AllocationsDisjoint'
      <3>1. \A d, e \in Allocations' : d # e => BlocksOf(d) \cap BlocksOf(e) = {}
        BY <2>8 DEF HeapInv, AllocationsDisjoint
      <3>2. /\ (\A d, e \in Allocations : d # e => BlocksOf(d) \cap BlocksOf(e) = {})'
            /\ (bitmap = UNION {BlocksOf(d) : d \in Allocations})'
        BY <2>10, <3>1 DEF BlocksOf
      <3> QED
        BY <2>14, <2>15, <3>2 DEF AllocationsDisjoint
    <2>17. HeadersAgree'
      <3>1. ASSUME NEW d \in held' PROVE header'[d.start] = d.blocks
        <4>1. d \in held /\ d \in Allocations /\ d # a /\ Placed(d)
          BY <2>8, <3>1 DEF Allocations, HeapInv
        <4>2. d.start # b /\ d.start \in Block
          BY <2>7, <4>1, BlocksOfPlaced
        <4> QED
          BY <2>6, <2>13, <4>1, <4>2 DEF HeapInv, HeadersAgree
      <3>2. ASSUME NEW x \in Block, header'[x] # 0 PROVE \E d \in held' : d.start = x
        <4>1. x # b /\ header[x] # 0
          BY <2>6, <2>13, <3>2
        <4>2. PICK d \in held : d.start = x
          BY <4>1 DEF HeapInv, HeadersAgree
        <4> QED
          BY <2>6, <4>1, <4>2
      <3> QED
        BY <3>1, <3>2 DEF HeadersAgree
    <2>18. (\A d \in Allocations : Placed(d))' /\ (reserved \cap held = {})'
      BY <2>6, <2>8 DEF HeapInv, Placed
    <2> QED
      BY <2>9, <2>16, <2>17, <2>18 DEF HeapInv
  <1> QED
    BY <1>1, <1>2

\* The bitmap, the headers and what kmalloc's callers hold agree at every
\* step, between the unlock and the header, too.
THEOREM HeapInvariance == HeapSpec => []HeapInv
  <1>1. HeapInit => HeapInv
    <2> SUFFICES ASSUME HeapInit PROVE HeapInv
      OBVIOUS
    <2>1. Allocations = {} /\ bitmap = {}
      BY DEF HeapInit, Allocations
    <2>2. Cardinality({}) = 0 /\ IsFiniteSet({})
      BY FS_EmptySet
    <2>3. HeapTypeOK
      BY <2>1, BlocksType DEF HeapInit, HeapTypeOK
    <2>4. HeadersAgree
      BY DEF HeapInit, HeadersAgree
    <2> QED
      BY <2>1, <2>2, <2>3, <2>4 DEF HeapInit, HeapInv, AllocationsDisjoint
  <1>2. HeapInv /\ [HeapNext]_heapVars => HeapInv'
    <2> SUFFICES ASSUME HeapInv, [HeapNext]_heapVars PROVE HeapInv'
      OBVIOUS
    <2>1. CASE HeapNext
      BY <2>1, KmallocStep, WriteHeaderStep, KfreeStep DEF HeapNext
    <2>2. CASE UNCHANGED heapVars
      BY <2>2 DEF heapVars, HeapInv, AllocationsDisjoint, HeapTypeOK, Allocations, BlocksOf, Placed,
         HeadersAgree
    <2> QED
      BY <2>1, <2>2
  <1> QED
    BY <1>1, <1>2, PTL DEF HeapSpec

\* With any order of allocations, frees and second frees, also between a
\* reservation and its header: no block is handed out twice, none leaks, and
\* the counters of the leak check are exact.
THEOREM HeapIsDisjoint == HeapSpec => []AllocationsDisjoint
  <1>1. HeapInv => AllocationsDisjoint
    BY DEF HeapInv
  <1> QED
    BY <1>1, HeapInvariance, PTL

\* kfree finds a header exactly where kmalloc has returned a pointer that has
\* not been freed; and a returned allocation holds the request, for sizes
\* whose computation wraps, too.
THEOREM HeadersAreRight == HeapSpec => []HeadersMatch
  <1>1. ASSUME HeapInv PROVE HeadersMatch
    <2>1. ASSUME NEW b \in Block
          PROVE  header[b] = IF \E a \in held : a.start = b
                             THEN (CHOOSE a \in held : a.start = b).blocks ELSE 0
      <3>1. CASE \E a \in held : a.start = b
        <4> DEFINE d == CHOOSE a \in held : a.start = b
        <4>1. d \in held /\ d.start = b
          BY <3>1
        <4> HIDE DEF d
        <4>2. header[d.start] = d.blocks
          BY <1>1, <4>1 DEF HeapInv, HeadersAgree
        <4> QED
          BY <3>1, <4>1, <4>2 DEF d
      <3>2. CASE ~\E a \in held : a.start = b
        BY <1>1, <3>2 DEF HeapInv, HeadersAgree
      <3> QED
        BY <3>1, <3>2
    <2> QED
      BY <1>1, <2>1 DEF HeadersMatch, HeapInv, Placed
  <1> QED
    BY <1>1, HeapInvariance, PTL

\* In every state of the heap the search loop finds the lowest run of free
\* blocks that is long enough, and fails only when there is none.
THEOREM SearchIsFirstFit == HeapSpec => []FirstFit
  <1>1. ASSUME HeapInv PROVE FirstFit
    <2> SUFFICES ASSUME NEW need \in 1 .. total_blocks
                 PROVE  LET fits == {s \in Block : s + need <= total_blocks
                                                   /\ (s .. s + need - 1) \cap bitmap = {}}
                        IN  find_run(need) = IF fits = {} THEN -1 ELSE Min(fits)
      BY DEF FirstFit
    <2> DEFINE fits == {s \in Block : s + need <= total_blocks
                                      /\ (s .. s + need - 1) \cap bitmap = {}}
    <2>1. need \in Nat \ {0} /\ total_blocks \in Nat
      BY BlocksType
    <2>2. \A s \in Nat : s \in fits <=> s + need <= total_blocks /\ Fits(s, need)
      BY <2>1 DEF Block, Fits
    <2>3. fits \subseteq Nat
      BY DEF Block
    <2> HIDE DEF fits
    <2>4. CASE /\ find_run(need) \in Nat
               /\ find_run(need) + need <= total_blocks
               /\ Fits(find_run(need), need)
               /\ \A b \in Nat : b < find_run(need) => ~Fits(b, need)
      <3>1. find_run(need) \in fits /\ \A b \in fits : find_run(need) <= b
        BY <2>2, <2>3, <2>4
      <3>2. Min(fits) = find_run(need)
        <4>1. Min(fits) = CHOOSE x \in fits : \A y \in fits : x <= y
          BY DEF Min
        <4>2. \A x \in fits : (\A y \in fits : x <= y) => x = find_run(need)
          BY <2>3, <2>4, <3>1
        <4> QED
          BY <3>1, <4>1, <4>2
      <3> QED
        BY <3>1, <3>2 DEF fits
    <2>5. CASE /\ find_run(need) = -1
               /\ \A b \in Nat : b + need <= total_blocks => ~Fits(b, need)
      <3>1. fits = {}
        BY <2>2, <2>3, <2>5
      <3> QED
        BY <2>5, <3>1 DEF fits
    <2> QED
      BY <2>1, <2>4, <2>5, FindRunIsFirstFit
  <1> QED
    BY <1>1, HeapInvariance, PTL
=============================================================================
