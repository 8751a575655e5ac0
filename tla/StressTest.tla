----------------------------- MODULE StressTest -----------------------------
(***************************************************************************)
(* The sync stress threads of kernel/stress_test.c on the mutex of         *)
(* kernel/sync.c: Iterations times, increment shared_counter under         *)
(* counter_mutex, then look at the counter again after the unlock.  The    *)
(* counter is volatile, so `old_value = shared_counter' and the load and   *)
(* the store of `shared_counter++' are three accesses, and another thread  *)
(* can run between any two of them.                                        *)
(*                                                                         *)
(* A behaviour has one of two workloads, chosen at the start: the stress   *)
(* threads, or the callers of MutexClients, who make any call (at is then  *)
(* "client").                                                              *)
(***************************************************************************)
EXTENDS MutexClients, FiniteSets

CONSTANTS Iterations,   \* rounds of the loop (1000)
          Callers       \* the contexts that make calls in the other workload

ASSUME StressAssumption ==
    /\ Iterations \in Nat /\ Callers \subseteq Context
    /\ IsFiniteSet(Thread) /\ MaxDepth > 0

VARIABLES shared_counter,
          at,          \* where each thread is in the loop body
          i,           \* completed rounds
          old_value,   \* the local of that name
          loaded       \* the register between load and store of ++

stress_locals == <<shared_counter, at, i, old_value, loaded>>
vars == <<mutex_vars, stress_locals>>

StressInit ==
    /\ MutexInit
    /\ shared_counter = 0
    /\ at \in {[t \in Thread |-> place] : place \in {"top", "client"}}
    /\ i = [t \in Thread |-> 0]
    /\ old_value = [t \in Thread |-> 0]
    /\ loaded = [t \in Thread |-> 0]

Goto(t, place) == at' = [at EXCEPT ![t] = place]

\* The loop test and the call of mutex_lock.
enter(t) ==
    /\ at[t] = "top" /\ i[t] < Iterations
    /\ Call(t, "lock_spin")
    /\ Goto(t, "locking")
    /\ UNCHANGED <<shared_counter, i, old_value, loaded>>

\* mutex_lock has returned: old_value = shared_counter.
read_old(t) ==
    /\ at[t] = "locking" /\ pc[t] = "idle"
    /\ old_value' = [old_value EXCEPT ![t] = shared_counter]
    /\ Goto(t, "load")
    /\ UNCHANGED <<mutex_vars, shared_counter, i, loaded>>

\* shared_counter++
inc_load(t) ==
    /\ at[t] = "load"
    /\ loaded' = [loaded EXCEPT ![t] = shared_counter]
    /\ Goto(t, "store")
    /\ UNCHANGED <<mutex_vars, shared_counter, i, old_value>>

inc_store(t) ==
    /\ at[t] = "store"
    /\ shared_counter' = loaded[t] + 1
    /\ Goto(t, "stored")
    /\ UNCHANGED <<mutex_vars, i, old_value, loaded>>

leave(t) ==
    /\ at[t] = "stored"
    /\ Call(t, "unlock_spin")
    /\ Goto(t, "unlocking")
    /\ UNCHANGED <<shared_counter, i, old_value, loaded>>

\* mutex_unlock has returned: the thread compares and goes round.
verify(t) ==
    /\ at[t] = "unlocking" /\ pc[t] = "idle"
    /\ i' = [i EXCEPT ![t] = @ + 1]
    /\ Goto(t, "top")
    /\ UNCHANGED <<mutex_vars, shared_counter, old_value, loaded>>

sync_stress_thread(t) ==
    \/ enter(t) \/ read_old(t) \/ inc_load(t) \/ inc_store(t) \/ leave(t) \/ verify(t)
    \/ at[t] # "client" /\ Step(t) /\ UNCHANGED stress_locals

\* The other workload: contexts, the boot code among them, that make any call.
Clients == \A t \in Thread : at[t] = "client"
client_step(c) == Clients /\ Step(c) /\ UNCHANGED stress_locals
client_call(c) == Clients /\ Caller(c) /\ UNCHANGED stress_locals

\* Every stress thread has left its loop.
Done == (\A t \in Thread : at[t] = "top" /\ i[t] = Iterations) /\ UNCHANGED vars

StressNext ==
    \/ \E t \in Thread : sync_stress_thread(t)
    \/ \E c \in Callers : client_step(c) \/ client_call(c)
    \/ Done

\* The only fairness: a context that holds the spinlock goes on running (the
\* section has no yield, and no tick arrives).  Nothing is assumed of the
\* others: thread_create does not put a thread in the ready queue, so that a
\* stress thread ever runs is not something the code guarantees.
StressSpec ==
    /\ StressInit /\ [][StressNext]_vars
    /\ \A t \in Thread : WF_vars(InsideSpin(t) /\ sync_stress_thread(t))
    /\ \A c \in Callers : WF_vars(InsideSpin(c) /\ client_step(c))

-----------------------------------------------------------------------------
\* The increments a thread has stored.
Stored(t) == i[t] + IF at[t] \in {"stored", "unlocking"} THEN 1 ELSE 0

\* The stores of all threads, each by its thread and its round.
Stores == {s \in Thread \X (1 .. Iterations) : s[2] <= Stored(s[1])}

\* No increment is ever lost: the counter is the number of stores the
\* threads have made, so it ends at threads times iterations (the
\* "expected: 2000" of run_stress_test).
NoLostUpdate ==
    shared_counter = Cardinality(Stores)

\* The stress threads are scheduled, and one that finds the spinlock free
\* again and again gets it.  This is a hypothesis: run_stress_test never
\* hands its threads to scheduler_add_thread.
ThreadsScheduled == \A t \in Thread : SF_vars(sync_stress_thread(t))

\* The mutex starves nobody and blocks nobody for ever: in every behaviour in
\* which the stress threads are scheduled, each of them completes its loop.
AllComplete ==
    ThreadsScheduled => <>(\A t \in Thread : at[t] # "client" => i[t] = Iterations)
=============================================================================
