----------------------------- MODULE Scheduler ------------------------------
(***************************************************************************)
(* The thread table and the round-robin scheduler: kernel/process.c,       *)
(* kernel/scheduler.c, kernel/thread.c and the timer handler that drives   *)
(* them, kernel/timer.c.                                                   *)
(*                                                                         *)
(* A PCB is an address of the kernel heap.  The scheduler's globals and    *)
(* the PCB fields it works on are the record sched:                        *)
(*   cur                current_thread                                     *)
(*   head, tail, count  ready_queue_head, ready_queue_tail and             *)
(*                      ready_queue_count                                  *)
(*   next, prev, inq    next_ready, prev_ready and in_ready_queue          *)
(*   state              the thread state                                   *)
(* The C functions that change it are operators from a record to a record, *)
(* so that a handler which calls several of them (thread_exit destroys,    *)
(* then schedules) is one action.  pic_init leaves every interrupt line    *)
(* masked and nothing in the tree unmasks line 0, so no tick arrives in    *)
(* the middle of a call: calls are atomic, and timer_handler runs between  *)
(* them.                                                                   *)
(***************************************************************************)
EXTENDS Naturals, FiniteSets

CONSTANTS Pcb,         \* heap addresses of thread control blocks
          NULL,        \* the null pointer
          Quantum,     \* TIME_QUANTUM_MS
          MaxCreated   \* bound: threads created in one behaviour

ASSUME SchedulerAssumption ==
    /\ NULL \notin Pcb
    /\ Quantum \in Nat \ {0}
    /\ MaxCreated \in Nat

VARIABLES sched,    \* the scheduler's globals and the PCBs' fields
          live,     \* the PCBs that are allocated (magic = PCB_MAGIC)
          stats,    \* process_stats
          tick      \* tick_count % TIME_QUANTUM_MS

vars == <<sched, live, stats, tick>>

ThreadState == {"READY", "RUNNING", "BLOCKED", "EXITED"}

Ptr == Pcb \cup {NULL}

SchedType ==
    [cur : Ptr, head : Ptr, tail : Ptr, count : Nat,
     next : [Pcb -> Ptr], prev : [Pcb -> Ptr], inq : [Pcb -> BOOLEAN],
     state : [Pcb -> ThreadState]]

StatsType ==
    [live_threads : Nat, exited_threads : Nat,
     total_created : Nat, total_destroyed : Nat]

-----------------------------------------------------------------------------
\* The functions of process.c and scheduler.c.

\* Mutant: the old tail keeps its NULL next link.
Mut_NoForwardLink(s, p) ==
    IF s.state[p] = "EXITED" \/ s.inq[p] THEN s
    ELSE [s EXCEPT
            !.state = [@ EXCEPT ![p] = "READY"],
            !.head  = IF s.tail = NULL THEN p ELSE @,
            !.tail  = p,
            !.count = @ + 1,
            !.next  = [@ EXCEPT ![p] = NULL],
            !.prev  = [@ EXCEPT ![p] = s.tail],
            !.inq   = [@ EXCEPT ![p] = TRUE]]

\* Mutant: arrivals are put at the head of the queue.
Mut_PushFront(s, p) ==
    IF s.state[p] = "EXITED" \/ s.inq[p] THEN s
    ELSE [s EXCEPT
            !.state = [@ EXCEPT ![p] = "READY"],
            !.head  = p,
            !.tail  = IF s.head = NULL THEN p ELSE @,
            !.count = @ + 1,
            !.next  = [@ EXCEPT ![p] = s.head],
            !.prev  = [x \in Pcb |-> IF x = p THEN NULL
                                     ELSE IF x = s.head THEN p ELSE @[x]],
            !.inq   = [@ EXCEPT ![p] = TRUE]]

\* Append p to the ready queue; a no-op for a thread that has exited or is
\* already queued.
pcb_add_to_ready_queue(s, p) ==
    IF s.state[p] = "EXITED" \/ s.inq[p] THEN s
    ELSE [s EXCEPT
            !.state = [@ EXCEPT ![p] = "READY"],
            !.head  = IF s.tail = NULL THEN p ELSE @,
            !.tail  = p,
            !.count = @ + 1,
            !.next  = [x \in Pcb |-> IF x = p THEN NULL
                                     ELSE IF x = s.tail THEN p ELSE @[x]],
            !.prev  = [@ EXCEPT ![p] = s.tail],
            !.inq   = [@ EXCEPT ![p] = TRUE]]

\* Mutant: the queue keeps what is destroyed.
Mut_KeepQueued(s, p) == s

\* Unlink p, wherever it is in the ready queue.
pcb_remove_from_ready_queue(s, p) ==
    IF ~s.inq[p] THEN s
    ELSE [s EXCEPT
            !.head  = IF s.prev[p] = NULL THEN s.next[p] ELSE @,
            !.tail  = IF s.next[p] = NULL THEN s.prev[p] ELSE @,
            !.count = @ - 1,
            !.next  = [x \in Pcb |-> IF x = p THEN NULL
                                     ELSE IF x = s.prev[p] THEN s.next[p] ELSE @[x]],
            !.prev  = [x \in Pcb |-> IF x = p THEN NULL
                                     ELSE IF x = s.next[p] THEN s.prev[p] ELSE @[x]],
            !.inq   = [@ EXCEPT ![p] = FALSE]]

\* Take the head of the queue off it and give it the processor.
dispatch(s) ==
    [pcb_remove_from_ready_queue(s, s.head) EXCEPT
        !.cur = s.head,
        !.state = [@ EXCEPT ![s.head] = "RUNNING"]]

\* A thread that is still running goes back to the end of the queue.
requeue_current(s) ==
    IF s.cur # NULL /\ s.state[s.cur] = "RUNNING"
    THEN pcb_add_to_ready_queue([s EXCEPT !.state = [@ EXCEPT ![s.cur] = "READY"]], s.cur)
    ELSE s

\* Nobody is ready: the current thread goes on, unless it has exited.
keep_current(s) ==
    IF s.cur # NULL /\ s.state[s.cur] # "EXITED"
    THEN [s EXCEPT !.state = [@ EXCEPT ![s.cur] = "RUNNING"]]
    ELSE [s EXCEPT !.cur = NULL]

\* Mutant: the outgoing thread keeps the state RUNNING.
Mut_scheduleKeepsRunning(s) ==
    IF s.head # NULL THEN dispatch(s) ELSE keep_current(s)

\* The scheduling decision: requeue the current thread, then hand over to
\* the head of the queue.
schedule(s) ==
    LET r == requeue_current(s)
    IN  IF r.head # NULL THEN dispatch(r) ELSE keep_current(r)

-----------------------------------------------------------------------------
\* process_init: no threads, an empty queue, nobody running.
Init ==
    /\ sched = [cur |-> NULL, head |-> NULL, tail |-> NULL, count |-> 0,
                next |-> [p \in Pcb |-> NULL], prev |-> [p \in Pcb |-> NULL],
                inq |-> [p \in Pcb |-> FALSE], state |-> [p \in Pcb |-> "READY"]]
    /\ live = {}
    /\ stats = [live_threads |-> 0, exited_threads |-> 0,
                total_created |-> 0, total_destroyed |-> 0]
    /\ tick = 0

\* thread_create and pcb_create: a fresh PCB, READY and not queued.  A
\* failed allocation changes nothing that is modelled here.
thread_create(p) ==
    /\ p \notin live
    /\ stats.total_created < MaxCreated
    /\ live' = live \cup {p}
    /\ sched' = [sched EXCEPT
                    !.state = [@ EXCEPT ![p] = "READY"],
                    !.next = [@ EXCEPT ![p] = NULL],
                    !.prev = [@ EXCEPT ![p] = NULL],
                    !.inq = [@ EXCEPT ![p] = FALSE]]
    /\ stats' = [stats EXCEPT !.total_created = @ + 1, !.live_threads = @ + 1]
    /\ UNCHANGED tick

scheduler_add_thread(p) ==
    /\ p \in live
    /\ sched' = pcb_add_to_ready_queue(sched, p)
    /\ UNCHANGED <<live, stats, tick>>

\* Only marks the thread: its place in the queue and its memory stay.
scheduler_remove_thread(p) ==
    /\ p \in live
    /\ sched' = [sched EXCEPT !.state = [@ EXCEPT ![p] = "EXITED"]]
    /\ UNCHANGED <<live, stats, tick>>

\* What pcb_destroy does to process_stats (live_threads saturates at 0).
CountDestroyed(st) ==
    [st EXCEPT !.live_threads = IF @ > 0 THEN @ - 1 ELSE @,
               !.total_destroyed = @ + 1]

\* pcb_destroy of a thread other than the running one: the running one is
\* destroyed by thread_exit, which clears current_thread first.
pcb_destroy(p) ==
    /\ p \in live
    /\ p # sched.cur
    /\ sched' = pcb_remove_from_ready_queue(sched, p)
    /\ live' = live \ {p}
    /\ stats' = CountDestroyed(stats)
    /\ UNCHANGED tick

\* thread_exit: the current thread is destroyed and the processor handed on.
thread_exit ==
    /\ sched.cur # NULL
    /\ sched' = schedule(pcb_remove_from_ready_queue(
                    [sched EXCEPT !.state = [@ EXCEPT ![sched.cur] = "EXITED"],
                                  !.cur = NULL], sched.cur))
    /\ live' = live \ {sched.cur}
    /\ stats' = [CountDestroyed(stats) EXCEPT !.exited_threads = @ + 1]
    /\ UNCHANGED tick

thread_yield ==
    /\ sched' = schedule(sched)
    /\ UNCHANGED <<live, stats, tick>>

\* Mutant: the quantum never expires.
Mut_timer_handler ==
    /\ tick' = (tick + 1) % Quantum
    /\ UNCHANGED <<sched, live, stats>>

\* timer_handler and scheduler_tick: reschedule when the quantum expires.
timer_handler ==
    /\ tick' = (tick + 1) % Quantum
    /\ sched' = IF tick' = 0 THEN schedule(sched) ELSE sched
    /\ UNCHANGED <<live, stats>>

\* Adopting a thread while none is current (the setter itself checks
\* nothing; no code in the tree calls it).
scheduler_set_current(p) ==
    /\ p \in live
    /\ sched.cur = NULL
    /\ sched' = [sched EXCEPT !.cur = p]
    /\ UNCHANGED <<live, stats, tick>>

Next ==
    \/ \E p \in Pcb : \/ thread_create(p)
                      \/ scheduler_add_thread(p)
                      \/ scheduler_remove_thread(p)
                      \/ pcb_destroy(p)
                      \/ scheduler_set_current(p)
    \/ thread_exit
    \/ thread_yield
    \/ timer_handler

\* No fairness: pic_init leaves line 0 masked, and thread_yield is called
\* only by mutex_lock and by a main loop that nothing enters, so the kernel
\* does not guarantee that schedule() is ever reached again.
Spec == Init /\ [][Next]_vars

-----------------------------------------------------------------------------
\* Every variable has the type of its C declaration.
TypeOK ==
    /\ sched \in SchedType
    /\ live \in SUBSET Pcb
    /\ stats \in StatsType
    /\ tick \in 0 .. Quantum - 1

\* l lists the ready queue from head to tail: its ends, its links in both
\* directions and the in_ready_queue flags all describe the same list.
IsReadyList(s, l) ==
    /\ l \in [1 .. s.count -> Pcb]
    /\ \A i, j \in 1 .. s.count : l[i] = l[j] => i = j
    /\ \A p \in Pcb : s.inq[p] <=> \E i \in 1 .. s.count : l[i] = p
    /\ s.head = IF s.count = 0 THEN NULL ELSE l[1]
    /\ s.tail = IF s.count = 0 THEN NULL ELSE l[s.count]
    /\ \A i \in 1 .. s.count :
         /\ s.next[l[i]] = IF i = s.count THEN NULL ELSE l[i + 1]
         /\ s.prev[l[i]] = IF i = 1 THEN NULL ELSE l[i - 1]

\* The doubly linked ready queue is a list without repetitions that holds
\* exactly the threads flagged in_ready_queue, whatever sequence of adds,
\* removals from the middle, dispatches and exits built it.
QueueWellFormed ==
    \E l \in [1 .. sched.count -> Pcb] : IsReadyList(sched, l)

\* The KASSERTs of process.c hold: current_thread and everything that can
\* be reached through the queue is a PCB that has not been freed, so no
\* call follows a pointer to a destroyed thread.
NoDanglingPcb ==
    /\ sched.cur # NULL => sched.cur \in live
    /\ \A p \in Pcb : sched.inq[p] => p \in live

\* One processor, one running thread: schedule() never leaves a second
\* thread marked RUNNING, and a thread marked RUNNING is not also waiting in
\* the queue.
OnlyCurrentRuns ==
    \A p \in live : sched.state[p] = "RUNNING" => p = sched.cur /\ ~sched.inq[p]

\* process_stats agrees with the heap: live_threads counts the PCBs that
\* exist and never saturates, and every exit is also a destruction.
StatsAgree ==
    /\ stats.live_threads = Cardinality(live)
    /\ stats.total_created = stats.live_threads + stats.total_destroyed
    /\ stats.exited_threads <= stats.total_destroyed

\* The scheduler goes on being entered, through the timer or a yield.  This
\* is a hypothesis: nothing in the tree guarantees it (see Spec).
SchedulerEntered == []<><<timer_handler \/ thread_yield>>_vars

\* schedule() starves nobody: in every behaviour that keeps entering it, a
\* thread in the ready queue gets the processor or is destroyed, however
\* many others arrive, yield and exit.  (About the queue discipline only;
\* that the scheduler is entered at all is the hypothesis.)
ReadyIsServed ==
    SchedulerEntered =>
        \A p \in Pcb : sched.inq[p] ~> (sched.cur = p \/ p \notin live)
=============================================================================
