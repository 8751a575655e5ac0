---------------------------- MODULE MCScheduler -----------------------------
(***************************************************************************)
(* Scheduler for TLC, with the refinement mapping to RoundRobin: the line  *)
(* is the list the links describe, the running thread is current_thread.   *)
(***************************************************************************)
EXTENDS Scheduler

\* The ready queue as a sequence (there is one, by QueueWellFormed).
ListOf(s) == CHOOSE l \in [1 .. s.count -> Pcb] : IsReadyList(s, l)
ReadyList == ListOf(sched)

RR == INSTANCE RoundRobin WITH Thread <- Pcb, line <- ReadyList, running <- sched.cur

\* The linked queue and schedule() implement the round-robin line: threads
\* are served in the order of arrival.
RefinesRoundRobin == RR!Spec
=============================================================================
