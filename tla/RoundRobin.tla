----------------------------- MODULE RoundRobin -----------------------------
(***************************************************************************)
(* What the Layer 2 scheduler promises (README.md: "Round-Robin            *)
(* Scheduler"): one running thread at most, and a ready line served from   *)
(* its head.  A thread joins the line at its end, leaves it by being       *)
(* dispatched from the head or by being destroyed, and whoever is in the   *)
(* line is served in the order of arrival.  Links, flags, counters and     *)
(* thread states belong to the implementation, module Scheduler.           *)
(***************************************************************************)
EXTENDS Sequences, SequencesExt

CONSTANTS Thread,   \* the threads that can exist
          NULL      \* "no thread"

VARIABLES line,     \* the ready threads in order of arrival
          running   \* the thread that owns the processor, or NULL

vars == <<line, running>>

InLine(t) == \E i \in DOMAIN line : line[i] = t

\* The line without t.
Without(t) == IF InLine(t) THEN RemoveAt(line, CHOOSE i \in DOMAIN line : line[i] = t) ELSE line

Init == line = <<>> /\ running = NULL

\* A thread that is not waiting joins the end of the line.
Join(t) ==
    /\ ~InLine(t)
    /\ line' = Append(line, t)
    /\ UNCHANGED running

\* A waiting thread is destroyed.
Leave(t) ==
    /\ InLine(t)
    /\ line' = Without(t)
    /\ UNCHANGED running

\* The processor goes to the head of the line, after the running thread has
\* joined its end (again = TRUE) or given up the processor for good.
Switch(again) ==
    LET l == IF again THEN Append(line, running) ELSE line
    IN  /\ again => running # NULL /\ ~InLine(running)
        /\ l # <<>>
        /\ running' = Head(l)
        /\ line' = Tail(l)

\* The running thread ends; what is left of the line moves up.
End ==
    /\ running # NULL
    /\ LET l == Without(running)
       IN  IF l = <<>> THEN line' = l /\ running' = NULL
                       ELSE line' = Tail(l) /\ running' = Head(l)

\* Nobody waits and the running thread gives up the processor for good.
Idle ==
    /\ line = <<>>
    /\ running' = NULL
    /\ UNCHANGED line

\* The kernel adopts the code it is executing as a thread.
Adopt(t) ==
    /\ running = NULL
    /\ running' = t
    /\ UNCHANGED line

Next ==
    \/ \E t \in Thread : Join(t) \/ Leave(t) \/ Adopt(t)
    \/ \E again \in BOOLEAN : Switch(again)
    \/ End \/ Idle

\* The order of service.  That the processor is handed over at all is not
\* promised: it depends on timer ticks and on threads that yield.
Spec == Init /\ [][Next]_vars
=============================================================================
