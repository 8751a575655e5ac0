---------------------------- MODULE MutexClients ----------------------------
(***************************************************************************)
(* Mutex with callers that make any call at any time: recursive locks up   *)
(* to MaxDepth, try_lock, unlock by owners and by others, and the boot     *)
(* code among them.                                                        *)
(***************************************************************************)
EXTENDS Mutex

CONSTANT MaxDepth    \* bound: nested locks of one context

\* Nobody nests 2^32 locks.
ASSUME DepthAssumption == MaxDepth \in Nat /\ MaxDepth < RecMod

Caller(c) ==
    \/ depth[c] < MaxDepth /\ (Call(c, "lock_spin") \/ Call(c, "try_spin"))
    \/ Call(c, "unlock_spin")

Next == \E c \in Context : Caller(c) \/ Step(c)

\* A context that holds the spinlock goes on running; callers may stop
\* calling, and who waits may never be scheduled again.
Spec ==
    /\ MutexInit /\ [][Next]_mutex_vars
    /\ \A c \in Context : WF_mutex_vars(InsideSpin(c) /\ Step(c))
=============================================================================
