------------------------------- MODULE MCIpc --------------------------------
(***************************************************************************)
(* Ipc for TLC.  Pipes and message queues share no state, so behaviours in *)
(* which only one of the two tables has been used show all there is to     *)
(* see; the constraint leaves the others out.                              *)
(***************************************************************************)
EXTENDS Ipc, TLC

PipesUntouched == \A p \in PipeSlot : ~pipes[p].used /\ pipes[p].buffer = ring_buffer_init
QueuesUntouched == \A q \in QueueSlot : ~msg_queues[q].used /\ msg_queues[q].messages[0] = <<>>

OneTable == PipesUntouched \/ QueuesUntouched

\* No action reads call or result, and RefinesIpcService is about steps: TLC
\* checks it on every step it generates, so two states that differ only in
\* them need not both be kept.
Tables == <<pipes, msg_queues>>

ByteSymmetry == Permutations(Byte)
=============================================================================
