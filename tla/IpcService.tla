----------------------------- MODULE IpcService -----------------------------
(***************************************************************************)
(* What the IPC calls promise: a pipe is a bounded queue of bytes between  *)
(* two ends, a message queue a bounded queue of messages, both first in,   *)
(* first out.  call is the last request with its arguments and result what *)
(* it returned; the request alone decides what happens:                    *)
(*   pipe    the contents of each pipe, or CLOSED                          *)
(*   open    the ends that are open; end <<"r", p>> reads pipe p,          *)
(*           <<"w", p>> writes it                                          *)
(*   queue   the messages in each queue, or CLOSED                         *)
(* A request fails exactly when it cannot be served, and then changes      *)
(* nothing.                                                                *)
(***************************************************************************)
EXTENDS Naturals, Sequences

CONSTANTS PipeId, QueueId, Byte, PipeCap, QueueCap, MaxMsg, CLOSED, OK, FAIL

VARIABLES pipe, open, queue, call, result

vars == <<pipe, open, queue, call, result>>

Bytes(max) == UNION {[1 .. n -> Byte] : n \in 1 .. max}

Ends(p) == {<<"r", p>>, <<"w", p>>}
End == {"r", "w"} \X PipeId

Init ==
    /\ pipe = [p \in PipeId |-> CLOSED]
    /\ open = {}
    /\ queue = [q \in QueueId |-> CLOSED]
    /\ call = <<"init">>
    /\ result = OK

Fail == result' = FAIL /\ UNCHANGED <<pipe, open, queue>>

\* A pipe that was closed is opened, empty and at both ends.
CreatePipe ==
    /\ call' = <<"pipe_create">>
    /\ \/ \E p \in PipeId :
            /\ pipe[p] = CLOSED
            /\ pipe' = [pipe EXCEPT ![p] = <<>>]
            /\ open' = open \cup Ends(p)
            /\ result' = p
            /\ UNCHANGED queue
       \/ (\A p \in PipeId : pipe[p] # CLOSED) /\ Fail

\* The bytes of the request go in behind the others, all or none of them.
CanWrite(fd, bytes) == fd \in open /\ fd[1] = "w" /\ Len(pipe[fd[2]]) + Len(bytes) <= PipeCap

Write(fd, bytes) ==
    /\ call' = <<"pipe_write", fd, bytes>>
    /\ \/ /\ CanWrite(fd, bytes)
          /\ pipe' = [pipe EXCEPT ![fd[2]] = @ \o bytes]
          /\ result' = OK
          /\ UNCHANGED <<open, queue>>
       \/ ~CanWrite(fd, bytes) /\ Fail

\* The oldest bytes come out, as many as there are, at most n.
Read(fd, n) ==
    /\ call' = <<"pipe_read", fd, n>>
    /\ \/ LET p == fd[2]
              k == IF n > Len(pipe[p]) THEN Len(pipe[p]) ELSE n
          IN  /\ fd \in open /\ fd[1] = "r"
              /\ result' = SubSeq(pipe[p], 1, k)
              /\ pipe' = [pipe EXCEPT ![p] = SubSeq(@, k + 1, Len(@))]
              /\ UNCHANGED <<open, queue>>
       \/ ~(fd \in open /\ fd[1] = "r") /\ Fail

\* An end is closed for good; the last one takes the pipe with it.
Close(fd) ==
    /\ call' = <<"pipe_close", fd>>
    /\ \/ /\ fd \in open
          /\ open' = open \ {fd}
          /\ pipe' = IF open' \cap Ends(fd[2]) = {} THEN [pipe EXCEPT ![fd[2]] = CLOSED] ELSE pipe
          /\ result' = OK
          /\ UNCHANGED queue
       \/ fd \notin open /\ Fail

CreateQueue ==
    /\ call' = <<"msgq_create">>
    /\ \/ \E q \in QueueId :
            /\ queue[q] = CLOSED
            /\ queue' = [queue EXCEPT ![q] = <<>>]
            /\ result' = q
            /\ UNCHANGED <<pipe, open>>
       \/ (\A q \in QueueId : queue[q] # CLOSED) /\ Fail

CanSend(q, msg) == queue[q] # CLOSED /\ Len(msg) <= MaxMsg /\ Len(queue[q]) < QueueCap

Send(q, msg) ==
    /\ call' = <<"msgq_send", q, msg>>
    /\ \/ /\ CanSend(q, msg)
          /\ queue' = [queue EXCEPT ![q] = Append(@, msg)]
          /\ result' = OK
          /\ UNCHANGED <<pipe, open>>
       \/ ~CanSend(q, msg) /\ Fail

\* The oldest message, cut to the receiver's buffer.
CanReceive(q) == queue[q] # CLOSED /\ queue[q] # <<>>

Receive(q, max) ==
    /\ call' = <<"msgq_recv", q, max>>
    /\ \/ /\ CanReceive(q)
          /\ LET msg == Head(queue[q])
             IN  result' = SubSeq(msg, 1, IF Len(msg) > max THEN max ELSE Len(msg))
          /\ queue' = [queue EXCEPT ![q] = Tail(@)]
          /\ UNCHANGED <<pipe, open>>
       \/ ~CanReceive(q) /\ Fail

DestroyQueue(q) ==
    /\ call' = <<"msgq_destroy", q>>
    /\ queue' = [queue EXCEPT ![q] = CLOSED]
    /\ result' = OK
    /\ UNCHANGED <<pipe, open>>

Next ==
    \/ CreatePipe \/ CreateQueue
    \/ \E fd \in End : \/ \E bytes \in Bytes(PipeCap) : Write(fd, bytes)
                       \/ \E n \in 1 .. PipeCap + 1 : Read(fd, n)
                       \/ Close(fd)
    \/ \E q \in QueueId : \/ \E msg \in Bytes(MaxMsg + 1) : Send(q, msg)
                          \/ \E max \in 1 .. MaxMsg : Receive(q, max)
                          \/ DestroyQueue(q)

Spec == Init /\ [][Next]_vars
=============================================================================
