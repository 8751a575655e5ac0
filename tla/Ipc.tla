-------------------------------- MODULE Ipc ---------------------------------
(***************************************************************************)
(* Pipes and message queues: services/ipc.c on services/ring_buffer.c,     *)
(* called through the descriptors of services/syscall_layer4.c.            *)
(*                                                                         *)
(* A pipe slot has two descriptors, slot + 100 for reading and slot + 200  *)
(* for writing (here <<"r", slot>> and <<"w", slot>>), set to NOFD when    *)
(* that end is closed; the system calls route only such descriptors here.  *)
(* Both rings are kept as the code keeps them: an array, head, tail and    *)
(* count, never cleared but on creation (pipe) or not at all (queue).      *)
(***************************************************************************)
EXTENDS Naturals, Sequences

CONSTANTS MaxPipes,    \* IPC_MAX_PIPES
          MaxQueues,   \* IPC_MAX_MSGQS: the number of queues, and of
                       \* messages in a queue
          QueueCap,
          RingSize,    \* RING_BUFFER_SIZE
          MaxMsgSize,  \* IPC_MAX_MSG_SIZE
          Byte,        \* values of a byte
          Zero,        \* what memset leaves
          NOFD,        \* -1
          CLOSED,      \* an unused slot, seen from outside
          OK, FAIL     \* results of calls: 0 (or a length written), -1
                       \* (a slot created and bytes read are themselves)

ASSUME IpcAssumption ==
    /\ MaxPipes \in Nat /\ MaxQueues \in Nat /\ MaxMsgSize \in Nat
    /\ QueueCap \in Nat \ {0} /\ RingSize \in Nat \ {0}
    /\ Zero \notin Byte
    /\ NOFD \notin {"r", "w"} \X (0 .. MaxPipes - 1)
    /\ CLOSED \notin Seq(Byte \cup {Zero}) /\ CLOSED \notin Seq(Seq(Byte))

VARIABLES pipes, msg_queues,
          call,        \* the last call, with its arguments
          result       \* what it returned

ipcVars == <<pipes, msg_queues, call, result>>

PipeSlot == 0 .. MaxPipes - 1
QueueSlot == 0 .. MaxQueues - 1
Fd == {"r", "w"} \X PipeSlot

\* A call that returns -1 changes nothing.
Fail == result' = FAIL /\ UNCHANGED <<pipes, msg_queues>>

-----------------------------------------------------------------------------
\* ring_buffer.c, between spinlock_lock and spinlock_unlock.

ring_buffer_init ==
    [data |-> [i \in 0 .. RingSize - 1 |-> Zero], head |-> 0, tail |-> 0, count |-> 0]

has_room(rb, len) == len <= RingSize - rb.count

\* The loop stores byte k at (head + k) % RING_BUFFER_SIZE.
ring_buffer_write(rb, bytes) ==
    LET len == Len(bytes)
        pos(k) == (rb.head + k) % RingSize
    IN  [rb EXCEPT
            !.data = [i \in DOMAIN @ |->
                        IF \E k \in 0 .. len - 1 : i = pos(k)
                        THEN bytes[1 + CHOOSE k \in 0 .. len - 1 : i = pos(k)]
                        ELSE @[i]],
            !.head = pos(len),
            !.count = @ + len]

\* The bytes a read of at most len returns.
ring_buffer_peek(rb, len) ==
    [k \in 1 .. (IF len > rb.count THEN rb.count ELSE len) |-> rb.data[(rb.tail + k - 1) % RingSize]]

\* Mutant: tail follows the request, not what was there.
Mut_ring_buffer_skip(rb, len) ==
    LET n == IF len > rb.count THEN rb.count ELSE len
    IN  [rb EXCEPT !.tail = (@ + len) % RingSize, !.count = @ - n]

ring_buffer_skip(rb, len) ==
    LET n == IF len > rb.count THEN rb.count ELSE len
    IN  [rb EXCEPT !.tail = (@ + n) % RingSize, !.count = @ - n]

-----------------------------------------------------------------------------
\* ipc_init
IpcInit ==
    /\ pipes = [p \in PipeSlot |-> [used |-> FALSE, read_end |-> NOFD, write_end |-> NOFD,
                                    buffer |-> ring_buffer_init]]
    /\ msg_queues = [q \in QueueSlot |->
                        [used |-> FALSE, messages |-> [i \in 0 .. QueueCap - 1 |-> <<>>],
                         head |-> 0, tail |-> 0, count |-> 0]]
    /\ call = <<"init">>
    /\ result = OK

\* The first unused entry of a table.
FirstFree(table, slot) ==
    /\ ~table[slot].used
    /\ \A s \in DOMAIN table : s < slot => table[s].used

\* The pipe behind a descriptor.
find_pipe_by_fd(fd) ==
    {p \in PipeSlot : pipes[p].used /\ (pipes[p].read_end = fd \/ pipes[p].write_end = fd)}

\* A new pipe: both ends open, nothing in it.
fresh_pipe(p) ==
    [used |-> TRUE, read_end |-> <<"r", p>>, write_end |-> <<"w", p>>, buffer |-> ring_buffer_init]

pipe_create ==
    \/ \E p \in PipeSlot :
         /\ FirstFree(pipes, p)
         /\ pipes' = [pipes EXCEPT ![p] = fresh_pipe(p)]
         /\ result' = p
         /\ UNCHANGED msg_queues
    \/ (\A p \in PipeSlot : pipes[p].used) /\ Fail

pipe_write(fd, bytes) ==
    \/ \E p \in find_pipe_by_fd(fd) :
         /\ pipes[p].write_end = fd
         /\ has_room(pipes[p].buffer, Len(bytes))
         /\ pipes' = [pipes EXCEPT ![p].buffer = ring_buffer_write(@, bytes)]
         /\ result' = OK
         /\ UNCHANGED msg_queues
    \/ /\ \A p \in find_pipe_by_fd(fd) :
            pipes[p].write_end # fd \/ ~has_room(pipes[p].buffer, Len(bytes))
       /\ Fail

pipe_read(fd, len) ==
    \/ \E p \in find_pipe_by_fd(fd) :
         /\ pipes[p].read_end = fd
         /\ result' = ring_buffer_peek(pipes[p].buffer, len)
         /\ pipes' = [pipes EXCEPT ![p].buffer = ring_buffer_skip(@, len)]
         /\ UNCHANGED msg_queues
    \/ (\A p \in find_pipe_by_fd(fd) : pipes[p].read_end # fd) /\ Fail

\* Closing the second end frees the slot.
pipe_close(fd) ==
    \/ \E p \in find_pipe_by_fd(fd) :
         LET Shut(end) == IF end = fd THEN NOFD ELSE end
             r == Shut(pipes[p].read_end)
             w == Shut(pipes[p].write_end)
         IN  /\ pipes' = [pipes EXCEPT ![p].read_end = r, ![p].write_end = w,
                                       ![p].used = ~(r = NOFD /\ w = NOFD)]
             /\ result' = OK
             /\ UNCHANGED msg_queues
    \/ find_pipe_by_fd(fd) = {} /\ Fail

msgq_create ==
    \/ \E q \in QueueSlot :
         /\ FirstFree(msg_queues, q)
         /\ msg_queues' = [msg_queues EXCEPT ![q].used = TRUE, ![q].head = 0,
                                             ![q].tail = 0, ![q].count = 0]
         /\ result' = q
         /\ UNCHANGED pipes
    \/ (\A q \in QueueSlot : msg_queues[q].used) /\ Fail

msgq_send(q, msg) ==
    LET mq == msg_queues[q]
        sendable == mq.used /\ Len(msg) <= MaxMsgSize /\ mq.count < QueueCap
    IN  \/ /\ sendable
           /\ msg_queues' = [msg_queues EXCEPT ![q].messages[mq.head] = msg,
                                               ![q].head = (@ + 1) % QueueCap,
                                               ![q].count = @ + 1]
           /\ result' = OK
           /\ UNCHANGED pipes
        \/ ~sendable /\ Fail

\* A message longer than the receiver's buffer is cut, and its rest lost.
msgq_recv(q, max_len) ==
    LET mq == msg_queues[q]
        msg == mq.messages[mq.tail]
    IN  \/ /\ mq.used /\ mq.count > 0
           /\ result' = SubSeq(msg, 1, IF Len(msg) > max_len THEN max_len ELSE Len(msg))
           /\ msg_queues' = [msg_queues EXCEPT ![q].tail = (@ + 1) % QueueCap,
                                               ![q].count = @ - 1]
           /\ UNCHANGED pipes
        \/ ~(mq.used /\ mq.count > 0) /\ Fail

msgq_destroy(q) ==
    /\ msg_queues' = [msg_queues EXCEPT ![q].used = FALSE]
    /\ result' = OK
    /\ UNCHANGED pipes

Payload(max) == UNION {[1 .. n -> Byte] : n \in 1 .. max}

\* The caller's side: which call is made, with which arguments.
Calls(request) == call' = request

IpcNext ==
    \/ Calls(<<"pipe_create">>) /\ pipe_create
    \/ \E fd \in Fd :
         \/ \E bytes \in Payload(RingSize) :
              Calls(<<"pipe_write", fd, bytes>>) /\ pipe_write(fd, bytes)
         \/ \E len \in 1 .. RingSize + 1 : Calls(<<"pipe_read", fd, len>>) /\ pipe_read(fd, len)
         \/ Calls(<<"pipe_close", fd>>) /\ pipe_close(fd)
    \/ Calls(<<"msgq_create">>) /\ msgq_create
    \/ \E q \in QueueSlot :
         \/ \E msg \in Payload(MaxMsgSize + 1) : Calls(<<"msgq_send", q, msg>>) /\ msgq_send(q, msg)
         \/ \E max \in 1 .. MaxMsgSize : Calls(<<"msgq_recv", q, max>>) /\ msgq_recv(q, max)
         \/ Calls(<<"msgq_destroy", q>>) /\ msgq_destroy(q)

IpcSpec == IpcInit /\ [][IpcNext]_ipcVars

-----------------------------------------------------------------------------
\* The contents of the two kinds of ring, oldest first.
PipeContents == [p \in PipeSlot |->
    IF pipes[p].used THEN ring_buffer_peek(pipes[p].buffer, pipes[p].buffer.count) ELSE CLOSED]

QueueContents == [q \in QueueSlot |->
    LET mq == msg_queues[q]
    IN  IF mq.used THEN [k \in 1 .. mq.count |-> mq.messages[(mq.tail + k - 1) % QueueCap]]
        ELSE CLOSED]

\* The descriptors that lead to a pipe.
OpenEnds == {fd \in Fd : find_pipe_by_fd(fd) # {}}

Abstract == INSTANCE IpcService WITH
    PipeId <- PipeSlot, QueueId <- QueueSlot, PipeCap <- RingSize, MaxMsg <- MaxMsgSize,
    pipe <- PipeContents, open <- OpenEnds, queue <- QueueContents

\* The rings implement bounded first-in first-out queues.  A write or a send
\* puts in exactly what its caller passed, a read or a receive takes out the
\* oldest, nothing is lost, doubled or reordered across wrap-around, reuse of
\* a slot and failed calls; bytes move only through an end that is open and
\* of the right kind, also on a pipe that is closed at its other end; a call
\* fails exactly when it cannot be served.
RefinesIpcService == Abstract!Spec
=============================================================================
