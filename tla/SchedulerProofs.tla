-------------------------- MODULE SchedulerProofs ---------------------------
(***************************************************************************)
(* Proofs about module Scheduler, for every set of PCBs, every quantum and *)
(* every number of threads.  The operators on the scheduler's record are   *)
(* treated first (each keeps the ready queue a list and the thread states  *)
(* consistent), then the actions, and last the refinement of RoundRobin.   *)
(***************************************************************************)
EXTENDS MCScheduler, FiniteSetTheorems, SequenceTheorems, TLAPS

\* A record of the scheduler's type whose links form a list.
QueueOK(s) == s \in SchedType /\ \E l \in [1 .. s.count -> Pcb] : IsReadyList(s, l)

\* The scheduler's part of the inductive invariant, A being the set of PCBs
\* that are allocated.
SchedOK(s, A) ==
    /\ QueueOK(s)
    /\ s.cur # NULL => s.cur \in A
    /\ \A p \in Pcb : s.inq[p] => p \in A
    /\ \A p \in A : s.state[p] = "RUNNING" => p = s.cur /\ ~s.inq[p]

\* t is s with p appended to the ready queue.
Appended(s, p, t) ==
    /\ t \in SchedType
    /\ t.cur = s.cur
    /\ t.state = [s.state EXCEPT ![p] = "READY"]
    /\ t.head = IF s.tail = NULL THEN p ELSE s.head
    /\ t.tail = p
    /\ t.count = s.count + 1
    /\ t.next = [x \in Pcb |-> IF x = p THEN NULL
                               ELSE IF x = s.tail THEN p ELSE s.next[x]]
    /\ t.prev = [s.prev EXCEPT ![p] = s.tail]
    /\ t.inq = [s.inq EXCEPT ![p] = TRUE]

\* t is s with p taken off the ready queue.
Unlinked(s, p, t) ==
    /\ t \in SchedType
    /\ t.cur = s.cur
    /\ t.state = s.state
    /\ t.head = IF s.prev[p] = NULL THEN s.next[p] ELSE s.head
    /\ t.tail = IF s.next[p] = NULL THEN s.prev[p] ELSE s.tail
    /\ t.count = s.count - 1
    /\ t.next = [x \in Pcb |-> IF x = p THEN NULL
                               ELSE IF x = s.prev[p] THEN s.next[p] ELSE s.next[x]]
    /\ t.prev = [x \in Pcb |-> IF x = p THEN NULL
                               ELSE IF x = s.next[p] THEN s.prev[p] ELSE s.prev[x]]
    /\ t.inq = [s.inq EXCEPT ![p] = FALSE]

\* What the callers of the two queue operations rely on.
AddResult(s, p, t) ==
    /\ QueueOK(t)
    /\ t.cur = s.cur
    /\ \/ t = s
       \/ /\ t.state = [s.state EXCEPT ![p] = "READY"]
          /\ t.inq = [s.inq EXCEPT ![p] = TRUE]

RemoveResult(s, p, t) ==
    /\ QueueOK(t)
    /\ t.cur = s.cur
    /\ t.state = s.state
    /\ t.inq = [s.inq EXCEPT ![p] = FALSE]

\* A change of the state of p and of current_thread, and what it leaves.
SetState(s, p, v, c) == [s EXCEPT !.state = [@ EXCEPT ![p] = v], !.cur = c]

SetStateResult(s, p, v, c, t) ==
    /\ QueueOK(t)
    /\ t.cur = c
    /\ t.state = [s.state EXCEPT ![p] = v]
    /\ t.inq = s.inq
    /\ t.head = s.head

-----------------------------------------------------------------------------
\* The record pcb_add_to_ready_queue returns when it does append.
LEMMA AddFields ==
  ASSUME NEW s \in SchedType, NEW p \in Pcb, s.state[p] # "EXITED", ~s.inq[p],
         NEW t, t = pcb_add_to_ready_queue(s, p)
  PROVE  Appended(s, p, t)
<1>1. t = [s EXCEPT
            !.state = [@ EXCEPT ![p] = "READY"],
            !.head  = IF s.tail = NULL THEN p ELSE @,
            !.tail  = p,
            !.count = @ + 1,
            !.next  = [x \in Pcb |-> IF x = p THEN NULL
                                     ELSE IF x = s.tail THEN p ELSE @[x]],
            !.prev  = [@ EXCEPT ![p] = s.tail],
            !.inq   = [@ EXCEPT ![p] = TRUE]]
  BY DEF pcb_add_to_ready_queue
<1>2. t = [cur |-> s.cur,
           head |-> IF s.tail = NULL THEN p ELSE s.head,
           tail |-> p,
           count |-> s.count + 1,
           next |-> [x \in Pcb |-> IF x = p THEN NULL
                                   ELSE IF x = s.tail THEN p ELSE s.next[x]],
           prev |-> [s.prev EXCEPT ![p] = s.tail],
           inq |-> [s.inq EXCEPT ![p] = TRUE],
           state |-> [s.state EXCEPT ![p] = "READY"]]
  BY <1>1 DEF SchedType
<1>3. /\ [s.inq EXCEPT ![p] = TRUE] \in [Pcb -> BOOLEAN]
      /\ [s.state EXCEPT ![p] = "READY"] \in [Pcb -> ThreadState]
  BY DEF SchedType, ThreadState
<1>4. /\ s.cur \in Ptr
      /\ (IF s.tail = NULL THEN p ELSE s.head) \in Ptr
      /\ p \in Ptr
      /\ s.count + 1 \in Nat
      /\ [s.prev EXCEPT ![p] = s.tail] \in [Pcb -> Ptr]
      /\ [x \in Pcb |-> IF x = p THEN NULL
                        ELSE IF x = s.tail THEN p ELSE s.next[x]] \in [Pcb -> Ptr]
  BY DEF SchedType, Ptr
<1>5. t \in SchedType
  BY <1>2, <1>3, <1>4 DEF SchedType
<1> QED BY <1>2, <1>5 DEF Appended

\* The record pcb_remove_from_ready_queue returns when it does unlink.
LEMMA RemoveFields ==
  ASSUME NEW s \in SchedType, NEW p \in Pcb, s.inq[p], s.count > 0,
         NEW t, t = pcb_remove_from_ready_queue(s, p)
  PROVE  Unlinked(s, p, t)
<1>1. t = [s EXCEPT
            !.head  = IF s.prev[p] = NULL THEN s.next[p] ELSE @,
            !.tail  = IF s.next[p] = NULL THEN s.prev[p] ELSE @,
            !.count = @ - 1,
            !.next  = [x \in Pcb |-> IF x = p THEN NULL
                                     ELSE IF x = s.prev[p] THEN s.next[p] ELSE @[x]],
            !.prev  = [x \in Pcb |-> IF x = p THEN NULL
                                     ELSE IF x = s.next[p] THEN s.prev[p] ELSE @[x]],
            !.inq   = [@ EXCEPT ![p] = FALSE]]
  BY DEF pcb_remove_from_ready_queue
<1>2. t = [cur |-> s.cur,
           head |-> IF s.prev[p] = NULL THEN s.next[p] ELSE s.head,
           tail |-> IF s.next[p] = NULL THEN s.prev[p] ELSE s.tail,
           count |-> s.count - 1,
           next |-> [x \in Pcb |-> IF x = p THEN NULL
                                   ELSE IF x = s.prev[p] THEN s.next[p] ELSE s.next[x]],
           prev |-> [x \in Pcb |-> IF x = p THEN NULL
                                   ELSE IF x = s.next[p] THEN s.prev[p] ELSE s.prev[x]],
           inq |-> [s.inq EXCEPT ![p] = FALSE],
           state |-> s.state]
  BY <1>1 DEF SchedType
<1>3. /\ [s.inq EXCEPT ![p] = FALSE] \in [Pcb -> BOOLEAN]
      /\ s.state \in [Pcb -> ThreadState]
  BY DEF SchedType
<1>4. /\ s.cur \in Ptr
      /\ (IF s.prev[p] = NULL THEN s.next[p] ELSE s.head) \in Ptr
      /\ (IF s.next[p] = NULL THEN s.prev[p] ELSE s.tail) \in Ptr
      /\ s.count - 1 \in Nat
      /\ [x \in Pcb |-> IF x = p THEN NULL
                        ELSE IF x = s.prev[p] THEN s.next[p] ELSE s.next[x]] \in [Pcb -> Ptr]
      /\ [x \in Pcb |-> IF x = p THEN NULL
                        ELSE IF x = s.next[p] THEN s.prev[p] ELSE s.prev[x]] \in [Pcb -> Ptr]
  BY DEF SchedType, Ptr
<1>5. t \in SchedType
  BY <1>2, <1>3, <1>4 DEF SchedType
<1> QED BY <1>2, <1>5 DEF Unlinked

\* The list l of n threads with p behind it, and without its k-th.
Longer(n, l, p) == [i \in 1 .. n + 1 |-> IF i = n + 1 THEN p ELSE l[i]]
Shorter(n, l, k) == [i \in 1 .. n - 1 |-> IF i < k THEN l[i] ELSE l[i + 1]]

\* Appending p puts it at the end of the list.
LEMMA AddList ==
  ASSUME NEW s \in SchedType, NEW l \in [1 .. s.count -> Pcb], IsReadyList(s, l), NEW p \in Pcb,
         s.state[p] # "EXITED", ~s.inq[p], NEW t, t = pcb_add_to_ready_queue(s, p)
  PROVE  Appended(s, p, t) /\ IsReadyList(t, Longer(s.count, l, p))
<1>2. ~(s.state[p] = "EXITED" \/ s.inq[p])
  OBVIOUS
<1> QED
  <2>1. s \in SchedType /\ s.count \in Nat
    BY DEF SchedType
  <2>2. IsReadyList(s, l)
    OBVIOUS
  <2> DEFINE m == [i \in 1 .. s.count + 1 |-> IF i = s.count + 1 THEN p ELSE l[i]]
  <2>3. Appended(s, p, t)
    <3>1. s.state[p] # "EXITED" /\ ~s.inq[p]
      BY <1>2
    <3> QED BY <2>1, <3>1, AddFields, Zenon
  <2> HIDE DEF m
  <2>4. IsReadyList(t, m)
    <3>1. /\ m \in [1 .. t.count -> Pcb]
          /\ \A i, j \in 1 .. t.count : m[i] = m[j] => i = j
      <4>1. t.count = s.count + 1
        BY <2>3 DEF Appended
      <4>2. \A i \in 1 .. s.count : l[i] \in Pcb /\ l[i] # p
        BY <1>2, <2>2 DEF IsReadyList
      <4>3. \A i, j \in 1 .. s.count : l[i] = l[j] => i = j
        BY <2>2 DEF IsReadyList
      <4> QED BY <2>1, <4>1, <4>2, <4>3 DEF m
    <3>2. \A x \in Pcb : t.inq[x] <=> \E i \in 1 .. t.count : m[i] = x
      <4>1. \A x \in Pcb : t.inq[x] <=> s.inq[x] \/ x = p
        BY <2>1, <2>3 DEF Appended, SchedType
      <4>2. t.count = s.count + 1
        BY <2>3 DEF Appended
      <4>3. m[s.count + 1] = p /\ \A i \in 1 .. s.count : m[i] = l[i]
        BY <2>1 DEF m
      <4>4. ASSUME NEW x \in Pcb, s.inq[x] PROVE \E i \in 1 .. t.count : m[i] = x
        <5>1. PICK i \in 1 .. s.count : l[i] = x
          BY <2>2, <4>4 DEF IsReadyList
        <5> QED BY <2>1, <4>2, <4>3, <5>1
      <4>5. \E i \in 1 .. t.count : m[i] = p
        BY <2>1, <4>2, <4>3
      <4>6. ASSUME NEW x \in Pcb, NEW i \in 1 .. t.count, m[i] = x, x # p PROVE s.inq[x]
        <5>1. i \in 1 .. s.count /\ l[i] = x
          BY <2>1, <4>2, <4>3, <4>6
        <5> QED BY <2>2, <5>1 DEF IsReadyList
      <4> QED BY <4>1, <4>4, <4>5, <4>6
    <3>3. /\ t.head = IF t.count = 0 THEN NULL ELSE m[1]
          /\ t.tail = IF t.count = 0 THEN NULL ELSE m[t.count]
      BY <2>1, <2>2, <2>3, SchedulerAssumption DEF IsReadyList, Appended, m
    <3>4. \A i \in 1 .. t.count :
            /\ t.next[m[i]] = IF i = t.count THEN NULL ELSE m[i + 1]
            /\ t.prev[m[i]] = IF i = 1 THEN NULL ELSE m[i - 1]
      <4>1. /\ t.count = s.count + 1
            /\ \A x \in Pcb : t.next[x] = IF x = p THEN NULL
                                          ELSE IF x = s.tail THEN p ELSE s.next[x]
            /\ \A x \in Pcb : t.prev[x] = IF x = p THEN s.tail ELSE s.prev[x]
        BY <2>1, <2>3 DEF Appended, SchedType
      <4>2. \A i \in 1 .. s.count : l[i] \in Pcb /\ l[i] # p
        BY <1>2, <2>2 DEF IsReadyList
      <4>3. \A i \in 1 .. s.count : l[i] = s.tail <=> i = s.count
        BY <2>1, <2>2 DEF IsReadyList
      <4> QED
        BY <2>1, <2>2, <4>1, <4>2, <4>3 DEF IsReadyList, m
    <3> QED BY <3>1, <3>2, <3>3, <3>4 DEF IsReadyList
  <2> QED
    BY <2>3, <2>4 DEF Longer, m

\* Appending keeps the queue a list; p is the only thread it may add, and
\* the only one whose state it may change.
LEMMA AddOK ==
  ASSUME NEW s, QueueOK(s), NEW p \in Pcb,
         NEW t, t = pcb_add_to_ready_queue(s, p)
  PROVE  AddResult(s, p, t)
<1> USE DEF AddResult
<1>1. CASE s.state[p] = "EXITED" \/ s.inq[p]
  BY <1>1 DEF pcb_add_to_ready_queue
<1>2. CASE ~(s.state[p] = "EXITED" \/ s.inq[p])
  <2>1. PICK l \in [1 .. s.count -> Pcb] : IsReadyList(s, l)
    BY DEF QueueOK
  <2> DEFINE m == Longer(s.count, l, p)
  <2>2. s \in SchedType /\ s.state[p] # "EXITED" /\ ~s.inq[p]
    BY <1>2 DEF QueueOK
  <2>3. Appended(s, p, t) /\ IsReadyList(t, m)
    BY <2>1, <2>2, AddList, Zenon
  <2> HIDE DEF m
  <2>4. m \in [1 .. t.count -> Pcb]
    BY <2>3 DEF IsReadyList
  <2> QED
    BY <2>3, <2>4 DEF QueueOK, Appended
<1> QED BY <1>1, <1>2

\* Unlinking the k-th thread takes it, and only it, off the list.
LEMMA RemoveList ==
  ASSUME NEW s \in SchedType, NEW l \in [1 .. s.count -> Pcb], IsReadyList(s, l), NEW p \in Pcb,
         s.inq[p], NEW k \in 1 .. s.count, l[k] = p, NEW t, t = pcb_remove_from_ready_queue(s, p)
  PROVE  Unlinked(s, p, t) /\ IsReadyList(t, Shorter(s.count, l, k))
<1>2. s.inq[p]
  OBVIOUS
<1> QED
  <2>1. s \in SchedType /\ s.count \in Nat
    BY DEF SchedType
  <2>2. IsReadyList(s, l)
    OBVIOUS
  <2>3. k \in 1 .. s.count /\ l[k] = p
    OBVIOUS
  <2>4. s.count > 0
    BY <2>1, <2>3
  <2>5. Unlinked(s, p, t)
    BY <1>2, <2>1, <2>4, RemoveFields, Zenon
  <2> DEFINE m == [i \in 1 .. s.count - 1 |-> IF i < k THEN l[i] ELSE l[i + 1]]
  <2>6. m \in [1 .. t.count -> Pcb]
    BY <2>1, <2>3, <2>4, <2>5 DEF Unlinked
  <2>7. \A i, j \in 1 .. t.count : m[i] = m[j] => i = j
    BY <2>1, <2>2, <2>3, <2>4, <2>5 DEF IsReadyList, Unlinked
  <2>8. \A x \in Pcb : t.inq[x] <=> \E i \in 1 .. t.count : m[i] = x
    <3> SUFFICES ASSUME NEW x \in Pcb
                 PROVE  t.inq[x] <=> \E i \in 1 .. t.count : m[i] = x
      OBVIOUS
    <3>1. ASSUME t.inq[x] PROVE \E i \in 1 .. t.count : m[i] = x
      <4>1. x # p /\ s.inq[x]
        BY <2>1, <2>5, <3>1 DEF SchedType, Unlinked
      <4>2. PICK i \in 1 .. s.count : l[i] = x
        BY <2>2, <4>1 DEF IsReadyList
      <4>3. CASE i < k
        <5>1. i \in 1 .. t.count /\ m[i] = x
          BY <2>1, <2>3, <2>5, <4>2, <4>3 DEF Unlinked
        <5> QED BY <5>1
      <4>4. CASE i > k
        <5>1. i - 1 \in 1 .. t.count /\ m[i - 1] = x
          BY <2>1, <2>3, <2>5, <4>2, <4>4 DEF Unlinked
        <5> QED BY <5>1
      <4> QED BY <2>1, <2>3, <4>1, <4>2, <4>3, <4>4
    <3>2. ASSUME NEW i \in 1 .. t.count, m[i] = x PROVE t.inq[x]
      <4>1. PICK j \in 1 .. s.count : j # k /\ l[j] = x
        BY <2>1, <2>3, <2>5, <3>2 DEF Unlinked
      <4>2. x # p /\ s.inq[x]
        BY <2>2, <2>3, <4>1 DEF IsReadyList
      <4> QED BY <2>1, <2>5, <4>2 DEF SchedType, Unlinked
    <3> QED BY <3>1, <3>2
  <2>a. /\ s.prev[p] = IF k = 1 THEN NULL ELSE l[k - 1]
        /\ s.next[p] = IF k = s.count THEN NULL ELSE l[k + 1]
    <3>1. /\ s.prev[l[k]] = IF k = 1 THEN NULL ELSE l[k - 1]
          /\ s.next[l[k]] = IF k = s.count THEN NULL ELSE l[k + 1]
      BY <2>2 DEF IsReadyList
    <3> QED BY <2>3, <3>1
  <2>b. \A i \in 1 .. s.count : l[i] \in Pcb /\ l[i] # NULL
    BY SchedulerAssumption
  <2>c. t.count = s.count - 1
    BY <2>5 DEF Unlinked
  <2>d. \A i, j \in 1 .. s.count : l[i] = l[j] => i = j
    BY <2>2 DEF IsReadyList
  <2>9. /\ t.head = IF t.count = 0 THEN NULL ELSE m[1]
        /\ t.tail = IF t.count = 0 THEN NULL ELSE m[t.count]
    BY <2>1, <2>2, <2>3, <2>4, <2>5, <2>a, <2>b DEF IsReadyList, Unlinked
  <2>10. \A i \in 1 .. t.count : t.next[m[i]] = IF i = t.count THEN NULL ELSE m[i + 1]
    <3> SUFFICES ASSUME NEW i \in 1 .. t.count
                 PROVE  t.next[m[i]] = IF i = t.count THEN NULL ELSE m[i + 1]
      OBVIOUS
    <3> DEFINE j == IF i < k THEN i ELSE i + 1
    <3> HIDE DEF j
    <3>1. /\ j \in 1 .. s.count /\ j # k
          /\ m[i] = l[j] /\ l[j] # p /\ l[j] \in Pcb
      <4>1. j \in 1 .. s.count /\ j # k
        BY <2>1, <2>3, <2>c DEF j
      <4>2. m[i] = l[j]
        BY <2>1, <2>3, <2>c DEF j
      <4> QED BY <2>3, <2>b, <2>d, <4>1, <4>2
    <3>2. /\ s.prev[p] = IF k = 1 THEN NULL ELSE l[k - 1]
          /\ s.next[p] = IF k = s.count THEN NULL ELSE l[k + 1]
          /\ s.next[l[j]] = IF j = s.count THEN NULL ELSE l[j + 1]
          /\ s.prev[l[j]] = IF j = 1 THEN NULL ELSE l[j - 1]
      BY <2>2, <2>a, <3>1 DEF IsReadyList
    <3>3. /\ l[j] = s.prev[p] <=> j = k - 1
          /\ l[j] = s.next[p] <=> j = k + 1
      <4>1. k \in 1 .. s.count /\ j \in 1 .. s.count
        BY <2>3, <3>1
      <4>2. k # 1 => k - 1 \in 1 .. s.count
        BY <2>1, <4>1
      <4>3. k # s.count => k + 1 \in 1 .. s.count
        BY <2>1, <4>1
      <4> QED BY <2>1, <2>b, <2>d, <3>2, <4>1, <4>2, <4>3
    <3>4. t.next[l[j]] = IF j = k - 1 THEN s.next[p] ELSE s.next[l[j]]
      BY <2>5, <3>1, <3>3 DEF Unlinked
    <3> QED
      BY <2>1, <2>3, <2>c, <3>1, <3>2, <3>4 DEF j
  <2>11. \A i \in 1 .. t.count : t.prev[m[i]] = IF i = 1 THEN NULL ELSE m[i - 1]
    <3> SUFFICES ASSUME NEW i \in 1 .. t.count
                 PROVE  t.prev[m[i]] = IF i = 1 THEN NULL ELSE m[i - 1]
      OBVIOUS
    <3> DEFINE j == IF i < k THEN i ELSE i + 1
    <3> HIDE DEF j
    <3>1. /\ j \in 1 .. s.count /\ j # k
          /\ m[i] = l[j] /\ l[j] # p /\ l[j] \in Pcb
      <4>1. j \in 1 .. s.count /\ j # k
        BY <2>1, <2>3, <2>c DEF j
      <4>2. m[i] = l[j]
        BY <2>1, <2>3, <2>c DEF j
      <4> QED BY <2>3, <2>b, <2>d, <4>1, <4>2
    <3>2. /\ s.prev[p] = IF k = 1 THEN NULL ELSE l[k - 1]
          /\ s.next[p] = IF k = s.count THEN NULL ELSE l[k + 1]
          /\ s.next[l[j]] = IF j = s.count THEN NULL ELSE l[j + 1]
          /\ s.prev[l[j]] = IF j = 1 THEN NULL ELSE l[j - 1]
      BY <2>2, <2>a, <3>1 DEF IsReadyList
    <3>3. /\ l[j] = s.prev[p] <=> j = k - 1
          /\ l[j] = s.next[p] <=> j = k + 1
      <4>1. k \in 1 .. s.count /\ j \in 1 .. s.count
        BY <2>3, <3>1
      <4>2. k # 1 => k - 1 \in 1 .. s.count
        BY <2>1, <4>1
      <4>3. k # s.count => k + 1 \in 1 .. s.count
        BY <2>1, <4>1
      <4> QED BY <2>1, <2>b, <2>d, <3>2, <4>1, <4>2, <4>3
    <3>4. t.prev[l[j]] = IF j = k + 1 THEN s.prev[p] ELSE s.prev[l[j]]
      BY <2>5, <3>1, <3>3 DEF Unlinked
    <3> QED
      BY <2>1, <2>3, <2>c, <3>1, <3>2, <3>4 DEF j
  <2>12. IsReadyList(t, m)
    BY <2>6, <2>7, <2>8, <2>9, <2>10, <2>11 DEF IsReadyList
  <2> QED
    BY <2>5, <2>12 DEF Shorter

\* Unlinking a thread from anywhere in the queue keeps the queue a list and
\* removes that thread only.
LEMMA RemoveOK ==
  ASSUME NEW s, QueueOK(s), NEW p \in Pcb,
         NEW t, t = pcb_remove_from_ready_queue(s, p)
  PROVE  RemoveResult(s, p, t)
<1> USE DEF RemoveResult
<1>1. CASE ~s.inq[p]
  <2>1. t = s
    BY <1>1 DEF pcb_remove_from_ready_queue
  <2>2. s.inq \in [Pcb -> BOOLEAN]
    BY DEF QueueOK, SchedType
  <2>3. s.inq = [s.inq EXCEPT ![p] = FALSE]
    BY <1>1, <2>2
  <2> QED BY <2>1, <2>3
<1>2. CASE s.inq[p]
  <2>1. PICK l \in [1 .. s.count -> Pcb] : IsReadyList(s, l)
    BY DEF QueueOK
  <2>2. PICK k \in 1 .. s.count : l[k] = p
    BY <1>2, <2>1 DEF IsReadyList
  <2> DEFINE m == Shorter(s.count, l, k)
  <2>3. s \in SchedType
    BY DEF QueueOK
  <2>4. Unlinked(s, p, t) /\ IsReadyList(t, m)
    BY <1>2, <2>1, <2>2, <2>3, RemoveList, Zenon
  <2> HIDE DEF m
  <2>5. m \in [1 .. t.count -> Pcb]
    BY <2>4 DEF IsReadyList
  <2> QED
    BY <2>4, <2>5 DEF QueueOK, Unlinked
<1> QED BY <1>1, <1>2

-----------------------------------------------------------------------------
\* Changing only thread states, or only current_thread, leaves the queue as
\* it is.
LEMMA StateChangeOK ==
  ASSUME NEW s, QueueOK(s), NEW p \in Pcb, NEW v \in ThreadState, NEW c \in Ptr,
         NEW t, t = SetState(s, p, v, c)
  PROVE  SetStateResult(s, p, v, c, t)
<1>1. s \in SchedType
  BY DEF QueueOK
<1>2. t = [cur |-> c, head |-> s.head, tail |-> s.tail, count |-> s.count,
           next |-> s.next, prev |-> s.prev, inq |-> s.inq,
           state |-> [s.state EXCEPT ![p] = v]]
  BY <1>1 DEF SchedType, SetState
<1>3. [s.state EXCEPT ![p] = v] \in [Pcb -> ThreadState]
  BY <1>1 DEF SchedType
<1>4. t \in SchedType
  BY <1>1, <1>2, <1>3 DEF SchedType
<1>5. PICK l \in [1 .. s.count -> Pcb] : IsReadyList(s, l)
  BY DEF QueueOK
<1>6. IsReadyList(t, l)
  BY <1>2, <1>5 DEF IsReadyList
<1>7. l \in [1 .. t.count -> Pcb]
  BY <1>2, <1>5
<1> QED BY <1>2, <1>4, <1>6, <1>7 DEF QueueOK, SetStateResult

\* The head of a nonempty queue is queued; an empty queue flags nobody.
LEMMA HeadQueued ==
  ASSUME NEW s, QueueOK(s)
  PROVE  /\ s.head # NULL => s.head \in Pcb /\ s.inq[s.head]
         /\ s.head = NULL => \A p \in Pcb : ~s.inq[p]
<1>1. s.count \in Nat
  BY DEF QueueOK, SchedType
<1>2. PICK l \in [1 .. s.count -> Pcb] : IsReadyList(s, l)
  BY DEF QueueOK
<1>3. CASE s.count = 0
  BY <1>1, <1>2, <1>3 DEF IsReadyList
<1>4. CASE s.count > 0
  <2>1. 1 \in 1 .. s.count /\ s.head = l[1] /\ l[1] \in Pcb
    BY <1>1, <1>2, <1>4 DEF IsReadyList
  <2>2. s.inq[l[1]]
    BY <1>2, <2>1 DEF IsReadyList
  <2> QED BY <2>1, <2>2, SchedulerAssumption
<1> QED BY <1>1, <1>3, <1>4

\* dispatch gives the processor to a queued thread.
LEMMA DispatchOK ==
  ASSUME NEW A \in SUBSET Pcb, NEW s, QueueOK(s), s.head # NULL,
         \A p \in Pcb : s.inq[p] => p \in A,
         \A p \in A : s.state[p] # "RUNNING"
  PROVE  SchedOK(dispatch(s), A)
<1> DEFINE h == s.head
           u == pcb_remove_from_ready_queue(s, h)
           t == [u EXCEPT !.cur = h, !.state = [@ EXCEPT ![h] = "RUNNING"]]
<1>1. h \in Pcb /\ s.inq[h] /\ h \in A
  BY HeadQueued
<1>2. RemoveResult(s, h, u)
  BY <1>1, RemoveOK
<1>3. t = SetState(u, h, "RUNNING", h)
  BY <1>2 DEF RemoveResult, QueueOK, SchedType, SetState
<1>4. h \in Ptr /\ "RUNNING" \in ThreadState
  BY <1>1 DEF Ptr, ThreadState
<1>5. SetStateResult(u, h, "RUNNING", h, t)
  <2> HIDE DEF t, u, h
  <2>1. QueueOK(u)
    BY <1>2 DEF RemoveResult
  <2> QED BY <1>1, <1>3, <1>4, <2>1, StateChangeOK
<1>6. s.inq \in [Pcb -> BOOLEAN] /\ s.state \in [Pcb -> ThreadState]
  BY DEF QueueOK, SchedType
<1>7. \A p \in Pcb : t.inq[p] <=> s.inq[p] /\ p # h
  <2> HIDE DEF t, u, h
  <2> QED BY <1>1, <1>2, <1>5, <1>6 DEF RemoveResult, SetStateResult
<1>8. \A p \in A : t.state[p] = "RUNNING" => p = h
  <2> HIDE DEF t, u, h
  <2> QED BY <1>1, <1>2, <1>5, <1>6 DEF RemoveResult, SetStateResult
<1>9. dispatch(s) = t
  BY DEF dispatch
<1> HIDE DEF t, u, h
<1> QED BY <1>1, <1>5, <1>7, <1>8, <1>9 DEF SchedOK, SetStateResult

\* schedule keeps the queue a list, keeps every pointer on allocated PCBs
\* and leaves at most one thread running.
LEMMA ScheduleOK ==
  ASSUME NEW A \in SUBSET Pcb, NEW s, SchedOK(s, A)
  PROVE  SchedOK(schedule(s), A)
<1> DEFINE r == requeue_current(s)
<1>0. /\ QueueOK(s)
      /\ s.inq \in [Pcb -> BOOLEAN] /\ s.state \in [Pcb -> ThreadState]
      /\ s.cur \in Ptr
  BY DEF SchedOK, QueueOK, SchedType
<1>1. /\ QueueOK(r)
      /\ r.cur = s.cur
      /\ \A p \in Pcb : r.inq[p] => p \in A
      /\ \A p \in A : r.state[p] # "RUNNING"
  <2>1. CASE s.cur # NULL /\ s.state[s.cur] = "RUNNING"
    <3> DEFINE c == s.cur
               v == [s EXCEPT !.state = [@ EXCEPT ![c] = "READY"]]
    <3>1. c \in Pcb /\ c \in A /\ "READY" \in ThreadState
      BY <1>0, <2>1 DEF Ptr, SchedOK, ThreadState
    <3>2. v = SetState(s, c, "READY", c)
      BY <1>0 DEF QueueOK, SchedType, SetState
    <3>3. r = pcb_add_to_ready_queue(v, c)
      BY <2>1 DEF requeue_current
    <3> HIDE DEF v, c, r
    <3>4. c = s.cur
      BY DEF c
    <3>5. SetStateResult(s, c, "READY", c, v)
      <4>1. c \in Ptr
        BY <3>1 DEF Ptr
      <4> QED BY <1>0, <3>1, <3>2, <4>1, StateChangeOK
    <3>6. AddResult(v, c, r)
      <4>1. QueueOK(v)
        BY <3>5 DEF SetStateResult
      <4> QED BY <3>1, <3>3, <4>1, AddOK
    <3> USE DEF SetStateResult, AddResult
    <3>7. \A p \in Pcb : r.inq[p] => s.inq[p] \/ p = c
      BY <1>0, <3>1, <3>5, <3>6
    <3>8. \A p \in A : r.state[p] # "RUNNING"
      BY <1>0, <2>1, <3>1, <3>4, <3>5, <3>6 DEF SchedOK
    <3> QED BY <3>1, <3>4, <3>5, <3>6, <3>7, <3>8 DEF SchedOK
  <2>2. CASE ~(s.cur # NULL /\ s.state[s.cur] = "RUNNING")
    <3>1. r = s
      BY <2>2 DEF requeue_current
    <3>2. \A p \in A : s.state[p] # "RUNNING"
      BY <2>2, SchedulerAssumption DEF SchedOK
    <3> QED BY <1>0, <3>1, <3>2 DEF SchedOK
  <2> QED BY <2>1, <2>2
<1> HIDE DEF r
<1>2. schedule(s) = IF r.head # NULL THEN dispatch(r) ELSE keep_current(r)
  BY DEF schedule, r
<1>3. CASE r.head # NULL
  BY <1>1, <1>2, <1>3, DispatchOK
<1>4. CASE r.head = NULL
  <2>1. schedule(s) = keep_current(r)
    BY <1>2, <1>4
  <2>2. /\ \A p \in Pcb : ~r.inq[p]
        /\ r.cur \in Ptr /\ r.state \in [Pcb -> ThreadState]
        /\ NULL \in Ptr
    BY <1>1, <1>4, HeadQueued DEF QueueOK, SchedType, Ptr
  <2>3. CASE r.cur # NULL /\ r.state[r.cur] # "EXITED"
    <3> DEFINE c == r.cur
               t == [r EXCEPT !.state = [@ EXCEPT ![c] = "RUNNING"]]
    <3>1. c \in Pcb /\ c \in A /\ "RUNNING" \in ThreadState
      BY <1>1, <2>2, <2>3 DEF Ptr, SchedOK, ThreadState
    <3>2. t = SetState(r, c, "RUNNING", c)
      BY <1>1 DEF QueueOK, SchedType, SetState
    <3>3. keep_current(r) = t
      BY <2>3 DEF keep_current
    <3> HIDE DEF t, c
    <3>4. SetStateResult(r, c, "RUNNING", c, t)
      <4>1. c \in Ptr
        BY <3>1 DEF Ptr
      <4> QED BY <1>1, <3>1, <3>2, <4>1, StateChangeOK
    <3> USE DEF SetStateResult
    <3>5. \A p \in A : t.state[p] = "RUNNING" => p = t.cur
      BY <1>1, <2>2, <3>1, <3>4
    <3> QED BY <2>1, <2>2, <3>1, <3>3, <3>4, <3>5 DEF SchedOK
  <2>4. CASE ~(r.cur # NULL /\ r.state[r.cur] # "EXITED")
    <3> DEFINE t == [r EXCEPT !.cur = NULL]
    <3>1. keep_current(r) = t
      BY <2>4 DEF keep_current
    <3>2. CASE Pcb = {}
      <4>1. t = [cur |-> NULL, head |-> r.head, tail |-> r.tail, count |-> r.count,
                 next |-> r.next, prev |-> r.prev, inq |-> r.inq, state |-> r.state]
        BY <1>1 DEF QueueOK, SchedType
      <4>2. r.cur = NULL
        BY <2>2, <3>2 DEF Ptr
      <4>3. t = r
        BY <1>1, <4>2 DEF QueueOK, SchedType
      <4> QED BY <1>1, <2>1, <2>2, <3>1, <4>2, <4>3 DEF SchedOK
    <3>3. ASSUME NEW q \in Pcb PROVE SchedOK(t, A)
      <4>1. t = SetState(r, q, r.state[q], NULL)
        BY <1>1 DEF QueueOK, SchedType, SetState
      <4>2. r.state[q] \in ThreadState
        BY <2>2
      <4> HIDE DEF t
      <4>3. SetStateResult(r, q, r.state[q], NULL, t)
        BY <1>1, <2>2, <4>1, <4>2, StateChangeOK
      <4> USE DEF SetStateResult
      <4>4. t.state = r.state
        BY <2>2, <4>3
      <4> QED BY <1>1, <2>2, <4>3, <4>4 DEF SchedOK
    <3> QED BY <2>1, <3>1, <3>2, <3>3
  <2> QED BY <2>3, <2>4
<1> QED BY <1>3, <1>4

-----------------------------------------------------------------------------
\* process_stats describes the set A of allocated PCBs.  A is finite, so
\* that its cardinality means something: threads are created one at a time.
StatsOK(st, A) ==
    /\ IsFiniteSet(A)
    /\ st \in StatsType
    /\ st.live_threads = Cardinality(A)
    /\ st.total_created = st.live_threads + st.total_destroyed
    /\ st.exited_threads <= st.total_destroyed

\* The inductive invariant.
Inv ==
    /\ SchedOK(sched, live)
    /\ StatsOK(stats, live)
    /\ live \in SUBSET Pcb
    /\ tick \in 0 .. Quantum - 1

\* Allocating one PCB keeps the bookkeeping right.
LEMMA StatsCreate ==
  ASSUME NEW A, NEW st, StatsOK(st, A), NEW p, p \notin A,
         NEW n, n = [st EXCEPT !.total_created = @ + 1, !.live_threads = @ + 1]
  PROVE  StatsOK(n, A \cup {p})
<1>1. IsFiniteSet(A \cup {p}) /\ Cardinality(A \cup {p}) = Cardinality(A) + 1
  BY FS_AddElement DEF StatsOK
<1>2. /\ st.live_threads \in Nat /\ st.total_created \in Nat
      /\ st.total_destroyed \in Nat /\ st.exited_threads \in Nat
  BY DEF StatsType, StatsOK
<1>3. n = [live_threads |-> st.live_threads + 1, exited_threads |-> st.exited_threads,
           total_created |-> st.total_created + 1, total_destroyed |-> st.total_destroyed]
  BY DEF StatsType, StatsOK
<1>4. n \in StatsType
  BY <1>2, <1>3 DEF StatsType
<1> QED BY <1>1, <1>2, <1>3, <1>4 DEF StatsOK

\* Freeing one PCB, with or without counting an exit, does so too: the
\* saturating decrement of live_threads never saturates.
LEMMA StatsDestroy ==
  ASSUME NEW A, NEW st, StatsOK(st, A), NEW p \in A
  PROVE  /\ StatsOK(CountDestroyed(st), A \ {p})
         /\ StatsOK([CountDestroyed(st) EXCEPT !.exited_threads = @ + 1], A \ {p})
<1> DEFINE n == CountDestroyed(st)
           m == [n EXCEPT !.exited_threads = @ + 1]
<1>1. IsFiniteSet(A \ {p}) /\ Cardinality(A \ {p}) = Cardinality(A) - 1
  BY FS_RemoveElement DEF StatsOK
<1>2. /\ st.live_threads \in Nat /\ st.total_created \in Nat
      /\ st.total_destroyed \in Nat /\ st.exited_threads \in Nat
  BY DEF StatsType, StatsOK
<1>3. st.live_threads - 1 \in Nat /\ st.live_threads > 0
  <2>1. Cardinality(A \ {p}) \in Nat
    BY <1>1, FS_CardinalityType
  <2>2. st.live_threads - 1 \in Nat
    BY <1>1, <2>1 DEF StatsOK
  <2> QED BY <1>2, <2>2
<1>4. n = [live_threads |-> st.live_threads - 1, exited_threads |-> st.exited_threads,
           total_created |-> st.total_created, total_destroyed |-> st.total_destroyed + 1]
  <2>1. (IF st.live_threads > 0 THEN st.live_threads - 1 ELSE st.live_threads)
          = st.live_threads - 1
    BY <1>3
  <2>2. n = [st EXCEPT !.live_threads = IF st.live_threads > 0 THEN st.live_threads - 1
                                                              ELSE st.live_threads,
                       !.total_destroyed = st.total_destroyed + 1]
    BY DEF CountDestroyed, StatsType, StatsOK
  <2>3. n = [st EXCEPT !.live_threads = st.live_threads - 1,
                       !.total_destroyed = st.total_destroyed + 1]
    BY <2>1, <2>2, Zenon
  <2> HIDE DEF n
  <2> QED BY <2>3 DEF StatsType, StatsOK
<1> HIDE DEF n
<1>5. m = [live_threads |-> st.live_threads - 1, exited_threads |-> st.exited_threads + 1,
           total_created |-> st.total_created, total_destroyed |-> st.total_destroyed + 1]
  BY <1>4
<1> HIDE DEF m
<1>6. n \in StatsType /\ m \in StatsType
  BY <1>2, <1>3, <1>4, <1>5 DEF StatsType
<1>7. StatsOK(n, A \ {p})
  BY <1>1, <1>2, <1>3, <1>4, <1>6 DEF StatsOK
<1>8. StatsOK(m, A \ {p})
  BY <1>1, <1>2, <1>3, <1>5, <1>6 DEF StatsOK
<1> QED BY <1>7, <1>8 DEF m, n

LEMMA InvInit == Init => Inv
<1> SUFFICES ASSUME Init PROVE Inv
  OBVIOUS
<1>1. sched = [cur |-> NULL, head |-> NULL, tail |-> NULL, count |-> 0,
                next |-> [p \in Pcb |-> NULL], prev |-> [p \in Pcb |-> NULL],
                inq |-> [p \in Pcb |-> FALSE], state |-> [p \in Pcb |-> "READY"]]
  BY DEF Init
<1>2. sched \in SchedType
  BY <1>1 DEF SchedType, Ptr, ThreadState
<1>3. PICK l : l \in [1 .. sched.count -> Pcb]
  <2>1. 1 .. sched.count = {}
    BY <1>1
  <2>2. [i \in {} |-> i] \in [1 .. sched.count -> Pcb]
    BY <2>1
  <2> QED BY <2>2
<1>4. IsReadyList(sched, l)
  BY <1>1, <1>3 DEF IsReadyList
<1>5. SchedOK(sched, live)
  <2>1. live = {}
    BY DEF Init
  <2>2. sched.cur = NULL /\ \A p \in Pcb : ~sched.inq[p]
    BY <1>1
  <2> QED BY <1>2, <1>3, <1>4, <2>1, <2>2 DEF SchedOK, QueueOK
<1>6. /\ IsFiniteSet(live) /\ Cardinality(live) = 0
  BY FS_EmptySet DEF Init
<1>7. StatsOK(stats, live)
  BY <1>6 DEF Init, StatsType, StatsOK
<1> QED BY <1>5, <1>7, SchedulerAssumption DEF Init, Inv

LEMMA InvNext == Inv /\ [Next]_vars => Inv'
<1> SUFFICES ASSUME Inv, [Next]_vars PROVE Inv'
  OBVIOUS
<1>0. /\ SchedOK(sched, live) /\ QueueOK(sched) /\ sched \in SchedType
      /\ live \in SUBSET Pcb
  BY DEF Inv, SchedOK, QueueOK
<1>t. /\ sched.cur \in Ptr
      /\ sched.inq \in [Pcb -> BOOLEAN]
      /\ sched.state \in [Pcb -> ThreadState]
  BY <1>0 DEF SchedType
<1>1. ASSUME NEW p \in Pcb, thread_create(p) PROVE Inv'
  <2>1. ~sched.inq[p] /\ p # sched.cur
    BY <1>0, <1>1, SchedulerAssumption DEF SchedOK, thread_create
  <2>2. sched' = [cur |-> sched.cur, head |-> sched.head, tail |-> sched.tail,
                  count |-> sched.count,
                  next |-> [sched.next EXCEPT ![p] = NULL],
                  prev |-> [sched.prev EXCEPT ![p] = NULL],
                  inq |-> [sched.inq EXCEPT ![p] = FALSE],
                  state |-> [sched.state EXCEPT ![p] = "READY"]]
    BY <1>0, <1>1 DEF thread_create, SchedType
  <2>3. sched' \in SchedType
    <3>1. /\ [sched.inq EXCEPT ![p] = FALSE] \in [Pcb -> BOOLEAN]
          /\ [sched.state EXCEPT ![p] = "READY"] \in [Pcb -> ThreadState]
      BY <1>t DEF ThreadState
    <3>2. /\ [sched.next EXCEPT ![p] = NULL] \in [Pcb -> Ptr]
          /\ [sched.prev EXCEPT ![p] = NULL] \in [Pcb -> Ptr]
      BY <1>0 DEF SchedType, Ptr
    <3> QED BY <1>0, <2>2, <3>1, <3>2 DEF SchedType
  <2>4. PICK l \in [1 .. sched.count -> Pcb] : IsReadyList(sched, l)
    BY <1>0 DEF QueueOK
  <2>5. \A i \in 1 .. sched.count : l[i] # p
    BY <2>1, <2>4 DEF IsReadyList
  <2>6. IsReadyList(sched', l)
    <3>1. /\ sched'.count = sched.count
          /\ sched'.head = sched.head /\ sched'.tail = sched.tail
      BY <2>2
    <3>2. \A x \in Pcb : sched'.inq[x] <=> sched.inq[x]
      BY <1>t, <2>1, <2>2
    <3>3. \A x \in Pcb : x # p => /\ sched'.next[x] = sched.next[x]
                                  /\ sched'.prev[x] = sched.prev[x]
      BY <1>0, <2>2 DEF SchedType
    <3> QED BY <2>4, <2>5, <3>1, <3>2, <3>3 DEF IsReadyList
  <2>7. SchedOK(sched', live')
    <3>1. /\ live' = live \cup {p}
          /\ sched'.cur = sched.cur
          /\ \A x \in Pcb : sched'.inq[x] => sched.inq[x]
          /\ \A x \in Pcb : sched'.state[x] = IF x = p THEN "READY" ELSE sched.state[x]
      BY <1>1, <1>t, <2>2 DEF thread_create
    <3>2. QueueOK(sched')
      BY <2>2, <2>3, <2>4, <2>6 DEF QueueOK
    <3> QED BY <1>0, <3>1, <3>2 DEF SchedOK
  <2>8. StatsOK(stats', live')
    BY <1>1, StatsCreate DEF Inv, thread_create
  <2> QED BY <1>0, <1>1, <2>7, <2>8 DEF Inv, thread_create
<1>2. ASSUME NEW p \in Pcb, scheduler_add_thread(p) PROVE Inv'
  <2>1. AddResult(sched, p, sched')
    BY <1>0, <1>2, AddOK DEF scheduler_add_thread
  <2>2. SchedOK(sched', live)
    <3>1. CASE sched' = sched
      BY <1>0, <3>1
    <3>2. CASE /\ sched'.state = [sched.state EXCEPT ![p] = "READY"]
               /\ sched'.inq = [sched.inq EXCEPT ![p] = TRUE]
      BY <1>0, <1>2, <1>t, <2>1, <3>2 DEF SchedOK, AddResult, scheduler_add_thread
    <3> QED BY <2>1, <3>1, <3>2 DEF AddResult
  <2> QED BY <1>2, <2>2 DEF Inv, scheduler_add_thread
<1>3. ASSUME NEW p \in Pcb, scheduler_remove_thread(p) PROVE Inv'
  <2>1. sched' = SetState(sched, p, "EXITED", sched.cur)
    BY <1>0, <1>3 DEF scheduler_remove_thread, SetState, SchedType
  <2>2. SetStateResult(sched, p, "EXITED", sched.cur, sched')
    <3>1. "EXITED" \in ThreadState
      BY DEF ThreadState
    <3> QED BY <1>0, <1>t, <2>1, <3>1, StateChangeOK
  <2>3. SchedOK(sched', live)
    BY <1>0, <1>t, <2>2 DEF SchedOK, SetStateResult
  <2> QED BY <1>3, <2>3 DEF Inv, scheduler_remove_thread
<1>4. ASSUME NEW p \in Pcb, pcb_destroy(p) PROVE Inv'
  <2>1. RemoveResult(sched, p, sched')
    BY <1>0, <1>4, RemoveOK DEF pcb_destroy
  <2>2. SchedOK(sched', live')
    BY <1>0, <1>4, <1>t, <2>1 DEF SchedOK, RemoveResult, pcb_destroy
  <2>3. StatsOK(stats', live')
    BY <1>4, StatsDestroy DEF Inv, pcb_destroy
  <2> QED BY <1>0, <1>4, <2>2, <2>3 DEF Inv, pcb_destroy
<1>5. ASSUME NEW p \in Pcb, scheduler_set_current(p) PROVE Inv'
  <2>1. sched' = SetState(sched, p, sched.state[p], p)
    BY <1>0, <1>5 DEF scheduler_set_current, SetState, SchedType
  <2>2. SetStateResult(sched, p, sched.state[p], p, sched')
    <3>1. sched.state[p] \in ThreadState /\ p \in Ptr
      BY <1>t DEF Ptr
    <3> QED BY <1>0, <2>1, <3>1, StateChangeOK
  <2>3. sched'.state = sched.state
    BY <1>t, <2>2 DEF SetStateResult
  <2>4. \A x \in live : sched.state[x] # "RUNNING"
    BY <1>0, <1>5, SchedulerAssumption DEF SchedOK, scheduler_set_current
  <2>5. SchedOK(sched', live)
    BY <1>0, <1>5, <2>2, <2>3, <2>4 DEF SchedOK, SetStateResult, scheduler_set_current
  <2> QED BY <1>5, <2>5 DEF Inv, scheduler_set_current
<1>6. CASE thread_exit
  <2> DEFINE c == sched.cur
             v == [sched EXCEPT !.state = [@ EXCEPT ![c] = "EXITED"], !.cur = NULL]
             u == pcb_remove_from_ready_queue(v, c)
             A == live \ {c}
  <2>1. /\ c \in Pcb /\ c \in live /\ A \in SUBSET Pcb
        /\ sched' = schedule(u) /\ live' = A
    BY <1>0, <1>6, <1>t DEF thread_exit, Ptr, SchedOK
  <2>2. v = SetState(sched, c, "EXITED", NULL)
    BY DEF SetState
  <2> HIDE DEF v
  <2>3. SetStateResult(sched, c, "EXITED", NULL, v)
    <3>1. "EXITED" \in ThreadState /\ NULL \in Ptr
      BY DEF ThreadState, Ptr
    <3> QED BY <1>0, <2>1, <2>2, <3>1, StateChangeOK
  <2>4. RemoveResult(v, c, u)
    <3>1. QueueOK(v)
      BY <2>3 DEF SetStateResult
    <3> QED BY <2>1, <3>1, RemoveOK
  <2> HIDE DEF u
  <2>5. SchedOK(u, A)
    <3>1. QueueOK(u) /\ u.cur = NULL
      BY <2>3, <2>4 DEF SetStateResult, RemoveResult
    <3>2. \A x \in Pcb : u.inq[x] => x \in A
      BY <1>0, <1>t, <2>1, <2>3, <2>4 DEF SetStateResult, RemoveResult, SchedOK
    <3>3. \A x \in A : u.state[x] # "RUNNING"
      BY <1>0, <1>t, <2>1, <2>3, <2>4 DEF SetStateResult, RemoveResult, SchedOK
    <3> QED BY <3>1, <3>2, <3>3 DEF SchedOK
  <2>6. SchedOK(sched', live')
    BY <2>1, <2>5, ScheduleOK
  <2>7. StatsOK(stats', live')
    BY <1>6, <2>1, StatsDestroy DEF Inv, thread_exit
  <2> QED BY <1>6, <2>1, <2>6, <2>7 DEF Inv, thread_exit
<1>7. CASE thread_yield
  <2>1. SchedOK(sched', live)
    BY <1>0, <1>7, ScheduleOK DEF thread_yield
  <2> QED BY <1>7, <2>1 DEF Inv, thread_yield
<1>8. CASE timer_handler
  <2>1. SchedOK(sched', live)
    BY <1>0, <1>8, ScheduleOK DEF timer_handler
  <2>2. tick' \in 0 .. Quantum - 1
    BY <1>8, SchedulerAssumption DEF timer_handler, Inv
  <2> QED BY <1>8, <2>1, <2>2 DEF Inv, timer_handler
<1>9. CASE UNCHANGED vars
  BY <1>9 DEF Inv, vars
<1> QED
  BY <1>1, <1>2, <1>3, <1>4, <1>5, <1>6, <1>7, <1>8, <1>9 DEF Next

LEMMA InvAlways == Spec => []Inv
BY InvInit, InvNext, PTL DEF Spec

-----------------------------------------------------------------------------
\* The scheduler's variables keep their types; in particular
\* ready_queue_count never goes below zero.
THEOREM TypeCorrect == Spec => []TypeOK
<1>1. Inv => TypeOK
  BY DEF Inv, TypeOK, SchedOK, QueueOK, StatsOK
<1> QED BY <1>1, InvAlways, PTL

\* The doubly linked ready queue is always a list without repetitions of
\* exactly the threads flagged in_ready_queue.
THEOREM ReadyQueueIsList == Spec => []QueueWellFormed
<1>1. Inv => QueueWellFormed
  BY DEF Inv, QueueWellFormed, SchedOK, QueueOK
<1> QED BY <1>1, InvAlways, PTL

\* No call of the scheduler follows a pointer to a freed PCB: the KASSERTs
\* on the magic number hold.
THEOREM PcbsAreLive == Spec => []NoDanglingPcb
<1>1. Inv => NoDanglingPcb
  BY DEF Inv, NoDanglingPcb, SchedOK
<1> QED BY <1>1, InvAlways, PTL

\* At most one thread is RUNNING: the current one, which is not queued.
THEOREM OneRunningThread == Spec => []OnlyCurrentRuns
<1>1. Inv => OnlyCurrentRuns
  BY DEF Inv, OnlyCurrentRuns, SchedOK
<1> QED BY <1>1, InvAlways, PTL

\* process_stats counts the PCBs that exist.
THEOREM StatsAreRight == Spec => []StatsAgree
<1>1. Inv => StatsAgree
  BY DEF Inv, StatsOK, StatsAgree
<1> QED BY <1>1, InvAlways, PTL

-----------------------------------------------------------------------------
(***************************************************************************)
(* The scheduler implements the round-robin line.  The links determine the *)
(* list, so the refinement mapping (ReadyList) is what they describe; the  *)
(* lists that AddList and RemoveList build are Append and RemoveAt.        *)
(***************************************************************************)

\* A set of numbers with 0 and with the successor of each of its elements
\* has all numbers.
LEMMA Induction ==
  ASSUME NEW S, 0 \in S, \A n \in Nat : n \in S => n + 1 \in S
  PROVE  Nat \subseteq S
<1> SUFFICES ASSUME NEW bad \in Nat, bad \notin S
             PROVE  FALSE
  OBVIOUS
<1> DEFINE T == {0 .. n : n \in Nat \ S}
           R == StrictSubsetOrdering(Nat)
           F == FiniteSubsetsOf(Nat)
<1>1. IsWellFoundedOn(R, F)
  BY FS_StrictSubsetOrderingWellFounded
<1>2. T \subseteq F
  <2>1. \A n \in Nat : IsFiniteSet(0 .. n) /\ (0 .. n) \subseteq Nat
    BY FS_Interval
  <2> QED BY <2>1 DEF FiniteSubsetsOf
<1>3. T # {}
  OBVIOUS
<1>4. PICK x \in T : \A y \in T : <<y, x>> \notin R
  <2> HIDE DEF T, R, F
  <2> QED BY <1>1, <1>2, <1>3, WFMin
<1>5. PICK m \in Nat \ S : x = 0 .. m
  BY <1>4
<1>6. m - 1 \in Nat /\ (m - 1) + 1 = m
  BY <1>5
<1>7. m - 1 \notin S
  BY <1>5, <1>6
<1>8. (0 .. m - 1) \in T
  BY <1>6, <1>7
<1>9. <<0 .. m - 1, 0 .. m>> \in R
  <2>1. (0 .. m - 1) \subseteq (0 .. m) /\ (0 .. m - 1) # (0 .. m)
    BY <1>6
  <2> QED BY <1>6, <2>1 DEF StrictSubsetOrdering
<1> QED BY <1>4, <1>5, <1>8, <1>9

\* The links describe one list.
LEMMA OneList ==
  ASSUME NEW s \in SchedType, NEW l, NEW m, IsReadyList(s, l), IsReadyList(s, m)
  PROVE  l = m
<1>1. s.count \in Nat /\ l \in [1 .. s.count -> Pcb] /\ m \in [1 .. s.count -> Pcb]
  BY DEF IsReadyList, SchedType
<1> DEFINE n == s.count
           S == {i \in Nat : i < n => l[i + 1] = m[i + 1]}
<1>2. 0 \in S
  BY <1>1 DEF IsReadyList
<1>3. ASSUME NEW i \in Nat, i \in S PROVE i + 1 \in S
  <2> SUFFICES ASSUME i + 1 < n PROVE l[(i + 1) + 1] = m[(i + 1) + 1]
    OBVIOUS
  <2>1. i + 1 \in 1 .. n /\ i + 1 # n /\ l[i + 1] = m[i + 1]
    BY <1>1, <1>3
  <2>2. s.next[l[i + 1]] = l[(i + 1) + 1] /\ s.next[m[i + 1]] = m[(i + 1) + 1]
    BY <2>1 DEF IsReadyList
  <2> QED BY <2>1, <2>2
<1>4. Nat \subseteq S
  <2> HIDE DEF S
  <2> QED BY <1>2, <1>3, Induction
<1>5. ASSUME NEW i \in 1 .. n PROVE l[i] = m[i]
  <2>1. i - 1 \in Nat /\ i - 1 < n /\ (i - 1) + 1 = i
    BY <1>1
  <2>2. i - 1 \in S
    BY <1>4, <2>1
  <2> QED BY <2>1, <2>2
<1> QED BY <1>1, <1>5

LEMMA ListOfIs ==
  ASSUME NEW s \in SchedType, NEW l, IsReadyList(s, l)
  PROVE  ListOf(s) = l
<1>1. l \in [1 .. s.count -> Pcb]
  BY DEF IsReadyList
<1>2. ListOf(s) \in [1 .. s.count -> Pcb] /\ IsReadyList(s, ListOf(s))
  BY <1>1 DEF ListOf
<1> QED BY <1>2, OneList

\* The two lists as the line of RoundRobin has them.
LEMMA ListIsSeq ==
  ASSUME NEW n \in Nat, NEW l \in [1 .. n -> Pcb]
  PROVE  /\ l \in Seq(Pcb) /\ Len(l) = n /\ DOMAIN l = 1 .. n
         /\ l = <<>> <=> n = 0
         /\ n > 0 => Head(l) = l[1] /\ Tail(l) = Shorter(n, l, 1)
         /\ \A p \in Pcb : Append(l, p) = Longer(n, l, p)
         /\ \A k \in 1 .. n : SubSeq(l, 1, k - 1) \o SubSeq(l, k + 1, Len(l)) = Shorter(n, l, k)
<1>1. l \in Seq(Pcb) /\ Len(l) = n /\ DOMAIN l = 1 .. n
  OBVIOUS
<1>2. l = <<>> <=> n = 0
  BY <1>1
<1>0. ASSUME NEW k \in 1 .. n
      PROVE  /\ Shorter(n, l, k) \in Seq(Pcb) /\ Len(Shorter(n, l, k)) = n - 1
             /\ \A i \in 1 .. n - 1 : Shorter(n, l, k)[i] = IF i < k THEN l[i] ELSE l[i + 1]
  <2> DEFINE h == Shorter(n, l, k)
  <2>1. n - 1 \in Nat /\ h \in [1 .. n - 1 -> Pcb]
    BY DEF Shorter
  <2>2. \A i \in 1 .. n - 1 : h[i] = IF i < k THEN l[i] ELSE l[i + 1]
    BY DEF Shorter
  <2> HIDE DEF h
  <2>3. h \in Seq(Pcb) /\ Len(h) = n - 1
    BY <2>1
  <2> QED BY <2>2, <2>3 DEF h
<1>3. ASSUME n > 0 PROVE Head(l) = l[1] /\ Tail(l) = Shorter(n, l, 1)
  <2> DEFINE h == Shorter(n, l, 1)
             t == Tail(l)
  <2>1. l # <<>> /\ 1 \in 1 .. n
    BY <1>2, <1>3
  <2>2. t \in Seq(Pcb) /\ Len(t) = Len(l) - 1 /\ \A i \in 1 .. Len(t) : t[i] = l[i + 1]
    BY <1>1, <2>1, HeadTailProperties
  <2>3. h \in Seq(Pcb) /\ Len(h) = n - 1 /\ \A i \in 1 .. n - 1 : h[i] = IF i < 1 THEN l[i] ELSE l[i + 1]
    BY <1>0, <2>1
  <2>4. t = h
    <3> HIDE DEF t, h
    <3>1. Len(t) = n - 1 /\ Len(h) = n - 1
      BY <1>1, <2>2, <2>3
    <3>2. \A i \in 1 .. n - 1 : t[i] = h[i]
      BY <2>2, <2>3, <3>1
    <3> QED BY <2>2, <2>3, <3>1, <3>2, SeqEqual
  <2>5. Head(l) = l[1]
    BY <1>1, <2>1
  <2> QED BY <2>4, <2>5
<1>4. ASSUME NEW p \in Pcb PROVE Append(l, p) = Longer(n, l, p)
  <2> DEFINE h == Longer(n, l, p)
             t == Append(l, p)
  <2>1. t \in Seq(Pcb) /\ Len(t) = Len(l) + 1 /\ t[Len(l) + 1] = p /\ \A i \in 1 .. Len(l) : t[i] = l[i]
    BY <1>1, AppendProperties
  <2>2. n + 1 \in Nat /\ h \in [1 .. n + 1 -> Pcb] /\ \A i \in 1 .. n + 1 : h[i] = IF i = n + 1 THEN p ELSE l[i]
    BY DEF Longer
  <2>3. h \in Seq(Pcb) /\ Len(h) = n + 1
    <3> HIDE DEF h
    <3> QED BY <2>2
  <2> HIDE DEF t, h
  <2>4. Len(t) = n + 1 /\ \A i \in 1 .. n + 1 : t[i] = h[i]
    BY <1>1, <2>1, <2>2
  <2>5. t = h
    BY <2>1, <2>3, <2>4, SeqEqual
  <2> QED BY <2>5 DEF t, h
<1>5. ASSUME NEW k \in 1 .. n
      PROVE  SubSeq(l, 1, k - 1) \o SubSeq(l, k + 1, Len(l)) = Shorter(n, l, k)
  <2> DEFINE a == SubSeq(l, 1, k - 1)
             b == SubSeq(l, k + 1, n)
             h == Shorter(n, l, k)
             c == a \o b
  <2>1. a \in Seq(Pcb) /\ Len(a) = k - 1 /\ \A i \in 1 .. k - 1 : a[i] = l[i]
    BY <1>1
  <2>2. b \in Seq(Pcb) /\ Len(b) = n - k /\ \A i \in 1 .. n - k : b[i] = l[k + i]
    BY <1>1
  <2> HIDE DEF a, b
  <2>3. /\ c \in Seq(Pcb) /\ Len(c) = Len(a) + Len(b)
        /\ \A i \in 1 .. Len(a) + Len(b) : c[i] = IF i <= Len(a) THEN a[i] ELSE b[i - Len(a)]
    BY <2>1, <2>2, ConcatProperties
  <2>4. h \in Seq(Pcb) /\ Len(h) = n - 1 /\ \A i \in 1 .. n - 1 : h[i] = IF i < k THEN l[i] ELSE l[i + 1]
    BY <1>0
  <2>5. c = h
    <3> HIDE DEF c, h
    <3>1. Len(c) = n - 1 /\ Len(h) = n - 1
      BY <2>1, <2>2, <2>3, <2>4
    <3>2. ASSUME NEW i \in 1 .. n - 1 PROVE c[i] = h[i]
      <4>1. c[i] = IF i <= k - 1 THEN a[i] ELSE b[i - (k - 1)]
        BY <2>1, <2>2, <2>3
      <4>2. CASE i <= k - 1
        <5>1. i \in 1 .. k - 1 /\ i < k
          BY <4>2
        <5> QED BY <2>1, <2>4, <4>1, <4>2, <5>1
      <4>3. CASE ~(i <= k - 1)
        <5>1. i - (k - 1) \in 1 .. n - k /\ ~(i < k) /\ k + (i - (k - 1)) = i + 1
          BY <4>3
        <5>2. b[i - (k - 1)] = l[i + 1]
          BY <2>2, <5>1
        <5> QED BY <2>4, <4>1, <4>3, <5>1, <5>2
      <4> QED BY <4>2, <4>3
    <3> QED BY <2>3, <2>4, <3>1, <3>2, SeqEqual
  <2> QED BY <1>1, <2>5 DEF a, b
<1> QED BY <1>1, <1>2, <1>3, <1>4, <1>5

\* l without the thread p, as RoundRobin has it.
Member(l, p) == \E i \in DOMAIN l : l[i] = p
Rest(l, p) ==
    IF Member(l, p)
    THEN LET k == CHOOSE i \in DOMAIN l : l[i] = p
         IN  SubSeq(l, 1, k - 1) \o SubSeq(l, k + 1, Len(l))
    ELSE l

LEMMA HasList ==
  ASSUME NEW s, QueueOK(s)
  PROVE  /\ s \in SchedType /\ s.count \in Nat
         /\ IsReadyList(s, ListOf(s)) /\ ListOf(s) \in [1 .. s.count -> Pcb]
         /\ \A p \in Pcb : s.inq[p] <=> Member(ListOf(s), p)
<1>1. s \in SchedType /\ s.count \in Nat
  BY DEF QueueOK, SchedType
<1>2. PICK l \in [1 .. s.count -> Pcb] : IsReadyList(s, l)
  BY DEF QueueOK
<1>3. ListOf(s) = l
  BY <1>1, <1>2, ListOfIs
<1>4. \A p \in Pcb : s.inq[p] <=> Member(l, p)
  BY <1>2 DEF IsReadyList, Member
<1> QED BY <1>1, <1>2, <1>3, <1>4

\* A change of states or of current_thread leaves the list.
LEMMA StateMaps ==
  ASSUME NEW s, QueueOK(s), NEW p \in Pcb, NEW v \in ThreadState, NEW c \in Ptr,
         NEW t, t = SetState(s, p, v, c)
  PROVE  ListOf(t) = ListOf(s)
<1> DEFINE l == ListOf(s)
<1>1. s \in SchedType /\ IsReadyList(s, l)
  BY HasList
<1>2. t \in SchedType
  BY StateChangeOK DEF SetStateResult, QueueOK
<1>3. t = [cur |-> c, head |-> s.head, tail |-> s.tail, count |-> s.count,
           next |-> s.next, prev |-> s.prev, inq |-> s.inq,
           state |-> [s.state EXCEPT ![p] = v]]
  BY <1>1 DEF SchedType, SetState
<1>4. IsReadyList(t, l)
  <2> HIDE DEF l
  <2> QED BY <1>1, <1>3 DEF IsReadyList
<1> QED BY <1>2, <1>4, ListOfIs

\* pcb_add_to_ready_queue joins the end of the line, if it does anything.
LEMMA AddMaps ==
  ASSUME NEW s, QueueOK(s), NEW p \in Pcb, NEW t, t = pcb_add_to_ready_queue(s, p)
  PROVE  \/ t = s
         \/ ~Member(ListOf(s), p) /\ t.cur = s.cur /\ ListOf(t) = Append(ListOf(s), p)
<1>1. CASE s.state[p] = "EXITED" \/ s.inq[p]
  BY <1>1 DEF pcb_add_to_ready_queue
<1>2. CASE ~(s.state[p] = "EXITED" \/ s.inq[p])
  <2> DEFINE l == ListOf(s)
  <2>1. /\ s \in SchedType /\ s.count \in Nat /\ IsReadyList(s, l) /\ l \in [1 .. s.count -> Pcb]
        /\ s.inq[p] <=> Member(l, p)
    BY HasList
  <2>2. s.state[p] # "EXITED" /\ ~s.inq[p]
    BY <1>2
  <2>3. Appended(s, p, t) /\ IsReadyList(t, Longer(s.count, l, p))
    <3> HIDE DEF l
    <3> QED BY <2>1, <2>2, AddList, Zenon
  <2>4. t \in SchedType /\ t.cur = s.cur
    BY <2>3 DEF Appended
  <2>5. ListOf(t) = Longer(s.count, l, p)
    BY <2>3, <2>4, ListOfIs
  <2>6. Append(l, p) = Longer(s.count, l, p)
    <3> HIDE DEF l
    <3> QED BY <2>1, ListIsSeq
  <2> QED BY <2>1, <2>2, <2>4, <2>5, <2>6
<1> QED BY <1>1, <1>2

\* pcb_remove_from_ready_queue takes the thread out of the line.
LEMMA RemoveMaps ==
  ASSUME NEW s, QueueOK(s), NEW p \in Pcb, NEW t, t = pcb_remove_from_ready_queue(s, p)
  PROVE  t.cur = s.cur /\ t.state = s.state /\ QueueOK(t) /\ ListOf(t) = Rest(ListOf(s), p)
<1> DEFINE l == ListOf(s)
<1>0. t.cur = s.cur /\ t.state = s.state /\ QueueOK(t)
  <2>1. RemoveResult(s, p, t)
    BY RemoveOK
  <2> QED BY <2>1 DEF RemoveResult
<1>1. /\ s \in SchedType /\ s.count \in Nat /\ IsReadyList(s, l) /\ l \in [1 .. s.count -> Pcb]
      /\ s.inq[p] <=> Member(l, p)
  BY HasList
<1> HIDE DEF l
<1>2. CASE ~s.inq[p]
  <2>1. t = s
    BY <1>2 DEF pcb_remove_from_ready_queue
  <2>2. ListOf(t) = Rest(l, p)
    BY <1>1, <1>2, <2>1 DEF Rest, l
  <2> QED BY <1>0, <2>2 DEF l
<1>3. CASE s.inq[p]
  <2> DEFINE k == CHOOSE i \in DOMAIN l : l[i] = p
  <2>1. k \in 1 .. s.count /\ l[k] = p
    BY <1>1, <1>3 DEF Member
  <2> HIDE DEF k
  <2>2. Unlinked(s, p, t) /\ IsReadyList(t, Shorter(s.count, l, k))
    BY <1>1, <1>3, <2>1, RemoveList, Zenon
  <2>3. ListOf(t) = Shorter(s.count, l, k)
    BY <2>2, ListOfIs DEF Unlinked
  <2>4. SubSeq(l, 1, k - 1) \o SubSeq(l, k + 1, Len(l)) = Shorter(s.count, l, k)
    BY <1>1, <2>1, ListIsSeq
  <2>5. Rest(l, p) = SubSeq(l, 1, k - 1) \o SubSeq(l, k + 1, Len(l))
    BY <1>1, <1>3 DEF Rest, k
  <2> QED BY <1>0, <2>3, <2>4, <2>5 DEF l
<1> QED BY <1>2, <1>3

\* dispatch serves the head of the line.
LEMMA DispatchMaps ==
  ASSUME NEW s, QueueOK(s), s.head # NULL
  PROVE  /\ ListOf(s) # <<>>
         /\ dispatch(s).cur = Head(ListOf(s)) /\ ListOf(dispatch(s)) = Tail(ListOf(s))
<1> DEFINE h == s.head
           l == ListOf(s)
           u == pcb_remove_from_ready_queue(s, h)
           t == [u EXCEPT !.cur = h, !.state = [@ EXCEPT ![h] = "RUNNING"]]
<1>1. h \in Pcb /\ s.inq[h]
  BY HeadQueued
<1>2. s \in SchedType /\ s.count \in Nat /\ IsReadyList(s, l) /\ l \in [1 .. s.count -> Pcb]
  BY HasList
<1>3. s.count > 0 /\ h = l[1] /\ 1 \in 1 .. s.count
  <2> HIDE DEF l
  <2>1. s.count # 0
    BY <1>2 DEF IsReadyList
  <2> QED BY <1>2, <2>1 DEF IsReadyList
<1>4. IsReadyList(u, Shorter(s.count, l, 1)) /\ Unlinked(s, h, u)
  <2>1. l[1] = h
    BY <1>3
  <2> HIDE DEF l, h, u
  <2> QED BY <1>1, <1>2, <1>3, <2>1, RemoveList, Zenon DEF u
<1>5. QueueOK(u) /\ u \in SchedType
  BY <1>1, RemoveOK DEF RemoveResult, QueueOK
<1>6. ListOf(u) = Shorter(s.count, l, 1)
  <2> HIDE DEF u, l
  <2> QED BY <1>4, <1>5, ListOfIs
<1>7. t = SetState(u, h, "RUNNING", h) /\ h \in Ptr /\ "RUNNING" \in ThreadState
  BY <1>1, <1>5 DEF SchedType, SetState, Ptr, ThreadState
<1>8. ListOf(t) = ListOf(u) /\ t.cur = h
  <2> HIDE DEF t, u, h
  <2>1. ListOf(t) = ListOf(u)
    BY <1>1, <1>5, <1>7, StateMaps
  <2>2. t.cur = h
    <3>1. SetStateResult(u, h, "RUNNING", h, t)
      BY <1>1, <1>5, <1>7, StateChangeOK
    <3> QED BY <3>1 DEF SetStateResult
  <2> QED BY <2>1, <2>2
<1>9. dispatch(s) = t
  BY DEF dispatch
<1>10. l # <<>> /\ Head(l) = l[1] /\ Tail(l) = Shorter(s.count, l, 1)
  <2> HIDE DEF l
  <2>1. s.count # 0
    BY <1>2, <1>3
  <2> QED BY <1>2, <1>3, <2>1, ListIsSeq
<1> HIDE DEF t, u, h
<1> QED BY <1>3, <1>6, <1>8, <1>9, <1>10

\* schedule switches to the head of the line, after the running thread has
\* joined its end or without it; or there is no line.
Switched(l, t) == l # <<>> /\ t.cur = Head(l) /\ ListOf(t) = Tail(l)

LEMMA ScheduleMaps ==
  ASSUME NEW A \in SUBSET Pcb, NEW s, SchedOK(s, A)
  PROVE  \/ /\ s.cur # NULL /\ ~Member(ListOf(s), s.cur)
            /\ Switched(Append(ListOf(s), s.cur), schedule(s))
         \/ Switched(ListOf(s), schedule(s))
         \/ ListOf(s) = <<>> /\ ListOf(schedule(s)) = ListOf(s) /\ schedule(s).cur \in {s.cur, NULL}
<1> DEFINE r == requeue_current(s)
           c == s.cur
<1>0. QueueOK(s) /\ s \in SchedType /\ c \in Ptr
  BY DEF SchedOK, QueueOK, SchedType
<1>1. /\ QueueOK(r) /\ r.cur = c
      /\ \/ r = s
         \/ c # NULL /\ ~Member(ListOf(s), c) /\ ListOf(r) = Append(ListOf(s), c)
         \/ ListOf(r) = ListOf(s)
  <2>1. CASE c # NULL /\ s.state[c] = "RUNNING"
    <3> DEFINE v == [s EXCEPT !.state = [@ EXCEPT ![c] = "READY"]]
    <3>1. c \in Pcb /\ "READY" \in ThreadState
      BY <1>0, <2>1 DEF Ptr, ThreadState
    <3>2. v = SetState(s, c, "READY", c)
      BY <1>0 DEF SchedType, SetState
    <3>3. r = pcb_add_to_ready_queue(v, c)
      BY <2>1 DEF requeue_current
    <3> HIDE DEF v, r, c
    <3>4. ListOf(v) = ListOf(s) /\ QueueOK(v) /\ v.cur = c
      <4>1. SetStateResult(s, c, "READY", c, v)
        BY <1>0, <3>1, <3>2, StateChangeOK
      <4>2. ListOf(v) = ListOf(s)
        BY <1>0, <3>1, <3>2, StateMaps
      <4> QED BY <4>1, <4>2 DEF SetStateResult
    <3>5. QueueOK(r) /\ r.cur = v.cur
      BY <3>1, <3>3, <3>4, AddOK DEF AddResult
    <3>6. r = v \/ (~Member(ListOf(v), c) /\ ListOf(r) = Append(ListOf(v), c))
      BY <3>1, <3>3, <3>4, AddMaps
    <3> QED BY <2>1, <3>4, <3>5, <3>6
  <2>2. CASE ~(c # NULL /\ s.state[c] = "RUNNING")
    <3>1. r = s
      BY <2>2 DEF requeue_current
    <3> QED BY <1>0, <3>1
  <2> QED BY <2>1, <2>2
<1> HIDE DEF r
<1>2. schedule(s) = IF r.head # NULL THEN dispatch(r) ELSE keep_current(r)
  BY DEF schedule, r
<1>3. CASE r.head # NULL
  <2>1. Switched(ListOf(r), schedule(s))
    BY <1>1, <1>2, <1>3, DispatchMaps DEF Switched
  <2> QED BY <1>1, <2>1
<1>4. CASE r.head = NULL
  <2> DEFINE t == keep_current(r)
  <2>1. schedule(s) = t
    BY <1>2, <1>4
  <2>2. r.count = 0 /\ ListOf(r) = <<>>
    <3>1. /\ r.count \in Nat /\ IsReadyList(r, ListOf(r)) /\ ListOf(r) \in [1 .. r.count -> Pcb]
      BY <1>1, HasList
    <3>2. r.count = 0
      BY <1>4, <3>1, SchedulerAssumption DEF IsReadyList
    <3> QED BY <3>1, <3>2, ListIsSeq
  <2>3. ListOf(s) = <<>>
    <3>1. ASSUME ListOf(r) = Append(ListOf(s), c) /\ c # NULL PROVE FALSE
      <4> DEFINE l == ListOf(s)
      <4>1. s.count \in Nat /\ l \in [1 .. s.count -> Pcb] /\ c \in Pcb
        BY <1>0, <3>1, HasList DEF Ptr
      <4> HIDE DEF l, c
      <4>2. l \in Seq(Pcb)
        BY <4>1, ListIsSeq
      <4>3. Append(l, c) # <<>>
        BY <4>1, <4>2
      <4> QED BY <2>2, <3>1, <4>3 DEF l
    <3> QED BY <1>1, <2>2, <3>1
  <2>4. r \in SchedType /\ r.state \in [Pcb -> ThreadState] /\ NULL \in Ptr
    BY <1>1 DEF QueueOK, SchedType, Ptr
  <2>5. CASE c # NULL /\ r.state[c] # "EXITED"
    <3>1. t = SetState(r, c, "RUNNING", c)
      BY <1>1, <2>4, <2>5 DEF keep_current, SchedType, SetState
    <3>2. c \in Pcb /\ "RUNNING" \in ThreadState
      BY <1>0, <2>5 DEF Ptr, ThreadState
    <3> HIDE DEF t, c
    <3>3. ListOf(t) = ListOf(r)
      BY <1>0, <1>1, <3>1, <3>2, StateMaps
    <3>4. t.cur = c
      <4>1. SetStateResult(r, c, "RUNNING", c, t)
        BY <1>0, <1>1, <3>1, <3>2, StateChangeOK
      <4> QED BY <4>1 DEF SetStateResult
    <3> QED BY <2>1, <2>2, <2>3, <3>3, <3>4 DEF c
  <2>6. CASE ~(c # NULL /\ r.state[c] # "EXITED")
    <3>1. t = [r EXCEPT !.cur = NULL]
      BY <1>1, <2>6 DEF keep_current
    <3>2. t = [cur |-> NULL, head |-> r.head, tail |-> r.tail, count |-> r.count,
               next |-> r.next, prev |-> r.prev, inq |-> r.inq, state |-> r.state]
      BY <2>4, <3>1 DEF SchedType
    <3>3. IsReadyList(r, ListOf(r))
      BY <1>1, HasList
    <3> HIDE DEF t
    <3>4. t \in SchedType /\ t.cur = NULL
      BY <2>4, <3>2 DEF SchedType
    <3>5. IsReadyList(t, ListOf(r))
      BY <3>2, <3>3 DEF IsReadyList
    <3>6. ListOf(t) = ListOf(r)
      BY <3>4, <3>5, ListOfIs
    <3> QED BY <2>1, <2>2, <2>3, <3>4, <3>6
  <2> QED BY <2>5, <2>6
<1> QED BY <1>3, <1>4

\* The same in the words of RoundRobin.
LEMMA LineIs ==
  /\ \A p : RR!InLine(p) <=> Member(ReadyList, p)
  /\ \A p : RR!Without(p) = Rest(ReadyList, p)
BY DEF RR!InLine, RR!Without, RR!RemoveAt, Member, Rest

\* A step of the scheduler that runs schedule() on sched.
LEMMA ScheduleSteps ==
  ASSUME Inv, sched' = schedule(sched)
  PROVE  [RR!Next]_(RR!vars)
<1> DEFINE l == ListOf(sched)
           c == sched.cur
<1>1. \/ c # NULL /\ ~Member(l, c) /\ Switched(Append(l, c), sched')
      \/ Switched(l, sched')
      \/ l = <<>> /\ ListOf(sched') = l /\ sched'.cur \in {c, NULL}
  BY ScheduleMaps DEF Inv
<1>2. ReadyList = l /\ ReadyList' = ListOf(sched')
  BY DEF ReadyList
<1>3. CASE c # NULL /\ ~Member(l, c) /\ Switched(Append(l, c), sched')
  <2>1. RR!Switch(TRUE)
    BY <1>2, <1>3, LineIs DEF RR!Switch, Switched
  <2> QED BY <2>1 DEF RR!Next
<1>4. CASE Switched(l, sched')
  <2>1. RR!Switch(FALSE)
    BY <1>2, <1>4 DEF RR!Switch, Switched
  <2> QED BY <2>1 DEF RR!Next
<1>5. CASE l = <<>> /\ ListOf(sched') = l /\ sched'.cur \in {c, NULL}
  <2>1. CASE sched'.cur = c
    BY <1>2, <1>5, <2>1 DEF RR!vars
  <2>2. CASE sched'.cur = NULL
    <3>1. RR!Idle
      BY <1>2, <1>5, <2>2 DEF RR!Idle
    <3> QED BY <3>1 DEF RR!Next
  <2> QED BY <1>5, <2>1, <2>2
<1> QED BY <1>1, <1>3, <1>4, <1>5

\* Every step is a step of the line or leaves it as it is.
LEMMA StepSimulates == Inv /\ [Next]_vars => [RR!Next]_(RR!vars)
<1> SUFFICES ASSUME Inv, [Next]_vars PROVE [RR!Next]_(RR!vars)
  OBVIOUS
<1>0. /\ SchedOK(sched, live) /\ QueueOK(sched) /\ sched \in SchedType /\ live \in SUBSET Pcb
      /\ sched.cur \in Ptr /\ sched.state \in [Pcb -> ThreadState]
  BY DEF Inv, SchedOK, QueueOK, SchedType
<1> DEFINE l == ListOf(sched)
<1>l. ReadyList = l /\ ReadyList' = ListOf(sched')
  BY DEF ReadyList
<1>s. ASSUME ListOf(sched') = l, sched'.cur = sched.cur PROVE UNCHANGED RR!vars
  BY <1>l, <1>s DEF RR!vars
<1>1. ASSUME NEW p \in Pcb, thread_create(p) PROVE UNCHANGED RR!vars
  <2>1. ~sched.inq[p]
    BY <1>0, <1>1 DEF SchedOK, thread_create
  <2>2. sched' = [cur |-> sched.cur, head |-> sched.head, tail |-> sched.tail,
                  count |-> sched.count,
                  next |-> [sched.next EXCEPT ![p] = NULL],
                  prev |-> [sched.prev EXCEPT ![p] = NULL],
                  inq |-> [sched.inq EXCEPT ![p] = FALSE],
                  state |-> [sched.state EXCEPT ![p] = "READY"]]
    BY <1>0, <1>1 DEF thread_create, SchedType
  <2>3. sched' \in SchedType
    <3>1. Inv'
      BY InvNext
    <3> QED BY <3>1 DEF Inv, SchedOK, QueueOK
  <2>4. IsReadyList(sched, l) /\ l \in [1 .. sched.count -> Pcb]
    BY <1>0, HasList
  <2> HIDE DEF l
  <2>5. \A i \in 1 .. sched.count : l[i] # p
    BY <2>1, <2>4 DEF IsReadyList
  <2>6. IsReadyList(sched', l)
    <3>1. /\ sched'.count = sched.count
          /\ sched'.head = sched.head /\ sched'.tail = sched.tail
      BY <2>2
    <3>2. \A x \in Pcb : sched'.inq[x] <=> sched.inq[x]
      <4>1. sched.inq \in [Pcb -> BOOLEAN]
        BY <1>0 DEF SchedType
      <4> QED BY <2>1, <2>2, <4>1
    <3>3. \A x \in Pcb : x # p => /\ sched'.next[x] = sched.next[x]
                                  /\ sched'.prev[x] = sched.prev[x]
      BY <1>0, <2>2 DEF SchedType
    <3> QED BY <2>4, <2>5, <3>1, <3>2, <3>3 DEF IsReadyList
  <2>7. ListOf(sched') = l /\ sched'.cur = sched.cur
    BY <2>2, <2>3, <2>6, ListOfIs
  <2> QED BY <1>s, <2>7
<1>2. ASSUME NEW p \in Pcb, scheduler_add_thread(p) PROVE [RR!Next]_(RR!vars)
  <2>1. \/ sched' = sched
        \/ ~Member(l, p) /\ sched'.cur = sched.cur /\ ListOf(sched') = Append(l, p)
    BY <1>0, <1>2, AddMaps DEF scheduler_add_thread
  <2>2. CASE sched' = sched
    BY <1>s, <2>2
  <2>3. CASE ~Member(l, p) /\ sched'.cur = sched.cur /\ ListOf(sched') = Append(l, p)
    <3>1. RR!Join(p)
      BY <1>l, <2>3, LineIs DEF RR!Join
    <3> QED BY <3>1 DEF RR!Next
  <2> QED BY <2>1, <2>2, <2>3
<1>3. ASSUME NEW p \in Pcb, scheduler_remove_thread(p) PROVE UNCHANGED RR!vars
  <2>1. sched' = SetState(sched, p, "EXITED", sched.cur)
    BY <1>0, <1>3 DEF scheduler_remove_thread, SetState, SchedType
  <2>2. "EXITED" \in ThreadState
    BY DEF ThreadState
  <2>3. ListOf(sched') = l
    BY <1>0, <2>1, <2>2, StateMaps
  <2>4. SetStateResult(sched, p, "EXITED", sched.cur, sched')
    BY <1>0, <2>1, <2>2, StateChangeOK
  <2> QED BY <1>s, <2>3, <2>4 DEF SetStateResult
<1>4. ASSUME NEW p \in Pcb, pcb_destroy(p) PROVE [RR!Next]_(RR!vars)
  <2>1. sched'.cur = sched.cur /\ ListOf(sched') = Rest(l, p)
    BY <1>0, <1>4, RemoveMaps DEF pcb_destroy
  <2>2. CASE Member(l, p)
    <3>1. RR!Leave(p)
      BY <1>l, <2>1, <2>2, LineIs DEF RR!Leave
    <3> QED BY <3>1 DEF RR!Next
  <2>3. CASE ~Member(l, p)
    <3>1. Rest(l, p) = l
      BY <2>3 DEF Rest
    <3> QED BY <1>s, <2>1, <3>1
  <2> QED BY <2>2, <2>3
<1>5. ASSUME NEW p \in Pcb, scheduler_set_current(p) PROVE [RR!Next]_(RR!vars)
  <2>1. sched' = SetState(sched, p, sched.state[p], p)
    BY <1>0, <1>5 DEF scheduler_set_current, SetState, SchedType
  <2>2. sched.state[p] \in ThreadState /\ p \in Ptr
    BY <1>0 DEF Ptr
  <2>3. ListOf(sched') = l
    BY <1>0, <2>1, <2>2, StateMaps
  <2>4. SetStateResult(sched, p, sched.state[p], p, sched')
    BY <1>0, <2>1, <2>2, StateChangeOK
  <2>5. RR!Adopt(p)
    BY <1>5, <1>l, <2>3, <2>4 DEF RR!Adopt, SetStateResult, scheduler_set_current
  <2> QED BY <2>5 DEF RR!Next
<1>6. CASE thread_exit
  <2> DEFINE c == sched.cur
             v == [sched EXCEPT !.state = [@ EXCEPT ![c] = "EXITED"], !.cur = NULL]
             u == pcb_remove_from_ready_queue(v, c)
             A == live \ {c}
  <2>1. c \in Pcb /\ c # NULL /\ A \in SUBSET Pcb /\ sched' = schedule(u)
    BY <1>0, <1>6 DEF thread_exit, Ptr
  <2>2. v = SetState(sched, c, "EXITED", NULL) /\ "EXITED" \in ThreadState /\ NULL \in Ptr
    BY DEF SetState, ThreadState, Ptr
  <2> HIDE DEF v
  <2>3. SetStateResult(sched, c, "EXITED", NULL, v) /\ ListOf(v) = l
    BY <1>0, <2>1, <2>2, StateChangeOK, StateMaps
  <2>4. QueueOK(v) /\ v.cur = NULL
    BY <2>3 DEF SetStateResult
  <2>5. RemoveResult(v, c, u) /\ ListOf(u) = Rest(l, c)
    BY <2>1, <2>3, <2>4, RemoveOK, RemoveMaps
  <2> HIDE DEF u
  <2>6. u.cur = NULL /\ SchedOK(u, A)
    <3>t. sched.inq \in [Pcb -> BOOLEAN]
      BY <1>0 DEF SchedType
    <3>1. QueueOK(u) /\ u.cur = NULL
      BY <2>4, <2>5 DEF RemoveResult
    <3>2. \A x \in Pcb : u.inq[x] => x \in A
      BY <1>0, <3>t, <2>1, <2>3, <2>5 DEF SetStateResult, RemoveResult, SchedOK
    <3>3. \A x \in A : u.state[x] # "RUNNING"
      BY <1>0, <2>1, <2>3, <2>5 DEF SetStateResult, RemoveResult, SchedOK
    <3> QED BY <3>1, <3>2, <3>3 DEF SchedOK
  <2> DEFINE r == Rest(l, c)
  <2>7. Switched(r, sched') \/ (r = <<>> /\ ListOf(sched') = r /\ sched'.cur = NULL)
    BY <2>1, <2>5, <2>6, ScheduleMaps
  <2>8. RR!End
    <3>1. RR!Without(c) = r
      BY <1>l, LineIs
    <3> HIDE DEF r
    <3> QED BY <1>l, <2>1, <2>7, <3>1 DEF RR!End, Switched
  <2> QED BY <2>8 DEF RR!Next
<1>7. CASE thread_yield
  BY <1>7, ScheduleSteps DEF thread_yield
<1>8. CASE timer_handler
  <2>1. CASE sched' = schedule(sched)
    BY <2>1, ScheduleSteps
  <2>2. CASE sched' = sched
    BY <1>s, <2>2
  <2> QED BY <1>8, <2>1, <2>2 DEF timer_handler
<1>9. CASE UNCHANGED vars
  BY <1>9, <1>s DEF vars
<1> QED
  BY <1>1, <1>2, <1>3, <1>4, <1>5, <1>6, <1>7, <1>8, <1>9 DEF Next

\* The doubly linked ready queue and schedule() implement the round-robin
\* line, for any number of threads: who waits is served in the order of
\* arrival, and only the head of the line gets the processor.
THEOREM ServesInOrder == Spec => RefinesRoundRobin
<1>1. Init => RR!Init
  <2> SUFFICES ASSUME Init PROVE RR!Init
    OBVIOUS
  <2>1. QueueOK(sched)
    BY InvInit DEF Inv, SchedOK
  <2>2. sched.count = 0 /\ sched.cur = NULL
    BY DEF Init
  <2>3. ListOf(sched) = <<>>
    BY <2>1, <2>2, HasList, ListIsSeq
  <2> QED BY <2>2, <2>3 DEF RR!Init, ReadyList
<1> QED BY <1>1, StepSimulates, InvAlways, PTL DEF Spec, RefinesRoundRobin, RR!Spec
=============================================================================
