---------------------------- MODULE CompatdProofs ----------------------------
(***************************************************************************)
(* compatd_exec_exe and the Win32 tables, for any numbers of blocks,       *)
(* regions, threads and sections: a thread reads its own TLS values        *)
(* (TlsIsOwn), no path through the call loses or steals a block            *)
(* (BuffersAccounted), and loading leaves every section whole              *)
(* (SectionsIntact).                                                       *)
(***************************************************************************)
EXTENDS Compatd, FiniteSetTheorems, SequenceTheorems, TLAPS

\* A set of numbers has a least one.
LEMMA LeastExists ==
    ASSUME NEW S, S \subseteq Nat, S # {}
    PROVE  \E i \in S : \A j \in S : i <= j
  <1> DEFINE T == {0 .. n : n \in S}
             R == StrictSubsetOrdering(Nat)
             F == FiniteSubsetsOf(Nat)
  <1>1. IsWellFoundedOn(R, F)
    BY FS_StrictSubsetOrderingWellFounded
  <1>2. T \subseteq F
    <2>1. \A n \in Nat : IsFiniteSet(0 .. n) /\ (0 .. n) \subseteq Nat
      BY FS_Interval
    <2> QED
      BY <2>1 DEF FiniteSubsetsOf
  <1>3. T # {}
    OBVIOUS
  <1>4. PICK x \in T : \A y \in T : <<y, x>> \notin R
    <2> HIDE DEF T, R, F
    <2> QED
      BY <1>1, <1>2, <1>3, WFMin
  <1>5. PICK i \in S : x = 0 .. i
    BY <1>4
  <1>6. ASSUME NEW j \in S
        PROVE  i <= j
    <2> SUFFICES ASSUME j < i
                 PROVE  FALSE
      OBVIOUS
    <2>1. (0 .. j) \in T
      OBVIOUS
    <2>2. (0 .. j) \subseteq (0 .. i) /\ (0 .. j) # (0 .. i)
      OBVIOUS
    <2>3. (0 .. j) \in SUBSET Nat /\ (0 .. i) \in SUBSET Nat
      OBVIOUS
    <2>4. <<0 .. j, 0 .. i>> \in R
      BY <2>2, <2>3 DEF StrictSubsetOrdering
    <2> QED
      BY <1>4, <1>5, <2>1, <2>4
  <1> QED
    BY <1>6

\* A set of numbers with 0 and with the successor of each of its elements
\* has all numbers.
LEMMA Induction ==
    ASSUME NEW S, 0 \in S, \A n \in Nat : n \in S => n + 1 \in S
    PROVE  Nat \subseteq S
  <1> SUFFICES ASSUME Nat \ S # {}
               PROVE  FALSE
    OBVIOUS
  <1>1. PICK m \in Nat \ S : \A j \in Nat \ S : m <= j
    BY LeastExists
  <1>2. m - 1 \in Nat /\ (m - 1) + 1 = m /\ ~(m <= m - 1)
    BY <1>1
  <1> QED
    BY <1>1, <1>2

-----------------------------------------------------------------------------
(***************************************************************************)
(* What the call holds at its stages.                                      *)
(***************************************************************************)
Pointer == Addr \cup {NULL}

\* exec is a record with these fields.
ExecShape(e) ==
    e \in [at : {e.at}, file : {e.file}, tmp : {e.tmp}, image : {e.image}, contents : {e.contents},
           bound : {e.bound}, relocs_applied : {e.relocs_applied}, maps : {e.maps}, guard : {e.guard}]

NoMaps(e) == \A i \in 1 .. 3 : e.maps[i] = NULL

HoldsAt(e) ==
    /\ e.at = "idle" => e.tmp = NULL
    /\ e.at \in {"idle", "parse", "load"} => e.image = NULL
    /\ e.at \in {"idle", "parse", "load", "bind", "process", "map"} => NoMaps(e)

ExecOK(e) ==
    /\ ExecShape(e) /\ e.at \in Stages
    /\ e.tmp \in Pointer /\ e.image \in Pointer
    /\ \A i \in 1 .. 3 : e.maps[i] \in Pointer
    /\ HoldsAt(e)

LEMMA NullIsNoBlock == NULL \notin Addr
  BY Win32Assumption

\* The heap gives a free block or none.
LEMMA KmallocGives ==
    ASSUME NEW h, NEW a \in kmalloc(h)
    PROVE  a \in Pointer /\ (a = NULL \/ (a \in Addr /\ a \notin h))
  <1>1. CASE a = NULL
    BY <1>1 DEF Pointer
  <1>2. CASE a # NULL
    <2>1. ~(Addr \subseteq h) /\ a = Min(Addr \ h)
      BY <1>2 DEF kmalloc
    <2>2. Addr \ h \subseteq Nat /\ Addr \ h # {}
      BY <2>1, Win32Assumption
    <2>3. \E i \in Addr \ h : \A j \in Addr \ h : i <= j
      BY <2>2, LeastExists
    <2>4. a \in Addr \ h
      BY <2>1, <2>3 DEF Min
    <2> QED
      BY <2>4 DEF Pointer
  <1> QED
    BY <1>1, <1>2

\* A mapped region has a block of its own, and an entry of the table.
Mapped(m, n) ==
    /\ n.base = NULL \/ (n.base \in Addr /\ n.base \notin m.heap)
    /\ n.heap = m.heap \cup ({n.base} \ {NULL})
    /\ n.regions \in [Region -> Pointer]
    /\ {n.regions[r] : r \in Region} \ {NULL} =
         ({m.regions[r] : r \in Region} \cup {n.base}) \ {NULL}

LEMMA MmapBase ==
    ASSUME NEW m, NEW n \in compat_mmap_region(m)
    PROVE  n.base \in Pointer
  <1>1. PICK a \in IF find_free_slot(m.regions) = {} THEN {NULL} ELSE kmalloc(m.heap) : n.base = a
    BY DEF compat_mmap_region
  <1>2. a = NULL \/ a \in kmalloc(m.heap)
    BY <1>1
  <1> QED
    BY <1>1, <1>2, KmallocGives DEF Pointer

LEMMA MmapIs ==
    ASSUME NEW m, m.regions \in [Region -> Pointer], NEW n \in compat_mmap_region(m)
    PROVE  Mapped(m, n)
  <1> DEFINE free == find_free_slot(m.regions)
             A == IF free = {} THEN {NULL} ELSE kmalloc(m.heap)
             R(a) == IF a = NULL THEN m.regions
                     ELSE [r \in Region |-> IF r \in free THEN a ELSE m.regions[r]]
             H(a) == m.heap \cup ({a} \ {NULL})
  <1>1. n \in {[base |-> a, heap |-> H(a), regions |-> R(a)] : a \in A}
    BY DEF compat_mmap_region
  <1> HIDE DEF A, R, H
  <1>2. PICK a \in A : n.base = a /\ n.heap = H(a) /\ n.regions = R(a)
    BY <1>1
  <1>3. CASE a = NULL
    BY <1>2, <1>3 DEF Mapped, R, H
  <1>4. CASE a # NULL
    <2>1. a \in kmalloc(m.heap) /\ free # {}
      BY <1>4 DEF A
    <2>2. a \in Addr /\ a \notin m.heap /\ a \in Pointer
      BY <1>4, <2>1, KmallocGives
    <2>3. \A r \in free : r \in Region /\ m.regions[r] = NULL
      BY DEF find_free_slot
    <2> HIDE DEF free
    <2>4. /\ n.regions \in [Region -> Pointer]
          /\ \A r \in Region : n.regions[r] = IF r \in free THEN a ELSE m.regions[r]
      BY <1>2, <1>4, <2>2 DEF R
    <2>5. {n.regions[r] : r \in Region} \ {NULL} = ({m.regions[r] : r \in Region} \cup {a}) \ {NULL}
      BY <2>1, <2>3, <2>4
    <2> QED
      BY <1>2, <2>2, <2>4, <2>5 DEF Mapped, H
  <1> QED
    BY <1>3, <1>4

-----------------------------------------------------------------------------
(***************************************************************************)
(* The stages.                                                             *)
(***************************************************************************)
LEMMA IdleOK == ExecOK(Idle)
  BY DEF Idle, ExecOK, ExecShape, HoldsAt, NoMaps, Stages, Pointer

\* Programs do not change the call.
LEMMA ProgramKeeps ==
    ASSUME Program
    PROVE  UNCHANGED <<exec, execs>>
  BY DEF Program, compat_process_exit, compat_process_add_thread, compat_atexit,
         module_registry_register, module_registry_add_export

LEMMA StageStep ==
    ASSUME ExecOK(exec), [Next]_compat_vars
    PROVE  ExecOK(exec')
  <1>1. CASE UNCHANGED compat_vars
    BY <1>1 DEF compat_vars
  <1>2. CASE Program
    BY <1>2, ProgramKeeps
  <1>3. ASSUME NEW path, exec_open(path)
        PROVE  ExecOK(exec')
    <2>1. PICK tmp \in kmalloc(heap) : \E data : exec' = [Idle EXCEPT !.at = "parse", !.file = data, !.tmp = tmp]
      BY <1>3 DEF exec_open
    <2>2. tmp \in Pointer
      BY <2>1, KmallocGives
    <2>3. PICK data : exec' = [Idle EXCEPT !.at = "parse", !.file = data, !.tmp = tmp]
      BY <2>1
    <2>4. ExecOK([Idle EXCEPT !.at = "parse", !.file = data, !.tmp = tmp])
      <3> DEFINE e == [Idle EXCEPT !.at = "parse", !.file = data, !.tmp = tmp]
      <3>1. /\ ExecShape(e) /\ e.at = "parse" /\ e.tmp = tmp /\ e.image = NULL
            /\ e.maps = <<NULL, NULL, NULL>>
        BY DEF Idle, ExecShape
      <3> HIDE DEF e
      <3>2. NoMaps(e) /\ NULL \in Pointer
        BY <3>1 DEF NoMaps, Pointer
      <3>3. ExecOK(e)
        BY <2>2, <3>1, <3>2 DEF ExecOK, HoldsAt, NoMaps, Stages
      <3> QED
        BY <3>3 DEF e
    <2> QED
      BY <2>3, <2>4
  <1>4. CASE exec_parse
    <2>1. exec.at = "parse" /\ (exec' = Idle \/ exec' = [exec EXCEPT !.at = "load"])
      BY <1>4 DEF exec_parse, exec_return, goto
    <2> QED
      BY <2>1, IdleOK DEF ExecOK, ExecShape, HoldsAt, NoMaps, Stages
  <1>5. CASE exec_load
    <2>1. PICK image \in kmalloc(heap) : exec.at = "load" /\
             (exec' = Idle \/ exec' = [exec EXCEPT !.at = "bind", !.image = image,
                                                   !.contents = pe_load_image(exec.file)])
      BY <1>5 DEF exec_load, exec_return
    <2>2. image \in Pointer
      BY <2>1, KmallocGives
    <2> DEFINE c == pe_load_image(exec.file)
    <2>3. exec.at = "load" /\ (exec' = Idle \/ exec' = [exec EXCEPT !.at = "bind", !.image = image, !.contents = c])
      BY <2>1
    <2> HIDE DEF c
    <2> QED
      BY <2>2, <2>3, IdleOK DEF ExecOK, ExecShape, HoldsAt, NoMaps, Stages
  <1>6. CASE exec_bind
    <2> DEFINE a == pe_apply_relocations(exec.file) = "applied"
               b == import_resolver_resolve(import_resolver_parse(exec.file), g_modules)
    <2>1. exec.at = "bind" /\ exec' = [exec EXCEPT !.at = "process", !.relocs_applied = a, !.bound = b]
      BY <1>6 DEF exec_bind
    <2> HIDE DEF a, b
    <2> QED
      BY <2>1 DEF ExecOK, ExecShape, HoldsAt, NoMaps, Stages
  <1>7. CASE exec_process
    <2>1. exec.at = "process" /\ exec' = [exec EXCEPT !.at = "map", !.file = NoFile, !.contents = <<>>,
                                                      !.bound = <<>>, !.relocs_applied = FALSE]
      BY <1>7 DEF exec_process
    <2> QED
      BY <2>1 DEF ExecOK, ExecShape, HoldsAt, NoMaps, Stages
  <1>8. CASE exec_map
    <2>1. PICK a \in compat_mmap_region(here) : \E b \in compat_mmap_region(a) :
            \E c \in compat_mmap_region(b) : exec.at = "map" /\
              (exec' = Idle \/ exec' = [exec EXCEPT !.at = "file", !.maps = <<a.base, b.base, c.base>>])
      BY <1>8 DEF exec_map
    <2>2. PICK b \in compat_mmap_region(a) : \E c \in compat_mmap_region(b) : exec.at = "map" /\
              (exec' = Idle \/ exec' = [exec EXCEPT !.at = "file", !.maps = <<a.base, b.base, c.base>>])
      BY <2>1
    <2>3. PICK c \in compat_mmap_region(b) : exec.at = "map" /\
              (exec' = Idle \/ exec' = [exec EXCEPT !.at = "file", !.maps = <<a.base, b.base, c.base>>])
      BY <2>2
    <2> DEFINE t == <<a.base, b.base, c.base>>
    <2>4. \A i \in 1 .. 3 : t[i] \in Pointer
      <3>1. a.base \in Pointer /\ b.base \in Pointer /\ c.base \in Pointer
        BY <2>1, <2>2, <2>3, MmapBase
      <3> QED
        BY <3>1
    <2>5. exec.at = "map" /\ (exec' = Idle \/ exec' = [exec EXCEPT !.at = "file", !.maps = t])
      BY <2>3
    <2> HIDE DEF t
    <2> QED
      BY <2>4, <2>5, IdleOK DEF ExecOK, ExecShape, HoldsAt, NoMaps, Stages
  <1>9. ASSUME NEW stage \in {"alloc", "crash", "thread"}, goto(stage)
        PROVE  ExecOK(exec')
    BY <1>9 DEF goto, ExecOK, ExecShape, HoldsAt, NoMaps, Stages
  <1>10. CASE smoke_file
    BY <1>9, <1>10 DEF smoke_file
  <1>11. CASE smoke_alloc
    <2>1. goto("crash") \/ goto("thread")
      BY <1>11 DEF smoke_alloc
    <2> QED
      BY <1>9, <2>1
  <1>12. CASE smoke_thread
    <2>1. CASE goto("crash")
      BY <1>9, <2>1
    <2>2. CASE \E stage \in {"sleep", "crash"} : exec' = [exec EXCEPT !.at = stage, !.guard = SleepGuard]
      BY <2>2 DEF ExecOK, ExecShape, HoldsAt, NoMaps, Stages
    <2> QED
      BY <1>12, <2>1, <2>2 DEF smoke_thread
  <1>13. CASE sleep_spin \/ sleep_tick
    <2>1. DOMAIN next_stage = {"sleep", "sleep_again"}
      BY DEF next_stage
    <2>2. \/ exec' = [exec EXCEPT !.guard = exec.guard - 1] /\ exec.at \in {"sleep", "sleep_again"}
          \/ \E stage \in {"sleep_again", "finish"} : exec' = [exec EXCEPT !.at = stage, !.guard = SleepGuard]
      <3>1. \A s \in DOMAIN next_stage : next_stage[s] \in {"sleep_again", "finish"}
        BY DEF next_stage
      <3> QED
        BY <1>13, <2>1, <3>1 DEF sleep_spin, sleep_tick, wake
    <2> DEFINE k == exec.guard - 1
    <2>3. CASE exec' = [exec EXCEPT !.guard = k]
      <3> HIDE DEF k
      <3> QED
        BY <2>3 DEF ExecOK, ExecShape, HoldsAt, NoMaps, Stages
    <2>4. CASE \E stage \in {"sleep_again", "finish"} : exec' = [exec EXCEPT !.at = stage, !.guard = SleepGuard]
      BY <2>4 DEF ExecOK, ExecShape, HoldsAt, NoMaps, Stages
    <2> QED
      BY <2>2, <2>3, <2>4
  <1>14. CASE exec_end
    BY <1>14, IdleOK DEF exec_end
  <1> QED
    BY <1>1, <1>2, <1>3, <1>4, <1>5, <1>6, <1>7, <1>8, <1>10, <1>11, <1>12, <1>13, <1>14 DEF Next, ExecStep

-----------------------------------------------------------------------------
(***************************************************************************)
(* The threads and their TLS values.                                       *)
(***************************************************************************)
ThreadsOK ==
    /\ g_threads \in [ThreadSlot -> ThreadType] /\ g_next_tid \in Nat \ {0}
    /\ tls_written \subseteq Nat \X TlsValues

SyncOK == g_sync_objs \in [SyncSlot -> SyncType] /\ g_next_sync_id \in 0 .. MaxSyncId + 1

\* A new thread has no TLS value.
LEMMA StartedIs ==
    ASSUME NEW ts \in [ThreadSlot -> ThreadType], NEW i \in ThreadSlot, NEW tid \in Nat,
           NEW entry \in BOOLEAN
    PROVE  /\ started(ts, i, tid, entry) \in [ThreadSlot -> ThreadType]
           /\ started(ts, i, tid, entry)[i].tls = 0
           /\ \A j \in ThreadSlot : j # i => started(ts, i, tid, entry)[j] = ts[j]
  <1> DEFINE state == IF entry THEN "DONE" ELSE "RUNNING"
             t == [fresh_thread(ts[i], tid) EXCEPT !.state = state]
  <1>1. started(ts, i, tid, entry) = [ts EXCEPT ![i] = t]
    BY DEF started
  <1>2. t \in ThreadType /\ t.tls = 0
    BY DEF ThreadType, fresh_thread
  <1> HIDE DEF t
  <1> QED
    BY <1>1, <1>2

LEMMA SetTlsIs ==
    ASSUME NEW ts \in [ThreadSlot -> ThreadType], NEW tid \in Nat, NEW v \in TlsValues
    PROVE  /\ compat_set_tls(ts, tid, v) \in [ThreadSlot -> ThreadType]
           /\ \A j \in ThreadSlot :
                /\ compat_set_tls(ts, tid, v)[j].used = ts[j].used
                /\ compat_set_tls(ts, tid, v)[j].tid = ts[j].tid
                /\ j \notin find_thread(ts, tid) => compat_set_tls(ts, tid, v)[j] = ts[j]
                /\ j \in find_thread(ts, tid) => ts[j].tid = tid /\ compat_set_tls(ts, tid, v)[j].tls = v
  <1> DEFINE F == find_thread(ts, tid)
             U(j) == [ts[j] EXCEPT !.tls = v]
             all == compat_set_tls(ts, tid, v)
  <1>1. all = [j \in ThreadSlot |-> IF j \in F THEN U(j) ELSE ts[j]]
    BY DEF compat_set_tls
  <1>2. \A j \in F : ts[j].tid = tid
    BY DEF find_thread
  <1> HIDE DEF F
  <1>3. ASSUME NEW j \in ThreadSlot
        PROVE  /\ U(j) \in ThreadType /\ U(j).used = ts[j].used /\ U(j).tid = ts[j].tid
               /\ U(j).tls = v
    BY DEF ThreadType
  <1> HIDE DEF U, all
  <1>4. all \in [ThreadSlot -> ThreadType]
    BY <1>1, <1>3
  <1>5. \A j \in ThreadSlot : /\ all[j].used = ts[j].used
                              /\ all[j].tid = ts[j].tid
                              /\ j \notin F => all[j] = ts[j]
                              /\ j \in F => ts[j].tid = tid /\ all[j].tls = v
    BY <1>1, <1>2, <1>3
  <1> QED
    BY <1>4, <1>5 DEF all, F

-----------------------------------------------------------------------------
(***************************************************************************)
(* Who holds which block.  h, o, s and g are the heap, the blocks and the  *)
(* stacks of programs and the regions; e is the call.                      *)
(***************************************************************************)
Maps(e) == {e.maps[i] : i \in 1 .. 3}
HeldBy(e) == {e.tmp, e.image} \cup Maps(e)
Bases(g) == {g[r] : r \in Region}

Distinct(e) ==
    /\ e.tmp # NULL => e.tmp # e.image /\ e.tmp \notin Maps(e)
    /\ e.image # NULL => e.image \notin Maps(e)
    /\ \A i, j \in 1 .. 3 : e.maps[i] # NULL /\ e.maps[i] = e.maps[j] => i = j

Accounted(h, o, s, g, e) ==
    /\ h = o \cup s \cup (HeldBy(e) \ {NULL})
    /\ o \cap s = {} /\ HeldBy(e) \cap (o \cup s) = {}
    /\ Distinct(e)
    /\ Bases(g) \ {NULL} = s \cup (Maps(e) \ {NULL})

Blocks(h, o, s, g) ==
    /\ h \subseteq Addr /\ o \subseteq Addr /\ s \subseteq Addr
    /\ g \in [Region -> Addr \cup {NULL}]

LEMMA IdleHolds ==
    ASSUME NEW e, ExecOK(e), e.at = "idle"
    PROVE  HeldBy(e) = {NULL} /\ Maps(e) = {NULL} /\ Distinct(e)
  <1>1. e.tmp = NULL /\ e.image = NULL /\ \A i \in 1 .. 3 : e.maps[i] = NULL
    BY DEF ExecOK, HoldsAt, NoMaps
  <1>2. Maps(e) = {NULL}
    BY <1>1 DEF Maps
  <1> QED
    BY <1>1, <1>2 DEF HeldBy, Distinct

\* When no call is in progress, the blocks are those of programs.
LEMMA IdleAccounted ==
    ASSUME NEW h, NEW o, NEW s, NEW g, NEW e, ExecOK(e), e.at = "idle", Blocks(h, o, s, g)
    PROVE  Accounted(h, o, s, g, e) <=> h = o \cup s /\ o \cap s = {} /\ Bases(g) \ {NULL} = s
  <1>1. HeldBy(e) = {NULL} /\ Maps(e) = {NULL} /\ Distinct(e)
    BY IdleHolds
  <1>2. NULL \notin o \cup s
    BY NullIsNoBlock DEF Blocks
  <1> QED
    BY <1>1, <1>2 DEF Accounted

Released(h, g, e, h2, g2) ==
    /\ h2 = h \ HeldBy(e)
    /\ g2 = [r \in Region |-> IF g[r] \in Maps(e) THEN NULL ELSE g[r]]

\* A return gives up what the call holds, and no more.
LEMMA ReturnAccounted ==
    ASSUME NEW h, NEW o, NEW s, NEW g, NEW e, Blocks(h, o, s, g), NEW h2, NEW g2,
           Released(h, g, e, h2, g2)
    PROVE  /\ Blocks(h2, o, s, g2)
           /\ Accounted(h, o, s, g, e) => Accounted(h2, o, s, g2, Idle)
  <1>1. Blocks(h2, o, s, g2)
    BY DEF Blocks, Released
  <1>2. ASSUME Accounted(h, o, s, g, e)
        PROVE  Accounted(h2, o, s, g2, Idle)
    <2>1. h2 = o \cup s
      BY <1>2 DEF Accounted, Released
    <2>2. Bases(g2) \ {NULL} = (Bases(g) \ {NULL}) \ Maps(e)
      <3>1. \A r \in Region : g2[r] = IF g[r] \in Maps(e) THEN NULL ELSE g[r]
        BY DEF Released
      <3> QED
        BY <3>1 DEF Bases
    <2>3. Maps(e) \cap s = {}
      BY <1>2 DEF Accounted, HeldBy
    <2>4. Bases(g2) \ {NULL} = s
      BY <1>2, <2>2, <2>3 DEF Accounted
    <2>5. ExecOK(Idle) /\ Idle.at = "idle"
      BY IdleOK DEF Idle
    <2> QED
      BY <1>1, <1>2, <2>1, <2>4, <2>5, IdleAccounted DEF Accounted
  <1> QED
    BY <1>1, <1>2

LEMMA OpenAccounted ==
    ASSUME NEW h, NEW o, NEW s, NEW g, NEW e, Blocks(h, o, s, g), ExecOK(e), e.at = "idle",
           NEW tmp \in kmalloc(h), NEW f, ExecOK(f), f.tmp = tmp, f.at = "parse"
    PROVE  /\ Blocks(h \cup ({tmp} \ {NULL}), o, s, g)
           /\ Accounted(h, o, s, g, e) => Accounted(h \cup ({tmp} \ {NULL}), o, s, g, f)
  <1>1. tmp = NULL \/ (tmp \in Addr /\ tmp \notin h)
    BY KmallocGives
  <1>2. f.image = NULL /\ \A i \in 1 .. 3 : f.maps[i] = NULL
    BY DEF ExecOK, HoldsAt, NoMaps
  <1>3. Maps(f) = {NULL}
    BY <1>2 DEF Maps
  <1>4. HeldBy(f) = {tmp, NULL} /\ Distinct(f)
    BY <1>2, <1>3 DEF HeldBy, Distinct
  <1>5. NULL \notin o \cup s
    BY NullIsNoBlock DEF Blocks
  <1>6. Blocks(h \cup ({tmp} \ {NULL}), o, s, g)
    BY <1>1 DEF Blocks
  <1> QED
    BY <1>1, <1>3, <1>4, <1>5, <1>6, IdleAccounted DEF Accounted

LEMMA LoadAccounted ==
    ASSUME NEW h, NEW o, NEW s, NEW g, NEW e, Blocks(h, o, s, g), ExecOK(e), e.at = "load",
           NEW image \in kmalloc(h), image # NULL, NEW f, ExecOK(f), f.image = image,
           f.tmp = e.tmp, f.maps = e.maps
    PROVE  /\ Blocks(h \cup {image}, o, s, g)
           /\ Accounted(h, o, s, g, e) => Accounted(h \cup {image}, o, s, g, f)
  <1>1. image \in Addr /\ image \notin h
    BY KmallocGives
  <1>2. e.image = NULL /\ \A i \in 1 .. 3 : e.maps[i] = NULL
    BY DEF ExecOK, HoldsAt, NoMaps
  <1>3. Maps(e) = {NULL} /\ Maps(f) = {NULL}
    BY <1>2 DEF Maps
  <1>4. HeldBy(e) = {e.tmp, NULL} /\ HeldBy(f) = {e.tmp, image, NULL}
    BY <1>2, <1>3 DEF HeldBy
  <1>5. Blocks(h \cup {image}, o, s, g)
    BY <1>1 DEF Blocks
  <1>6. ASSUME Accounted(h, o, s, g, e)
        PROVE  Accounted(h \cup {image}, o, s, g, f)
    <2>1. /\ h = o \cup s \cup (HeldBy(e) \ {NULL}) /\ o \cap s = {} /\ HeldBy(e) \cap (o \cup s) = {}
          /\ Bases(g) \ {NULL} = s \cup (Maps(e) \ {NULL})
      BY <1>6 DEF Accounted
    <2>2. f.tmp # NULL => f.tmp # image
      BY <1>1, <1>4, <2>1
    <2>3. Distinct(f)
      BY <1>2, <1>3, <2>2 DEF Distinct
    <2>4. h \cup {image} = o \cup s \cup (HeldBy(f) \ {NULL}) /\ HeldBy(f) \cap (o \cup s) = {}
      BY <1>1, <1>4, <2>1
    <2> QED
      BY <1>3, <2>1, <2>3, <2>4 DEF Accounted
  <1> QED
    BY <1>5, <1>6

\* A call that moves on and holds what it held.
LEMMA SameHeld ==
    ASSUME NEW h, NEW o, NEW s, NEW g, NEW e, NEW f, f.tmp = e.tmp, f.image = e.image, f.maps = e.maps
    PROVE  Accounted(h, o, s, g, e) => Accounted(h, o, s, g, f)
  BY DEF Accounted, HeldBy, Maps, Distinct

\* The three regions, one after the other.
LEMMA ThreeMaps ==
    ASSUME NEW h, NEW o, NEW s, NEW g, Blocks(h, o, s, g), NEW m, m.heap = h, m.regions = g,
           NEW a, NEW b, NEW c, Mapped(m, a), Mapped(a, b), Mapped(b, c)
    PROVE  /\ c.heap = h \cup ({a.base, b.base, c.base} \ {NULL})
           /\ Blocks(c.heap, o, s, c.regions)
           /\ {a.base, b.base, c.base} \cap h = {}
           /\ a.base # NULL => a.base # b.base /\ a.base # c.base
           /\ b.base # NULL => b.base # c.base
           /\ Bases(c.regions) \ {NULL} = (Bases(g) \cup {a.base, b.base, c.base}) \ {NULL}
  <1>1. NULL \notin h
    BY NullIsNoBlock DEF Blocks
  <1>2. a.heap = h \cup ({a.base} \ {NULL}) /\ b.heap = a.heap \cup ({b.base} \ {NULL})
        /\ c.heap = b.heap \cup ({c.base} \ {NULL})
    BY DEF Mapped
  <1>3. /\ a.base = NULL \/ (a.base \in Addr /\ a.base \notin h)
        /\ b.base = NULL \/ (b.base \in Addr /\ b.base \notin a.heap)
        /\ c.base = NULL \/ (c.base \in Addr /\ c.base \notin b.heap)
    BY DEF Mapped
  <1>4. /\ Bases(a.regions) \ {NULL} = (Bases(g) \cup {a.base}) \ {NULL}
        /\ Bases(b.regions) \ {NULL} = (Bases(a.regions) \cup {b.base}) \ {NULL}
        /\ Bases(c.regions) \ {NULL} = (Bases(b.regions) \cup {c.base}) \ {NULL}
    BY DEF Mapped, Bases
  <1>5. Bases(c.regions) \ {NULL} = (Bases(g) \cup {a.base, b.base, c.base}) \ {NULL}
    BY <1>4
  <1>6. c.heap = h \cup ({a.base, b.base, c.base} \ {NULL})
    BY <1>2
  <1>7. Blocks(c.heap, o, s, c.regions)
    BY <1>3, <1>6 DEF Blocks, Mapped, Pointer
  <1> QED
    BY <1>1, <1>2, <1>3, <1>5, <1>6, <1>7

LEMMA MapAccounted ==
    ASSUME NEW h, NEW o, NEW s, NEW g, NEW e, Blocks(h, o, s, g), ExecOK(e), e.at = "map",
           NEW m, m.heap = h, m.regions = g,
           NEW a, NEW b, NEW c, Mapped(m, a), Mapped(a, b), Mapped(b, c),
           NULL \notin {a.base, b.base, c.base},
           NEW f, f.tmp = e.tmp, f.image = e.image, f.maps = <<a.base, b.base, c.base>>
    PROVE  Accounted(h, o, s, g, e) => Accounted(c.heap, o, s, c.regions, f)
  <1> SUFFICES ASSUME Accounted(h, o, s, g, e)
               PROVE  Accounted(c.heap, o, s, c.regions, f)
    OBVIOUS
  <1> DEFINE x == a.base
             y == b.base
             z == c.base
  <1>1. /\ c.heap = h \cup {x, y, z} /\ {x, y, z} \cap h = {} /\ x # y /\ x # z /\ y # z
        /\ Bases(c.regions) \ {NULL} = (Bases(g) \ {NULL}) \cup {x, y, z}
    BY ThreeMaps
  <1>2. f.maps[1] = x /\ f.maps[2] = y /\ f.maps[3] = z
    OBVIOUS
  <1>3. Maps(f) = {x, y, z}
    BY <1>2 DEF Maps
  <1>4. Maps(e) = {NULL}
    <2>1. \A i \in 1 .. 3 : e.maps[i] = NULL
      BY DEF ExecOK, HoldsAt, NoMaps
    <2> QED
      BY <2>1 DEF Maps
  <1>5. NULL \notin {x, y, z}
    OBVIOUS
  <1> HIDE DEF x, y, z
  <1>6. /\ h = o \cup s \cup (HeldBy(e) \ {NULL}) /\ o \cap s = {} /\ HeldBy(e) \cap (o \cup s) = {}
        /\ Bases(g) \ {NULL} = s /\ Distinct(e)
    BY <1>4 DEF Accounted
  <1>7. HeldBy(e) = {e.tmp, e.image, NULL} /\ HeldBy(f) = {e.tmp, e.image, x, y, z}
    BY <1>3, <1>4 DEF HeldBy
  <1>8. Distinct(f)
    <2>1. f.tmp # NULL => f.tmp # f.image /\ f.tmp \notin {x, y, z}
      BY <1>1, <1>6, <1>7 DEF Distinct
    <2>2. f.image # NULL => f.image \notin {x, y, z}
      BY <1>1, <1>6, <1>7
    <2>3. \A i, j \in 1 .. 3 : f.maps[i] = f.maps[j] => i = j
      BY <1>1, <1>2
    <2> QED
      BY <1>3, <2>1, <2>2, <2>3 DEF Distinct
  <1>9. c.heap = o \cup s \cup (HeldBy(f) \ {NULL}) /\ HeldBy(f) \cap (o \cup s) = {}
    <2>1. e.tmp \in HeldBy(e) /\ e.image \in HeldBy(e)
      BY <1>7
    <2> QED
      BY <1>1, <1>5, <1>6, <1>7, <2>1
  <1> QED
    BY <1>1, <1>3, <1>5, <1>6, <1>8, <1>9 DEF Accounted

Undone(e, a, b, c, h2, g2) ==
    /\ h2 = c.heap \ {e.tmp, e.image, a.base, b.base, c.base}
    /\ g2 = [r \in Region |-> IF c.regions[r] \in {a.base, b.base, c.base} THEN NULL ELSE c.regions[r]]

\* When one of the three is missing, all goes back.
LEMMA MapFails ==
    ASSUME NEW h, NEW o, NEW s, NEW g, NEW e, Blocks(h, o, s, g), ExecOK(e), e.at = "map",
           NEW m, m.heap = h, m.regions = g,
           NEW a, NEW b, NEW c, Mapped(m, a), Mapped(a, b), Mapped(b, c),
           NEW h2, NEW g2, Undone(e, a, b, c, h2, g2)
    PROVE  /\ Blocks(h2, o, s, g2)
           /\ Accounted(h, o, s, g, e) => Accounted(h2, o, s, g2, Idle)
  <1> DEFINE D == {a.base, b.base, c.base}
  <1>1. /\ c.heap = h \cup (D \ {NULL}) /\ D \cap h = {} /\ Blocks(c.heap, o, s, c.regions)
        /\ Bases(c.regions) \ {NULL} = (Bases(g) \cup D) \ {NULL}
    <2>1. /\ c.heap = h \cup ({a.base, b.base, c.base} \ {NULL})
          /\ Blocks(c.heap, o, s, c.regions)
          /\ {a.base, b.base, c.base} \cap h = {}
          /\ Bases(c.regions) \ {NULL} = (Bases(g) \cup {a.base, b.base, c.base}) \ {NULL}
      BY ThreeMaps
    <2> QED
      BY <2>1
  <1>2. h2 = c.heap \ ({e.tmp, e.image} \cup D)
    BY DEF Undone
  <1> HIDE DEF D
  <1>3. Blocks(h2, o, s, g2)
    BY <1>1, <1>2 DEF Blocks, Undone
  <1>4. ASSUME Accounted(h, o, s, g, e)
        PROVE  Accounted(h2, o, s, g2, Idle)
    <2>1. Maps(e) = {NULL}
      <3>1. \A i \in 1 .. 3 : e.maps[i] = NULL
        BY DEF ExecOK, HoldsAt, NoMaps
      <3> QED
        BY <3>1 DEF Maps
    <2>2. /\ h = o \cup s \cup (HeldBy(e) \ {NULL}) /\ o \cap s = {} /\ HeldBy(e) \cap (o \cup s) = {}
          /\ Bases(g) \ {NULL} = s
      BY <1>4, <2>1 DEF Accounted
    <2>3. HeldBy(e) = {e.tmp, e.image, NULL}
      BY <2>1 DEF HeldBy
    <2>4. h2 = o \cup s
      BY <1>1, <1>2, <2>2, <2>3
    <2>5. \A r \in Region : g2[r] = IF c.regions[r] \in D THEN NULL ELSE c.regions[r]
      BY DEF D, Undone
    <2>6. Bases(g2) \ {NULL} = (Bases(c.regions) \ {NULL}) \ D
      BY <2>5 DEF Bases
    <2>7. Bases(g2) \ {NULL} = s
      BY <1>1, <2>2, <2>6
    <2>8. ExecOK(Idle) /\ Idle.at = "idle"
      BY IdleOK DEF Idle
    <2> QED
      BY <1>3, <2>2, <2>4, <2>7, <2>8, IdleAccounted
  <1> QED
    BY <1>3, <1>4

\* Functions for an exit that run for the first time free blocks of programs.
LEMMA EndAccounted ==
    ASSUME NEW h, NEW o, NEW s, NEW g, Blocks(h, o, s, g), NEW F, F \subseteq o
    PROVE  /\ Blocks(h \ F, o \ F, s, g)
           /\ Accounted(h, o, s, g, Idle) => Accounted(h \ F, o \ F, s, g, Idle)
  <1>1. Blocks(h \ F, o \ F, s, g)
    BY DEF Blocks
  <1>2. ExecOK(Idle) /\ Idle.at = "idle"
    BY IdleOK DEF Idle
  <1> QED
    BY <1>1, <1>2, IdleAccounted

\* What programs do with memory, between calls.
LEMMA ProgramAccounted ==
    ASSUME Blocks(heap, owned, stacks, g_regions), ExecOK(exec), exec.at = "idle",
           ProgramCall
    PROVE  /\ Blocks(heap', owned', stacks', g_regions')
           /\ Accounted(heap, owned, stacks, g_regions, exec)
                => Accounted(heap', owned', stacks', g_regions', exec)
  <1> DEFINE Good(h, o, s, g) == h = o \cup s /\ o \cap s = {} /\ Bases(g) \ {NULL} = s
  <1> SUFFICES /\ Blocks(heap', owned', stacks', g_regions')
               /\ Good(heap, owned, stacks, g_regions) => Good(heap', owned', stacks', g_regions')
    BY IdleAccounted
  <1>0. g_regions \in [Region -> Pointer] /\ NULL \notin heap \cup owned \cup stacks
    BY NullIsNoBlock DEF Blocks, Pointer
  <1>1. CASE compat_stack_allocate
    <2>1. PICK m \in compat_mmap_region(here) :
            /\ m.base # NULL /\ heap' = m.heap /\ g_regions' = m.regions
            /\ stacks' = stacks \cup {m.base} /\ owned' = owned
      BY <1>1 DEF compat_stack_allocate
    <2>2. here.regions = g_regions /\ here.heap = heap
      BY DEF here
    <2>3. Mapped(here, m)
      BY <1>0, <2>1, <2>2, MmapIs
    <2>4. /\ m.base \in Addr /\ m.base \notin heap /\ heap' = heap \cup {m.base}
          /\ g_regions' \in [Region -> Pointer]
          /\ Bases(g_regions') \ {NULL} = (Bases(g_regions) \ {NULL}) \cup {m.base}
      BY <2>1, <2>2, <2>3 DEF Mapped, Bases
    <2> QED
      BY <2>1, <2>4 DEF Blocks, Pointer
  <1>2. CASE compat_stack_free
    <2>1. PICK a \in stacks :
            /\ heap' = heap \ {a} /\ stacks' = stacks \ {a} /\ owned' = owned
            /\ g_regions' = [r \in Region |-> IF g_regions[r] = a THEN NULL ELSE g_regions[r]]
      BY <1>2 DEF compat_stack_free, compat_munmap_region, here, kfree
    <2>2. \A r \in Region : g_regions'[r] = IF g_regions[r] = a THEN NULL ELSE g_regions[r]
      BY <2>1
    <2>3. Bases(g_regions') \ {NULL} = (Bases(g_regions) \ {NULL}) \ {a}
      BY <2>2 DEF Bases
    <2>4. g_regions' \in [Region -> Pointer]
      BY <1>0, <2>1 DEF Pointer
    <2> QED
      BY <2>1, <2>3, <2>4 DEF Blocks, Pointer
  <1>3. CASE w32_VirtualAlloc
    <2>1. PICK a \in kmalloc(heap) \ {NULL} : /\ heap' = heap \cup {a} /\ owned' = owned \cup {a}
                                              /\ UNCHANGED <<stacks, g_regions>>
      BY <1>3 DEF w32_VirtualAlloc
    <2>2. a \in Addr /\ a \notin heap
      BY <2>1, KmallocGives
    <2> QED
      BY <2>1, <2>2 DEF Blocks
  <1>4. CASE w32_VirtualFree
    <2>1. PICK a \in owned : /\ heap' = heap \ {a} /\ owned' = owned \ {a}
                             /\ UNCHANGED <<stacks, g_regions>>
      BY <1>4 DEF w32_VirtualFree, kfree
    <2> QED
      BY <2>1 DEF Blocks
  <1>5. CASE UNCHANGED memory
    BY <1>5 DEF memory
  <1> QED
    BY <1>1, <1>2, <1>3, <1>4, <1>5 DEF ProgramCall, w32_CreateThread, compat_thread_cleanup, tls_set,
       compat_sync_create, compat_sync_signal, compat_sync_reset, SetSignaled, compat_wait_for_object,
       w32_CreateFileA, w32_CloseHandle

\* Promises to free are about blocks of programs, and are few enough to count.
AtexitOK ==
    /\ g_atexit_funcs \in Seq(Addr) /\ atexit_ran \in 0 .. Len(g_atexit_funcs) /\ rerun \in BOOLEAN

BlocksNow == Blocks(heap, owned, stacks, g_regions)
AccountedNow == Accounted(heap, owned, stacks, g_regions, exec) /\ Promised \subseteq owned

LEMMA AtexitStep ==
    ASSUME AtexitOK, owned \subseteq Addr, [Next]_compat_vars
    PROVE  /\ AtexitOK' /\ (rerun => rerun')
           /\ UNCHANGED exit_vars \/ exec_end
              \/ (exec.at = "idle" /\ \E block \in owned : compat_atexit(block))
  <1>1. CASE UNCHANGED exit_vars
    BY <1>1 DEF exit_vars, AtexitOK
  <1>2. ASSUME NEW block \in owned, compat_atexit(block), exec.at = "idle"
        PROVE  AtexitOK' /\ rerun' = rerun
    <2> DEFINE n == Len(g_atexit_funcs)
    <2>1. /\ g_atexit_funcs' = Append(g_atexit_funcs, block) /\ atexit_ran' = atexit_ran /\ rerun' = rerun
      BY <1>2 DEF compat_atexit
    <2>2. g_atexit_funcs \in Seq(Addr) /\ block \in Addr /\ atexit_ran \in 0 .. n
      BY DEF AtexitOK
    <2>3. g_atexit_funcs' \in Seq(Addr) /\ Len(g_atexit_funcs') = n + 1 /\ n \in Nat
      BY <2>1, <2>2, AppendProperties, LenProperties
    <2> HIDE DEF n
    <2>4. atexit_ran \in 0 .. n + 1
      BY <2>2, <2>3
    <2> QED
      BY <2>1, <2>3, <2>4 DEF AtexitOK
  <1>3. CASE exec_end
    <2>1. atexit_ran' = Len(g_atexit_funcs) /\ rerun' = (rerun \/ atexit_ran > 0) /\ g_atexit_funcs' = g_atexit_funcs
      BY <1>3 DEF exec_end, compat_cleanup_on_crash
    <2>2. Len(g_atexit_funcs) \in Nat /\ g_atexit_funcs \in Seq(Addr)
      BY LenProperties DEF AtexitOK
    <2> QED
      BY <1>3, <2>1, <2>2 DEF AtexitOK
  <1>4. \/ UNCHANGED exit_vars \/ exec_end
        \/ exec.at = "idle" /\ \E block \in owned : compat_atexit(block)
    BY DEF Next, ExecStep, Program, compat_vars, tables_kept, exec_open, exec_parse, exec_load, exec_bind,
       exec_process, exec_map, smoke_file, smoke_alloc, smoke_thread, sleep_spin, sleep_tick,
       compat_process_exit, compat_process_add_thread, module_registry_register, module_registry_add_export
  <1>5. AtexitOK' /\ (rerun => rerun')
    <2>1. CASE UNCHANGED exit_vars
      BY <1>1, <2>1 DEF exit_vars
    <2>2. CASE exec_end
      BY <1>3, <2>2 DEF exec_end, compat_cleanup_on_crash
    <2>3. CASE exec.at = "idle" /\ \E block \in owned : compat_atexit(block)
      BY <1>2, <2>3
    <2> QED
      BY <1>4, <2>1, <2>2, <2>3
  <1> QED
    BY <1>4, <1>5

LEMMA PromisedStep ==
    ASSUME AtexitOK, BlocksNow, Promised \subseteq owned, [Next]_compat_vars
    PROVE  Promised' \subseteq owned'
  <1>1. CASE UNCHANGED exit_vars /\ ~exec_end
    <2>1. Promised' = Promised
      BY <1>1 DEF Promised, exit_vars
    <2>2. owned' = owned \/ Promised \subseteq owned'
      BY <1>1 DEF Next, ExecStep, Program, compat_vars, win32_vars, tables_kept, exec_open, exec_parse,
         exec_load, exec_bind, exec_process, exec_map, smoke_file, smoke_alloc, smoke_thread,
         sleep_spin, sleep_tick, compat_atexit, compat_process_exit, compat_process_add_thread, module_registry_register,
         module_registry_add_export
    <2> QED
      BY <2>1, <2>2
  <1>2. CASE exec_end
    <2>1. atexit_ran' = Len(g_atexit_funcs) /\ g_atexit_funcs' = g_atexit_funcs
      BY <1>2 DEF exec_end, compat_cleanup_on_crash
    <2>2. Len(g_atexit_funcs) \in Nat
      BY LenProperties DEF AtexitOK
    <2>3. Len(g_atexit_funcs) + 1 .. Len(g_atexit_funcs) = {}
      BY <2>2
    <2>4. Promised' = {}
      BY <2>1, <2>3 DEF Promised
    <2> QED
      BY <2>4
  <1>3. ASSUME NEW block \in owned, compat_atexit(block)
        PROVE  Promised' \subseteq owned'
    <2> DEFINE n == Len(g_atexit_funcs)
               q == Append(g_atexit_funcs, block)
    <2>1. /\ g_atexit_funcs' = q /\ atexit_ran' = atexit_ran /\ owned' = owned
      BY <1>3 DEF compat_atexit, win32_vars
    <2>2. g_atexit_funcs \in Seq(Addr) /\ block \in Addr /\ atexit_ran \in 0 .. n
      BY DEF AtexitOK, BlocksNow, Blocks
    <2>3. /\ Len(q) = n + 1 /\ n \in Nat /\ q[n + 1] = block
          /\ \A i \in 1 .. n : q[i] = g_atexit_funcs[i]
      BY <2>2, AppendProperties, LenProperties
    <2> HIDE DEF n, q
    <2>4. ASSUME NEW i \in atexit_ran + 1 .. n + 1
          PROVE  q[i] \in owned
      <3>1. i = n + 1 \/ (i \in 1 .. n /\ i \in atexit_ran + 1 .. n)
        BY <2>2, <2>3
      <3>2. \A j \in atexit_ran + 1 .. n : g_atexit_funcs[j] \in owned
        BY DEF Promised, n
      <3> QED
        BY <2>3, <3>1, <3>2
    <2> QED
      BY <2>1, <2>3, <2>4 DEF Promised
  <1> QED
    BY <1>1, <1>2, <1>3, AtexitStep DEF BlocksNow, Blocks

LEMMA MemoryStep ==
    ASSUME BlocksNow, ExecOK(exec), AtexitOK, [Next]_compat_vars, rerun \/ AccountedNow
    PROVE  BlocksNow' /\ (rerun' \/ AccountedNow')
  <1> DEFINE Acc == Accounted(heap, owned, stacks, g_regions, exec)
  <1>0. ExecOK(exec')
    BY StageStep
  <1> SUFFICES /\ Blocks(heap', owned', stacks', g_regions')
               /\ rerun' \/ rerun \/ (Acc => Accounted(heap', owned', stacks', g_regions', exec'))
    <2>1. rerun => rerun'
      BY AtexitStep DEF BlocksNow, Blocks
    <2>2. AccountedNow => Promised' \subseteq owned'
      BY PromisedStep DEF AccountedNow
    <2> QED
      BY <2>1, <2>2 DEF AccountedNow, BlocksNow
  \* Blocks and what the call holds stay as they are.
  <1>1. ASSUME UNCHANGED memory, exec'.tmp = exec.tmp, exec'.image = exec.image, exec'.maps = exec.maps
        PROVE  /\ Blocks(heap', owned', stacks', g_regions')
               /\ Acc => Accounted(heap', owned', stacks', g_regions', exec')
    BY <1>1, SameHeld DEF memory, BlocksNow
  <1>2. ASSUME exec_return, UNCHANGED <<owned, stacks>>
        PROVE  /\ Blocks(heap', owned', stacks', g_regions')
               /\ Acc => Accounted(heap', owned', stacks', g_regions', exec')
    <2>1. Released(heap, g_regions, exec, heap', g_regions') /\ exec' = Idle
      BY <1>2 DEF exec_return, Release, unmapped, Released, HeldBy, Maps
    <2>2. /\ Blocks(heap', owned, stacks, g_regions')
          /\ Acc => Accounted(heap', owned, stacks, g_regions', Idle)
      BY <2>1, ReturnAccounted DEF BlocksNow
    <2> QED
      BY <1>2, <2>1, <2>2
  <1>3. CASE UNCHANGED compat_vars
    BY <1>1, <1>3 DEF compat_vars, win32_vars, memory
  <1>4. CASE Program
    <2>1. exec' = exec
      BY <1>4, ProgramKeeps
    <2>2. CASE ProgramCall
      BY <1>4, <2>1, <2>2, ProgramAccounted DEF Program, BlocksNow
    <2>3. CASE UNCHANGED win32_vars
      BY <1>1, <2>1, <2>3 DEF win32_vars, memory
    <2> QED
      BY <1>4, <2>2, <2>3 DEF Program, compat_process_exit, compat_process_add_thread, compat_atexit,
         module_registry_register, module_registry_add_export
  <1>5. ASSUME NEW path, exec_open(path)
        PROVE  /\ Blocks(heap', owned', stacks', g_regions')
               /\ Acc => Accounted(heap', owned', stacks', g_regions', exec')
    <2>1. PICK tmp \in kmalloc(heap) : /\ \E data : exec' = [Idle EXCEPT !.at = "parse", !.file = data, !.tmp = tmp]
                                       /\ heap' = heap \cup ({tmp} \ {NULL})
      BY <1>5 DEF exec_open
    <2>2. exec'.tmp = tmp /\ exec'.at = "parse" /\ exec.at = "idle" /\ UNCHANGED <<owned, stacks, g_regions>>
      BY <1>5, <2>1 DEF exec_open, Idle
    <2> QED
      BY <1>0, <2>1, <2>2, OpenAccounted DEF BlocksNow
  <1>6. CASE exec_parse
    <2>1. CASE exec_return
      BY <1>2, <1>6, <2>1 DEF exec_parse, tables_kept
    <2>2. CASE goto("load") /\ UNCHANGED <<heap, g_regions>>
      <3>1. exec'.tmp = exec.tmp /\ exec'.image = exec.image /\ exec'.maps = exec.maps
        BY <2>2 DEF goto, ExecOK, ExecShape
      <3> QED
        BY <1>1, <1>6, <2>2, <3>1 DEF exec_parse, tables_kept, memory
    <2> QED
      BY <1>6, <2>1, <2>2 DEF exec_parse
  <1>7. CASE exec_load
    <2> DEFINE data == pe_load_image(exec.file)
    <2>1. CASE exec_return
      BY <1>2, <1>7, <2>1 DEF exec_load, tables_kept
    <2>2. ASSUME NEW image \in kmalloc(heap), image # NULL,
                 exec' = [exec EXCEPT !.at = "bind", !.image = image, !.contents = data],
                 heap' = heap \cup {image}, UNCHANGED g_regions
          PROVE  /\ Blocks(heap', owned', stacks', g_regions')
                 /\ Acc => Accounted(heap', owned', stacks', g_regions', exec')
      <3> HIDE DEF data
      <3>1. exec'.tmp = exec.tmp /\ exec'.image = image /\ exec'.maps = exec.maps
        BY <2>2 DEF ExecOK, ExecShape
      <3>2. exec.at = "load" /\ UNCHANGED <<owned, stacks>>
        BY <1>7 DEF exec_load, tables_kept
      <3> QED
        BY <1>0, <2>2, <3>1, <3>2, LoadAccounted DEF BlocksNow
    <2> QED
      BY <1>7, <2>1, <2>2 DEF exec_load
  <1>8. CASE exec_bind
    <2> DEFINE a == pe_apply_relocations(exec.file) = "applied"
               b == import_resolver_resolve(import_resolver_parse(exec.file), g_modules)
    <2>1. exec' = [exec EXCEPT !.at = "process", !.relocs_applied = a, !.bound = b]
      BY <1>8 DEF exec_bind
    <2> HIDE DEF a, b
    <2>2. exec'.tmp = exec.tmp /\ exec'.image = exec.image /\ exec'.maps = exec.maps
      BY <2>1 DEF ExecOK, ExecShape
    <2> QED
      BY <1>1, <1>8, <2>2 DEF exec_bind, tables_kept, memory
  <1>9. CASE exec_process
    <2>1. exec' = [exec EXCEPT !.at = "map", !.file = NoFile, !.contents = <<>>,
                               !.bound = <<>>, !.relocs_applied = FALSE]
      BY <1>9 DEF exec_process
    <2>2. exec'.tmp = exec.tmp /\ exec'.image = exec.image /\ exec'.maps = exec.maps
      BY <2>1 DEF ExecOK, ExecShape
    <2> QED
      BY <1>1, <1>9, <2>2 DEF exec_process, tables_kept, memory
  <1>10. CASE exec_map
    <2> DEFINE Outcome(a, b, c) ==
                 IF NULL \notin {a.base, b.base, c.base}
                 THEN /\ exec' = [exec EXCEPT !.at = "file", !.maps = <<a.base, b.base, c.base>>]
                      /\ heap' = c.heap /\ g_regions' = c.regions
                 ELSE exec' = Idle /\ Undone(exec, a, b, c, heap', g_regions')
    <2>0. \E a \in compat_mmap_region(here) : \E b \in compat_mmap_region(a) :
            \E c \in compat_mmap_region(b) : Outcome(a, b, c)
      BY <1>10 DEF exec_map, Undone
    <2> HIDE DEF Outcome
    <2>a. PICK a \in compat_mmap_region(here) : \E b \in compat_mmap_region(a) :
            \E c \in compat_mmap_region(b) : Outcome(a, b, c)
      BY <2>0
    <2>b. PICK b \in compat_mmap_region(a) : \E c \in compat_mmap_region(b) : Outcome(a, b, c)
      BY <2>a
    <2>c. PICK c \in compat_mmap_region(b) : Outcome(a, b, c)
      BY <2>b
    <2>1. /\ a \in compat_mmap_region(here) /\ b \in compat_mmap_region(a) /\ c \in compat_mmap_region(b)
          /\ IF NULL \notin {a.base, b.base, c.base}
             THEN /\ exec' = [exec EXCEPT !.at = "file", !.maps = <<a.base, b.base, c.base>>]
                  /\ heap' = c.heap /\ g_regions' = c.regions
             ELSE exec' = Idle /\ Undone(exec, a, b, c, heap', g_regions')
      BY <2>a, <2>b, <2>c DEF Outcome
    <2>2. here.heap = heap /\ here.regions = g_regions /\ exec.at = "map" /\ UNCHANGED <<owned, stacks>>
      BY <1>10 DEF here, exec_map, tables_kept
    <2>3. Mapped(here, a) /\ Mapped(a, b) /\ Mapped(b, c)
      <3>1. here.regions \in [Region -> Pointer]
        BY <2>2 DEF BlocksNow, Blocks, Pointer
      <3>2. Mapped(here, a)
        BY <2>1, <3>1, MmapIs
      <3>3. Mapped(a, b)
        BY <2>1, <3>2, MmapIs DEF Mapped
      <3> QED
        BY <2>1, <3>2, <3>3, MmapIs DEF Mapped
    <2> DEFINE t == <<a.base, b.base, c.base>>
    <2>4. CASE NULL \notin {a.base, b.base, c.base}
      <3>1. exec' = [exec EXCEPT !.at = "file", !.maps = t] /\ heap' = c.heap /\ g_regions' = c.regions
        BY <2>1, <2>4
      <3> HIDE DEF t
      <3>2. exec'.tmp = exec.tmp /\ exec'.image = exec.image /\ exec'.maps = t
        BY <3>1 DEF ExecOK, ExecShape
      <3>3. Blocks(c.heap, owned, stacks, c.regions)
        BY <2>2, <2>3, ThreeMaps DEF BlocksNow
      <3>4. exec'.maps = <<a.base, b.base, c.base>>
        BY <3>2 DEF t
      <3>5. Acc => Accounted(c.heap, owned, stacks, c.regions, exec')
        BY <2>2, <2>3, <2>4, <3>2, <3>4, MapAccounted DEF BlocksNow
      <3> QED
        BY <2>2, <3>1, <3>3, <3>5
    <2>5. CASE NULL \in {a.base, b.base, c.base}
      <3>1. exec' = Idle /\ Undone(exec, a, b, c, heap', g_regions')
        BY <2>1, <2>5
      <3>2. /\ Blocks(heap', owned, stacks, g_regions')
            /\ Acc => Accounted(heap', owned, stacks, g_regions', Idle)
        BY <2>2, <2>3, <3>1, MapFails DEF BlocksNow
      <3> QED
        BY <2>2, <3>1, <3>2
    <2> QED
      BY <2>4, <2>5
  <1>11. ASSUME NEW stage, goto(stage)
         PROVE  exec'.tmp = exec.tmp /\ exec'.image = exec.image /\ exec'.maps = exec.maps
    BY <1>11 DEF goto, ExecOK, ExecShape
  <1>12. CASE smoke_file \/ smoke_alloc
    BY <1>1, <1>11, <1>12 DEF smoke_file, smoke_alloc, tables_kept, memory
  <1>13. CASE smoke_thread
    <2>1. (\E stage : goto(stage)) \/ (\E stage : exec' = [exec EXCEPT !.at = stage, !.guard = SleepGuard])
      BY <1>13 DEF smoke_thread
    <2>2. exec'.tmp = exec.tmp /\ exec'.image = exec.image /\ exec'.maps = exec.maps
      BY <1>11, <2>1 DEF ExecOK, ExecShape
    <2> QED
      BY <1>1, <1>13, <2>2 DEF smoke_thread, memory
  <1>14. CASE sleep_spin \/ sleep_tick
    <2>1. \/ \E k : exec' = [exec EXCEPT !.guard = k]
          \/ \E stage : exec' = [exec EXCEPT !.at = stage, !.guard = SleepGuard]
      BY <1>14 DEF sleep_spin, sleep_tick, wake
    <2>2. exec'.tmp = exec.tmp /\ exec'.image = exec.image /\ exec'.maps = exec.maps
      BY <2>1 DEF ExecOK, ExecShape
    <2> QED
      BY <1>1, <1>14, <2>2 DEF sleep_spin, sleep_tick, tables_kept, memory
  <1>15. CASE exec_end
    <2> DEFINE h == heap \ HeldBy(exec)
               F == {g_atexit_funcs[i] : i \in DOMAIN g_atexit_funcs}
    <2>1. /\ Released(heap, g_regions, exec, h, g_regions') /\ exec' = Idle /\ heap' = h \ F
          /\ owned' = owned \ Promised /\ stacks' = stacks /\ rerun' = (rerun \/ atexit_ran > 0)
      BY <1>15 DEF exec_end, compat_cleanup_on_crash, Promised, Released, Release, unmapped, HeldBy, Maps
    <2>2. /\ Blocks(h, owned, stacks, g_regions')
          /\ Acc => Accounted(h, owned, stacks, g_regions', Idle)
      BY <2>1, ReturnAccounted DEF BlocksNow
    <2>3. Blocks(heap', owned', stacks', g_regions')
      BY <2>1, <2>2 DEF Blocks
    <2>4. ASSUME ~rerun, ~rerun'
          PROVE  Acc => Accounted(heap', owned', stacks', g_regions', exec')
      <3>1. atexit_ran = 0
        <4>1. ~(atexit_ran > 0)
          BY <2>1, <2>4, Zenon
        <4>2. atexit_ran \in Nat
          BY LenProperties DEF AtexitOK
        <4> QED
          BY <4>1, <4>2
      <3>2. Promised = F
        <4>1. DOMAIN g_atexit_funcs = 1 .. Len(g_atexit_funcs)
          BY LenProperties DEF AtexitOK
        <4> QED
          BY <3>1, <4>1 DEF Promised
      <3>3. F \subseteq owned
        BY <2>4, <3>2 DEF AccountedNow
      <3>4. Accounted(h, owned, stacks, g_regions', Idle)
                => Accounted(h \ F, owned \ F, stacks, g_regions', Idle)
        <4> HIDE DEF h, F
        <4> QED
          BY <2>2, <3>3, EndAccounted
      <3> QED
        BY <2>1, <2>2, <3>2, <3>4
    <2> QED
      BY <2>3, <2>4
  <1> QED
    BY <1>3, <1>4, <1>5, <1>6, <1>7, <1>8, <1>9, <1>10, <1>12, <1>13, <1>14, <1>15 DEF Next, ExecStep

-----------------------------------------------------------------------------
(***************************************************************************)
(* Threads.                                                                *)
(***************************************************************************)
Own(ts, w) == \A i \in ThreadSlot : ts[i].used /\ ts[i].tls # 0 => <<ts[i].tid, ts[i].tls>> \in w

LEMMA StartOwn ==
    ASSUME NEW ts \in [ThreadSlot -> ThreadType], NEW w, Own(ts, w), NEW i \in ThreadSlot,
           NEW tid \in Nat, NEW entry \in BOOLEAN
    PROVE  Own(started(ts, i, tid, entry), w)
  <1> DEFINE new == started(ts, i, tid, entry)
  <1>1. new[i].tls = 0 /\ \A j \in ThreadSlot : j # i => new[j] = ts[j]
    BY StartedIs
  <1> HIDE DEF new
  <1>2. Own(new, w)
    BY <1>1 DEF Own
  <1> QED
    BY <1>2 DEF new

LEMMA SetOwn ==
    ASSUME NEW ts \in [ThreadSlot -> ThreadType], NEW w, Own(ts, w), NEW tid \in Nat, NEW v \in TlsValues,
           NEW w2, w \subseteq w2, find_thread(ts, tid) # {} => <<tid, v>> \in w2
    PROVE  Own(compat_set_tls(ts, tid, v), w2)
  <1> DEFINE new == compat_set_tls(ts, tid, v)
             F == find_thread(ts, tid)
  <1>1. \A j \in ThreadSlot : /\ new[j].used = ts[j].used
                              /\ new[j].tid = ts[j].tid
                              /\ j \notin F => new[j] = ts[j]
                              /\ j \in F => ts[j].tid = tid /\ new[j].tls = v
    BY SetTlsIs
  <1>2. F # {} => <<tid, v>> \in w2
    OBVIOUS
  <1> HIDE DEF new, F
  <1>3. ASSUME NEW j \in ThreadSlot, new[j].used, new[j].tls # 0
        PROVE  <<new[j].tid, new[j].tls>> \in w2
    <2>1. CASE j \in F
      BY <1>1, <1>2, <2>1
    <2>2. CASE j \notin F
      <3>1. new[j] = ts[j] /\ ts[j].used /\ ts[j].tls # 0
        BY <1>1, <1>3, <2>2
      <3> QED
        BY <3>1 DEF Own
    <2> QED
      BY <2>1, <2>2
  <1>4. Own(new, w2)
    BY <1>3 DEF Own
  <1> QED
    BY <1>4 DEF new

ThreadsNow == ThreadsOK /\ Own(g_threads, tls_written)

LEMMA ThreadStep ==
    ASSUME ThreadsNow, [Next]_compat_vars
    PROVE  ThreadsNow'
  <1> USE DEF ThreadsNow
  <1>0. g_threads \in [ThreadSlot -> ThreadType] /\ g_next_tid \in Nat /\ g_next_tid + 1 \in Nat \ {0}
    BY DEF ThreadsOK
  <1>1. CASE UNCHANGED thread_vars
    BY <1>1 DEF thread_vars, ThreadsOK
  <1>2. ASSUME NEW entry \in BOOLEAN, w32_CreateThread(entry)
        PROVE  ThreadsNow'
    <2>1. PICK i \in free_thread(g_threads) : /\ g_threads' = started(g_threads, i, g_next_tid, entry)
                                              /\ g_next_tid' = g_next_tid + 1 /\ tls_written' = tls_written
      BY <1>2 DEF w32_CreateThread
    <2>2. i \in ThreadSlot
      BY DEF free_thread
    <2>3. g_threads' \in [ThreadSlot -> ThreadType] /\ Own(g_threads', tls_written)
      BY <1>0, <2>1, <2>2, StartedIs, StartOwn
    <2> QED
      BY <1>0, <2>1, <2>3 DEF ThreadsOK
  <1>3. ASSUME NEW tid \in Nat, NEW v \in TlsValues, tls_set(tid, v)
        PROVE  ThreadsNow'
    <2>1. /\ g_threads' = compat_set_tls(g_threads, tid, v)
          /\ tls_written' = tls_written \cup {<<tid, v>>} /\ g_next_tid' = g_next_tid
      BY <1>3 DEF tls_set
    <2>2. g_threads' \in [ThreadSlot -> ThreadType]
      BY <1>0, <2>1, SetTlsIs
    <2>3. tls_written \subseteq tls_written' /\ <<tid, v>> \in tls_written'
      BY <2>1
    <2>4. Own(g_threads', tls_written')
      BY <1>0, <2>1, <2>3, SetOwn
    <2> QED
      BY <2>1, <2>2, <2>4 DEF ThreadsOK
  <1>4. ASSUME NEW tid, compat_thread_cleanup(tid)
        PROVE  ThreadsNow'
    <2>1. PICK i \in find_thread(g_threads, tid) :
            /\ g_threads' = [g_threads EXCEPT ![i].used = FALSE, ![i].state = "IDLE"]
            /\ UNCHANGED <<g_next_tid, tls_written>>
      BY <1>4 DEF compat_thread_cleanup
    <2>2. i \in ThreadSlot
      BY DEF find_thread
    <2>3. /\ g_threads'[i] \in ThreadType /\ g_threads'[i].used = FALSE
          /\ \A j \in ThreadSlot : j # i => g_threads'[j] = g_threads[j]
      BY <1>0, <2>1, <2>2 DEF ThreadType
    <2>4. g_threads' \in [ThreadSlot -> ThreadType]
      BY <1>0, <2>1, <2>2 DEF ThreadType
    <2>5. Own(g_threads', tls_written)
      BY <2>3 DEF Own
    <2> QED
      BY <2>1, <2>4, <2>5 DEF ThreadsOK
  <1>5. CASE smoke_thread
    <2> DEFINE mid(i) == started(g_threads, i, g_next_tid, TRUE)
    <2>1. CASE UNCHANGED thread_vars
      BY <1>1, <2>1
    <2>2. ASSUME NEW i \in free_thread(g_threads), NEW v \in TlsValues,
                 g_threads' = compat_set_tls(mid(i), 1, v),
                 tls_written' = tls_written \cup (IF find_thread(mid(i), 1) = {} THEN {} ELSE {<<1, v>>}),
                 g_next_tid' = g_next_tid + 1
          PROVE  ThreadsNow'
      <3>1. i \in ThreadSlot /\ TRUE \in BOOLEAN /\ 1 \in Nat
        BY DEF free_thread
      <3>2. mid(i) \in [ThreadSlot -> ThreadType] /\ Own(mid(i), tls_written)
        BY <1>0, <3>1, StartedIs, StartOwn
      <3> HIDE DEF mid
      <3>3. tls_written \subseteq tls_written' /\ (find_thread(mid(i), 1) # {} => <<1, v>> \in tls_written')
        BY <2>2
      <3>4. g_threads' \in [ThreadSlot -> ThreadType] /\ Own(g_threads', tls_written')
        BY <2>2, <3>1, <3>2, <3>3, SetTlsIs, SetOwn
      <3>5. tls_written' \subseteq Nat \X TlsValues
        BY <2>2 DEF ThreadsOK
      <3> QED
        BY <1>0, <2>2, <3>4, <3>5 DEF ThreadsOK
    <2> QED
      BY <1>5, <2>1, <2>2 DEF smoke_thread
  <1>6. CASE ProgramCall
    <2>1. \A i \in ThreadSlot : g_threads[i].tid \in Nat
      BY <1>0 DEF ThreadType
    <2> QED
      BY <1>1, <1>2, <1>3, <1>4, <1>6, <2>1 DEF ProgramCall, thread_vars, compat_stack_allocate, compat_stack_free,
         w32_VirtualAlloc, w32_VirtualFree, compat_sync_create, compat_sync_signal, compat_sync_reset,
         SetSignaled, compat_wait_for_object, w32_CreateFileA, w32_CloseHandle
  <1> QED
    BY <1>1, <1>5, <1>6 DEF Next, ExecStep, Program, compat_vars, win32_vars, thread_vars, tables_kept, exec_open,
       exec_parse, exec_load, exec_bind, exec_process, exec_map, smoke_file, smoke_alloc, sleep_spin,
       sleep_tick, exec_end, compat_atexit, compat_process_exit, compat_process_add_thread,
       module_registry_register, module_registry_add_export

LEMMA SyncStep ==
    ASSUME SyncOK, fds \subseteq Fd, [Next]_compat_vars
    PROVE  SyncOK' /\ fds' \subseteq Fd
  <1>1. SyncOK'
    <2>0. MaxSyncId \in Nat
      BY Win32Assumption
    <2>1. CASE UNCHANGED sync_vars
      BY <2>1 DEF sync_vars, SyncOK
    <2>2. ASSUME NEW s \in BOOLEAN, NEW m \in BOOLEAN, compat_sync_create(s, m)
          PROVE  SyncOK'
      <3>1. PICK i \in SyncSlot :
              /\ g_next_sync_id <= MaxSyncId /\ g_next_sync_id' = g_next_sync_id + 1
              /\ g_sync_objs' = [g_sync_objs EXCEPT ![i] =
                    [used |-> TRUE, id |-> g_next_sync_id, signaled |-> s, manual_reset |-> m]]
        BY <2>2 DEF compat_sync_create
      <3>2. g_next_sync_id \in 0 .. MaxSyncId /\ g_next_sync_id' \in 0 .. MaxSyncId + 1
        BY <2>0, <3>1 DEF SyncOK
      <3>3. [used |-> TRUE, id |-> g_next_sync_id, signaled |-> s, manual_reset |-> m] \in SyncType
        BY <3>2 DEF SyncType
      <3> QED
        BY <3>1, <3>2, <3>3 DEF SyncOK
    <2>3. ASSUME NEW i \in SyncSlot, NEW v \in BOOLEAN,
                 g_sync_objs' = [g_sync_objs EXCEPT ![i].signaled = v], UNCHANGED g_next_sync_id
          PROVE  SyncOK'
      BY <2>3 DEF SyncOK, SyncType
    <2>4. ASSUME NEW id, NEW v \in BOOLEAN, SetSignaled(id, v)
          PROVE  SyncOK'
      BY <2>3, <2>4 DEF SetSignaled, find_object
    <2>5. ASSUME NEW id, compat_wait_for_object(id)
          PROVE  SyncOK'
      <3>1. PICK i \in find_object(id) : /\ g_sync_objs' = [g_sync_objs EXCEPT ![i].signaled = g_sync_objs[i].manual_reset]
                                         /\ UNCHANGED g_next_sync_id
        BY <2>5 DEF compat_wait_for_object
      <3>2. i \in SyncSlot
        BY DEF find_object
      <3>3. g_sync_objs[i].manual_reset \in BOOLEAN
        BY <3>2 DEF SyncOK, SyncType
      <3> QED
        BY <2>3, <3>1, <3>2, <3>3
    <2>6. CASE ProgramCall
      BY <2>1, <2>2, <2>4, <2>5, <2>6 DEF ProgramCall, compat_stack_allocate, compat_stack_free, w32_VirtualAlloc,
         w32_VirtualFree, w32_CreateThread, compat_thread_cleanup, tls_set, compat_sync_signal,
         compat_sync_reset, w32_CreateFileA, w32_CloseHandle
    <2> QED
      BY <2>1, <2>6 DEF Next, ExecStep, Program, compat_vars, win32_vars, sync_vars, tables_kept, exec_open,
         exec_parse, exec_load, exec_bind, exec_process, exec_map, smoke_file, smoke_alloc, smoke_thread,
         sleep_spin, sleep_tick, exec_end, compat_atexit, compat_process_exit, compat_process_add_thread,
         module_registry_register, module_registry_add_export
  <1>2. fds' \subseteq Fd
    <2>1. ASSUME NEW path, exec_open(path)
          PROVE  fds' \subseteq Fd
      BY <2>1 DEF exec_open, lowest_fd
    <2>2. CASE ProgramCall
      BY <2>2 DEF ProgramCall, compat_stack_allocate, compat_stack_free, w32_VirtualAlloc,
         w32_VirtualFree, w32_CreateThread, compat_thread_cleanup, tls_set, compat_sync_create,
         compat_sync_signal, compat_sync_reset, SetSignaled, compat_wait_for_object,
         w32_CreateFileA, w32_CloseHandle, lowest_fd
    <2> QED
      BY <2>1, <2>2 DEF Next, ExecStep, Program, compat_vars, win32_vars,
         exec_parse, exec_load, exec_bind, exec_process, exec_map, smoke_file, smoke_alloc, smoke_thread,
         sleep_spin, sleep_tick, exec_end, compat_atexit, compat_process_exit, compat_process_add_thread,
         module_registry_register, module_registry_add_export
  <1> QED
    BY <1>1, <1>2

-----------------------------------------------------------------------------
(***************************************************************************)
(* The invariant, and what follows.                                        *)
(***************************************************************************)
CompatInv ==
    /\ BlocksNow /\ ThreadsNow /\ SyncOK /\ fds \subseteq Fd
    /\ ExecOK(exec) /\ AtexitOK
    /\ rerun \/ AccountedNow

LEMMA CompatInitHolds == CompatInit => CompatInv
  <1> SUFFICES ASSUME CompatInit
               PROVE  CompatInv
    OBVIOUS
  <1>1. ExecOK(exec) /\ exec.at = "idle"
    BY IdleOK DEF CompatInit, Idle
  <1>2. BlocksNow
    BY DEF CompatInit, Win32Init, BlocksNow, Blocks
  <1>3. ThreadsNow
    <2>1. [used |-> FALSE, tid |-> 0, state |-> "IDLE", tls |-> 0] \in ThreadType
      BY DEF ThreadType
    <2> QED
      BY <2>1 DEF CompatInit, Win32Init, ThreadsNow, ThreadsOK, Own
  <1>4. SyncOK /\ fds \subseteq Fd
    <2>1. MaxSyncId \in Nat
      BY Win32Assumption
    <2>2. [used |-> FALSE, id |-> 0, signaled |-> FALSE, manual_reset |-> FALSE] \in SyncType
      BY <2>1 DEF SyncType
    <2> QED
      BY <2>1, <2>2 DEF CompatInit, Win32Init, SyncOK
  <1>5. AtexitOK /\ Promised = {}
    <2>1. << >> \in Seq(Addr) /\ Len(<< >>) = 0
      BY EmptySeq
    <2>2. g_atexit_funcs = << >> /\ atexit_ran = 0 /\ rerun = FALSE
      BY DEF CompatInit
    <2>3. 0 \in 0 .. 0 /\ 0 + 1 .. 0 = {}
      OBVIOUS
    <2> QED
      BY <2>1, <2>2, <2>3 DEF AtexitOK, Promised
  <1>6. AccountedNow
    <2>1. heap = {} /\ owned = {} /\ stacks = {} /\ g_regions = [r \in Region |-> NULL]
      BY DEF CompatInit, Win32Init
    <2>2. Bases(g_regions) \ {NULL} = {}
      BY <2>1 DEF Bases
    <2> QED
      BY <1>1, <1>2, <1>5, <2>1, <2>2, IdleAccounted DEF AccountedNow, BlocksNow
  <1> QED
    BY <1>1, <1>2, <1>3, <1>4, <1>5, <1>6 DEF CompatInv

LEMMA CompatStepKeeps == CompatInv /\ [Next]_compat_vars => CompatInv'
  <1> SUFFICES ASSUME CompatInv, [Next]_compat_vars
               PROVE  CompatInv'
    OBVIOUS
  <1>1. BlocksNow /\ ThreadsNow /\ SyncOK /\ fds \subseteq Fd /\ ExecOK(exec) /\ AtexitOK /\ (rerun \/ AccountedNow)
    BY DEF CompatInv
  <1>2. owned \subseteq Addr
    BY <1>1 DEF BlocksNow, Blocks
  <1>3. BlocksNow' /\ (rerun' \/ AccountedNow')
    BY <1>1, MemoryStep
  <1>4. ThreadsNow' /\ SyncOK' /\ fds' \subseteq Fd
    BY <1>1, ThreadStep, SyncStep
  <1>5. ExecOK(exec') /\ AtexitOK'
    BY <1>1, <1>2, StageStep, AtexitStep
  <1> QED
    BY <1>3, <1>4, <1>5 DEF CompatInv

\* The invariant of compatd_exec_exe and the Win32 tables holds in every state.
THEOREM CompatInvariance == Spec => []CompatInv
  BY CompatInitHolds, CompatStepKeeps, PTL DEF Spec

\* One more block.
LEMMA OneMore ==
    ASSUME NEW S, IsFiniteSet(S), NEW x, x = NULL \/ x \notin S
    PROVE  /\ IsFiniteSet(S \cup ({x} \ {NULL}))
           /\ Cardinality(S \cup ({x} \ {NULL})) = Cardinality(S) + Nonzero(x)
  <1>0. Cardinality(S) \in Nat
    BY FS_CardinalityType
  <1>1. CASE x = NULL
    <2>1. S \cup ({x} \ {NULL}) = S
      BY <1>1
    <2> QED
      BY <1>0, <1>1, <2>1 DEF Nonzero
  <1>2. CASE x # NULL
    <2>1. S \cup ({x} \ {NULL}) = S \cup {x} /\ x \notin S
      BY <1>2
    <2>2. IsFiniteSet(S \cup {x}) /\ Cardinality(S \cup {x}) = Cardinality(S) + 1
      BY <2>1, FS_AddElement
    <2> QED
      BY <1>2, <2>1, <2>2 DEF Nonzero
  <1> QED
    BY <1>1, <1>2

\* The blocks are counted by their holders.
LEMMA BlocksCount ==
    ASSUME NEW h, NEW o, NEW s, NEW g, NEW e, Blocks(h, o, s, g), Accounted(h, o, s, g, e)
    PROVE  Cardinality(h) = Cardinality(o) + Cardinality(s) + Nonzero(e.tmp) + Nonzero(e.image)
                            + Nonzero(e.maps[1]) + Nonzero(e.maps[2]) + Nonzero(e.maps[3])
  <1> DEFINE t == e.tmp
             i == e.image
             x == e.maps[1]
             y == e.maps[2]
             z == e.maps[3]
             Plus(S, a) == S \cup ({a} \ {NULL})
             S0 == o \cup s
             S1 == Plus(S0, t)
             S2 == Plus(S1, i)
             S3 == Plus(S2, x)
             S4 == Plus(S3, y)
             S5 == Plus(S4, z)
  <1>1. Maps(e) = {x, y, z}
    BY DEF Maps
  <1>2. HeldBy(e) = {t, i, x, y, z}
    BY <1>1 DEF HeldBy
  <1>3. /\ h = S0 \cup ({t, i, x, y, z} \ {NULL}) /\ o \cap s = {} /\ {t, i, x, y, z} \cap S0 = {}
        /\ (t # NULL => t # i /\ t \notin {x, y, z}) /\ (i # NULL => i \notin {x, y, z})
    BY <1>1, <1>2 DEF Accounted, Distinct
  <1>4. (x # NULL => x # y /\ x # z) /\ (y # NULL => y # z)
    <2>1. \A k, l \in 1 .. 3 : e.maps[k] # NULL /\ e.maps[k] = e.maps[l] => k = l
      BY DEF Accounted, Distinct
    <2> QED
      BY <2>1
  <1>5. IsFiniteSet(o) /\ IsFiniteSet(s)
    <2>1. IsFiniteSet(Addr)
      BY Win32Assumption
    <2> QED
      BY <2>1, FS_Subset DEF Blocks
  <1>6. IsFiniteSet(S0) /\ Cardinality(S0) = Cardinality(o) + Cardinality(s)
    <2>1. Cardinality(o \cap s) = 0
      BY <1>3, FS_EmptySet
    <2>2. IsFiniteSet(o \cup s) /\ Cardinality(o \cup s) = Cardinality(o) + Cardinality(s) - Cardinality(o \cap s)
      BY <1>5, FS_Union
    <2>3. Cardinality(o) \in Nat /\ Cardinality(s) \in Nat
      BY <1>5, FS_CardinalityType
    <2> QED
      BY <2>1, <2>2, <2>3
  <1> HIDE DEF t, i, x, y, z, S0
  <1>7. /\ t = NULL \/ t \notin S0
        /\ i = NULL \/ i \notin S1
        /\ x = NULL \/ x \notin S2
        /\ y = NULL \/ y \notin S3
        /\ z = NULL \/ z \notin S4
    BY <1>3, <1>4
  <1>8. h = S5
    BY <1>3
  <1>9. IsFiniteSet(S1) /\ Cardinality(S1) = Cardinality(S0) + Nonzero(t)
    BY <1>6, <1>7, OneMore
  <1> HIDE DEF S1
  <1>10. IsFiniteSet(S2) /\ Cardinality(S2) = Cardinality(S1) + Nonzero(i)
    BY <1>7, <1>9, OneMore
  <1> HIDE DEF S2
  <1>11. IsFiniteSet(S3) /\ Cardinality(S3) = Cardinality(S2) + Nonzero(x)
    BY <1>7, <1>10, OneMore
  <1> HIDE DEF S3
  <1>12. IsFiniteSet(S4) /\ Cardinality(S4) = Cardinality(S3) + Nonzero(y)
    BY <1>7, <1>11, OneMore
  <1> HIDE DEF S4
  <1>13. IsFiniteSet(S5) /\ Cardinality(S5) = Cardinality(S4) + Nonzero(z)
    BY <1>7, <1>12, OneMore
  <1> HIDE DEF S5
  <1> QED
    BY <1>6, <1>8, <1>9, <1>10, <1>11, <1>12, <1>13 DEF t, i, x, y, z

LEMMA InvGivesAccounts == CompatInv => BuffersAccounted
  <1> SUFFICES ASSUME CompatInv, ~rerun
               PROVE  /\ Win32TypeOK
                      /\ heap = owned \cup stacks \cup (Held \ {NULL})
                      /\ Cardinality(heap) = Cardinality(owned) + Cardinality(stacks)
                            + Nonzero(exec.tmp) + Nonzero(exec.image)
                            + Nonzero(exec.maps[1]) + Nonzero(exec.maps[2]) + Nonzero(exec.maps[3])
                      /\ {g_regions[r] : r \in Region} \ {NULL}
                            = stacks \cup ({exec.maps[i] : i \in 1 .. 3} \ {NULL})
    BY DEF BuffersAccounted
  <1>1. Blocks(heap, owned, stacks, g_regions) /\ Accounted(heap, owned, stacks, g_regions, exec)
    BY DEF CompatInv, BlocksNow, AccountedNow
  <1>2. Win32TypeOK
    BY DEF CompatInv, BlocksNow, Blocks, ThreadsNow, ThreadsOK, SyncOK, Win32TypeOK
  <1>3. Cardinality(heap) = Cardinality(owned) + Cardinality(stacks)
            + Nonzero(exec.tmp) + Nonzero(exec.image)
            + Nonzero(exec.maps[1]) + Nonzero(exec.maps[2]) + Nonzero(exec.maps[3])
    BY <1>1, BlocksCount
  <1>4. /\ heap = owned \cup stacks \cup (Held \ {NULL})
        /\ {g_regions[r] : r \in Region} \ {NULL} = stacks \cup ({exec.maps[i] : i \in 1 .. 3} \ {NULL})
    BY <1>1 DEF Accounted, Held, HeldBy, Maps, Bases
  <1> QED
    BY <1>2, <1>3, <1>4

LEMMA InvGivesTls == CompatInv => TlsIsOwn
  BY DEF CompatInv, ThreadsNow, Own, TlsIsOwn

\* compatd_exec_exe, on whichever path it returns, has freed what it took and
\* nothing else, and the region table lists what is mapped, until a function
\* for an exit is run a second time: BuffersAccounted.
THEOREM NoBlockIsLost == Spec => []BuffersAccounted
  BY CompatInvariance, InvGivesAccounts, PTL

\* An entry of the thread table that is used again shows nothing of the
\* thread that had it before: TlsIsOwn.
THEOREM TlsStaysPrivate == Spec => []TlsIsOwn
  BY CompatInvariance, InvGivesTls, PTL

-----------------------------------------------------------------------------
(***************************************************************************)
(* The image.  Of two sections that do not overlap, the data of the lower  *)
(* one, padded at most to the alignment, ends where the upper one starts   *)
(* or before: both start at multiples of the alignment.                    *)
(***************************************************************************)
LEMMA Padded ==
    ASSUME NEW al \in Nat, al > 0, NEW a \in Nat, NEW b \in Nat, NEW v \in Nat, NEW r \in Nat,
           NEW n \in Nat, a % al = 0, b % al = 0, a + v <= b, r <= n * al, n * al < v + al
    PROVE  a + r <= b
  <1>0. ASSUME NEW x \in Nat, x % al = 0
        PROVE  \E k \in Nat : x = k * al
    <2>1. x \div al \in Nat /\ x = al * (x \div al) + (x % al)
      OBVIOUS
    <2> QED
      BY <1>0, <2>1
  <1>1. PICK p \in Nat : a = p * al
    BY <1>0
  <1>2. PICK q \in Nat : b = q * al
    BY <1>0
  <1>3. n * al < (q * al - p * al) + al
    BY <1>1, <1>2
  <1>4. n * al < ((q - p) + 1) * al
    BY <1>3
  <1>5. n < (q - p) + 1
    <2> SUFFICES ASSUME (q - p) + 1 <= n
                 PROVE  FALSE
      OBVIOUS
    <2>1. ((q - p) + 1) * al <= n * al
      OBVIOUS
    <2> QED
      BY <1>4, <2>1
  <1>6. n * al <= (q - p) * al
    BY <1>5
  <1>7. n * al <= q * al - p * al
    BY <1>6
  <1> QED
    BY <1>1, <1>2, <1>7

\* The numbers of a section.
IsSection(s) == s \in [rva : 0 .. Word - 1, virtual_size : 0 .. Word - 1,
                       raw_size : 0 .. Word - 1, raw_offset : 0 .. Word - 1]

\* A section as a linker writes it.
PaddedTo(s, al) ==
    /\ s.rva + s.virtual_size < Word
    /\ \E n \in 0 .. s.virtual_size : s.raw_size <= n * al /\ n * al < s.virtual_size + al

LEMMA EndsAt ==
    ASSUME NEW s, IsSection(s), NEW al, PaddedTo(s, al)
    PROVE  virtual_end(s) = s.rva + s.virtual_size
  <1> DEFINE e == s.rva + s.virtual_size
  <1>1. e \in Nat /\ e < Word /\ Word \in Nat \ {0}
    BY PeAssumption DEF IsSection, PaddedTo
  <1>2. e % Word = e
    <2> HIDE DEF e
    <2> QED
      BY <1>1
  <1> QED
    BY <1>2 DEF virtual_end, plus

\* The data of s ends where the address b, a multiple of the alignment at or
\* after the end of s, begins.
LEMMA DataEnds ==
    ASSUME NEW al \in Nat, al > 0, NEW s, IsSection(s), PaddedTo(s, al), s.rva % al = 0,
           NEW b \in Nat, b % al = 0, virtual_end(s) <= b
    PROVE  s.rva + s.raw_size <= b
  <1> DEFINE a == s.rva
             v == s.virtual_size
             r == s.raw_size
  <1>1. a \in Nat /\ v \in Nat /\ r \in Nat
    BY PeAssumption DEF IsSection
  <1>2. PICK n \in 0 .. v : r <= n * al /\ n * al < v + al
    BY DEF PaddedTo
  <1>3. n \in Nat
    BY <1>1, <1>2
  <1>4. a + v <= b /\ a % al = 0
    BY EndsAt
  <1> HIDE DEF a, v, r
  <1>5. a + r <= b
    BY <1>1, <1>2, <1>3, <1>4, Padded
  <1> QED
    BY <1>5 DEF a, r

Data(s) == {a \in Nat : s.rva <= a /\ a < s.rva + s.raw_size}

LEMMA DataApart ==
    ASSUME NEW al \in Nat, al > 0, NEW s, NEW t, IsSection(s), IsSection(t), PaddedTo(s, al),
           PaddedTo(t, al), s.rva % al = 0, t.rva % al = 0, ~overlap(s, t)
    PROVE  Data(s) \cap Data(t) = {}
  <1>1. s.rva \in Nat /\ t.rva \in Nat /\ s.raw_size \in Nat /\ t.raw_size \in Nat
    BY PeAssumption DEF IsSection
  <1>2. virtual_end(s) \in Nat /\ virtual_end(t) \in Nat
    <2>1. s.virtual_size \in Nat /\ t.virtual_size \in Nat
      BY PeAssumption DEF IsSection
    <2> QED
      BY <1>1, <2>1, EndsAt
  <1>3. CASE virtual_end(t) <= s.rva
    <2>1. t.rva + t.raw_size <= s.rva
      BY <1>1, <1>3, DataEnds
    <2> QED
      BY <1>1, <2>1 DEF Data
  <1>4. CASE virtual_end(s) <= t.rva
    <2>1. s.rva + s.raw_size <= t.rva
      BY <1>1, <1>4, DataEnds
    <2> QED
      BY <1>1, <2>1 DEF Data
  <1> QED
    BY <1>1, <1>2, <1>3, <1>4 DEF overlap

\* The image after each section has been copied.
IsLoad(f, n, mem) ==
    mem = [i \in 0 .. n |-> IF i = 0 THEN load_headers(f) ELSE load_section(f.sections[i], mem[i - 1])]

\* The sections can be copied one after the other.
LEMMA LoadExists ==
    ASSUME NEW f
    PROVE  \A n \in Nat : \E mem : IsLoad(f, n, mem)
  <1> DEFINE S == {n \in Nat : \E mem : IsLoad(f, n, mem)}
             H == load_headers(f)
             W(m, i) == load_section(f.sections[i], m)
  <1>0. \A n, mem : IsLoad(f, n, mem) <=> mem = [i \in 0 .. n |-> IF i = 0 THEN H ELSE W(mem[i - 1], i)]
    BY DEF IsLoad
  <1> HIDE DEF W, H
  <1>1. 0 \in S
    <2> DEFINE m == [i \in 0 .. 0 |-> H]
    <2>1. m = [i \in 0 .. 0 |-> IF i = 0 THEN H ELSE W(m[i - 1], i)]
      OBVIOUS
    <2> QED
      BY <1>0, <2>1
  <1>2. ASSUME NEW n \in Nat, n \in S
        PROVE  n + 1 \in S
    <2>1. PICK m : IsLoad(f, n, m)
      BY <1>2
    <2> DEFINE g == [i \in 0 .. n + 1 |-> IF i <= n THEN m[i] ELSE W(m[n], n + 1)]
               h == [i \in 0 .. n + 1 |-> IF i = 0 THEN H ELSE W(g[i - 1], i)]
    <2>2. \A i \in 0 .. n : m[i] = IF i = 0 THEN H ELSE W(m[i - 1], i)
      BY <1>0, <2>1
    <2>3. ASSUME NEW i \in 0 .. n + 1
          PROVE  g[i] = h[i]
      <3>1. CASE i = 0
        BY <2>2, <3>1
      <3>2. CASE i \in 1 .. n
        <4>1. /\ i - 1 \in 0 .. n /\ i \in 0 .. n /\ i # 0 /\ i <= n /\ i - 1 <= n
              /\ i - 1 \in 0 .. n + 1
          BY <3>2
        <4>2. g[i] = m[i] /\ g[i - 1] = m[i - 1] /\ h[i] = W(g[i - 1], i)
          BY <4>1
        <4>3. m[i] = W(m[i - 1], i)
          BY <2>2, <4>1
        <4> QED
          BY <4>2, <4>3
      <3>3. CASE i = n + 1
        <4>1. i - 1 = n /\ ~(i <= n) /\ i # 0 /\ n \in 0 .. n + 1 /\ n <= n
          BY <3>3
        <4>2. g[i] = W(m[n], i) /\ g[n] = m[n] /\ h[i] = W(g[i - 1], i)
          BY <3>3, <4>1
        <4> QED
          BY <4>1, <4>2
      <3> QED
        BY <3>1, <3>2, <3>3
    <2>4. g = h
      <3>1. /\ g = [i \in 0 .. n + 1 |-> g[i]]
            /\ h = [i \in 0 .. n + 1 |-> h[i]]
        OBVIOUS
      <3> HIDE DEF g, h
      <3> QED
        BY <2>3, <3>1
    <2>5. IsLoad(f, n + 1, g)
      BY <1>0, <2>4
    <2> QED
      BY <2>5
  <1>3. Nat \subseteq S
    <2> HIDE DEF S
    <2> QED
      BY <1>1, <1>2, Induction
  <1> QED
    BY <1>3

\* pe_load_image is the image after the last section.
LEMMA LoadIs ==
    ASSUME NEW f, Len(f.sections) \in Nat
    PROVE  \E mem : IsLoad(f, Len(f.sections), mem) /\ pe_load_image(f) = mem[Len(f.sections)]
  <1> DEFINE m == CHOOSE mem : IsLoad(f, Len(f.sections), mem)
  <1>1. pe_load_image(f) = m[Len(f.sections)]
    BY DEF pe_load_image, IsLoad
  <1>2. IsLoad(f, Len(f.sections), m)
    BY LoadExists
  <1> QED
    BY <1>1, <1>2

LEMMA LoadSteps ==
    ASSUME NEW f, NEW n \in Nat, NEW mem, IsLoad(f, n, mem)
    PROVE  /\ mem[0] = load_headers(f)
           /\ \A k \in 1 .. n : mem[k] = load_section(f.sections[k], mem[k - 1])
  <1> DEFINE H == load_headers(f)
             W(m, i) == load_section(f.sections[i], m)
  <1>1. mem = [i \in 0 .. n |-> IF i = 0 THEN H ELSE W(mem[i - 1], i)]
    BY DEF IsLoad
  <1> HIDE DEF H, W
  <1>2. mem[0] = H /\ \A k \in 1 .. n : mem[k] = W(mem[k - 1], k)
    BY <1>1
  <1> QED
    BY <1>2 DEF H, W

\* The data of s is in the image.
Whole(s, m) == \A k \in 0 .. s.raw_size - 1 : m[s.rva + k] = s.raw_offset + k

\* Copying a section puts its data there, and leaves what is apart from it.
LEMMA CopyOne ==
    ASSUME NEW s, IsSection(s), NEW n \in Nat, NEW m, DOMAIN m = 0 .. n - 1, s.rva + s.raw_size <= n
    PROVE  /\ DOMAIN load_section(s, m) = 0 .. n - 1
           /\ Whole(s, load_section(s, m))
           /\ \A t : IsSection(t) /\ t.rva + t.raw_size <= n /\ Data(s) \cap Data(t) = {} /\ Whole(t, m)
                        => Whole(t, load_section(s, m))
  <1> DEFINE r == s.raw_size
             b == s.rva
             o == s.raw_offset
             g == [a \in 0 .. n - 1 |-> IF r > 0 /\ a \in b .. b + r - 1 THEN o + (a - b) ELSE m[a]]
  <1>1. r \in Nat /\ b \in Nat /\ o \in Nat /\ b + r <= n
    BY PeAssumption DEF IsSection
  <1>2. load_section(s, m) = g
    BY DEF load_section
  <1>3. DOMAIN g = 0 .. n - 1
    OBVIOUS
  <1>4. ASSUME NEW k \in 0 .. r - 1
        PROVE  g[b + k] = o + k
    <2> HIDE DEF r, b, o
    <2>1. b + k \in 0 .. n - 1 /\ b + k \in b .. b + r - 1 /\ r > 0 /\ (b + k) - b = k
      BY <1>1
    <2> QED
      BY <2>1
  <1>5. ASSUME NEW t, IsSection(t), t.rva + t.raw_size <= n, Data(s) \cap Data(t) = {}, Whole(t, m),
               NEW k \in 0 .. t.raw_size - 1
        PROVE  g[t.rva + k] = t.raw_offset + k
    <2> DEFINE c == t.rva
               q == t.raw_size
    <2>1. c \in Nat /\ q \in Nat /\ c + q <= n /\ k \in 0 .. q - 1
      BY <1>5, PeAssumption DEF IsSection
    <2>2. c + k \in Data(t)
      <3>1. c + k \in Nat /\ c <= c + k /\ c + k < c + q
        <4> HIDE DEF c, q
        <4> QED
          BY <2>1
      <3> QED
        BY <3>1 DEF Data
    <2>3. c + k \notin Data(s)
      BY <1>5, <2>2
    <2>4. ~(c + k \in b .. b + r - 1) /\ c + k \in 0 .. n - 1
      <3>1. Data(s) = {a \in Nat : b <= a /\ a < b + r}
        BY DEF Data
      <3> HIDE DEF c, q, b, r
      <3> QED
        BY <1>1, <2>1, <2>3, <3>1
    <2>5. g[c + k] = m[c + k]
      BY <2>4
    <2> QED
      BY <1>5, <2>5 DEF Whole
  <1> QED
    BY <1>2, <1>3, <1>4, <1>5 DEF Whole

\* What the tests before the copying and linked say of the sections.
LEMMA Accepted ==
    ASSUME NEW f, IsFile(f), pe_parse_image(f), pe_validate_image(f), linked(f),
           NEW i \in 1 .. Len(f.sections)
    PROVE  /\ IsSection(f.sections[i]) /\ PaddedTo(f.sections[i], f.align)
           /\ f.sections[i].rva % f.align = 0
           /\ f.sections[i].rva + f.sections[i].raw_size <= f.size_of_image
           /\ \A j \in 1 .. i - 1 : ~overlap(f.sections[i], f.sections[j])
  <1> DEFINE s == f.sections[i]
  <1>1. IsSection(s)
    <2> DEFINE q == f.sections
               T == [rva : 0 .. Word - 1, virtual_size : 0 .. Word - 1,
                     raw_size : 0 .. Word - 1, raw_offset : 0 .. Word - 1]
    <2>1. q \in Seq(T) /\ i \in 1 .. Len(q)
      BY DEF IsFile
    <2>2. q[i] \in T
      <3> HIDE DEF q, T
      <3> QED
        BY <2>1
    <2> QED
      BY <2>2 DEF IsSection
  <1>2. PaddedTo(s, f.align)
    BY DEF linked, PaddedTo
  <1>3. /\ s.rva % f.align = 0 /\ virtual_end(s) <= f.size_of_image
        /\ \A j \in 1 .. i - 1 : ~overlap(s, f.sections[j])
    BY DEF pe_validate_image
  <1>4. f.align \in Nat /\ f.align > 0 /\ f.size_of_image \in Nat /\ f.size_of_image % f.align = 0
    <2>1. f.align \in 1 .. Word - 1 /\ f.size_of_image \in 0 .. Word - 1
      BY DEF IsFile
    <2>2. f.size_of_image % f.align = 0
      BY DEF pe_parse_image
    <2> QED
      BY <2>1, <2>2, PeAssumption
  <1>5. s.rva + s.raw_size <= f.size_of_image
    <2> HIDE DEF s
    <2> QED
      BY <1>1, <1>2, <1>3, <1>4, DataEnds
  <1> QED
    BY <1>1, <1>2, <1>3, <1>5

\* After k sections have been copied the first k are whole.
LEMMA LoadKeepsSections ==
    ASSUME NEW f, IsFile(f), pe_parse_image(f), pe_validate_image(f), linked(f)
    PROVE  \A i \in 1 .. Len(f.sections) : Whole(f.sections[i], pe_load_image(f))
  <1> DEFINE n == Len(f.sections)
             z == f.size_of_image
  <1>1. n \in Nat /\ z \in Nat /\ f.align \in Nat /\ f.align > 0
    BY PeAssumption DEF IsFile
  <1>2. PICK mem : IsLoad(f, n, mem) /\ pe_load_image(f) = mem[n]
    BY <1>1, LoadIs
  <1>3. \A i \in 1 .. n : /\ IsSection(f.sections[i]) /\ PaddedTo(f.sections[i], f.align)
                          /\ f.sections[i].rva % f.align = 0
                          /\ f.sections[i].rva + f.sections[i].raw_size <= z
                          /\ \A j \in 1 .. i - 1 : ~overlap(f.sections[i], f.sections[j])
    BY Accepted
  <1>4. \A i \in 1 .. n, j \in 1 .. n : j < i => Data(f.sections[i]) \cap Data(f.sections[j]) = {}
    <2> SUFFICES ASSUME NEW i \in 1 .. n, NEW j \in 1 .. n, j < i
                 PROVE  Data(f.sections[i]) \cap Data(f.sections[j]) = {}
      OBVIOUS
    <2> HIDE DEF n
    <2>1. j \in 1 .. i - 1
      BY <1>1
    <2> QED
      BY <1>1, <1>3, <2>1, DataApart
  <1>5. mem[0] = load_headers(f) /\ \A k \in 1 .. n : mem[k] = load_section(f.sections[k], mem[k - 1])
    BY <1>1, <1>2, LoadSteps
  <1> DEFINE Good(k) == DOMAIN mem[k] = 0 .. z - 1 /\ \A i \in 1 .. k : Whole(f.sections[i], mem[k])
             S == {k \in Nat : k <= n => Good(k)}
  <1> HIDE DEF n, z
  <1>6. 0 \in S
    <2>1. DOMAIN mem[0] = 0 .. z - 1
      BY <1>5 DEF load_headers, z
    <2> QED
      BY <2>1
  <1>7. ASSUME NEW k \in Nat, k \in S
        PROVE  k + 1 \in S
    <2> SUFFICES ASSUME k + 1 <= n
                 PROVE  Good(k + 1)
      OBVIOUS
    <2>1. k + 1 \in 1 .. n /\ (k + 1) - 1 = k /\ k <= n /\ \A i \in 1 .. k : i \in 1 .. n /\ i < k + 1
      BY <1>1
    <2>2. DOMAIN mem[k] = 0 .. z - 1 /\ \A i \in 1 .. k : Whole(f.sections[i], mem[k])
      BY <1>7, <2>1
    <2>3. mem[k + 1] = load_section(f.sections[k + 1], mem[k])
      BY <1>5, <2>1
    <2> DEFINE s == f.sections[k + 1]
    <2>4. IsSection(s) /\ s.rva + s.raw_size <= z
      BY <1>3, <2>1
    <2>5. /\ DOMAIN load_section(s, mem[k]) = 0 .. z - 1
          /\ Whole(s, load_section(s, mem[k]))
          /\ \A t : IsSection(t) /\ t.rva + t.raw_size <= z /\ Data(s) \cap Data(t) = {} /\ Whole(t, mem[k])
                       => Whole(t, load_section(s, mem[k]))
      <3> HIDE DEF s
      <3> QED
        BY <1>1, <2>2, <2>4, CopyOne
    <2>6. ASSUME NEW i \in 1 .. k
          PROVE  Whole(f.sections[i], mem[k + 1])
      <3>1. /\ IsSection(f.sections[i]) /\ f.sections[i].rva + f.sections[i].raw_size <= z
            /\ Data(s) \cap Data(f.sections[i]) = {}
        BY <1>3, <1>4, <2>1
      <3> QED
        BY <2>2, <2>3, <2>5, <3>1
    <2> QED
      BY <2>3, <2>5, <2>6
  <1>8. Nat \subseteq S
    <2> HIDE DEF S
    <2> QED
      BY <1>6, <1>7, Induction
  <1>9. Good(n)
    BY <1>1, <1>8
  <1> QED
    BY <1>2, <1>9 DEF n

\* pe_validate_image has tested all that pe_validate_full tests but that the
\* headers reach the section table.
LEMMA SecondValidator ==
    ASSUME NEW f, IsFile(f), pe_validate_image(f)
    PROVE  pe_validate_full(f) <=> f.size_of_headers >= HeadersMin
  <1>1. {f.size_of_headers, f.size, HeadersMin} \subseteq Nat
    BY PeAssumption DEF IsFile
  <1> QED
    BY <1>1 DEF pe_validate_image, pe_validate_full

\* What the call knows of its file at each stage.
FileOK(e) ==
    /\ e.at \in {"parse", "load", "bind"} => e.file \in Files \cup {Demo}
    /\ e.at \in {"load", "bind"} => pe_parse_image(e.file) /\ pe_validate_image(e.file)
    /\ e.at = "bind" => e.contents = pe_load_image(e.file)

LEMMA FileStep ==
    ASSUME ExecOK(exec), FileOK(exec), [Next]_compat_vars
    PROVE  FileOK(exec')
  <1>0. ASSUME exec'.at \notin {"parse", "load", "bind"}
        PROVE  FileOK(exec')
    BY <1>0 DEF FileOK
  <1>1. CASE UNCHANGED compat_vars
    BY <1>1 DEF compat_vars
  <1>2. CASE Program
    BY <1>2, ProgramKeeps
  <1>3. ASSUME NEW path, exec_open(path)
        PROVE  FileOK(exec')
    <2>1. PICK tmp : \E data \in Files \cup {Demo} :
                exec' = [Idle EXCEPT !.at = "parse", !.file = data, !.tmp = tmp]
      BY <1>3 DEF exec_open
    <2>2. PICK data \in Files \cup {Demo} :
                exec' = [Idle EXCEPT !.at = "parse", !.file = data, !.tmp = tmp]
      BY <2>1
    <2>3. exec'.at = "parse" /\ exec'.file = data
      BY <2>2 DEF Idle
    <2> QED
      BY <2>3 DEF FileOK
  <1>4. ASSUME exec' = Idle
        PROVE  FileOK(exec')
    BY <1>0, <1>4 DEF Idle
  <1>5. CASE exec_parse
    <2>1. CASE pe_parse_image(exec.file) /\ pe_validate_image(exec.file)
      <3>1. exec' = [exec EXCEPT !.at = "load"] /\ exec.at = "parse"
        BY <1>5, <2>1 DEF exec_parse, goto
      <3>2. exec'.at = "load" /\ exec'.file = exec.file
        BY <3>1 DEF ExecOK, ExecShape
      <3> QED
        BY <2>1, <3>1, <3>2 DEF FileOK
    <2>2. CASE ~(pe_parse_image(exec.file) /\ pe_validate_image(exec.file))
      BY <1>4, <1>5, <2>2 DEF exec_parse, exec_return
    <2> QED
      BY <2>1, <2>2
  <1>6. CASE exec_load
    <2> DEFINE c == pe_load_image(exec.file)
    <2>1. PICK image : exec.at = "load" /\
             (exec' = Idle \/ exec' = [exec EXCEPT !.at = "bind", !.image = image, !.contents = c])
      BY <1>6 DEF exec_load, exec_return
    <2>2. CASE exec' # Idle
      <3>1. exec'.at = "bind" /\ exec'.file = exec.file /\ exec'.contents = c
        <4> HIDE DEF c
        <4> QED
          BY <2>1, <2>2 DEF ExecOK, ExecShape
      <3> QED
        BY <2>1, <3>1 DEF FileOK
    <2> QED
      BY <1>4, <2>2
  <1>7. CASE exec_bind
    <2> DEFINE a == pe_apply_relocations(exec.file) = "applied"
               b == import_resolver_resolve(import_resolver_parse(exec.file), g_modules)
    <2>1. exec' = [exec EXCEPT !.at = "process", !.relocs_applied = a, !.bound = b]
      BY <1>7 DEF exec_bind
    <2>2. exec'.at = "process"
      <3> HIDE DEF a, b
      <3> QED
        BY <2>1 DEF ExecOK, ExecShape
    <2> QED
      BY <1>0, <2>2
  <1>8. CASE exec_process
    <2>1. exec'.at = "map"
      BY <1>8 DEF exec_process, ExecOK, ExecShape
    <2> QED
      BY <1>0, <2>1
  <1>9. CASE exec_map
    <2>1. exec' = Idle \/ \E t : exec' = [exec EXCEPT !.at = "file", !.maps = t]
      BY <1>9 DEF exec_map
    <2>2. CASE exec' # Idle
      <3>1. exec'.at = "file"
        BY <2>1, <2>2 DEF ExecOK, ExecShape
      <3> QED
        BY <1>0, <3>1
    <2> QED
      BY <1>4, <2>2
  <1>10. ASSUME NEW stage \in {"alloc", "crash", "thread"}, goto(stage)
         PROVE  FileOK(exec')
    <2>1. exec'.at = stage
      BY <1>10 DEF goto, ExecOK, ExecShape
    <2> QED
      BY <1>0, <2>1
  <1>11. CASE smoke_file
    BY <1>10, <1>11 DEF smoke_file
  <1>12. CASE smoke_alloc
    <2>1. goto("crash") \/ goto("thread")
      BY <1>12 DEF smoke_alloc
    <2> QED
      BY <1>10, <2>1
  <1>13. CASE smoke_thread
    <2>1. goto("crash") \/ \E stage \in {"sleep", "crash"} : exec' = [exec EXCEPT !.at = stage, !.guard = SleepGuard]
      BY <1>13 DEF smoke_thread
    <2>2. CASE \E stage \in {"sleep", "crash"} : exec' = [exec EXCEPT !.at = stage, !.guard = SleepGuard]
      <3>1. exec'.at \in {"sleep", "crash"}
        BY <2>2 DEF ExecOK, ExecShape
      <3> QED
        BY <1>0, <3>1
    <2> QED
      BY <1>10, <2>1, <2>2
  <1>14. CASE sleep_spin \/ sleep_tick
    <2>1. DOMAIN next_stage = {"sleep", "sleep_again"}
      BY DEF next_stage
    <2>2. \/ \E k : exec' = [exec EXCEPT !.guard = k] /\ exec.at \in {"sleep", "sleep_again"}
          \/ \E stage \in {"sleep_again", "finish"} : exec' = [exec EXCEPT !.at = stage, !.guard = SleepGuard]
      <3>1. \A s \in DOMAIN next_stage : next_stage[s] \in {"sleep_again", "finish"}
        BY DEF next_stage
      <3> QED
        BY <1>14, <2>1, <3>1 DEF sleep_spin, sleep_tick, wake
    <2>3. exec'.at \in {"sleep", "sleep_again", "finish"}
      BY <2>2 DEF ExecOK, ExecShape
    <2> QED
      BY <1>0, <2>3
  <1>15. CASE exec_end
    BY <1>4, <1>15 DEF exec_end
  <1> QED
    BY <1>1, <1>2, <1>3, <1>5, <1>6, <1>7, <1>8, <1>9, <1>11, <1>12, <1>13, <1>14, <1>15 DEF Next, ExecStep

ImageInv == CompatInv /\ FileOK(exec)

LEMMA ImageGivesSections == ImageInv => SectionsIntact
  <1> SUFFICES ASSUME ImageInv, exec.at = "bind"
               PROVE  /\ linked(exec.file) =>
                           \A i \in 1 .. Len(exec.file.sections) : Whole(exec.file.sections[i], exec.contents)
                      /\ pe_validate_full(exec.file) <=> exec.file.size_of_headers >= HeadersMin
    BY DEF SectionsIntact, Whole
  <1> DEFINE f == exec.file
  <1>1. f \in Files \cup {Demo} /\ pe_parse_image(f) /\ pe_validate_image(f) /\ exec.contents = pe_load_image(f)
    BY DEF ImageInv, FileOK
  <1>2. IsFile(f)
    BY <1>1, CompatdAssumption
  <1> HIDE DEF f
  <1>3. linked(f) => \A i \in 1 .. Len(f.sections) : Whole(f.sections[i], exec.contents)
    BY <1>1, <1>2, LoadKeepsSections
  <1>4. pe_validate_full(f) <=> f.size_of_headers >= HeadersMin
    BY <1>1, <1>2, SecondValidator
  <1> QED
    BY <1>3, <1>4 DEF f

\* A file as linkers write it that pe_validate_image accepts is in memory as a
\* whole once pe_load_image has copied its sections, however many they are and
\* in whichever order, and pe_validate_full agrees but for short headers:
\* SectionsIntact.
THEOREM ImagesAreWhole == Spec => []SectionsIntact
  <1>1. CompatInit => ImageInv
    <2>1. CompatInit => FileOK(exec)
      BY DEF CompatInit, FileOK, Idle
    <2> QED
      BY <2>1, CompatInitHolds DEF ImageInv
  <1>2. ImageInv /\ [Next]_compat_vars => ImageInv'
    <2> SUFFICES ASSUME ImageInv, [Next]_compat_vars
                 PROVE  ImageInv'
      OBVIOUS
    <2>1. CompatInv /\ ExecOK(exec) /\ FileOK(exec)
      BY DEF ImageInv, CompatInv
    <2>2. CompatInv' /\ FileOK(exec')
      BY <2>1, CompatStepKeeps, FileStep
    <2> QED
      BY <2>2 DEF ImageInv
  <1> QED
    BY <1>1, <1>2, ImageGivesSections, PTL DEF Spec
=============================================================================
