------------------------------- MODULE Win32 --------------------------------
(***************************************************************************)
(* The tables behind the Win32 calls: memory regions (compat/mem_mapper.c, *)
(* stack_init.c), threads and their TLS values (pe_threads.c,              *)
(* tls_manager.c), synchronisation objects (sync_mapper.c), files and      *)
(* memory of win32_stubs.c.                                                *)
(*                                                                         *)
(* An address stands for a heap block; kmalloc may fail.  One TLS slot     *)
(* stands for all.  g_last_error, the protection of regions and the calls  *)
(* of win32_stubs.c that only log and return a constant are left out.      *)
(***************************************************************************)
EXTENDS Naturals, FiniteSets, FiniteSetsExt

CONSTANTS Addr,        \* heap blocks, numbers from 1
          RegionCount, \* COMPAT_MAX_MEM_REGIONS
          ThreadCount, \* COMPAT_MAX_THREADS
          SyncCount,   \* COMPAT_MAX_SYNC_OBJECTS
          FdMax,       \* VFS_MAX_OPEN_FILES
          TlsValues,   \* what programs store, 0 (the cleared slot) apart
          MaxTid,      \* bound: the last thread a program creates
          MaxSyncId    \* bound: objects ever created

NULL == 0
Fd == 0 .. FdMax - 1
Region == 1 .. RegionCount
ThreadSlot == 1 .. ThreadCount
SyncSlot == 1 .. SyncCount

ASSUME Win32Assumption ==
    /\ Addr \subseteq Nat \ {NULL} /\ IsFiniteSet(Addr)
    /\ TlsValues \subseteq Nat
    /\ {RegionCount, ThreadCount, SyncCount, FdMax, MaxTid, MaxSyncId} \subseteq Nat

VARIABLES heap,            \* blocks that are allocated
          owned,           \* blocks a program got from VirtualAlloc or HeapAlloc
          stacks,          \* blocks a program got from compat_stack_allocate
          g_regions,       \* base of each region, NULL when the entry is unused
          g_threads,       \* [used, tid, state, tls]
          g_next_tid,
          g_sync_objs,     \* [used, id, signaled, manual_reset]
          g_next_sync_id,  \* less 0x6000
          fds,             \* descriptors that are open
          tls_written      \* history: the pairs of a thread and a value it was given

memory == <<heap, owned, stacks, g_regions>>
thread_vars == <<g_threads, g_next_tid, tls_written>>
sync_vars == <<g_sync_objs, g_next_sync_id>>
win32_vars == <<heap, owned, stacks, g_regions, g_threads, g_next_tid, g_sync_objs,
                g_next_sync_id, fds, tls_written>>

ThreadType == [used : BOOLEAN, tid : Nat, state : {"IDLE", "RUNNING", "DONE"},
               tls : {0} \cup TlsValues]
SyncType == [used : BOOLEAN, id : 0 .. MaxSyncId, signaled : BOOLEAN, manual_reset : BOOLEAN]

Win32TypeOK ==
    /\ heap \subseteq Addr /\ owned \subseteq Addr /\ stacks \subseteq Addr
    /\ g_regions \in [Region -> Addr \cup {NULL}]
    /\ g_threads \in [ThreadSlot -> ThreadType]
    /\ g_next_tid \in Nat \ {0}
    /\ g_sync_objs \in [SyncSlot -> SyncType]
    /\ g_next_sync_id \in 0 .. MaxSyncId + 1
    /\ fds \subseteq Fd
    /\ tls_written \subseteq Nat \X TlsValues

Win32Init ==
    /\ heap = {} /\ owned = {} /\ stacks = {} /\ fds = {} /\ tls_written = {}
    /\ g_regions = [r \in Region |-> NULL]
    /\ g_threads = [i \in ThreadSlot |-> [used |-> FALSE, tid |-> 0, state |-> "IDLE", tls |-> 0]]
    /\ g_next_tid = 1
    /\ g_sync_objs = [i \in SyncSlot |->
                         [used |-> FALSE, id |-> 0, signaled |-> FALSE, manual_reset |-> FALSE]]
    /\ g_next_sync_id = 0

-----------------------------------------------------------------------------
\* Memory.  The heap gives a free block or none.

kmalloc(h) == {NULL} \cup (IF Addr \subseteq h THEN {} ELSE {Min(Addr \ h)})

kfree(h, a) == h \ {a}

find_free_slot(regions) == {r \in Region : regions[r] = NULL /\
                                \A q \in Region : regions[q] = NULL => r <= q}

\* The outcomes of compat_mmap_region: [base, heap, regions].
compat_mmap_region(m) ==
    {[base |-> a, heap |-> m.heap \cup ({a} \ {NULL}),
      regions |-> IF a = NULL THEN m.regions
                  ELSE [r \in Region |-> IF r \in find_free_slot(m.regions) THEN a
                                         ELSE m.regions[r]]] :
        a \in IF find_free_slot(m.regions) = {} THEN {NULL} ELSE kmalloc(m.heap)}

compat_munmap_region(m, a) ==
    [m EXCEPT !.heap = kfree(@, a),
              !.regions = [r \in Region |-> IF @[r] = a THEN NULL ELSE @[r]]]

here == [base |-> NULL, heap |-> heap, regions |-> g_regions]

compat_stack_allocate ==
    \E m \in compat_mmap_region(here) :
        /\ m.base # NULL
        /\ heap' = m.heap /\ g_regions' = m.regions
        /\ stacks' = stacks \cup {m.base}
        /\ UNCHANGED <<owned, thread_vars, sync_vars, fds>>

compat_stack_free ==
    \E a \in stacks :
        LET m == compat_munmap_region(here, a) IN
        /\ heap' = m.heap /\ g_regions' = m.regions
        /\ stacks' = stacks \ {a}
        /\ UNCHANGED <<owned, thread_vars, sync_vars, fds>>

\* w32_VirtualAlloc and w32_HeapAlloc take blocks from the heap directly.
w32_VirtualAlloc ==
    \E a \in kmalloc(heap) \ {NULL} :
        /\ heap' = heap \cup {a} /\ owned' = owned \cup {a}
        /\ UNCHANGED <<stacks, g_regions, thread_vars, sync_vars, fds>>

w32_VirtualFree ==
    \E a \in owned :
        /\ heap' = kfree(heap, a) /\ owned' = owned \ {a}
        /\ UNCHANGED <<stacks, g_regions, thread_vars, sync_vars, fds>>

-----------------------------------------------------------------------------
\* Threads.  With an entry the thread runs to its end inside the call.

find_thread(threads, tid) == {i \in ThreadSlot : threads[i].used /\ threads[i].tid = tid}

free_thread(threads) == {i \in ThreadSlot : ~threads[i].used /\
                            \A j \in ThreadSlot : ~threads[j].used => i <= j}

\* A seeded slip: the TLS values of the entry's last thread are kept.
Mut_fresh_thread(old, tid) == [used |-> TRUE, tid |-> tid, state |-> "RUNNING", tls |-> old.tls]

fresh_thread(old, tid) == [used |-> TRUE, tid |-> tid, state |-> "RUNNING", tls |-> 0]

started(threads, i, tid, entry) ==
    [threads EXCEPT ![i] = [fresh_thread(threads[i], tid) EXCEPT
                               !.state = IF entry THEN "DONE" ELSE "RUNNING"]]

compat_set_tls(threads, tid, value) ==
    [i \in ThreadSlot |-> IF i \in find_thread(threads, tid)
                          THEN [threads[i] EXCEPT !.tls = value] ELSE threads[i]]

w32_CreateThread(entry) ==
    \E i \in free_thread(g_threads) :
        /\ g_next_tid <= MaxTid
        /\ g_threads' = started(g_threads, i, g_next_tid, entry)
        /\ g_next_tid' = g_next_tid + 1
        /\ UNCHANGED <<memory, sync_vars, fds, tls_written>>

tls_set(tid, value) ==
    /\ find_thread(g_threads, tid) # {}
    /\ g_threads' = compat_set_tls(g_threads, tid, value)
    /\ tls_written' = tls_written \cup {<<tid, value>>}
    /\ UNCHANGED <<memory, g_next_tid, sync_vars, fds>>

compat_thread_cleanup(tid) ==
    \E i \in find_thread(g_threads, tid) :
        /\ g_threads' = [g_threads EXCEPT ![i].used = FALSE, ![i].state = "IDLE"]
        /\ UNCHANGED <<memory, g_next_tid, tls_written, sync_vars, fds>>

-----------------------------------------------------------------------------
\* Synchronisation objects.

find_object(id) == {i \in SyncSlot : g_sync_objs[i].used /\ g_sync_objs[i].id = id}

compat_sync_create(signaled, manual) ==
    \E i \in SyncSlot :
        /\ ~g_sync_objs[i].used /\ \A j \in 1 .. i - 1 : g_sync_objs[j].used
        /\ g_next_sync_id <= MaxSyncId
        /\ g_sync_objs' = [g_sync_objs EXCEPT ![i] =
               [used |-> TRUE, id |-> g_next_sync_id, signaled |-> signaled, manual_reset |-> manual]]
        /\ g_next_sync_id' = g_next_sync_id + 1
        /\ UNCHANGED <<memory, thread_vars, fds>>

SetSignaled(id, value) ==
    \E i \in find_object(id) :
        /\ g_sync_objs' = [g_sync_objs EXCEPT ![i].signaled = value]
        /\ UNCHANGED <<memory, thread_vars, g_next_sync_id, fds>>

compat_sync_signal(id) == SetSignaled(id, TRUE)

compat_sync_reset(id) == SetSignaled(id, FALSE)

\* The wait that succeeds; one that does not changes nothing, whatever the time-out.
compat_wait_for_object(id) ==
    \E i \in find_object(id) :
        /\ g_sync_objs[i].signaled
        /\ g_sync_objs' = [g_sync_objs EXCEPT ![i].signaled = g_sync_objs[i].manual_reset]
        /\ UNCHANGED <<memory, thread_vars, g_next_sync_id, fds>>

-----------------------------------------------------------------------------
\* Files.  Handles of files are descriptors and handles of threads are tids:
\* w32_CloseHandle takes both for descriptors.

lowest_fd == {f \in Fd \ fds : \A g \in Fd \ fds : f <= g}

w32_CreateFileA ==
    \E f \in lowest_fd :
        /\ fds' = fds \cup {f}
        /\ UNCHANGED <<memory, thread_vars, sync_vars>>

w32_CloseHandle(h) ==
    /\ h \in fds
    /\ fds' = fds \ {h}
    /\ UNCHANGED <<memory, thread_vars, sync_vars>>

-----------------------------------------------------------------------------
\* A program makes any of the calls.
ProgramCall ==
    \/ compat_stack_allocate \/ compat_stack_free
    \/ w32_VirtualAlloc \/ w32_VirtualFree
    \/ \E entry \in BOOLEAN : w32_CreateThread(entry)
    \/ \E tid \in {g_threads[i].tid : i \in ThreadSlot} :
          compat_thread_cleanup(tid) \/ \E v \in TlsValues : tls_set(tid, v)
    \/ \E s, m \in BOOLEAN : compat_sync_create(s, m)
    \/ \E id \in 0 .. MaxSyncId :
          compat_sync_signal(id) \/ compat_sync_reset(id) \/ compat_wait_for_object(id)
    \/ w32_CreateFileA
    \/ \E h \in Fd : w32_CloseHandle(h)
=============================================================================
