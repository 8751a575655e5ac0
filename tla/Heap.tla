-------------------------------- MODULE Heap --------------------------------
(***************************************************************************)
(* The kernel heap, kernel/heap.c: a bitmap of HEAP_BLOCK_SIZE blocks,     *)
(* searched first-fit, with a header in the first block of an allocation.  *)
(* What runs under kernel_heap.lock is one step (module Mutex shows that   *)
(* the spinlock excludes).  kmalloc writes the header after it has dropped *)
(* the lock, so that is a step of its own: other threads allocate and free *)
(* between the two.                                                        *)
(*                                                                         *)
(* Clients free what they hold, and may free again what they no longer     *)
(* hold; they do not forge headers.                                        *)
(***************************************************************************)
EXTENDS Integers, FiniteSets, FiniteSetsExt

CONSTANTS Client,        \* threads that allocate
          HeapSize,      \* KERNEL_HEAP_SIZE, bytes
          BlockSize,     \* HEAP_BLOCK_SIZE
          HeaderSize,    \* sizeof(heap_alloc_header_t)
          SizeMod,       \* size_t is computed modulo this (2^64)
          Sizes          \* the sizes that are requested

ASSUME HeapAssumption ==
    /\ HeapSize \in Nat /\ BlockSize \in Nat \ {0} /\ HeaderSize \in Nat \ {0}
    /\ SizeMod \in Nat /\ SizeMod > HeapSize + HeaderSize + BlockSize
    /\ Sizes \subseteq 0 .. SizeMod - 1

\* Fields set by heap_init that do not change afterwards.
total_blocks == HeapSize \div BlockSize
Block == 0 .. total_blocks - 1

VARIABLES bitmap,        \* the blocks whose bit is set
          header,        \* the blocks field of a valid header at this block,
                         \* 0 where there is none
          used_blocks, peak_used_blocks, live_count,
                         \* live_count = alloc_count - free_count
          reserved,      \* allocations whose header is not written yet
          held           \* allocations the clients have

heapVars == <<bitmap, header, used_blocks, peak_used_blocks, live_count, reserved, held>>

\* heap_init
HeapInit ==
    /\ bitmap = {}
    /\ header = [b \in Block |-> 0]
    /\ used_blocks = 0 /\ peak_used_blocks = 0 /\ live_count = 0
    /\ reserved = {}
    /\ held = {}

-----------------------------------------------------------------------------
\* Mutant: the header is not paid for.
Mut_blocks_needed(size) ==
    ((size + BlockSize - 1) % SizeMod) \div BlockSize

\* The number of blocks for a request; -1 when adding the header wraps.
\* Rounding up may wrap as well: the result is then 0.
blocks_needed(size) ==
    LET total_size == (size + HeaderSize) % SizeMod
    IN  IF total_size < size THEN -1
        ELSE ((total_size + BlockSize - 1) % SizeMod) \div BlockSize

\* Mutant: the run survives an allocated block.
Mut_find_run(need) ==
    LET scan[i \in 0 .. total_blocks] ==
          IF i = 0 THEN [start |-> 0, run |-> 0]
          ELSE LET s == scan[i - 1]
               IN  IF need > 0 /\ s.run = need THEN s
                   ELSE IF i - 1 \in bitmap THEN s
                   ELSE [start |-> IF s.run = 0 THEN i - 1 ELSE s.start, run |-> s.run + 1]
    IN  IF need > 0 /\ scan[total_blocks].run = need THEN scan[total_blocks].start ELSE -1

\* The search loop of kmalloc after i blocks: where the current run of free
\* blocks starts and how long it is.  It stops when the run is long enough.
find_run(need) ==
    LET scan[i \in 0 .. total_blocks] ==
          IF i = 0 THEN [start |-> 0, run |-> 0]
          ELSE LET s == scan[i - 1]
               IN  IF need > 0 /\ s.run = need THEN s
                   ELSE IF i - 1 \in bitmap THEN [s EXCEPT !.run = 0]
                   ELSE [start |-> IF s.run = 0 THEN i - 1 ELSE s.start, run |-> s.run + 1]
    IN  IF need > 0 /\ scan[total_blocks].run = need THEN scan[total_blocks].start ELSE -1

\* kmalloc up to spinlock_unlock: find a run and set its bits.  A request
\* that cannot be met returns NULL and changes nothing modelled here.
kmalloc(c, size) ==
    LET need == blocks_needed(size)
        start == find_run(need)
        blocks == start .. start + need - 1
    IN  /\ \A r \in reserved : r.owner # c
        /\ size > 0
        /\ start # -1
        /\ bitmap' = bitmap \cup blocks
        /\ used_blocks' = used_blocks + need
        /\ peak_used_blocks' = IF used_blocks' > peak_used_blocks THEN used_blocks' ELSE peak_used_blocks
        /\ live_count' = live_count + 1
        /\ reserved' = reserved \cup {[owner |-> c, start |-> start, blocks |-> need, size |-> size]}
        /\ UNCHANGED <<header, held>>

\* The rest of kmalloc: the header is written and the pointer returned.
write_header(r) ==
    /\ r \in reserved
    /\ header' = [header EXCEPT ![r.start] = r.blocks]
    /\ reserved' = reserved \ {r}
    /\ held' = held \cup {r}
    /\ UNCHANGED <<bitmap, used_blocks, peak_used_blocks, live_count>>

\* Mutant: the freed header stays valid.
Mut_free_blocks(b) ==
    LET blocks == {x \in b .. b + header[b] - 1 : x < total_blocks} \cap bitmap
    IN  /\ bitmap' = bitmap \ blocks
        /\ used_blocks' = used_blocks - Cardinality(blocks)
        /\ live_count' = live_count - 1
        /\ UNCHANGED <<header, peak_used_blocks, reserved>>

\* The body of kfree: clear the bits that are set, count them off and
\* invalidate the header.
free_blocks(b) ==
    LET blocks == {x \in b .. b + header[b] - 1 : x < total_blocks} \cap bitmap
    IN  /\ bitmap' = bitmap \ blocks
        /\ used_blocks' = used_blocks - Cardinality(blocks)
        /\ header' = [header EXCEPT ![b] = 0]
        /\ live_count' = live_count - 1
        /\ UNCHANGED <<peak_used_blocks, reserved>>

\* kfree, by the client that holds b or of a pointer that nobody holds (a
\* second free): ignored without a valid header.
kfree(b) ==
    /\ IF header[b] = 0 THEN UNCHANGED <<bitmap, header, used_blocks, peak_used_blocks, live_count, reserved>>
       ELSE free_blocks(b)
    /\ held' = {a \in held : a.start # b}

HeapNext ==
    \/ \E c \in Client, size \in Sizes : kmalloc(c, size)
    \/ \E r \in reserved : write_header(r)
    \/ \E b \in Block : kfree(b)

HeapSpec == HeapInit /\ [][HeapNext]_heapVars

-----------------------------------------------------------------------------
BlocksOf(a) == a.start .. a.start + a.blocks - 1
Allocations == reserved \cup held

\* Every variable has its type; the KASSERT of kfree holds (used_blocks does
\* not go below 0).
HeapTypeOK ==
    /\ bitmap \subseteq Block
    /\ header \in [Block -> 0 .. total_blocks]
    /\ used_blocks \in 0 .. peak_used_blocks
    /\ peak_used_blocks \in 0 .. total_blocks
    /\ live_count \in Nat

\* Two allocations never share a block, and the bitmap marks exactly the
\* allocated blocks: with any order of allocations, frees and double frees,
\* also between a reservation and its header, nothing is handed out twice,
\* nothing leaks, and the counters the leak check reads are right.
AllocationsDisjoint ==
    /\ HeapTypeOK
    /\ \A a, b \in Allocations : a # b => BlocksOf(a) \cap BlocksOf(b) = {}
    /\ bitmap = UNION {BlocksOf(a) : a \in Allocations}
    /\ used_blocks = Cardinality(bitmap)
    /\ live_count = Cardinality(Allocations)

\* A header is valid exactly at the start of an allocation that has been
\* returned, so kfree accepts what kmalloc returned, once; and what it returned
\* holds the request: header and size bytes fit the blocks, also for requests
\* whose size computation wraps.
HeadersMatch ==
    /\ \A b \in Block : header[b] =
         IF \E a \in held : a.start = b THEN (CHOOSE a \in held : a.start = b).blocks ELSE 0
    /\ \A a \in Allocations : a.size + HeaderSize <= a.blocks * BlockSize

\* The search loop finds the lowest run of free blocks that is long enough,
\* and fails only when there is none.
FirstFit ==
    \A need \in 1 .. total_blocks :
        LET fits == {s \in Block : s + need <= total_blocks /\ (s .. s + need - 1) \cap bitmap = {}}
        IN  find_run(need) = IF fits = {} THEN -1 ELSE Min(fits)
=============================================================================
