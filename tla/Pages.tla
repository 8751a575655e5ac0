------------------------------- MODULE Pages --------------------------------
(***************************************************************************)
(* The page allocator of src/kernel/memory.c and the kernel stacks of      *)
(* src/kernel/stack.c.  An address is a page number.  The allocator keeps  *)
(* no list: it hands pages out upwards from the end of the kernel image,   *)
(* and a freed page only counts when it lies at or above the next one.     *)
(***************************************************************************)
EXTENDS Naturals, FiniteSets

CONSTANTS KernelEnd,    \* first page after the kernel image
          TotalPages,   \* TOTAL_MEMORY / PAGE_SIZE
          HeapStart,    \* KERNEL_HEAP_START and
          HeapPages,    \*   KERNEL_HEAP_SIZE
          MaxPage       \* bound on the pages that are handed out

\* There are 32768 pages; the boot code takes the first four without looking.
\* The linker script lets the image end at 6 MB at most; the heap is at 8 MB.
ASSUME PagesAssumption ==
    /\ KernelEnd \in Nat \ {0} /\ TotalPages \in Nat /\ TotalPages >= 4
    /\ HeapStart \in Nat /\ HeapStart > KernelEnd /\ HeapPages \in Nat
    /\ MaxPage \in Nat /\ MaxPage >= KernelEnd + TotalPages

VARIABLE mem_map        \* next_free_page, free_pages, and (history) how many
                        \* callers of the allocator hold each page

Page == 0 .. MaxPage
HeapRegion == HeapStart .. HeapStart + HeapPages - 1

PagesTypeOK == mem_map \in [next_free_page : Nat, free_pages : Nat, holders : [Page -> Nat]]

memory_init == [next_free_page |-> KernelEnd, free_pages |-> TotalPages,
                holders |-> [p \in Page |-> 0]]

\* pmm_alloc_page, k times in a row with k pages free.
pmm_alloc_pages(m, k) ==
    [next_free_page |-> m.next_free_page + k, free_pages |-> m.free_pages - k,
     holders |-> [p \in Page |-> m.holders[p] +
                     IF p \in m.next_free_page .. m.next_free_page + k - 1 THEN 1 ELSE 0]]

\* Mutant: the freed page is the next one to be handed out.
Mut_pmm_free_page(m, addr) == [m EXCEPT !.next_free_page = addr, !.free_pages = @ + 1]

\* Any address is taken; one that was never handed out counts as a free page.
pmm_free_page(m, addr) ==
    [m EXCEPT !.free_pages = IF addr >= m.next_free_page THEN @ + 1 ELSE @]

\* A caller frees a page that it holds.
give_back(m, addr) == [pmm_free_page(m, addr) EXCEPT !.holders[addr] = @ - 1]

\* Three pages, which are consecutive, are taken and given back.
test_memory_allocator(m) ==
    LET first == m.next_free_page
    IN  give_back(give_back(give_back(pmm_alloc_pages(m, 3), first), first + 1), first + 2)

\* A thread gets a stack.  With no page left there is none, and page 0 is cleared.
kernel_stack_alloc ==
    /\ mem_map.free_pages > 0
    /\ mem_map' = pmm_alloc_pages(mem_map, 1)

\* The stack of a thread is freed: its page is given back if the caller holds
\* it, as a thread that ends does; freed twice, or the page of somebody else,
\* it stays with its holder.  (The first page is the bitmap of the heap.)
kernel_stack_free(p) ==
    /\ mem_map.next_free_page + mem_map.free_pages < MaxPage \/ p < mem_map.next_free_page
    /\ \/ /\ mem_map.holders[p] > 0 /\ p # KernelEnd
          /\ mem_map' = give_back(mem_map, p)
       \/ mem_map' = pmm_free_page(mem_map, p)
=============================================================================
