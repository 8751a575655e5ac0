----------------------------- MODULE BootProofs -----------------------------
(***************************************************************************)
(* The boot sequence on any machine: the page allocator never hands a page *)
(* out twice (PagesHeldOnce), nothing is used before it is set up          *)
(* (InitOrder), and what boot reports is what happened (BootReports).      *)
(*                                                                         *)
(* Each has an inductive invariant of its own, which says what is known at *)
(* each place of kernel_main: PagesInv, OrderInv, and DiagInv with AcpiInv.*)
(***************************************************************************)
EXTENDS Boot, FiniteSetTheorems, TLAPS

\* Whoever holds a page holds it alone; every page that is held lies between
\* the kernel and the next free page, which never goes back; and until threads
\* run no freed page counts, so the two counters move together.
PagesInv ==
    /\ PagesTypeOK
    /\ pc \in PC
    /\ \A p \in Page : /\ mem_map.holders[p] <= 1
                       /\ mem_map.holders[p] > 0 =>
                             KernelEnd <= p /\ p < mem_map.next_free_page
    /\ pc \notin {"start", "memory", "halt"} =>
          /\ mem_map.next_free_page >= KernelEnd
          /\ pc \in {"fb", "idt", "pic", "acpi", "madt", "layer2", "tests"} =>
                mem_map.next_free_page + mem_map.free_pages = KernelEnd + TotalPages
    /\ pc \in {"fb", "idt", "pic", "acpi", "madt", "layer2"} => mem_map.next_free_page = KernelEnd
    /\ pc = "tests" => mem_map.next_free_page = KernelEnd + 1

\* The parts that are up at each place of kernel_main.
OrderInv ==
    /\ pc \in PC
    /\ InitOrder
    /\ irq_handlers \in [IRQ -> {NULL, "kbd_handler", "mouse_handler", "rtl8139_irq_handler"}]
    /\ pc \notin {"start", "memory", "halt"} => "pages" \in up
    /\ pc \notin {"start", "memory", "fb", "idt", "halt"} => "idt" \in up
    /\ pc \in {"tests", "layer3", "layer4", "layer5", "layer6", "layer7", "check", "gui"}
          => {"heap", "timer"} \subseteq up
    /\ pc \in {"layer5", "layer6", "layer7", "check", "gui"} => {"vfs", "ramdisk"} \subseteq up
    /\ "app_registry" \in up => pc = "gui"

\* Each stage is PASS if its parts are up, and only then, but for AlwaysPass.
StagesTell ==
    \A s \in 1 .. 10 :
        /\ PartsOf(s) \subseteq up => passed[s]
        /\ passed[s] => PartsOf(s) \subseteq up \/ (s \in AlwaysPass /\ machine.magic)

\* What the diagnostics hold at each place of kernel_main.
DiagInv ==
    /\ pc \in PC /\ machine \in Machine
    /\ passed \in [Stages -> BOOLEAN] /\ has_failed \in BOOLEAN /\ message \in BOOLEAN
    /\ pc # "gui" => StagesTell
    /\ pc = "start" => g_boot_state = "INIT" /\ ~passed[10]
    /\ pc # "start" => passed[0] = machine.magic
    /\ pc \notin {"start", "halt"} => machine.magic
    /\ pc \in {"layer7", "check"} => message /\ has_failed
    /\ pc = "check" => ~passed[10] /\ g_boot_state = "FAILED"
    /\ ScreenTells

\* The cells that the entries of a well-formed MADT start at.
Starts(fw) == CHOOSE starts \in SUBSET DOMAIN fw.cells : EntriesStartAt(fw, starts)

WellFormed(fw) == \A k \in DOMAIN fw.cells : fw.cells[k].length # 0

\* The entries of enabled processors that the scan has behind it.
Seen(fw, ptr) == {k \in Starts(fw) : Enabled(fw, k) /\ k < ptr}

\* The scan of the MADT is at an entry or at the end of the table, and has
\* counted the processors before it.
AcpiInv ==
    LET fw == machine.firmware IN
    /\ pc \in PC /\ machine \in Machine
    /\ {"rsdp", "fadt", "madt", "sci", "valid", "cpu_count"} \subseteq DOMAIN acpi
    /\ AcpiAgrees(fw)
    /\ pc \in {"start", "memory", "fb", "idt", "pic", "acpi"} => ics_ptr = 1 /\ cpus = 0
    /\ pc = "madt" =>
          /\ Right(fw, acpi.madt)
          /\ Right(fw, acpi.fadt) => acpi.sci
          /\ ics_ptr \in Nat \ {0} /\ cpus \in Nat
          /\ WellFormed(fw) => /\ ics_ptr \in Starts(fw) \/ ics_ptr > Len(fw.cells)
                               /\ cpus = Cardinality(Seen(fw, ics_ptr))

-----------------------------------------------------------------------------
\* What the two operations of the allocator do to the three fields.
LEMMA AllocFields ==
    ASSUME NEW m \in [next_free_page : Nat, free_pages : Nat, holders : [Page -> Nat]],
           NEW k \in Nat, k <= m.free_pages
    PROVE  LET n == pmm_alloc_pages(m, k) IN
           /\ n \in [next_free_page : Nat, free_pages : Nat, holders : [Page -> Nat]]
           /\ n.next_free_page = m.next_free_page + k
           /\ n.free_pages = m.free_pages - k
           /\ \A p \in Page : n.holders[p] =
                 IF m.next_free_page <= p /\ p < m.next_free_page + k
                 THEN m.holders[p] + 1 ELSE m.holders[p]
  <1> DEFINE taken(p) == IF p \in m.next_free_page .. m.next_free_page + k - 1 THEN 1 ELSE 0
             h == [p \in Page |-> m.holders[p] + taken(p)]
  <1>1. /\ m.next_free_page + k \in Nat /\ m.free_pages - k \in Nat
        /\ m.holders \in [Page -> Nat] /\ m.next_free_page \in Nat
    OBVIOUS
  <1>2. ASSUME NEW p \in Page
        PROVE  /\ p \in Nat /\ h[p] \in Nat
               /\ h[p] = IF m.next_free_page <= p /\ p < m.next_free_page + k
                         THEN m.holders[p] + 1 ELSE m.holders[p]
    <2>1. p \in Nat /\ m.holders[p] \in Nat
      BY <1>1, PagesAssumption DEF Page
    <2>2. taken(p) = IF m.next_free_page <= p /\ p < m.next_free_page + k THEN 1 ELSE 0
      BY <1>1, <2>1
    <2>3. h[p] = m.holders[p] + taken(p)
      OBVIOUS
    <2> HIDE DEF taken, h
    <2> QED
      BY <2>1, <2>2, <2>3
  <1>3. h \in [Page -> Nat]
    BY <1>2
  <1>4. pmm_alloc_pages(m, k) =
           [next_free_page |-> m.next_free_page + k, free_pages |-> m.free_pages - k, holders |-> h]
    BY DEF pmm_alloc_pages
  <1> HIDE DEF h
  <1> QED
    BY <1>1, <1>2, <1>3, <1>4

LEMMA FreeFields ==
    ASSUME NEW m \in [next_free_page : Nat, free_pages : Nat, holders : [Page -> Nat]],
           NEW addr \in Page
    PROVE  LET n == pmm_free_page(m, addr) IN
           /\ n \in [next_free_page : Nat, free_pages : Nat, holders : [Page -> Nat]]
           /\ n.next_free_page = m.next_free_page
           /\ n.free_pages = IF addr >= m.next_free_page THEN m.free_pages + 1 ELSE m.free_pages
           /\ n.holders = m.holders
  BY DEF pmm_free_page

LEMMA GiveBackFields ==
    ASSUME NEW m \in [next_free_page : Nat, free_pages : Nat, holders : [Page -> Nat]],
           NEW addr \in Page, m.holders[addr] > 0, addr < m.next_free_page
    PROVE  LET n == give_back(m, addr) IN
           /\ n \in [next_free_page : Nat, free_pages : Nat, holders : [Page -> Nat]]
           /\ n.next_free_page = m.next_free_page
           /\ n.free_pages = m.free_pages
           /\ \A p \in Page : n.holders[p] =
                 IF p = addr THEN m.holders[p] - 1 ELSE m.holders[p]
  <1>1. m.holders \in [Page -> Nat] /\ addr \in Nat /\ m.next_free_page \in Nat
    BY PagesAssumption DEF Page
  <1> DEFINE h == [m.holders EXCEPT ![addr] = @ - 1]
             f == pmm_free_page(m, addr)
  <1>2. h \in [Page -> Nat]
    BY <1>1
  <1>3. /\ f \in [next_free_page : Nat, free_pages : Nat, holders : [Page -> Nat]]
        /\ f.next_free_page = m.next_free_page /\ f.free_pages = m.free_pages
        /\ f.holders = m.holders
    <2>1. ~(addr >= m.next_free_page)
      BY <1>1
    <2> HIDE DEF f
    <2>2. /\ f \in [next_free_page : Nat, free_pages : Nat, holders : [Page -> Nat]]
          /\ f.next_free_page = m.next_free_page
          /\ f.free_pages = IF addr >= m.next_free_page THEN m.free_pages + 1 ELSE m.free_pages
          /\ f.holders = m.holders
      BY FreeFields DEF f
    <2> QED
      BY <2>1, <2>2
  <1>4. give_back(m, addr) = [f EXCEPT !.holders = [f.holders EXCEPT ![addr] = @ - 1]]
    BY DEF give_back
  <1> HIDE DEF f
  <1>5. give_back(m, addr) = [f EXCEPT !.holders = h]
    BY <1>3, <1>4
  <1>6. \A p \in Page : h[p] = IF p = addr THEN m.holders[p] - 1 ELSE m.holders[p]
    BY <1>1
  <1> HIDE DEF h
  <1> QED
    BY <1>2, <1>3, <1>5, <1>6

\* A page nobody holds is handed out.
LEMMA AllocStep ==
    ASSUME PagesInv, pc \in {"layer2", "layer3", "layer4", "layer5", "layer6", "gui"},
           mem_map.free_pages > 0, mem_map' = pmm_alloc_pages(mem_map, 1)
    PROVE  /\ PagesTypeOK'
           /\ \A p \in Page : /\ mem_map'.holders[p] <= 1
                              /\ mem_map'.holders[p] > 0 =>
                                    KernelEnd <= p /\ p < mem_map'.next_free_page
           /\ mem_map'.next_free_page = mem_map.next_free_page + 1
           /\ mem_map'.next_free_page + mem_map'.free_pages
                 = mem_map.next_free_page + mem_map.free_pages
  <1>0. /\ mem_map \in [next_free_page : Nat, free_pages : Nat, holders : [Page -> Nat]]
        /\ mem_map.next_free_page \in Nat /\ mem_map.free_pages \in Nat
        /\ mem_map.next_free_page >= KernelEnd
    BY DEF PagesInv, PagesTypeOK
  <1>1. /\ mem_map' \in [next_free_page : Nat, free_pages : Nat, holders : [Page -> Nat]]
        /\ mem_map'.next_free_page = mem_map.next_free_page + 1
        /\ mem_map'.free_pages = mem_map.free_pages - 1
        /\ \A p \in Page : mem_map'.holders[p] =
              IF mem_map.next_free_page <= p /\ p < mem_map.next_free_page + 1
              THEN mem_map.holders[p] + 1 ELSE mem_map.holders[p]
    BY <1>0, AllocFields
  <1>2. ASSUME NEW p \in Page
        PROVE  /\ mem_map'.holders[p] <= 1
               /\ mem_map'.holders[p] > 0 => KernelEnd <= p /\ p < mem_map'.next_free_page
    <2>1. /\ p \in Nat /\ mem_map.holders[p] \in Nat /\ mem_map.holders[p] <= 1
          /\ mem_map.holders[p] > 0 => KernelEnd <= p /\ p < mem_map.next_free_page
      BY <1>0, PagesAssumption DEF PagesInv, Page
    <2> QED
      BY <1>0, <1>1, <2>1, PagesAssumption
  <1> QED
    BY <1>0, <1>1, <1>2, PagesAssumption DEF PagesTypeOK

\* A page that is freed stays out of use: whoever frees it, and however often,
\* the next free page stays where it is.
LEMMA FreeStep ==
    ASSUME PagesInv, pc' = pc, pc \in {"layer3", "layer4", "layer5", "layer6", "gui"},
           NEW p \in Page, kernel_stack_free(p)
    PROVE  PagesInv'
  <1>0. mem_map \in [next_free_page : Nat, free_pages : Nat, holders : [Page -> Nat]]
    BY DEF PagesInv, PagesTypeOK
  <1>1. CASE mem_map.holders[p] > 0 /\ mem_map' = give_back(mem_map, p)
    <2>0. p < mem_map.next_free_page
      BY <1>1 DEF PagesInv
    <2>1. /\ mem_map' \in [next_free_page : Nat, free_pages : Nat, holders : [Page -> Nat]]
          /\ mem_map'.next_free_page = mem_map.next_free_page
          /\ mem_map'.free_pages = mem_map.free_pages
          /\ \A q \in Page : mem_map'.holders[q] =
                IF q = p THEN mem_map.holders[q] - 1 ELSE mem_map.holders[q]
      BY <1>0, <1>1, <2>0, GiveBackFields
    <2>2. ASSUME NEW q \in Page
          PROVE  /\ mem_map'.holders[q] <= 1
                 /\ mem_map'.holders[q] > 0 => KernelEnd <= q /\ q < mem_map'.next_free_page
      <3>1. /\ mem_map.holders[q] \in Nat /\ mem_map.holders[q] <= 1
            /\ mem_map.holders[q] > 0 => KernelEnd <= q /\ q < mem_map.next_free_page
        BY <1>0 DEF PagesInv
      <3> QED
        BY <2>1, <3>1
    <2> QED
      BY <2>1, <2>2 DEF PagesInv, PagesTypeOK
  <1>2. CASE mem_map' = pmm_free_page(mem_map, p)
    <2>1. /\ mem_map' \in [next_free_page : Nat, free_pages : Nat, holders : [Page -> Nat]]
          /\ mem_map'.next_free_page = mem_map.next_free_page
          /\ mem_map'.holders = mem_map.holders
      BY <1>0, <1>2, FreeFields
    <2> QED
      BY <2>1 DEF PagesInv, PagesTypeOK
  <1> QED
    BY <1>1, <1>2 DEF kernel_stack_free

\* The allocator's own test takes three pages and gives them back.
LEMMA TestStep ==
    ASSUME PagesInv, pc = "tests", mem_map' = test_memory_allocator(mem_map)
    PROVE  /\ PagesTypeOK'
           /\ mem_map'.next_free_page = mem_map.next_free_page + 3
           /\ \A p \in Page : mem_map'.holders[p] = mem_map.holders[p]
  <1> DEFINE MemMap == [next_free_page : Nat, free_pages : Nat, holders : [Page -> Nat]]
             f == mem_map.next_free_page
             m1 == pmm_alloc_pages(mem_map, 3)
             m2 == give_back(m1, f)
             m3 == give_back(m2, f + 1)
             m4 == give_back(m3, f + 2)
  <1>0. /\ mem_map \in MemMap /\ f = KernelEnd + 1 /\ f \in Nat
        /\ f + mem_map.free_pages = KernelEnd + TotalPages
        /\ mem_map.free_pages \in Nat /\ 3 <= mem_map.free_pages
    BY PagesAssumption DEF PagesInv, PagesTypeOK
  <1>1. f \in Page /\ f + 1 \in Page /\ f + 2 \in Page
    BY <1>0, PagesAssumption DEF Page
  <1>2. \A p \in Page : p \in Nat /\ mem_map.holders[p] \in Nat
    BY <1>0, PagesAssumption DEF Page
  <1>3. /\ m1 \in MemMap /\ m1.next_free_page = f + 3
        /\ m1.free_pages = mem_map.free_pages - 3
        /\ \A p \in Page : m1.holders[p] =
              IF f <= p /\ p < f + 3 THEN mem_map.holders[p] + 1 ELSE mem_map.holders[p]
    BY <1>0, AllocFields
  <1> HIDE DEF m1
  <1>4. /\ m2 \in MemMap /\ m2.next_free_page = f + 3 /\ m2.free_pages = m1.free_pages
        /\ \A p \in Page : m2.holders[p] = IF p = f THEN m1.holders[p] - 1 ELSE m1.holders[p]
    <2>1. m1.holders[f] > 0 /\ f < m1.next_free_page
      BY <1>0, <1>1, <1>2, <1>3
    <2> QED
      BY <1>1, <1>3, <2>1, GiveBackFields
  <1> HIDE DEF m2
  <1>5. /\ m3 \in MemMap /\ m3.next_free_page = f + 3 /\ m3.free_pages = m1.free_pages
        /\ \A p \in Page : m3.holders[p] = IF p = f + 1 THEN m2.holders[p] - 1 ELSE m2.holders[p]
    <2>1. m2.holders[f + 1] > 0 /\ f + 1 < m2.next_free_page
      BY <1>0, <1>1, <1>2, <1>3, <1>4
    <2> QED
      BY <1>1, <1>4, <2>1, GiveBackFields
  <1> HIDE DEF m3
  <1>6. /\ m4 \in MemMap /\ m4.next_free_page = f + 3 /\ m4.free_pages = m1.free_pages
        /\ \A p \in Page : m4.holders[p] = IF p = f + 2 THEN m3.holders[p] - 1 ELSE m3.holders[p]
    <2>1. m3.holders[f + 2] > 0 /\ f + 2 < m3.next_free_page
      BY <1>0, <1>1, <1>2, <1>3, <1>4, <1>5
    <2> QED
      BY <1>1, <1>5, <2>1, GiveBackFields
  <1>7. mem_map' = m4
    BY DEF test_memory_allocator, m1, m2, m3
  <1> HIDE DEF m4
  <1>8. ASSUME NEW p \in Page PROVE mem_map'.holders[p] = mem_map.holders[p]
    BY <1>0, <1>2, <1>3, <1>4, <1>5, <1>6, <1>7
  <1> QED
    BY <1>0, <1>3, <1>6, <1>7, <1>8 DEF PagesTypeOK

LEMMA PagesInductive ==
    ASSUME PagesInv, [Next]_vars
    PROVE  PagesInv'
  <1> USE DEF PC
  <1>1. CASE start
    <2>1. mem_map' = mem_map /\ pc = "start" /\ pc' \in {"memory", "halt"}
      BY <1>1 DEF start
    <2> QED
      BY <2>1 DEF PagesInv, PagesTypeOK
  <1>2. CASE memory
    <2>1. mem_map' = memory_init /\ pc' = "fb"
      BY <1>2 DEF memory, At
    <2>2. /\ mem_map'.next_free_page = KernelEnd /\ mem_map'.free_pages = TotalPages
          /\ \A p \in Page : mem_map'.holders[p] = 0
          /\ PagesTypeOK'
      BY <2>1, PagesAssumption DEF memory_init, PagesTypeOK
    <2> QED
      BY <2>1, <2>2, PagesAssumption DEF PagesInv
  <1>3. CASE framebuffer \/ idt_init \/ pic_init \/ acpi_init \/ acpi_madt
    <2>1. /\ mem_map' = mem_map
          /\ pc \in {"fb", "idt", "pic", "acpi", "madt"}
          /\ pc' \in {"idt", "pic", "acpi", "madt", "layer2"}
      BY <1>3 DEF framebuffer, idt_init, pic_init, acpi_init, acpi_madt, At, Quiet
    <2> QED
      BY <2>1 DEF PagesInv, PagesTypeOK
  <1>4. CASE layer2_init
    <2>1. pc = "layer2" /\ pc' = "tests" /\ mem_map' = pmm_alloc_pages(mem_map, 1)
      BY <1>4 DEF layer2_init, At
    <2>2. mem_map.next_free_page = KernelEnd /\ mem_map.free_pages > 0
      BY <2>1, PagesAssumption DEF PagesInv, PagesTypeOK
    <2> QED
      BY <2>1, <2>2, AllocStep, PagesAssumption DEF PagesInv
  <1>5. CASE tests
    <2>1. pc = "tests" /\ pc' = "layer3" /\ mem_map' = test_memory_allocator(mem_map)
      BY <1>5 DEF tests, At
    <2>2. /\ PagesTypeOK'
          /\ mem_map'.next_free_page = mem_map.next_free_page + 3
          /\ \A p \in Page : mem_map'.holders[p] = mem_map.holders[p]
      BY <2>1, TestStep
    <2>3. mem_map.next_free_page = KernelEnd + 1
      BY <2>1 DEF PagesInv
    <2>4. ASSUME NEW p \in Page
          PROVE  /\ mem_map'.holders[p] <= 1
                 /\ mem_map'.holders[p] > 0 => KernelEnd <= p /\ p < mem_map'.next_free_page
      <3>1. /\ p \in Nat /\ mem_map.holders[p] <= 1
            /\ mem_map.holders[p] > 0 => KernelEnd <= p /\ p < mem_map.next_free_page
        BY PagesAssumption DEF PagesInv, Page
      <3> QED
        BY <2>2, <2>3, <3>1, PagesAssumption
    <2> QED
      BY <2>1, <2>2, <2>3, <2>4, PagesAssumption DEF PagesInv
  <1>6. CASE layer3_init \/ layer4_init \/ layer5_init \/ layer6_init \/ layer7_init \/ check
    <2>1. /\ mem_map' = mem_map
          /\ pc \in {"layer3", "layer4", "layer5", "layer6", "layer7", "check"}
          /\ pc' \in {"layer4", "layer5", "layer6", "layer7", "check", "gui", "halt"}
      BY <1>6 DEF layer3_init, layer4_init, layer5_init, layer6_init, layer7_init, check, At
    <2> QED
      BY <2>1 DEF PagesInv, PagesTypeOK
  <1>7. CASE threads
    <2>1. CASE kernel_stack_alloc
      <3>1. pc' = pc /\ pc \in {"layer3", "layer4", "layer5", "layer6", "gui"}
        BY <1>7 DEF threads
      <3> QED
        BY <2>1, <3>1, AllocStep, PagesAssumption
           DEF kernel_stack_alloc, PagesInv, PagesTypeOK
    <2>2. CASE \E p \in Page : kernel_stack_free(p)
      BY <1>7, <2>2, FreeStep DEF threads
    <2> QED
      BY <1>7, <2>1, <2>2 DEF threads
  <1>8. CASE UNCHANGED vars
    BY <1>8 DEF vars, PagesInv, PagesTypeOK
  <1> QED
    BY <1>1, <1>2, <1>3, <1>4, <1>5, <1>6, <1>7, <1>8 DEF Next, kernel_main

LEMMA PagesInit == Init => PagesInv
  <1> SUFFICES ASSUME Init PROVE PagesInv
    OBVIOUS
  <1>1. /\ mem_map = [next_free_page |-> 0, free_pages |-> 0, holders |-> [p \in Page |-> 0]]
        /\ pc = "start"
    BY DEF Init, memory_init
  <1> QED
    BY <1>1 DEF PagesInv, PagesTypeOK, PC

\* No page at or above next_free_page is held, and no page twice: what
\* pmm_alloc_page and the stacks keep true.
THEOREM PagesInvariance == Spec => []PagesInv
  BY PagesInit, PagesInductive, PTL DEF Spec

\* However threads are created and end, whatever is freed, in whatever order,
\* twice or by somebody who does not hold it: no page is handed out while a
\* caller holds it, none of the kernel image ever is, and none that the heap
\* uses before next_free_page has come to the heap.
THEOREM PagesAreHeldOnce == Spec => []PagesHeldOnce
  <1>1. PagesInv => PagesHeldOnce
    <2> SUFFICES ASSUME PagesInv, NEW p \in Page
                 PROVE  /\ mem_map.holders[p] <= IF p < KernelEnd THEN 0 ELSE 1
                        /\ HeapUses(p) /\ mem_map.holders[p] > 0 => mem_map.next_free_page > HeapStart
      BY DEF PagesHeldOnce
    <2>1. /\ p \in Nat /\ mem_map.holders[p] \in Nat /\ mem_map.holders[p] <= 1
          /\ mem_map.holders[p] > 0 => KernelEnd <= p /\ p < mem_map.next_free_page
          /\ mem_map.next_free_page \in Nat
      BY PagesAssumption DEF PagesInv, PagesTypeOK, Page
    <2>2. HeapUses(p) => HeapStart <= p
      BY <2>1, PagesAssumption DEF HeapUses, HeapRegion
    <2> QED
      BY <2>1, <2>2, PagesAssumption
  <1> QED
    BY <1>1, PagesInvariance, PTL

-----------------------------------------------------------------------------
\* The parts that may be used before they are set up.
Excused == {"irq_manager", "app_registry"}

\* Set-up calls whose needs are met, by what is up already or by a call
\* before, leave no new part used too early.
LEMMA SetUpInOrder ==
    ASSUME NEW calls, SetUp(calls), early \subseteq Excused,
           \A k \in DOMAIN calls : \A x \in calls[k].uses :
              x \in up \/ x \in Excused \/ \E j \in 1 .. k - 1 : x = calls[j].part
    PROVE  /\ early' \subseteq Excused
           /\ up' = up \cup {calls[k].part : k \in DOMAIN calls}
  BY DEF SetUp

\* A list with one more call behind it.
LEMMA AppendCall ==
    ASSUME NEW S, NEW s \in Seq(S), NEW e \in S
    PROVE  /\ s \o <<e>> \in Seq(S) /\ Len(s \o <<e>>) = Len(s) + 1
           /\ \A j \in 1 .. Len(s) : (s \o <<e>>)[j] = s[j]
           /\ (s \o <<e>>)[Len(s) + 1] = e
  OBVIOUS

LEMMA Layer2InOrder ==
    ASSUME early \subseteq Excused, {"pages", "idt"} \subseteq up,
           SetUp(<<call("heap", {"pages"}), call("process", {}), call("scheduler", {}),
                   call("timer", {"idt"}), call("syscall", {})>>)
    PROVE  /\ early' \subseteq Excused
           /\ up' = up \cup {"heap", "process", "scheduler", "timer", "syscall"}
  <1> DEFINE calls == <<call("heap", {"pages"}), call("process", {}), call("scheduler", {}),
                        call("timer", {"idt"}), call("syscall", {})>>
  <1>1. /\ DOMAIN calls = 1 .. 5
        /\ calls[1] = call("heap", {"pages"}) /\ calls[2] = call("process", {})
        /\ calls[3] = call("scheduler", {}) /\ calls[4] = call("timer", {"idt"})
        /\ calls[5] = call("syscall", {})
    OBVIOUS
  <1>2. SetUp(calls)
    OBVIOUS
  <1> HIDE DEF calls
  <1>3. \A k \in 1 .. 5 : k = 1 \/ k = 2 \/ k = 3 \/ k = 4 \/ k = 5
    OBVIOUS
  <1>4. \A k \in DOMAIN calls : \A x \in calls[k].uses :
           x \in up \/ x \in Excused \/ \E j \in 1 .. k - 1 : x = calls[j].part
    BY <1>1, <1>3 DEF call
  <1>5. {calls[k].part : k \in DOMAIN calls} = {"heap", "process", "scheduler", "timer", "syscall"}
    BY <1>1, <1>3 DEF call
  <1>6. early' \subseteq Excused /\ up' = up \cup {calls[k].part : k \in DOMAIN calls}
    BY <1>2, <1>4, SetUpInOrder
  <1> QED
    BY <1>5, <1>6

\* The drivers: the network card, if there is one, uses the interrupt table
\* before it is set up.
LEMMA Layer3InOrder ==
    ASSUME early \subseteq Excused, drivers_init
    PROVE  /\ early' \subseteq Excused
           /\ up \subseteq up' /\ {"pci", "kbd", "mouse", "ata", "irq_manager"} \subseteq up'
           /\ up' \subseteq up \cup {"pci", "kbd", "mouse", "ata", "nic", "irq_manager"}
  <1> DEFINE nic == call("nic", {"irq_manager"})
             irq == call("irq_manager", {"kbd", "mouse"})
             S == {call("pci", {}), call("kbd", {}), call("mouse", {}), call("ata", {}), nic, irq}
             four == <<call("pci", {}), call("kbd", {}), call("mouse", {}), call("ata", {})>>
             five == four \o (IF rtl8139_present THEN <<nic>> ELSE <<>>)
             calls == five \o <<irq>>
  <1>1. SetUp(calls)
    BY DEF drivers_init
  <1>2. /\ four \in Seq(S) /\ Len(four) = 4
        /\ four[1] = call("pci", {}) /\ four[2] = call("kbd", {})
        /\ four[3] = call("mouse", {}) /\ four[4] = call("ata", {})
    OBVIOUS
  <1>3. nic \in S /\ irq \in S
    OBVIOUS
  <1> HIDE DEF four, S
  <1>4. /\ five \in Seq(S) /\ Len(five) \in {4, 5}
        /\ five[1] = call("pci", {}) /\ five[2] = call("kbd", {})
        /\ five[3] = call("mouse", {}) /\ five[4] = call("ata", {})
        /\ Len(five) = 5 => five[5] = nic
    <2>1. CASE rtl8139_present
      <3>1. five = four \o <<nic>>
        BY <2>1
      <3> HIDE DEF five, nic
      <3>2. /\ four \o <<nic>> \in Seq(S) /\ Len(four \o <<nic>>) = Len(four) + 1
            /\ \A j \in 1 .. Len(four) : (four \o <<nic>>)[j] = four[j]
            /\ (four \o <<nic>>)[Len(four) + 1] = nic
        BY <1>2, <1>3, AppendCall
      <3> QED
        BY <1>2, <3>1, <3>2
    <2>2. CASE ~rtl8139_present
      <3>1. five = four
        BY <1>2, <2>2
      <3> HIDE DEF five
      <3> QED
        BY <1>2, <3>1
    <2> QED
      BY <2>1, <2>2
  <1> HIDE DEF five, nic, irq
  <1>5. /\ calls \in Seq(S) /\ Len(calls) = Len(five) + 1
        /\ calls[1] = call("pci", {}) /\ calls[2] = call("kbd", {})
        /\ calls[3] = call("mouse", {}) /\ calls[4] = call("ata", {})
        /\ Len(calls) = 6 => calls[5] = nic /\ calls[6] = irq
        /\ Len(calls) = 5 => calls[5] = irq
    <2>1. /\ calls \in Seq(S) /\ Len(calls) = Len(five) + 1
          /\ \A j \in 1 .. Len(five) : calls[j] = five[j]
          /\ calls[Len(five) + 1] = irq
      BY <1>3, <1>4, AppendCall
    <2> HIDE DEF calls
    <2> QED
      BY <1>4, <2>1
  <1> HIDE DEF calls
  <1>6. DOMAIN calls = 1 .. Len(calls) /\ Len(calls) \in {5, 6}
    <2>1. DOMAIN calls = 1 .. Len(calls)
      BY <1>5
    <2> DEFINE m == Len(five)
               n == Len(calls)
    <2>2. m \in {4, 5} /\ n = m + 1
      BY <1>4, <1>5
    <2> HIDE DEF m, n
    <2>3. n \in {5, 6}
      BY <2>2
    <2>4. Len(calls) \in {5, 6}
      BY <2>3 DEF n
    <2> QED
      BY <2>1, <2>4
  <1>7. /\ calls[2].part = "kbd" /\ calls[3].part = "mouse"
        /\ \A k \in 1 .. 4 : calls[k].uses = {}
        /\ \A k \in 1 .. 4 : calls[k].part \in {"pci", "kbd", "mouse", "ata"}
    <2>1. \A k \in 1 .. 4 : k = 1 \/ k = 2 \/ k = 3 \/ k = 4
      OBVIOUS
    <2> QED
      BY <1>5, <2>1 DEF call
  <1>8. /\ irq.uses = {"kbd", "mouse"} /\ irq.part = "irq_manager"
        /\ nic.uses = {"irq_manager"} /\ nic.part = "nic"
    BY DEF irq, nic, call
  <1>9. \A k \in DOMAIN calls : k \in 1 .. 4 \/ k = 5 \/ k = 6
    BY <1>6
  <1>10. ASSUME NEW k \in DOMAIN calls
         PROVE  /\ \A x \in calls[k].uses :
                      x \in up \/ x \in Excused \/ \E j \in 1 .. k - 1 : x = calls[j].part
                /\ calls[k].part \in {"pci", "kbd", "mouse", "ata", "nic", "irq_manager"}
    <2>1. CASE k \in 1 .. 4
      BY <1>7, <2>1
    <2>2. CASE calls[k] = nic
      BY <1>8, <2>2 DEF Excused
    <2>3. CASE k \in {5, 6} /\ calls[k] = irq
      BY <1>7, <1>8, <2>3
    <2> QED
      BY <1>5, <1>6, <1>9, <2>1, <2>2, <2>3
  <1>11. \E k \in DOMAIN calls : calls[k].part = "irq_manager"
    BY <1>5, <1>6, <1>8
  <1>12. early' \subseteq Excused /\ up' = up \cup {calls[k].part : k \in DOMAIN calls}
    <2>1. \A k \in DOMAIN calls : \A x \in calls[k].uses :
             x \in up \/ x \in Excused \/ \E j \in 1 .. k - 1 : x = calls[j].part
      BY <1>10
    <2> QED
      BY <1>1, <2>1, SetUpInOrder
  <1>13. /\ calls[1].part = "pci" /\ calls[4].part = "ata"
         /\ 1 \in DOMAIN calls /\ 2 \in DOMAIN calls /\ 3 \in DOMAIN calls /\ 4 \in DOMAIN calls
    BY <1>5, <1>6 DEF call
  <1>14. {"pci", "kbd", "mouse", "ata", "irq_manager"} \subseteq up'
    BY <1>7, <1>11, <1>12, <1>13
  <1> QED
    BY <1>10, <1>12, <1>14

LEMMA Layer4InOrder ==
    ASSUME early \subseteq Excused, "heap" \in up, SetUp(layer4)
    PROVE  /\ early' \subseteq Excused
           /\ up' = up \cup {"vfs", "ramdisk", "ipc", "security", "fat32", "net", "mount",
                             "files", "services"}
  <1>1. /\ DOMAIN layer4 = 1 .. 9
        /\ layer4[1] = call("vfs", {"heap"}) /\ layer4[2] = call("ramdisk", {"heap"})
        /\ layer4[3] = call("ipc", {}) /\ layer4[4] = call("security", {})
        /\ layer4[5] = call("fat32", {}) /\ layer4[6] = call("net", {})
        /\ layer4[7] = call("mount", {"vfs", "ramdisk"})
        /\ layer4[8] = call("files", {"vfs", "ramdisk", "heap"})
        /\ layer4[9] = call("services", {"ipc"})
    BY DEF layer4
  <1>2. \A k \in 1 .. 9 : \/ k = 1 \/ k = 2 \/ k = 3 \/ k = 4 \/ k = 5
                          \/ k = 6 \/ k = 7 \/ k = 8 \/ k = 9
    OBVIOUS
  <1>3. {layer4[k].part : k \in DOMAIN layer4}
           = {"vfs", "ramdisk", "ipc", "security", "fat32", "net", "mount", "files", "services"}
    BY <1>1, <1>2 DEF call
  <1>4. \A k \in DOMAIN layer4 : \A x \in layer4[k].uses :
           x \in up \/ x \in Excused \/ \E j \in 1 .. k - 1 : x = layer4[j].part
    <2> TAKE k \in DOMAIN layer4
    <2> TAKE x \in layer4[k].uses
    <2>1. /\ layer4[1].part = "vfs" /\ layer4[2].part = "ramdisk" /\ layer4[3].part = "ipc"
      BY <1>1 DEF call
    <2>2. \/ x = "heap"
          \/ k \in {7, 8} /\ x \in {"vfs", "ramdisk"}
          \/ k = 9 /\ x = "ipc"
      BY <1>1, <1>2 DEF call
    <2> QED
      BY <2>1, <2>2
  <1>5. early' \subseteq Excused /\ up' = up \cup {layer4[k].part : k \in DOMAIN layer4}
    BY <1>4, SetUpInOrder
  <1> QED
    BY <1>3, <1>5

LEMMA Layer6InOrder ==
    ASSUME early \subseteq Excused, "heap" \in up,
           SetUp(<<call("gfx", {"heap"}), call("wm", {}), call("event_loop", {}),
                   call("app_registry", {}), call("windows", {"wm", "gfx"})>>)
    PROVE  /\ early' \subseteq Excused
           /\ up' = up \cup {"gfx", "wm", "event_loop", "app_registry", "windows"}
  <1> DEFINE calls == <<call("gfx", {"heap"}), call("wm", {}), call("event_loop", {}),
                        call("app_registry", {}), call("windows", {"wm", "gfx"})>>
  <1>1. /\ DOMAIN calls = 1 .. 5
        /\ calls[1] = call("gfx", {"heap"}) /\ calls[2] = call("wm", {})
        /\ calls[3] = call("event_loop", {}) /\ calls[4] = call("app_registry", {})
        /\ calls[5] = call("windows", {"wm", "gfx"})
    OBVIOUS
  <1>2. SetUp(calls)
    OBVIOUS
  <1> HIDE DEF calls
  <1>3. \A k \in 1 .. 5 : k = 1 \/ k = 2 \/ k = 3 \/ k = 4 \/ k = 5
    OBVIOUS
  <1>4. \A k \in DOMAIN calls : \A x \in calls[k].uses :
           x \in up \/ x \in Excused \/ \E j \in 1 .. k - 1 : x = calls[j].part
    <2> TAKE k \in DOMAIN calls
    <2> TAKE x \in calls[k].uses
    <2>1. /\ calls[1].part = "gfx" /\ calls[2].part = "wm"
          /\ calls[1].uses = {"heap"} /\ calls[2].uses = {} /\ calls[3].uses = {}
          /\ calls[4].uses = {} /\ calls[5].uses = {"wm", "gfx"}
      BY <1>1 DEF call
    <2>2. x = "heap" \/ (k = 5 /\ x \in {"wm", "gfx"})
      <3>1. k = 1 \/ k = 2 \/ k = 3 \/ k = 4 \/ k = 5
        BY <1>1, <1>3
      <3> QED
        BY <2>1, <3>1
    <2> QED
      BY <2>1, <2>2
  <1>5. {calls[k].part : k \in DOMAIN calls}
           = {"gfx", "wm", "event_loop", "app_registry", "windows"}
    BY <1>1, <1>3 DEF call
  <1>6. early' \subseteq Excused /\ up' = up \cup {calls[k].part : k \in DOMAIN calls}
    BY <1>2, <1>4, SetUpInOrder
  <1> QED
    BY <1>5, <1>6

\* The other calls: one part at a time, or two.
LEMMA OneInOrder ==
    ASSUME NEW part, NEW uses, early \subseteq Excused, uses \subseteq up,
           SetUp(<<call(part, uses)>>)
    PROVE  early' \subseteq Excused /\ up' = up \cup {part}
  <1> DEFINE calls == <<call(part, uses)>>
  <1>1. DOMAIN calls = {1} /\ calls[1].part = part /\ calls[1].uses = uses /\ SetUp(calls)
    BY DEF call
  <1> HIDE DEF calls
  <1>2. \A k \in DOMAIN calls : \A x \in calls[k].uses :
           x \in up \/ x \in Excused \/ \E j \in 1 .. k - 1 : x = calls[j].part
    BY <1>1
  <1> QED
    BY <1>1, <1>2, SetUpInOrder

LEMMA TwoInOrder ==
    ASSUME NEW p, NEW q, NEW uses, NEW also, early \subseteq Excused,
           uses \subseteq up, also \subseteq up \cup {p} \cup Excused,
           SetUp(<<call(p, uses), call(q, also)>>)
    PROVE  early' \subseteq Excused /\ up' = up \cup {p, q}
  <1> DEFINE calls == <<call(p, uses), call(q, also)>>
  <1>1. /\ DOMAIN calls = {1, 2} /\ SetUp(calls)
        /\ calls[1].part = p /\ calls[1].uses = uses
        /\ calls[2].part = q /\ calls[2].uses = also
    BY DEF call
  <1> HIDE DEF calls
  <1>2. \A k \in DOMAIN calls : \A x \in calls[k].uses :
           x \in up \/ x \in Excused \/ \E j \in 1 .. k - 1 : x = calls[j].part
    BY <1>1
  <1> QED
    BY <1>1, <1>2, SetUpInOrder

\* The handlers of the keyboard and the mouse are put in when the table has
\* been cleared.
LEMMA TableStep ==
    ASSUME irq_handlers \in [IRQ -> {NULL, "kbd_handler", "mouse_handler", "rtl8139_irq_handler"}],
           drivers_init
    PROVE  /\ irq_handlers' \in [IRQ -> {NULL, "kbd_handler", "mouse_handler",
                                         "rtl8139_irq_handler"}]
           /\ irq_handlers'[IRQ_KEYBOARD] = "kbd_handler"
           /\ irq_handlers'[IRQ_MOUSE] = "mouse_handler"
  <1>1. PICK table \in [IRQ -> {NULL, "kbd_handler", "mouse_handler", "rtl8139_irq_handler"}] :
           irq_handlers' = irq_manager_init(table)
    BY DEF drivers_init, irq_register_handler, IRQ, IRQ_NETWORK
  <1> QED
    BY <1>1 DEF irq_manager_init, irq_register_handler, IRQ, IRQ_KEYBOARD, IRQ_MOUSE

\* Layer 5, with its tests passed or not.
LEMMA Layer5InOrder ==
    ASSUME early \subseteq Excused, {"heap", "vfs", "ramdisk", "timer"} \subseteq up, layer5_init
    PROVE  early' \subseteq Excused /\ up' \in {up \cup {"compat"}, up \cup {"compat", "compat_tests"}}
  <1> DEFINE compat == call("compat", {"heap", "vfs", "ramdisk", "timer"})
  <1>1. CASE SetUp(<<compat>>)
    BY <1>1, OneInOrder
  <1>2. CASE SetUp(<<compat, call("compat_tests", {"compat"})>>)
    BY <1>2, TwoInOrder
  <1> QED
    BY <1>1, <1>2 DEF layer5_init

LEMMA OrderInductive ==
    ASSUME OrderInv, [Next]_vars
    PROVE  OrderInv'
  <1> USE DEF PC
  <1>0. early \subseteq Excused
    BY DEF OrderInv, InitOrder, Excused
  <1>1. CASE start
    <2>1. up' = up \cup {"serial", "kprintf"} /\ early' \subseteq Excused
      BY <1>0, <1>1, TwoInOrder DEF start
    <2>2. pc = "start" /\ pc' \in {"memory", "halt"} /\ irq_handlers' = irq_handlers
      BY <1>1 DEF start
    <2> QED
      BY <2>1, <2>2 DEF OrderInv, InitOrder, Excused
  <1>2. CASE memory
    <2>1. up' = up \cup {"pages"} /\ early' \subseteq Excused
      BY <1>0, <1>2, OneInOrder DEF memory
    <2>2. pc = "memory" /\ pc' = "fb" /\ irq_handlers' = irq_handlers
      BY <1>2 DEF memory, At
    <2> QED
      BY <2>1, <2>2 DEF OrderInv, InitOrder, Excused
  <1>3. CASE framebuffer
    <2>1. up' \in {up, up \cup {"fb"}} /\ early' \subseteq Excused
      <3>1. CASE SetUp(<<call("fb", {})>>)
        BY <1>0, <3>1, OneInOrder
      <3>2. CASE SetUp(<<>>)
        BY <1>0, <3>2 DEF SetUp
      <3> QED
        BY <1>3, <3>1, <3>2 DEF framebuffer
    <2>2. pc = "fb" /\ pc' = "idt" /\ irq_handlers' = irq_handlers
      BY <1>3 DEF framebuffer, At
    <2> QED
      BY <2>1, <2>2 DEF OrderInv, InitOrder, Excused
  <1>4. CASE idt_init
    <2>1. up' = up \cup {"idt"} /\ early' \subseteq Excused
      BY <1>0, <1>4, OneInOrder DEF idt_init
    <2>2. pc = "idt" /\ pc' = "pic" /\ irq_handlers' = irq_handlers
      BY <1>4 DEF idt_init, At
    <2> QED
      BY <2>1, <2>2 DEF OrderInv, InitOrder, Excused
  <1>5. CASE pic_init
    <2>1. up' = up \cup {"pic"} /\ early' \subseteq Excused
      BY <1>0, <1>5, OneInOrder DEF pic_init
    <2>2. pc = "pic" /\ pc' = "acpi" /\ irq_handlers' = irq_handlers
      BY <1>5 DEF pic_init, At
    <2> QED
      BY <2>1, <2>2 DEF OrderInv, InitOrder, Excused
  <1>6. CASE acpi_init \/ acpi_madt
    <2>1. /\ up' = up /\ early' = early /\ irq_handlers' = irq_handlers
          /\ pc \in {"acpi", "madt"} /\ pc' \in {"madt", "layer2"}
      BY <1>6 DEF acpi_init, acpi_madt, Quiet
    <2> QED
      BY <2>1 DEF OrderInv, InitOrder
  <1>7. CASE layer2_init
    <2>1. pc = "layer2" /\ pc' = "tests" /\ irq_handlers' = irq_handlers
      BY <1>7 DEF layer2_init, At
    <2>2. {"pages", "idt"} \subseteq up
      BY <2>1 DEF OrderInv
    <2>3. /\ up' = up \cup {"heap", "process", "scheduler", "timer", "syscall"}
          /\ early' \subseteq Excused
      BY <1>0, <1>7, <2>2, Layer2InOrder DEF layer2_init
    <2> QED
      BY <2>1, <2>2, <2>3 DEF OrderInv, InitOrder, Excused
  <1>8. CASE tests
    <2>1. /\ up' = up /\ early' = early /\ irq_handlers' = irq_handlers
          /\ pc = "tests" /\ pc' = "layer3"
      BY <1>8 DEF tests, At
    <2> QED
      BY <2>1 DEF OrderInv, InitOrder
  <1>9. CASE layer3_init
    <2>1. pc = "layer3" /\ pc' = "layer4" /\ drivers_init
      BY <1>9 DEF layer3_init, At
    <2>2. /\ early' \subseteq Excused /\ up \subseteq up'
          /\ up' \subseteq up \cup {"pci", "kbd", "mouse", "ata", "nic", "irq_manager"}
      BY <1>0, <2>1, Layer3InOrder
    <2>3. /\ irq_handlers' \in [IRQ -> {NULL, "kbd_handler", "mouse_handler",
                                        "rtl8139_irq_handler"}]
          /\ irq_handlers'[IRQ_KEYBOARD] = "kbd_handler"
          /\ irq_handlers'[IRQ_MOUSE] = "mouse_handler"
      BY <2>1, TableStep DEF OrderInv
    <2> QED
      BY <2>1, <2>2, <2>3 DEF OrderInv, InitOrder, Excused
  <1>10. CASE layer4_init
    <2>1. pc = "layer4" /\ pc' = "layer5" /\ irq_handlers' = irq_handlers
      BY <1>10 DEF layer4_init, At
    <2>2. /\ early' \subseteq Excused
          /\ up' = up \cup {"vfs", "ramdisk", "ipc", "security", "fat32", "net", "mount",
                            "files", "services"}
      BY <1>0, <1>10, <2>1, Layer4InOrder DEF layer4_init, OrderInv
    <2> QED
      BY <2>1, <2>2 DEF OrderInv, InitOrder, Excused
  <1>11. CASE layer5_init
    <2>1. pc = "layer5" /\ pc' = "layer6" /\ irq_handlers' = irq_handlers
      BY <1>11 DEF layer5_init, At
    <2>2. {"heap", "vfs", "ramdisk", "timer"} \subseteq up
      BY <2>1 DEF OrderInv
    <2>3. up' \in {up \cup {"compat"}, up \cup {"compat", "compat_tests"}} /\ early' \subseteq Excused
      BY <1>0, <1>11, <2>2, Layer5InOrder
    <2> QED
      BY <2>1, <2>3 DEF OrderInv, InitOrder, Excused
  <1>12. CASE layer6_init
    <2>1. pc = "layer6" /\ irq_handlers' = irq_handlers /\ "heap" \in up
      BY <1>12 DEF layer6_init, OrderInv
    <2>2. CASE pc' = "gui"
      <3>1. /\ early' \subseteq Excused
            /\ up' = up \cup {"gfx", "wm", "event_loop", "app_registry", "windows"}
        BY <1>0, <1>12, <2>1, <2>2, Layer6InOrder DEF layer6_init
      <3> QED
        BY <2>1, <2>2, <3>1 DEF OrderInv, InitOrder, Excused
    <2>3. CASE pc' = "layer7" /\ up' = up /\ early' = early
      BY <2>1, <2>3 DEF OrderInv, InitOrder
    <2> QED
      BY <1>12, <2>2, <2>3 DEF layer6_init
  <1>13. CASE layer7_init
    <2>1. pc = "layer7" /\ pc' = "check" /\ irq_handlers' = irq_handlers
      BY <1>13 DEF layer7_init, At
    <2>2. {"vfs", "ramdisk"} \subseteq up /\ {"app_registry"} \subseteq Excused
      BY <2>1 DEF OrderInv, Excused
    <2>3. up' = up \cup {"apps", "selftest"} /\ early' \subseteq Excused
      BY <1>0, <1>13, <2>2, TwoInOrder DEF layer7_init
    <2> QED
      BY <2>1, <2>3 DEF OrderInv, InitOrder, Excused
  <1>14. CASE check
    <2>1. /\ up' = up /\ early' = early /\ irq_handlers' = irq_handlers
          /\ pc = "check" /\ pc' = "halt"
      BY <1>14 DEF check, At
    <2> QED
      BY <2>1 DEF OrderInv, InitOrder
  <1>15. CASE threads \/ UNCHANGED vars
    <2>1. up' = up /\ early' = early /\ irq_handlers' = irq_handlers /\ pc' = pc
      BY <1>15 DEF threads, vars
    <2> QED
      BY <2>1 DEF OrderInv, InitOrder
  <1> QED
    BY <1>1, <1>2, <1>3, <1>4, <1>5, <1>6, <1>7, <1>8, <1>9, <1>10, <1>11, <1>12, <1>13,
       <1>14, <1>15 DEF Next, kernel_main

\* At each place of kernel_main the parts that are up are those whose set-up
\* lies behind it.
THEOREM OrderInvariance == Spec => []OrderInv
  <1>1. Init => OrderInv
    BY DEF Init, OrderInv, InitOrder, PC, IRQ
  <1> QED
    BY <1>1, OrderInductive, PTL DEF Spec

\* On any machine, and after any failure, nothing is used before it is set up
\* but the interrupt table by the network card and the application list by
\* the tests of layer 7; the keyboard's and the mouse's handlers stay.
THEOREM BootIsInOrder == Spec => []InitOrder
  <1>1. OrderInv => InitOrder
    BY DEF OrderInv
  <1> QED
    BY <1>1, OrderInvariance, PTL

-----------------------------------------------------------------------------
\* A stage that is reported with its parts up, or as failed without them,
\* leaves the others right if they have no part that is new.
LEMMA StageStep ==
    ASSUME StagesTell, passed \in [Stages -> BOOLEAN], 0 .. 10 \subseteq Stages,
           NEW k \in 1 .. 10, NEW v \in BOOLEAN, passed' = [passed EXCEPT ![k] = v],
           machine' = machine, up \subseteq up',
           \A s \in 1 .. 10 : s # k => PartsOf(s) \cap up' \subseteq up,
           v => PartsOf(k) \subseteq up' \/ (k \in AlwaysPass /\ machine.magic),
           PartsOf(k) \subseteq up' => v
    PROVE  StagesTell'
  <1> SUFFICES ASSUME NEW s \in 1 .. 10
               PROVE  /\ PartsOf(s) \subseteq up' => passed'[s]
                      /\ passed'[s] => PartsOf(s) \subseteq up' \/ (s \in AlwaysPass /\ machine.magic)
    BY DEF StagesTell, PartsOf, AlwaysPass
  <1>1. s \in Stages /\ k \in Stages
    OBVIOUS
  <1>2. CASE s = k
    <2>1. passed'[s] = v
      BY <1>1, <1>2
    <2> QED
      BY <1>2, <2>1
  <1>3. CASE s # k
    <2>1. passed'[s] = passed[s]
      BY <1>1, <1>3
    <2>2. PartsOf(s) \subseteq up' => PartsOf(s) \subseteq up
      BY <1>3
    <2>3. /\ PartsOf(s) \subseteq up => passed[s]
          /\ passed[s] => PartsOf(s) \subseteq up \/ (s \in AlwaysPass /\ machine.magic)
      BY DEF StagesTell
    <2> QED
      BY <2>1, <2>2, <2>3
  <1> QED
    BY <1>2, <1>3

LEMMA StagePass ==
    ASSUME StagesTell, passed \in [Stages -> BOOLEAN], 0 .. 10 \subseteq Stages,
           NEW k \in 1 .. 10, passed' = [passed EXCEPT ![k] = TRUE],
           machine' = machine, up \subseteq up',
           \A s \in 1 .. 10 : s # k => PartsOf(s) \cap up' \subseteq up,
           PartsOf(k) \subseteq up' \/ (k \in AlwaysPass /\ machine.magic)
    PROVE  StagesTell'
  BY StageStep, Zenon

LEMMA StageFail ==
    ASSUME StagesTell, passed \in [Stages -> BOOLEAN], 0 .. 10 \subseteq Stages,
           NEW k \in 1 .. 10, passed' = [passed EXCEPT ![k] = FALSE],
           machine' = machine, up \subseteq up',
           \A s \in 1 .. 10 : s # k => PartsOf(s) \cap up' \subseteq up,
           ~(PartsOf(k) \subseteq up')
    PROVE  StagesTell'
  BY StageStep, Zenon

\* The parts of the stages, one by one.
LEMMA PartsAre ==
    /\ PartsOf(1) = {"pages"} /\ PartsOf(2) = {"fb"} /\ PartsOf(3) = {"idt"} /\ PartsOf(4) = {"pic"}
    /\ PartsOf(5) = {"heap", "process", "scheduler", "timer", "syscall"}
    /\ PartsOf(6) = {"pci", "kbd", "mouse", "ata", "irq_manager"}
    /\ PartsOf(7) = {"vfs", "ramdisk", "ipc", "security", "fat32", "net", "mount", "files", "services"}
    /\ PartsOf(8) = {"compat", "compat_tests"}
    /\ PartsOf(9) = {"gfx", "wm", "event_loop", "app_registry", "windows"}
    /\ PartsOf(10) = {"apps", "selftest", "app_registry"}
  BY DEF PartsOf

\* What the stages that always pass leave up; only those of AlwaysPass may
\* leave something out.
LEMMA PartsComeUp ==
    ASSUME OrderInv
    PROVE  /\ memory => up' = up \cup PartsOf(1)
           /\ framebuffer => up' \in {up, up \cup PartsOf(2)}
           /\ idt_init => up' = up \cup PartsOf(3)
           /\ pic_init => up' = up \cup PartsOf(4)
           /\ layer2_init => up' = up \cup PartsOf(5)
           /\ layer3_init => up' \in {up \cup PartsOf(6), up \cup PartsOf(6) \cup {"nic"}}
           /\ layer4_init => up' = up \cup PartsOf(7)
           /\ layer5_init => up' \in {up \cup {"compat"}, up \cup PartsOf(8)}
  <1>0. early \subseteq Excused
    BY DEF OrderInv, InitOrder, Excused
  <1>1. memory => up' = up \cup PartsOf(1)
    BY <1>0, OneInOrder, PartsAre DEF memory
  <1>2. framebuffer => up' \in {up, up \cup PartsOf(2)}
    <2>1. SetUp(<<call("fb", {})>>) => up' = up \cup {"fb"}
      BY <1>0, OneInOrder
    <2>2. SetUp(<<>>) => up' = up
      BY DEF SetUp
    <2> QED
      BY <2>1, <2>2, PartsAre DEF framebuffer
  <1>3. idt_init => up' = up \cup PartsOf(3)
    BY <1>0, OneInOrder, PartsAre DEF idt_init
  <1>4. pic_init => up' = up \cup PartsOf(4)
    BY <1>0, OneInOrder, PartsAre DEF pic_init
  <1>5. layer2_init => up' = up \cup PartsOf(5)
    <2>1. layer2_init => {"pages", "idt"} \subseteq up
      BY DEF layer2_init, At, OrderInv
    <2> QED
      BY <1>0, <2>1, Layer2InOrder, PartsAre DEF layer2_init
  <1>6. layer3_init => up' \in {up \cup PartsOf(6), up \cup PartsOf(6) \cup {"nic"}}
    BY <1>0, Layer3InOrder, PartsAre DEF layer3_init
  <1>7. layer4_init => up' = up \cup PartsOf(7)
    BY <1>0, Layer4InOrder, PartsAre DEF layer4_init, At, OrderInv
  <1>8. layer5_init => up' \in {up \cup {"compat"}, up \cup PartsOf(8)}
    <2>1. layer5_init => {"heap", "vfs", "ramdisk", "timer"} \subseteq up
      BY DEF layer5_init, At, OrderInv
    <2> QED
      BY <1>0, <2>1, Layer5InOrder, PartsAre
  <1> QED
    BY <1>1, <1>2, <1>3, <1>4, <1>5, <1>6, <1>7, <1>8

\* No stage has a part of another one, but for the desktop, which needs the
\* list of layer 6.
LEMMA PartsApart ==
    ASSUME NEW k \in 1 .. 8, NEW s \in 1 .. 10, s # k
    PROVE  PartsOf(s) \cap (PartsOf(k) \cup {"nic"}) = {}
  <1>1. k = 1 \/ k = 2 \/ k = 3 \/ k = 4 \/ k = 5 \/ k = 6 \/ k = 7 \/ k = 8
    OBVIOUS
  <1>2. s = 1 \/ s = 2 \/ s = 3 \/ s = 4 \/ s = 5 \/ s = 6 \/ s = 7 \/ s = 8 \/ s = 9 \/ s = 10
    OBVIOUS
  <1> QED
    BY <1>1, <1>2, PartsAre

\* Every stage that is reported keeps the screen and what happened together,
\* and only a failure sets has_failed.
LEMMA DiagInductive ==
    ASSUME DiagInv, OrderInv, [Next]_vars
    PROVE  DiagInv'
  <1> USE BootAssumption DEF PC
  <1>0. /\ {0, 1, 2, 3, 4, 5, 6, 7, 8, 9, 10} \subseteq Stages /\ 0 .. 10 \subseteq Stages
        /\ passed \in [Stages -> BOOLEAN] /\ has_failed \in BOOLEAN /\ message \in BOOLEAN
        /\ machine \in Machine /\ machine.magic \in BOOLEAN
        /\ pc \in PC
    BY DEF DiagInv
  <1>1. CASE start
    <2>1. /\ pc = "start" /\ machine' = machine
          /\ passed' = [passed EXCEPT ![0] = machine.magic]
          /\ has_failed' = (has_failed \/ ~machine.magic)
          /\ g_boot_state = "INIT" /\ g_boot_state' = g_boot_state /\ ~passed[10]
          /\ StagesTell
      BY <1>1 DEF start, boot_diag_report_stage, DiagInv
    <2>2. passed' \in [Stages -> BOOLEAN] /\ has_failed' \in BOOLEAN
      BY <1>0, <2>1
    <2>3. /\ passed'[0] = machine.magic /\ ~passed'[10]
          /\ \A s \in 1 .. 10 : passed'[s] = passed[s]
      BY <1>0, <2>1
    <2>4. StagesTell'
      <3>1. up' = up \cup {"serial", "kprintf"}
        BY <1>1, TwoInOrder DEF start, OrderInv, InitOrder, Excused
      <3>2. ASSUME NEW s \in 1 .. 10 PROVE PartsOf(s) \cap up' \subseteq up
        <4>1. s = 1 \/ s = 2 \/ s = 3 \/ s = 4 \/ s = 5 \/ s = 6 \/ s = 7 \/ s = 8 \/ s = 9 \/ s = 10
          OBVIOUS
        <4>2. "serial" \notin PartsOf(s) /\ "kprintf" \notin PartsOf(s)
          BY <4>1, PartsAre
        <4> QED
          BY <3>1, <4>2
      <3>3. \A s \in 1 .. 10 : PartsOf(s) \subseteq up' <=> PartsOf(s) \subseteq up
        BY <3>1, <3>2
      <3> QED
        BY <2>1, <2>3, <3>3 DEF StagesTell, PartsOf, AlwaysPass
    <2>5. CASE machine.magic /\ pc' = "memory" /\ message' = message
      BY <1>0, <2>1, <2>2, <2>3, <2>4, <2>5 DEF DiagInv, ScreenTells
    <2>6. CASE ~machine.magic /\ pc' = "halt" /\ message' = TRUE /\ boot_diag_screen
      <3>1. has_failed' /\ message' /\ screen' = <<passed', message'>>
        BY <2>1, <2>6 DEF boot_diag_screen
      <3>2. passed'[10] = (g_boot_state' = "APPS_OK")
        BY <1>0, <2>1, <2>2, <2>3
      <3>3. ScreenTells'
        BY <1>0, <2>1, <2>3, <2>4, <3>1, <3>2 DEF ScreenTells, StagesTell
      <3> QED
        BY <1>0, <2>1, <2>2, <2>3, <2>4, <2>6, <3>1, <3>3 DEF DiagInv
    <2> QED
      BY <1>1, <2>5, <2>6 DEF start
  <1>2. ASSUME NEW k \in 1 .. 8, boot_diag_report_stage(k, TRUE), up \subseteq up',
               up' \subseteq up \cup PartsOf(k) \cup {"nic"}, PartsOf(k) \subseteq up' \/ k \in AlwaysPass,
               machine' = machine, message' = message, g_boot_state' = g_boot_state,
               pc \notin {"start", "layer7", "check", "halt", "gui"},
               pc' \in PC \ {"start", "layer7", "check", "halt", "gui"}
        PROVE  DiagInv'
    <2>1. passed' \in [Stages -> BOOLEAN] /\ has_failed' \in BOOLEAN
      BY <1>0, <1>2 DEF boot_diag_report_stage
    <2>2. machine.magic /\ StagesTell /\ passed[0] = machine.magic
      BY <1>2 DEF DiagInv
    <2>3. passed' = [passed EXCEPT ![k] = TRUE]
      BY <1>2 DEF boot_diag_report_stage
    <2>4. \A s \in 1 .. 10 : s # k => PartsOf(s) \cap up' \subseteq up
      BY <1>2, PartsApart
    <2>5. StagesTell'
      <3>1. k \in 1 .. 10
        OBVIOUS
      <3>2. PartsOf(k) \subseteq up' \/ (k \in AlwaysPass /\ machine.magic)
        BY <1>2, <2>2
      <3> QED
        BY <1>0, <1>2, <2>2, <2>3, <2>4, <3>1, <3>2, StagePass
    <2>6. passed'[0] = passed[0]
      <3>1. k # 0 /\ 0 \in Stages
        BY <1>0
      <3> QED
        BY <1>0, <2>3, <3>1
    <2> QED
      BY <1>0, <1>2, <2>1, <2>2, <2>5, <2>6 DEF DiagInv, ScreenTells
  <1>3. CASE memory \/ framebuffer \/ idt_init \/ pic_init \/ layer2_init \/ layer3_init
             \/ layer4_init \/ layer5_init
    <2> DEFINE P(k) == /\ boot_diag_report_stage(k, TRUE)
                       /\ up \subseteq up' /\ up' \subseteq up \cup PartsOf(k) \cup {"nic"}
                       /\ PartsOf(k) \subseteq up' \/ k \in AlwaysPass
    <2>1. \E k \in 1 .. 8 : P(k)
      <3>1. CASE memory
        <4>1. boot_diag_report_stage(1, TRUE)
          BY <3>1 DEF memory
        <4>2. P(1)
          BY <3>1, <4>1, PartsComeUp DEF AlwaysPass
        <4> HIDE DEF P
        <4> QED
          BY <4>2
      <3>2. CASE framebuffer
        <4>1. boot_diag_report_stage(2, TRUE)
          BY <3>2 DEF framebuffer
        <4>2. P(2)
          BY <3>2, <4>1, PartsComeUp DEF AlwaysPass
        <4> HIDE DEF P
        <4> QED
          BY <4>2
      <3>3. CASE idt_init
        <4>1. boot_diag_report_stage(3, TRUE)
          BY <3>3 DEF idt_init
        <4>2. P(3)
          BY <3>3, <4>1, PartsComeUp DEF AlwaysPass
        <4> HIDE DEF P
        <4> QED
          BY <4>2
      <3>4. CASE pic_init
        <4>1. boot_diag_report_stage(4, TRUE)
          BY <3>4 DEF pic_init
        <4>2. P(4)
          BY <3>4, <4>1, PartsComeUp DEF AlwaysPass
        <4> HIDE DEF P
        <4> QED
          BY <4>2
      <3>5. CASE layer2_init
        <4>1. boot_diag_report_stage(5, TRUE)
          BY <3>5 DEF layer2_init
        <4>2. P(5)
          BY <3>5, <4>1, PartsComeUp DEF AlwaysPass
        <4> HIDE DEF P
        <4> QED
          BY <4>2
      <3>6. CASE layer3_init
        <4>1. boot_diag_report_stage(6, TRUE)
          BY <3>6 DEF layer3_init
        <4>2. P(6)
          BY <3>6, <4>1, PartsComeUp DEF AlwaysPass
        <4> HIDE DEF P
        <4> QED
          BY <4>2
      <3>7. CASE layer4_init
        <4>1. boot_diag_report_stage(7, TRUE)
          BY <3>7 DEF layer4_init
        <4>2. P(7)
          BY <3>7, <4>1, PartsComeUp DEF AlwaysPass
        <4> HIDE DEF P
        <4> QED
          BY <4>2
      <3>8. CASE layer5_init
        <4>1. boot_diag_report_stage(8, TRUE)
          BY <3>8 DEF layer5_init
        <4>2. P(8)
          BY <3>8, <4>1, PartsComeUp, PartsAre DEF AlwaysPass
        <4> HIDE DEF P
        <4> QED
          BY <4>2
      <3> HIDE DEF P
      <3> QED
        BY <1>3, <3>1, <3>2, <3>3, <3>4, <3>5, <3>6, <3>7, <3>8
    <2>2. /\ machine' = machine /\ message' = message /\ g_boot_state' = g_boot_state
          /\ pc \in {"memory", "fb", "idt", "pic", "layer2", "layer3", "layer4", "layer5"}
          /\ pc' \in {"fb", "idt", "pic", "acpi", "tests", "layer4", "layer5", "layer6"}
      BY <1>3 DEF memory, framebuffer, idt_init, pic_init, layer2_init, layer3_init,
         layer4_init, layer5_init, At
    <2> QED
      BY <1>2, <2>1, <2>2
  <1>4. CASE acpi_init \/ acpi_madt \/ tests
    <2>1. /\ machine' = machine /\ passed' = passed /\ has_failed' = has_failed
          /\ message' = message /\ screen' = screen /\ up' = up
          /\ pc \in {"acpi", "madt", "tests"} /\ pc' \in {"madt", "layer2", "layer3"}
      BY <1>4 DEF acpi_init, acpi_madt, tests, Quiet, At, diagVars
    <2>2. StagesTell'
      BY <2>1 DEF DiagInv, StagesTell, PartsOf, AlwaysPass
    <2> QED
      BY <2>1, <2>2 DEF DiagInv, ScreenTells
  <1>5. CASE layer6_init
    <2>1. /\ pc = "layer6" /\ machine' = machine
          /\ \/ pc' = "gui" /\ boot_diag_report_stage(9, TRUE) /\ message' = message
             \/ /\ pc' = "layer7" /\ boot_diag_report_stage(9, FALSE) /\ message' = TRUE
                /\ up' = up
      BY <1>5 DEF layer6_init
    <2>2. passed' \in [Stages -> BOOLEAN] /\ has_failed' \in BOOLEAN /\ message' \in BOOLEAN
      BY <1>0, <2>1 DEF boot_diag_report_stage
    <2>3. pc' = "layer7" => message' /\ has_failed'
      BY <1>0, <2>1 DEF boot_diag_report_stage
    <2>4. machine.magic /\ StagesTell /\ passed[0] = machine.magic
      BY <2>1 DEF DiagInv
    <2>5. passed'[0] = passed[0]
      BY <1>0, <2>1 DEF boot_diag_report_stage
    <2>6. ASSUME pc' = "layer7" PROVE StagesTell'
      <3>1. passed' = [passed EXCEPT ![9] = FALSE] /\ up' = up
        BY <2>1, <2>6 DEF boot_diag_report_stage
      <3>2. ~(PartsOf(9) \subseteq up')
        BY <2>1, <3>1, PartsAre DEF OrderInv
      <3>3. 9 \in 1 .. 10 /\ \A s \in 1 .. 10 : s # 9 => PartsOf(s) \cap up' \subseteq up
        BY <3>1
      <3> QED
        BY <1>0, <2>1, <2>4, <3>1, <3>2, <3>3, StageFail
    <2> QED
      BY <1>0, <2>1, <2>2, <2>3, <2>4, <2>5, <2>6 DEF DiagInv, ScreenTells
  <1>6. CASE layer7_init
    <2>1. /\ pc = "layer7" /\ pc' = "check" /\ machine' = machine /\ message' = message
      BY <1>6 DEF layer7_init, At
    <2>2. PICK files \in BOOLEAN :
             /\ boot_diag_report_stage(10, layer7_selftest(files))
             /\ g_boot_state' = IF layer7_selftest(files) THEN "APPS_OK" ELSE "FAILED"
      BY <1>6 DEF layer7_init
    <2>3. ~layer7_selftest(files) /\ "app_registry" \notin up
      BY <2>1 DEF OrderInv, layer7_selftest
    <2>4. layer7_selftest(files) = FALSE
      BY <2>3 DEF layer7_selftest
    <2>5. message /\ has_failed /\ machine.magic /\ StagesTell /\ passed[0] = machine.magic
      BY <2>1 DEF DiagInv
    <2>6. /\ passed' \in [Stages -> BOOLEAN] /\ has_failed' /\ passed' = [passed EXCEPT ![10] = FALSE]
          /\ passed'[0] = passed[0] /\ ~passed'[10] /\ g_boot_state' = "FAILED"
      <3>1. boot_diag_report_stage(10, FALSE) /\ g_boot_state' = "FAILED"
        BY <2>2, <2>4
      <3>2. passed' = [passed EXCEPT ![10] = FALSE] /\ has_failed'
        BY <2>5, <3>1 DEF boot_diag_report_stage
      <3> QED
        BY <1>0, <3>1, <3>2
    <2>7. has_failed' \in BOOLEAN
      BY <2>2 DEF boot_diag_report_stage
    <2>8. StagesTell'
      <3>1. up' = up \cup {"apps", "selftest"}
        <4>1. {"vfs", "ramdisk"} \subseteq up /\ {"app_registry"} \subseteq Excused /\ early \subseteq Excused
          BY <2>1 DEF OrderInv, InitOrder, Excused
        <4> QED
          BY <1>6, <4>1, TwoInOrder DEF layer7_init
      <3>2. ~(PartsOf(10) \subseteq up')
        BY <2>3, <3>1, PartsAre
      <3>3. ASSUME NEW s \in 1 .. 10, s # 10 PROVE PartsOf(s) \cap up' \subseteq up
        <4>1. s = 1 \/ s = 2 \/ s = 3 \/ s = 4 \/ s = 5 \/ s = 6 \/ s = 7 \/ s = 8 \/ s = 9
          BY <3>3
        <4>2. "apps" \notin PartsOf(s) /\ "selftest" \notin PartsOf(s)
          BY <4>1, PartsAre
        <4> QED
          BY <3>1, <4>2
      <3> QED
        BY <1>0, <2>1, <2>5, <2>6, <3>1, <3>2, <3>3, StageFail
    <2> QED
      BY <1>0, <2>1, <2>5, <2>6, <2>7, <2>8 DEF DiagInv, ScreenTells
  <1>7. CASE check
    <2>1. /\ pc = "check" /\ pc' = "halt" /\ machine' = machine /\ up' = up
          /\ passed' = passed /\ has_failed' = has_failed /\ message' = message
          /\ g_boot_state' = g_boot_state
          /\ screen' = IF has_failed THEN <<passed, message>> ELSE screen
      BY <1>7 DEF check, At
    <2>2. /\ message /\ has_failed /\ ~passed[10] /\ machine.magic /\ g_boot_state = "FAILED"
          /\ StagesTell /\ passed[0] = machine.magic
      BY <2>1 DEF DiagInv
    <2>3. StagesTell'
      BY <2>1, <2>2 DEF StagesTell, PartsOf, AlwaysPass
    <2>4. passed[10] = (g_boot_state = "APPS_OK")
      BY <1>0, <2>2
    <2>5. ScreenTells'
      BY <1>0, <2>1, <2>2, <2>3, <2>4 DEF ScreenTells, StagesTell
    <2> QED
      BY <1>0, <2>1, <2>2, <2>3, <2>5 DEF DiagInv
  <1>8. CASE threads \/ UNCHANGED vars
    <2>1. /\ pc' = pc /\ machine' = machine /\ passed' = passed /\ has_failed' = has_failed
          /\ message' = message /\ screen' = screen /\ g_boot_state' = g_boot_state /\ up' = up
      BY <1>8 DEF threads, vars, diagVars
    <2>2. StagesTell => StagesTell'
      BY <2>1 DEF StagesTell, PartsOf, AlwaysPass
    <2>3. ScreenTells => ScreenTells'
      BY <2>1 DEF ScreenTells, PartsOf, AlwaysPass
    <2> QED
      BY <2>1, <2>2, <2>3 DEF DiagInv
  <1> QED
    BY <1>1, <1>3, <1>4, <1>5, <1>6, <1>7, <1>8 DEF Next, kernel_main

LEMMA DiagInit == Init => DiagInv
  <1> SUFFICES ASSUME Init PROVE DiagInv
    OBVIOUS
  <1>1. /\ pc = "start" /\ machine \in Machine /\ passed = [s \in Stages |-> FALSE]
        /\ has_failed = FALSE /\ message = FALSE /\ up = {} /\ g_boot_state = "INIT"
    BY DEF Init
  <1>2. passed \in [Stages -> BOOLEAN] /\ \A s \in 0 .. 10 : ~passed[s]
    BY <1>1, BootAssumption
  <1>3. has_failed \in BOOLEAN /\ message \in BOOLEAN
    BY <1>1, Zenon
  <1>4. StagesTell
    <2> SUFFICES ASSUME NEW s \in 1 .. 10 PROVE ~passed[s] /\ ~(PartsOf(s) \subseteq up)
      BY DEF StagesTell
    <2>1. s = 1 \/ s = 2 \/ s = 3 \/ s = 4 \/ s = 5 \/ s = 6 \/ s = 7 \/ s = 8 \/ s = 9 \/ s = 10
      OBVIOUS
    <2> QED
      BY <1>1, <1>2, <2>1, PartsAre
  <1> QED
    BY <1>1, <1>2, <1>3, <1>4 DEF DiagInv, ScreenTells, PC

\* The diagnostics record the stages that kernel_main has passed and the
\* error it met.
THEOREM DiagInvariance == Spec => []DiagInv
  BY DiagInit, DiagInductive, OrderInvariance, PTL DEF Spec

\* A machine that halts shows the diagnostics, with the error, and each stage
\* but the two of AlwaysPass as it came out: it never just stops.
THEOREM HaltIsExplained == Spec => []ScreenTells
  <1>1. DiagInv => ScreenTells
    BY DEF DiagInv
  <1> QED
    BY <1>1, DiagInvariance, PTL

-----------------------------------------------------------------------------
\* The entries of a well-formed MADT.
LEMMA StartsAreEntries ==
    ASSUME NEW fw, FirmwareOK(fw), WellFormed(fw)
    PROVE  /\ Starts(fw) \in SUBSET DOMAIN fw.cells
           /\ EntriesStartAt(fw, Starts(fw))
  BY DEF FirmwareOK, WellFormed, Starts

\* What the scan has seen is finite, and one entry more when it has read one.
LEMMA SeenGrows ==
    ASSUME NEW fw, FirmwareOK(fw), WellFormed(fw), NEW k \in Starts(fw)
    PROVE  LET next == k + fw.cells[k].length IN
           /\ next \in Nat /\ next > k
           /\ next \in Starts(fw) \/ next > Len(fw.cells)
           /\ Cardinality(Seen(fw, next)) =
                 Cardinality(Seen(fw, k)) + (IF Enabled(fw, k) THEN 1 ELSE 0)
           /\ Cardinality(Seen(fw, k)) \in Nat
  <1> DEFINE next == k + fw.cells[k].length
  <1>1. /\ fw.cells \in Seq(Cell) /\ Starts(fw) \in SUBSET DOMAIN fw.cells
        /\ EntriesStartAt(fw, Starts(fw))
    BY StartsAreEntries DEF FirmwareOK
  <1>2. DOMAIN fw.cells = 1 .. Len(fw.cells) /\ Len(fw.cells) \in Nat
    BY <1>1
  <1>3. k \in Nat /\ k \in DOMAIN fw.cells /\ Starts(fw) \subseteq Nat
    BY <1>1, <1>2
  <1>4. fw.cells[k] \in Cell /\ fw.cells[k].length # 0
    BY <1>1, <1>3 DEF WellFormed
  <1>5. next \in Nat /\ next > k
    BY <1>3, <1>4 DEF Cell
  <1>6. /\ next \in Starts(fw) \/ next > Len(fw.cells)
        /\ (k + 1 .. next - 1) \cap Starts(fw) = {}
    BY <1>1 DEF EntriesStartAt
  <1>7. IsFiniteSet(Seen(fw, k))
    <2>1. IsFiniteSet(1 .. Len(fw.cells))
      BY <1>2, FS_Interval
    <2>2. Seen(fw, k) \in SUBSET (1 .. Len(fw.cells))
      BY <1>1, <1>2 DEF Seen
    <2> QED
      BY <2>1, <2>2, FS_Subset
  <1> HIDE DEF next
  <1>8. \A q \in Starts(fw) : q < next <=> q < k \/ q = k
    <2> TAKE q \in Starts(fw)
    <2>1. q \in Nat /\ q \notin k + 1 .. next - 1
      BY <1>3, <1>6
    <2> QED
      BY <1>3, <1>5, <2>1
  <1>9. k \notin Seen(fw, k)
    BY <1>3 DEF Seen
  <1>10. CASE Enabled(fw, k)
    <2>1. Seen(fw, next) = Seen(fw, k) \cup {k}
      BY <1>8, <1>10 DEF Seen
    <2>2. Cardinality(Seen(fw, next)) = Cardinality(Seen(fw, k)) + 1
      BY <1>7, <1>9, <2>1, FS_AddElement
    <2> QED
      BY <1>5, <1>6, <1>7, <1>10, <2>2, FS_CardinalityType DEF next
  <1>11. CASE ~Enabled(fw, k)
    <2>1. Seen(fw, next) = Seen(fw, k)
      BY <1>8, <1>11 DEF Seen
    <2>2. Cardinality(Seen(fw, k)) \in Nat
      BY <1>7, FS_CardinalityType
    <2> QED
      BY <1>5, <1>6, <1>11, <2>1, <2>2 DEF next
  <1> QED
    BY <1>10, <1>11

\* The two tables are found, and the scan begins.
LEMMA AcpiInitStep ==
    ASSUME AcpiInv, acpi_init
    PROVE  AcpiInv'
  <1> DEFINE fw == machine.firmware
             found == [acpi_cleared EXCEPT !.rsdp = acpi_find_rsdp_internal(fw)]
             at == acpi_find_table_addr(fw, found.rsdp, "FACP")
             parsed == acpi_parse_fadt_internal(fw, found)
             tables == [parsed EXCEPT !.madt = madt_found(fw, found)]
  <1>0. /\ machine \in Machine /\ machine' = machine /\ ics_ptr' = 1 /\ cpus' = 0
        /\ acpi' = tables
        /\ pc' = IF Right(fw, tables.madt) THEN "madt" ELSE "layer2"
    BY DEF AcpiInv, acpi_init, Quiet
  <1>1. FirmwareOK(fw)
    BY <1>0, BootAssumption
  <1>2. /\ DOMAIN found = {"rsdp", "fadt", "madt", "sci", "valid", "cpu_count"}
        /\ found.valid = FALSE /\ found.fadt = 0
    BY DEF acpi_cleared
  <1> HIDE DEF found, at
  <1>3. /\ DOMAIN parsed = {"rsdp", "fadt", "madt", "sci", "valid", "cpu_count"}
        /\ parsed.valid = FALSE
        /\ Right(fw, parsed.fadt) => parsed.sci
    <2>1. parsed = IF at = 0 THEN found
                   ELSE [found EXCEPT !.fadt = at, !.sci = fw.tables[at].sum]
      BY DEF acpi_parse_fadt_internal, at
    <2>2. CASE at = 0
      BY <1>2, <2>1, <2>2 DEF Right
    <2>3. CASE at # 0
      <3>1. parsed = [found EXCEPT !.fadt = at, !.sci = fw.tables[at].sum]
        BY <2>1, <2>3
      <3>2. /\ DOMAIN parsed = DOMAIN found /\ parsed.valid = FALSE
            /\ parsed.fadt = at /\ parsed.sci = fw.tables[at].sum
        BY <1>2, <3>1
      <3> HIDE DEF parsed
      <3> QED
        BY <1>2, <3>2 DEF Right
    <2> QED
      BY <2>2, <2>3
  <1> HIDE DEF parsed
  <1>4. /\ DOMAIN tables = {"rsdp", "fadt", "madt", "sci", "valid", "cpu_count"}
        /\ tables.valid = FALSE /\ tables.fadt = parsed.fadt /\ tables.sci = parsed.sci
    BY <1>3
  <1> HIDE DEF tables
  <1>5. ASSUME WellFormed(fw)
        PROVE  /\ 1 \in Starts(fw) \/ 1 > Len(fw.cells)
               /\ Cardinality(Seen(fw, 1)) = 0
    <2>1. /\ fw.cells \in Seq(Cell) /\ Starts(fw) \in SUBSET DOMAIN fw.cells
          /\ EntriesStartAt(fw, Starts(fw))
      BY <1>1, <1>5, StartsAreEntries DEF FirmwareOK
    <2>2. Starts(fw) \subseteq 1 .. Len(fw.cells) /\ Len(fw.cells) \in Nat
      BY <2>1
    <2>3. Seen(fw, 1) = {}
      BY <2>2 DEF Seen
    <2>4. Cardinality(Seen(fw, 1)) = 0
      BY <2>3, FS_EmptySet
    <2>5. CASE fw.cells = <<>>
      <3>1. Len(fw.cells) = 0
        BY <2>5
      <3> QED
        BY <2>4, <3>1
    <2>6. CASE fw.cells # <<>>
      BY <2>1, <2>4, <2>6 DEF EntriesStartAt
    <2> QED
      BY <2>5, <2>6
  <1>6. AcpiAgrees(fw)'
    BY <1>0, <1>4 DEF AcpiAgrees
  <1> QED
    BY <1>0, <1>3, <1>4, <1>5, <1>6 DEF AcpiInv, PC, Right

\* One entry of the MADT, or the end of the scan.
LEMMA AcpiScanStep ==
    ASSUME AcpiInv, acpi_madt
    PROVE  AcpiInv'
  <1> DEFINE fw == machine.firmware
  <1>0. /\ machine \in Machine /\ machine' = machine /\ pc = "madt"
        /\ Right(fw, acpi.madt)
        /\ Right(fw, acpi.fadt) => acpi.sci
        /\ ics_ptr \in Nat \ {0} /\ cpus \in Nat
        /\ WellFormed(fw) => /\ ics_ptr \in Starts(fw) \/ ics_ptr > Len(fw.cells)
                             /\ cpus = Cardinality(Seen(fw, ics_ptr))
        /\ {"rsdp", "fadt", "madt", "sci", "valid", "cpu_count"} \subseteq DOMAIN acpi
        /\ AcpiAgrees(fw)
    BY DEF AcpiInv, acpi_madt, Quiet
  <1>1. FirmwareOK(fw) /\ fw.cells \in Seq(Cell)
    BY <1>0, BootAssumption DEF FirmwareOK
  <1>2. CASE scanning(fw) /\ madt_entry(fw) /\ pc' = pc
    <2>1. /\ ics_ptr <= Len(fw.cells)
          /\ cpus' = cpus + (IF Enabled(fw, ics_ptr) THEN 1 ELSE 0)
          /\ ics_ptr' = ics_ptr + fw.cells[ics_ptr].length /\ acpi' = acpi
      BY <1>2 DEF scanning, madt_entry, Enabled
    <2>2. ics_ptr \in DOMAIN fw.cells /\ fw.cells[ics_ptr].length \in Nat
      <3>1. DOMAIN fw.cells = 1 .. Len(fw.cells) /\ Len(fw.cells) \in Nat
        BY <1>1
      <3>2. ics_ptr \in DOMAIN fw.cells
        BY <1>0, <2>1, <3>1
      <3>3. fw.cells[ics_ptr] \in Cell
        BY <1>1, <3>2
      <3> QED
        BY <3>2, <3>3 DEF Cell
    <2>3. ics_ptr' \in Nat \ {0} /\ cpus' \in Nat
      <3>1. ics_ptr \in Nat \ {0} /\ cpus \in Nat
        BY <1>0
      <3>2. cpus' = cpus + 1 \/ cpus' = cpus + 0
        BY <2>1
      <3>3. PICK d \in Nat : ics_ptr' = ics_ptr + d
        BY <2>1, <2>2
      <3> QED
        BY <3>1, <3>2, <3>3
    <2>4. ASSUME WellFormed(fw)
          PROVE  /\ ics_ptr' \in Starts(fw) \/ ics_ptr' > Len(fw.cells)
                 /\ cpus' = Cardinality(Seen(fw, ics_ptr'))
      <3>1. ics_ptr \in Starts(fw) /\ cpus = Cardinality(Seen(fw, ics_ptr))
        BY <1>0, <1>1, <2>1, <2>4
      <3> QED
        BY <1>1, <2>1, <2>4, <3>1, SeenGrows
    <2> QED
      BY <1>0, <1>2, <2>1, <2>3, <2>4 DEF AcpiInv, AcpiAgrees, PC
  <1>3. CASE ~scanning(fw) /\ acpi_done(fw) /\ pc' = "layer2"
    <2>1. acpi' = [acpi EXCEPT !.cpu_count = cpus, !.valid = acpi_parse_tables(fw, acpi)]
      BY <1>3 DEF acpi_done
    <2>2. /\ DOMAIN acpi' = DOMAIN acpi
          /\ acpi'.cpu_count = cpus /\ acpi'.valid = acpi_parse_tables(fw, acpi)
          /\ acpi'.fadt = acpi.fadt /\ acpi'.madt = acpi.madt /\ acpi'.sci = acpi.sci
      BY <1>0, <2>1
    <2>3. ASSUME WellFormed(fw) PROVE cpus = fw.processors
      <3>1. /\ Starts(fw) \in SUBSET DOMAIN fw.cells /\ EntriesStartAt(fw, Starts(fw))
        BY <1>1, <2>3, StartsAreEntries
      <3>2. DOMAIN fw.cells = 1 .. Len(fw.cells) /\ Len(fw.cells) \in Nat
        BY <1>1
      <3>3. ics_ptr > Len(fw.cells)
        BY <1>0, <1>3, <2>3, <3>2 DEF scanning, WellFormed
      <3>4. Seen(fw, ics_ptr) = {k \in Starts(fw) : Enabled(fw, k)}
        BY <1>0, <3>1, <3>2, <3>3 DEF Seen
      <3> QED
        BY <1>0, <2>3, <3>1, <3>4 DEF EntriesStartAt
    <2>4. AcpiAgrees(fw)'
      BY <1>0, <2>2, <2>3 DEF AcpiAgrees, acpi_parse_tables, WellFormed
    <2> QED
      BY <1>0, <1>3, <2>2, <2>4 DEF AcpiInv, PC
  <1> QED
    BY <1>2, <1>3 DEF acpi_madt

LEMMA AcpiInductive ==
    ASSUME AcpiInv, [Next]_vars
    PROVE  AcpiInv'
  <1>1. CASE acpi_init
    BY <1>1, AcpiInitStep
  <1>2. CASE acpi_madt
    BY <1>2, AcpiScanStep
  <1>3. ASSUME UNCHANGED <<acpiVars, machine>>, pc' \in PC \ {"madt"},
               pc' \in {"start", "memory", "fb", "idt", "pic", "acpi"}
                  => pc \in {"start", "memory", "fb", "idt", "pic"}
        PROVE  AcpiInv'
    BY <1>3 DEF AcpiInv, AcpiAgrees, acpiVars
  <1>4. CASE kernel_main /\ ~acpi_init /\ ~acpi_madt
    <2>1. UNCHANGED <<acpiVars, machine>>
      BY <1>4 DEF kernel_main, start, memory, framebuffer, idt_init, pic_init, layer2_init,
         tests, layer3_init, layer4_init, layer5_init, layer6_init, layer7_init, check
    <2>2. /\ pc' \in PC \ {"madt"}
          /\ pc' \in {"start", "memory", "fb", "idt", "pic", "acpi"}
                => pc \in {"start", "memory", "fb", "idt", "pic"}
      BY <1>4 DEF kernel_main, start, memory, framebuffer, idt_init, pic_init, layer2_init,
         tests, layer3_init, layer4_init, layer5_init, layer6_init, layer7_init, check, At, PC
    <2> QED
      BY <1>3, <2>1, <2>2
  <1>5. CASE threads \/ UNCHANGED vars
    <2>1. UNCHANGED <<acpiVars, machine, pc>>
      BY <1>5 DEF threads, vars
    <2> QED
      BY <2>1 DEF AcpiInv, AcpiAgrees, acpiVars
  <1> QED
    BY <1>1, <1>2, <1>4, <1>5 DEF Next

\* During the scan of the MADT the local count is the number of enabled
\* processors among the entries behind ics_ptr.
THEOREM AcpiInvariance == Spec => []AcpiInv
  <1>1. Init => AcpiInv
    BY DEF Init, AcpiInv, AcpiAgrees, acpi_cleared, PC
  <1> QED
    BY <1>1, AcpiInductive, PTL DEF Spec

\* On any machine, whatever its firmware's tables hold: a stage on the
\* diagnostics screen is PASS if and only if its parts were set up, but for
\* the frame buffer and layer 5, which are PASS in any case; and what the ACPI
\* information says is what was found, its processors the ones listed.
THEOREM BootReportsAreTrue == Spec => []BootReports
  <1>1. DiagInv /\ AcpiInv => BootReports
    BY DEF DiagInv, AcpiInv, BootReports
  <1> QED
    BY <1>1, DiagInvariance, AcpiInvariance, PTL
=============================================================================
