-------------------------------- MODULE Boot --------------------------------
(***************************************************************************)
(* kernel_main (src/kernel/main.c): the layers in the order they are set   *)
(* up, the boot diagnostics (src/kernel/boot_diag.c), the driver set-up    *)
(* and the interrupt table (src/drivers), ACPI, the page allocator and the *)
(* final boot sequence (src/system/boot_sequence.c).  Interrupts are off   *)
(* until the very end, so the boot code is one process; what differs       *)
(* between machines is chosen in Init, and what depends on parts with      *)
(* modules of their own (the compatibility tests, the memory for the       *)
(* screen buffers, the files) where it happens.                            *)
(***************************************************************************)
EXTENDS Acpi, Pages

CONSTANTS Machine,      \* machines: [magic, fb, firmware, devices]
          PciMax,       \* entries of pci_devices
          Stages        \* boot stages that kernel_main registers

ASSUME BootAssumption ==
    /\ 0 .. 10 \subseteq Stages
    /\ \A m \in Machine : m.magic \in BOOLEAN /\ FirmwareOK(m.firmware)

VARIABLES machine,      \* the machine that boots
          pc,           \* the next step of kernel_main
          passed,       \* boot_stages_passed
          has_failed,   \* boot_has_failed
          message,      \* boot_error_msg is not empty
          screen,       \* what boot_diag_screen drew, <<>> before
          irq_handlers, \* the interrupt table
          up,           \* parts that are set up
          early,        \* parts that were used before they were
          g_boot_state  \* of the final boot sequence

diagVars == <<passed, has_failed, message, screen>>
vars == <<acpiVars, mem_map, machine, pc, diagVars, irq_handlers, up, early, g_boot_state>>

NULL == "none"
IRQ == 0 .. 15
IRQ_KEYBOARD == 1
IRQ_NETWORK == 11
IRQ_MOUSE == 12

PC == {"start", "memory", "fb", "idt", "pic", "acpi", "madt", "layer2", "tests", "layer3",
       "layer4", "layer5", "layer6", "layer7", "check", "gui", "halt"}
BootState == {"INIT", "APPS_OK", "FAILED"}

BootTypeOK ==
    /\ PagesTypeOK
    /\ pc \in PC /\ machine \in Machine
    /\ passed \in [Stages -> BOOLEAN] /\ has_failed \in BOOLEAN /\ message \in BOOLEAN
    /\ irq_handlers \in [IRQ -> {NULL, "kbd_handler", "mouse_handler", "rtl8139_irq_handler"}]
    /\ g_boot_state \in BootState

Init ==
    /\ machine \in Machine /\ pc = "start"
    /\ passed = [s \in Stages |-> FALSE] /\ has_failed = FALSE /\ message = FALSE
    /\ screen = <<>>
    /\ acpi = acpi_cleared /\ ics_ptr = 1 /\ cpus = 0
    /\ mem_map = [memory_init EXCEPT !.next_free_page = 0, !.free_pages = 0]
    /\ irq_handlers = [i \in IRQ |-> NULL]
    /\ up = {} /\ early = {}
    /\ g_boot_state = "INIT"

-----------------------------------------------------------------------------
\* boot_diag_report_stage: a failed stage fails the boot for good.
boot_diag_report_stage(id, success) ==
    /\ passed' = [passed EXCEPT ![id] = success]
    /\ has_failed' = (has_failed \/ ~success)

\* boot_diag_screen: the list of the stages and the error.
boot_diag_screen == screen' = <<passed', message'>>

(***************************************************************************)
(* Set-up calls in their order, each with the parts that it uses: what is  *)
(* used before its own set-up is noted.                                    *)
(***************************************************************************)
SetUp(calls) ==
    /\ up' = up \cup {calls[k].part : k \in DOMAIN calls}
    /\ early' = early \cup UNION {calls[k].uses \ (up \cup {calls[j].part : j \in 1 .. k - 1}) :
                                      k \in DOMAIN calls}

call(part, uses) == [part |-> part, uses |-> uses]

At(here, there) == pc = here /\ pc' = there

-----------------------------------------------------------------------------
\* kernel_main up to the test of the magic number.
start ==
    /\ pc = "start" /\ SetUp(<<call("serial", {}), call("kprintf", {"serial"})>>)
    /\ boot_diag_report_stage(0, machine.magic)
    /\ \/ machine.magic /\ pc' = "memory" /\ UNCHANGED <<message, screen>>
       \/ ~machine.magic /\ pc' = "halt" /\ message' = TRUE /\ boot_diag_screen
    /\ UNCHANGED <<acpiVars, mem_map, machine, irq_handlers, g_boot_state>>

memory ==
    /\ At("memory", "fb") /\ SetUp(<<call("pages", {})>>)
    /\ mem_map' = memory_init
    /\ boot_diag_report_stage(1, TRUE)
    /\ UNCHANGED <<acpiVars, machine, message, screen, irq_handlers, g_boot_state>>

\* fb_init_from_multiboot: its result is not looked at.  A frame buffer of
\* another format is used as well if it has an address and a size.
framebuffer ==
    /\ At("fb", "idt")
    /\ SetUp(IF machine.fb \in {"rgb32", "other"} THEN <<call("fb", {})>> ELSE <<>>)
    /\ boot_diag_report_stage(2, TRUE)
    /\ UNCHANGED <<acpiVars, mem_map, machine, message, screen, irq_handlers, g_boot_state>>

idt_init ==
    /\ At("idt", "pic") /\ SetUp(<<call("idt", {})>>)
    /\ boot_diag_report_stage(3, TRUE)
    /\ UNCHANGED <<acpiVars, mem_map, machine, message, screen, irq_handlers, g_boot_state>>

pic_init ==
    /\ At("pic", "acpi") /\ SetUp(<<call("pic", {})>>)
    /\ boot_diag_report_stage(4, TRUE)
    /\ UNCHANGED <<acpiVars, mem_map, machine, message, screen, irq_handlers, g_boot_state>>

Quiet == UNCHANGED <<mem_map, machine, diagVars, irq_handlers, up, early, g_boot_state>>

\* acpi_init up to the scan of the MADT, which is left out without a right MADT.
acpi_init ==
    LET fw == machine.firmware
        found == [acpi_cleared EXCEPT !.rsdp = acpi_find_rsdp_internal(fw)]
        tables == [acpi_parse_fadt_internal(fw, found) EXCEPT !.madt = madt_found(fw, found)]
    IN  /\ pc = "acpi"
        /\ acpi' = tables
        /\ pc' = IF Right(fw, tables.madt) THEN "madt" ELSE "layer2"
        /\ UNCHANGED <<ics_ptr, cpus>> /\ Quiet

acpi_madt ==
    /\ pc = "madt"
    /\ \/ scanning(machine.firmware) /\ madt_entry(machine.firmware) /\ UNCHANGED pc
       \/ /\ ~scanning(machine.firmware) /\ acpi_done(machine.firmware)
          /\ pc' = "layer2" /\ UNCHANGED <<ics_ptr, cpus>>
    /\ Quiet

\* The rest of layer2_init.  The bitmap of the heap takes a page.
layer2_init ==
    /\ At("layer2", "tests")
    /\ SetUp(<<call("heap", {"pages"}), call("process", {}), call("scheduler", {}),
               call("timer", {"idt"}), call("syscall", {})>>)
    /\ mem_map' = pmm_alloc_pages(mem_map, 1)
    /\ boot_diag_report_stage(5, TRUE)
    /\ UNCHANGED <<acpiVars, machine, message, screen, irq_handlers, g_boot_state>>

tests ==
    /\ At("tests", "layer3")
    /\ mem_map' = test_memory_allocator(mem_map)
    /\ UNCHANGED <<acpiVars, machine, diagVars, irq_handlers, up, early, g_boot_state>>

\* pci_enumerate: the table is filled in the order of the bus, up to its end.
pci_enumerate == {machine.devices[k] : k \in DOMAIN machine.devices \cap 1 .. PciMax}
rtl8139_present == "rtl8139" \in pci_enumerate

irq_register_handler(table, irq, handler) == [table EXCEPT ![irq] = handler]

\* The table is cleared, and the handlers of the keyboard and the mouse put in.
irq_manager_init(table) ==
    irq_register_handler(
        irq_register_handler([i \in DOMAIN table |-> NULL], IRQ_KEYBOARD, "kbd_handler"),
        IRQ_MOUSE, "mouse_handler")

\* drivers_init: the network card registers its handler before
\* irq_manager_init.
drivers_init ==
    /\ SetUp(<<call("pci", {}), call("kbd", {}), call("mouse", {}), call("ata", {})>>
             \o (IF rtl8139_present THEN <<call("nic", {"irq_manager"})>> ELSE <<>>)
             \o <<call("irq_manager", {"kbd", "mouse"})>>)
    /\ irq_handlers' = irq_manager_init(
           IF rtl8139_present
           THEN irq_register_handler(irq_handlers, IRQ_NETWORK, "rtl8139_irq_handler")
           ELSE irq_handlers)

layer3_init ==
    /\ At("layer3", "layer4") /\ drivers_init
    /\ boot_diag_report_stage(6, TRUE)
    /\ UNCHANGED <<acpiVars, mem_map, machine, message, screen, g_boot_state>>

Mut_layer4 ==
    <<call("ramdisk", {"heap"}), call("mount", {"vfs", "ramdisk"}), call("vfs", {"heap"}),
      call("ipc", {}), call("security", {}), call("fat32", {}), call("net", {}),
      call("files", {"vfs", "ramdisk", "heap"}), call("services", {"ipc"})>>

\* The services, the ramdisk's file and the tests of layer4_init.
layer4 ==
    <<call("vfs", {"heap"}), call("ramdisk", {"heap"}), call("ipc", {}), call("security", {}),
      call("fat32", {}), call("net", {}), call("mount", {"vfs", "ramdisk"}),
      call("files", {"vfs", "ramdisk", "heap"}), call("services", {"ipc"})>>

layer4_init ==
    /\ At("layer4", "layer5") /\ SetUp(layer4)
    /\ boot_diag_report_stage(7, TRUE)
    /\ UNCHANGED <<acpiVars, mem_map, machine, message, screen, irq_handlers, g_boot_state>>

\* compatd_init and the tests, which may fail: that is not passed on.
layer5_init ==
    /\ At("layer5", "layer6")
    /\ \E compat_run_all_tests \in BOOLEAN :
          LET compat == call("compat", {"heap", "vfs", "ramdisk", "timer"})
          IN  SetUp(IF compat_run_all_tests THEN <<compat, call("compat_tests", {"compat"})>>
                                            ELSE <<compat>>)
    /\ boot_diag_report_stage(8, TRUE)
    /\ UNCHANGED <<acpiVars, mem_map, machine, message, screen, irq_handlers, g_boot_state>>

\* gui_layer6_init: it fails when none of three screen sizes finds the memory
\* for its buffers; then nothing else of the GUI is set up.
layer6_init ==
    /\ pc = "layer6"
    /\ \/ /\ SetUp(<<call("gfx", {"heap"}), call("wm", {}), call("event_loop", {}),
                     call("app_registry", {}), call("windows", {"wm", "gfx"})>>)
          /\ boot_diag_report_stage(9, TRUE)
          /\ pc' = "gui" /\ UNCHANGED message
       \/ /\ boot_diag_report_stage(9, FALSE)
          /\ message' = TRUE
          /\ pc' = "layer7" /\ UNCHANGED <<up, early>>
    /\ UNCHANGED <<acpiVars, mem_map, machine, screen, irq_handlers, g_boot_state>>

(***************************************************************************)
(* layer7_init: the applications are set up and tested.  files says        *)
(* whether the file manager's tests find what they need; the tests of the  *)
(* desktop look for the applications that layer 6 registers.               *)
(***************************************************************************)
layer7_selftest(files) == files /\ "app_registry" \in up

layer7_init ==
    /\ At("layer7", "check")
    /\ SetUp(<<call("apps", {"vfs", "ramdisk"}), call("selftest", {"app_registry"})>>)
    /\ \E files \in BOOLEAN :
          /\ boot_diag_report_stage(10, layer7_selftest(files))
          /\ g_boot_state' = IF layer7_selftest(files) THEN "APPS_OK" ELSE "FAILED"
    /\ UNCHANGED <<acpiVars, mem_map, machine, message, screen, irq_handlers>>

\* The screen is drawn if something failed; then interrupts are enabled and
\* the processor halts.
check ==
    /\ At("check", "halt")
    /\ UNCHANGED <<passed, has_failed, message>>
    /\ screen' = IF has_failed THEN <<passed, message>> ELSE screen
    /\ UNCHANGED <<acpiVars, mem_map, machine, irq_handlers, up, early, g_boot_state>>

kernel_main ==
    \/ start \/ memory \/ framebuffer \/ idt_init \/ pic_init \/ acpi_init \/ acpi_madt
    \/ layer2_init \/ tests \/ layer3_init \/ layer4_init \/ layer5_init \/ layer6_init
    \/ layer7_init \/ check

\* Threads are created and end, once the thread manager is set up.
threads ==
    /\ pc \in {"layer3", "layer4", "layer5", "layer6", "gui"}
    /\ \/ kernel_stack_alloc
       \/ \E p \in Page : kernel_stack_free(p)
    /\ UNCHANGED <<acpiVars, machine, pc, diagVars, irq_handlers, up, early, g_boot_state>>

Next == kernel_main \/ threads

\* The boot code runs with interrupts off: nothing takes the processor from it.
Spec == Init /\ [][Next]_vars /\ WF_vars(kernel_main)

-----------------------------------------------------------------------------
(***************************************************************************)
(* The screen of a machine that has halted.                                *)
(***************************************************************************)
\* What a stage sets up: PASS should mean all of it.
PartsOf(s) ==
    CASE s = 1 -> {"pages"} [] s = 2 -> {"fb"} [] s = 3 -> {"idt"} [] s = 4 -> {"pic"}
      [] s = 5 -> {"heap", "process", "scheduler", "timer", "syscall"}
      [] s = 6 -> {"pci", "kbd", "mouse", "ata", "irq_manager"}
      [] s = 7 -> {"vfs", "ramdisk", "ipc", "security", "fat32", "net", "mount", "files", "services"}
      [] s = 8 -> {"compat", "compat_tests"}
      [] s = 9 -> {"gfx", "wm", "event_loop", "app_registry", "windows"}
      [] OTHER -> {"apps", "selftest", "app_registry"}

\* "Framebuffer Init" is PASS without a frame buffer and "Layer 5:
\* Compatibility" after failed tests: kernel_main reports both as done.
AlwaysPass == {2, 8}

\* A machine that has halted shows the diagnostics as they are, with an
\* error.  The first stage, named for the serial line, passes with the right
\* magic number; of the others, what is set up is PASS, and what is PASS is
\* set up, on every machine and wherever boot failed, but for AlwaysPass,
\* which are PASS once kernel_main has gone by; and the desktop is PASS if
\* and only if the final boot sequence ended well.
ScreenTells ==
    pc = "halt" =>
        /\ screen = <<passed, message>> /\ message /\ has_failed
        /\ passed[0] = machine.magic
        /\ \A s \in 1 .. 10 :
              /\ PartsOf(s) \subseteq up => passed[s]
              /\ passed[s] => PartsOf(s) \subseteq up \/ (s \in AlwaysPass /\ machine.magic)
        /\ passed[10] = (g_boot_state = "APPS_OK")

\* What boot tells the user and the rest of the system is what happened: the
\* diagnostics screen (kernel_main) and the ACPI information (acpi_init).
BootReports == ScreenTells /\ AcpiAgrees(machine.firmware)

\* Nothing is used before it is set up, on any machine and after any failure,
\* except for the interrupt table by the network card (drivers_init) and the
\* application list by the tests of layer 7, when the GUI has failed; and the
\* handlers of the keyboard and the mouse stay in the table whatever card is found.
InitOrder ==
    /\ early \subseteq {"irq_manager", "app_registry"}
    /\ "irq_manager" \in up => /\ irq_handlers[IRQ_KEYBOARD] = "kbd_handler"
                               /\ irq_handlers[IRQ_MOUSE] = "mouse_handler"

\* heap_init takes its region, which the allocator is not told.
HeapUses(p) == "heap" \in up /\ p \in HeapRegion

\* No page is handed out while a caller of the allocator holds it, and none is
\* part of the kernel image, whatever is freed in whatever order, also twice or
\* by somebody else: pmm_free_page takes any address and pmm_alloc_page looks
\* at nothing but its two counters.  And no page has two users, the heap
\* counted, until the allocator, which does not know of the heap, has come to
\* HeapStart; then only pages of the heap do.
PagesHeldOnce ==
    \A p \in Page :
        /\ mem_map.holders[p] <= IF p < KernelEnd THEN 0 ELSE 1
        /\ HeapUses(p) /\ mem_map.holders[p] > 0 => mem_map.next_free_page > HeapStart

\* Boot comes to an end, whatever the entries of the MADT are and whichever tables
\* are missing or wrong (but for an RSDT shorter than its header, see Acpi): in
\* the GUI or in the halt at the end of kernel_main.
BootSettles == <>(pc \in {"gui", "halt"})
=============================================================================
