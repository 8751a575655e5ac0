# Verification of Madar OS

TLA+ models of the core of Madar OS, checked with TLC, with proofs checked by
TLAPS. Paths are relative to the root of the repository.

## The system

Madar OS is a small single-processor kernel in C, built in layers: boot and
drivers (layer 1), threads, heap and synchronisation (2), drivers (3), system
services (4), graphics (5), desktop and applications (6, 7), and a layer that
loads Windows executables.

| Component | State | Operations | Talks to |
|---|---|---|---|
| Threads, scheduler (`kernel/process.c`, `scheduler.c`, `thread.c`, `timer.c`) | PCBs, ready queue, `current_thread`, `process_stats`, tick count | create, add, remove, destroy, exit, yield, tick | heap (PCBs), page allocator (stacks), timer |
| Mutex, spinlock (`kernel/sync.c`, `spinlock.c`) | lock word, owner, recursion count | lock, try_lock, unlock | scheduler (`thread_yield`) |
| Heap (`kernel/heap.c`) | block bitmap, headers, counters | `kmalloc`, `kfree` | page allocator, spinlock |
| Page allocator (`kernel/memory.c`, `stack.c`) | next page, free count | alloc, free, stacks | heap, threads |
| Boot, ACPI, drivers (`kernel/main.c`, `acpi.c`, `boot_diag.c`, `drivers/drivers.c`, `irq_manager.c`, `system/boot_sequence.c`) | stages passed, ACPI information, interrupt table | the layers in order | everything |
| Pipes and message queues (`services/ipc.c`, `ring_buffer.c`) | two tables of rings | create, write/send, read/recv, close/destroy | system calls |
| VFS, ramdisk, permissions (`services/vfs.c`, `ramdisk.c`, `security.c`) | inode tree, descriptors, buffers, current ids | mkdir, create, mount, open, read, write, seek, close, set ids | heap |
| Service manager, init (`services/service_mgr.c`, `init.c`, `config_parser.c`) | service table | register, start, stop, crash, check pass | scheduler |
| FAT32, disk (`services/fat32.c`, `fat_dir.c`, `disk_io.c`, `drivers/ata.c`) | FAT geometry, ATA status | mount, read, list, lookup, multi-sector transfers with retries | heap, the disk |
| Network (`services/arp.c`, `ip.c`, `icmp.c`, `tcp.c`, `drivers/rtl8139.c`) | ARP cache, connections, card rings | resolve, send, receive | the card |
| Input and GUI (`drivers/kbd.c`, `mouse.c`, `gui/input_*.c`, `event_loop.c`, `wm_core.c`, `window_list.c`, `desktop/`) | key buffer, event queue, window table, drag and key states, start menu | poll, route, dispatch, raise, compact, drag, launch | devices |
| Toolkit and applications (`gui/ui_toolkit.c`, `apps/`) | panels of widgets, the highlighted button, the applications' records | launch, click, move, key, shut down | heap |
| EXE compatibility (`compat/`) | process, module, thread, object, TLS and memory tables | parse, validate, load, bind, run, wait, exit | heap, VFS |

What is hard in it: the hand-kept ready queue and the order of steps when a
thread exits; waiting with a dropped lock in `mutex_lock`; the header that
`kmalloc` writes after unlocking; rings and tables whose slots are used again;
sizes and offsets in unsigned arithmetic; allocations that fail half way through
a call of many steps; a disk that times out and answers later; a card that moves
between two calls of its driver; a z order that is renumbered behind the windows;
queues that drop events; crash loops of services; an order of initialisation that
only some machines and failures exercise. `PROJECT.json` lists these hazards at
their lines, with the properties that would catch them going wrong, or why none
does.

### Interrupts and atomicity

`pic_init` masks every line (`kernel/pic.c`, lines 41-42) and nothing in the tree
calls `pic_unmask_irq`, so no call is interrupted. Most modules therefore take a
call as one step, and the timer tick as a step between calls. Some are finer.
`Mutex`, `StressTest` and `Heap` are the code that is written to survive
preemption, and they are checked with a switch between any two accesses (`Mutex`,
`StressTest`) or wherever no lock is held (`Heap`). `Fat32` takes a step per disk
access and `Compatd` one per stage of an execution, because each can fail on its
own. Devices (disk, card, keyboard, mouse) act between the steps.

## Modules

| Module | Models | State and actions |
|---|---|---|
| `RoundRobin` | what the scheduler promises | a line and the running thread |
| `Scheduler` | `process.c`, `scheduler.c`, `thread.c`, `timer_handler` | `sched` holds `current_thread`, the queue's globals and the PCB fields; C functions that change them are operators from record to record, and one action calls as many as the handler does |
| `MCScheduler` | | the mapping from `sched` to `RoundRobin` |
| `Mutex` | `sync.c`, `spinlock.c` | one step per access of the lock word or section under it; `pc` is the place in the call, `depth` what the caller holds |
| `MutexClients` | callers | any call at any time, threads and boot code |
| `StressTest` | `stress_test.c` (sync threads) on `Mutex` | load and store of the counter are separate steps; a behaviour has the stress threads or the callers of `MutexClients` |
| `Heap` | `heap.c` | `kmalloc` under the lock, `write_header` after it, `kfree` |
| `IpcService` | what pipes and queues promise | bounded queues |
| `Ipc`, `MCIpc` | `ipc.c`, `ring_buffer.c` | rings as array, head, tail, count |
| `Vfs`, `MCVfs` | `vfs.c`, `ramdisk.c`, `security.c` | inodes in order of creation, children newest first, descriptors, buffers with their lengths |
| `ServiceMgr`, `MCServiceMgr` | `service_mgr.c` as `init.c` runs it | the table |
| `PeImage` | `pe_parser.c`, `pe_validator.c`, `pe_loader.c`, `import_resolver.c` | no state: operators on a file given by its header fields |
| `Win32` | `mem_mapper.c`, `stack_init.c`, `pe_threads.c`, `tls_manager.c`, `sync_mapper.c`, parts of `win32_stubs.c` | the tables, and the calls a program makes |
| `Compatd`, `MCCompatd` | `compatd_exec_exe`, `compat_process.c`, `module_registry.c`, `safe_exit.c`, `exe_sandbox.c` on the two above | `exec` is the call in progress with what it holds; one step per stage |
| `Input` | `kbd.c`, `mouse.c`, `input_poller.c`, `input_router.c` | `Polled` turns a frame's bytes into events; the bounded queue |
| `WindowMgr` | `wm_core.c`, `window_list.c`, `input_system.c` | the window table, ids and focus; operators on the table |
| `Gui` | `gui_layer6_main_loop`, `event_loop.c`, `wm_events.c`, `keyboard_system.c`, `desktop/` on the two above | poll, handle one event, end the frame |
| `Ata` | `ata.c` (PIO) and the disk (external) | a command is carried out, fails, or is given up and stays `pending` |
| `Fat32`, `MCFat32` | `fat32.c`, `fat_dir.c`, `disk_io.c`, the multi-sector calls of `ata.c` | `op` is the call in progress; one step per disk access |
| `Net` | `arp.c`, `ip.c`, `net_utils.c`, `icmp.c`, `tcp.c` | one action per call; `sent` and `got` show the packet of the last one |
| `Rtl8139` | `rtl8139.c` and the card (external) | receive ring in cells, descriptors, both sides' positions |
| `MCNet` | | a behaviour of the services or of the card, which no code connects |
| `Toolkit`, `Apps`, `MCApps` | `ui_toolkit.c`; `app_launcher.c`, `terminal.c`, `settings_app.c`, `file_manager.c` | panels as far as they were filled, the highlighted button, the applications' records |
| `Pages` | `memory.c`, `stack.c` | the two counters, and who holds each page |
| `Acpi` | `acpi.c` | what was found; the walk over the MADT, one entry a step |
| `Boot`, `MCBoot` | `main.c`, `boot_diag.c`, `drivers.c`, `irq_manager.c`, `pci.c`, `fb.c`, `boot_sequence.c` on the two above | `pc` in `kernel_main`; `up` and `early` record set-up and use |
| `SchedulerProofs`, `KernelProofs`, `VfsProofs`, `ServicesProofs`, `CompatdProofs`, `NetProofs`, `BootProofs`, `GuiProofs` | | theorems: of `MCScheduler`; `StressTest`, `MutexClients` and `Heap`; `Vfs`; `ServiceMgr`, `Ipc` and `Fat32`; `Compatd`; `MCNet`; `Boot`; `Gui` and `Apps` |

Decisions that a reader should know:

- **Scheduler.** Pids, register frames and `scheduler_stats` are left out. A
  failed allocation in `thread_create` is no step. `tick` is `tick_count` modulo
  the quantum, which is all `scheduler_tick` looks at. `pcb_destroy` is called for
  threads other than the current one (the current one goes through
  `thread_exit`), and `scheduler_set_current` while there is no current thread; no
  code in the tree calls either otherwise. `scheduler_remove_thread` only marks.
- **Mutex.** `NULL` is a context of its own: the boot code runs with
  `current_thread == NULL`, which the owner test takes for the owner of a free
  mutex. It takes part in the runs and the proofs; exclusion is claimed of threads.
  Nesting stays below the modulus of `recursion_count` (`DepthAssumption`).
- **StressTest.** `NoLostUpdate` counts the stores as pairs of a thread and a round,
  so that it needs no sum over threads.
- **Heap.** Counters that only a report reads are left out, and `alloc_count` and
  `free_count` appear as their difference. Clients free what `kmalloc` returned,
  also twice; they do not forge headers. `size_t` is modulo `SizeMod`.
- **Ipc.** `call` is the request with its arguments, and `IpcService` decides by the
  request alone what happens: the bytes that a `pipe_write` appends are those it was
  given, a request fails exactly when it cannot be served, and one end of a pipe can
  be closed while the other goes on. `open`, the set of open ends, is read off the
  two descriptors of a pipe. The system calls route descriptors 100..299 here, so -1 is never one.
  `QueueCap` is the constant `IPC_MAX_MSGQS`, which the code also uses as the
  capacity of a queue.
- **Vfs.** Names are shorter than the limit of 127 bytes. The contents of files are
  left out. Because `VFS_O_RDWR` is the union of the bits of `VFS_O_RDONLY` and
  `VFS_O_WRONLY`, the tests of the flags in `vfs_open`, `vfs_read` and `vfs_write` succeed when either
  bit is set; the model keeps that (`wants_data`). `CreatedIsFound` follows a path
  again from the root only if it does not go up: `a/../b` may come through a
  directory `a` that the creation of another `a` hides, and then leads elsewhere. After an access outside a buffer
  the heap can hold anything: `fault` records the first, and the passing run
  stops there.
- **ServiceMgr.** `restarts` is a history variable: how often passes have restarted an
  entry since it was last started or registered. `Init` is the state after `init_start`. `RESTARTING` exists only
  inside `service_restart`. The back-off delay is doubled and printed; no code
  waits for it.
- **PeImage, Compatd.** The lists of frees before the returns of `compatd_exec_exe` are
  one operator, `Release`, which frees what the call holds by then. A file is its header fields; sizes are in units, modulo
  `Word`. Alignments are powers of two, so the code's masks are remainders.
  `SectionsIntact` speaks of files whose data is padded at most to the alignment:
  the validator compares virtual sizes, and data that is longer than that may
  overwrite the next section. The second validator, `pe_validate_full`, is checked
  to agree with the first on what is loaded. The functions registered for an exit
  stay registered; once one has run a second time (`rerun`) it may have freed a
  block of somebody else, and `BuffersAccounted` claims nothing more. For the same
  reason a program does not itself free a block that a registered function will
  free (`Promised`). The fields of a file are words (`IsFile`); `linked` also asks
  that no section's addresses wrap around.
- **Win32.** One TLS slot stands for all. `CreateMutexA` and `CreateEventA` return
  constants that are in no table, and most other calls only log; they are left out.
- **Input, Gui.** What the devices sent since the last frame is chosen when it is
  polled. The right button's events take their slots in the queue; their handlers are
  declared and defined nowhere, so handling one changes nothing else. A click names the set of windows under the pointer instead of a point.
  Key releases arrive without their release bit, as in the code. A launched window
  does not get the focus, a closed one keeps it, and a minimised one cannot be
  brought back; the model keeps that.
- **Ata, Fat32.** DRQ does not say which command it answers. After an answer was
  taken for another command's (`astray`), or a failed read of the FAT was followed
  as a cluster number (`walked`), nothing is claimed. Volumes have chains without
  cycles; on a cyclic chain the loops of `fat32.c` do not end. `WellFormed` says
  what is asked of a volume, among it that a cluster has sectors (`fat32_mount` divides
  by their number, line 45). A sector number of more than 28 bits, of which `ata.c` sends
  the low 28 (lines 212, 249), is beyond the disk in the model.
  The multi-sector transfers go to scratch sectors outside the volume.
- **Net.** Bytes are digits to the base 5 and a header has 8 of them, one for each
  field that is looked at and two for the checksum, whose end-around carry stays. Nothing
  hands a packet to the card; `ip_send` builds it and drops it. Packets are at least as
  long as the header they state (`data_len`, `ip.c` line 85, would wrap around),
  `tcp_close`, which does not look at its argument, is called with one in range, and
  the checksum of ICMP messages, which nobody looks at, is left out.
- **Rtl8139.** The card is one that takes every frame and whose ring is the driver's;
  the value that `rtl8139.c` line 88 writes to RXCONFIG says neither (see below). Frames
  fit the transmit buffer, so that the cut of lines 121-123 does nothing. What the driver reads where no header is can be anything. Its read
  position ignores the CRC and leaves the card's after the first frame; the
  property says what holds in spite of that.
- **Toolkit, Apps.** Coordinates are those of the source. The four applications are
  not in the Makefile's list; they are modelled as their `main` functions use them.
  `shown` is what the four labels say and `changed` whether a handler has updated them
  since the launch. The terminal's output is its length, which, as in the code, can pass the
  size of the buffer (see below); what the write behind it changes is outside the model.
  `fault` records the use of a missing or freed widget.
- **Acpi, Boot.** A machine is a record chosen in `Init`: boot magic, frame buffer,
  firmware tables, PCI devices. Whether the compatibility tests, the allocation of
  the screen buffers and the file tests succeed is chosen where they happen.
  `BootReports` says of every stage on the screen of a halted machine that it is passed
  if and only if its parts (`PartsOf`) came up, except for stages 2 and 8, which
  `kernel_main` reports as passed whatever happened (`AlwaysPass`). An RSDT shorter than
  its header, for which the number of its entries wraps around (`acpi.c` line 104), is
  outside the model. An
  entry of the MADT of length 0 ends the walk. `FirmwareOK` says what a machine's
  tables are: if no entry has length 0, the entries follow one another, and the
  number of processors is that of the enabled entries among them.
- **Pages.** Threads take stacks at any time after boot's tests, and any page may be
  freed then, held or not, twice or by somebody else; a free of a page that its caller
  holds ends the holding, any other only does what `pmm_free_page` does. The heap's
  region is a user of pages that the allocator does not know: `PagesHeldOnce` says that
  the two meet only after `next_free_page` has passed `HeapStart`. Pages are bounded by
  `MaxPage`; those beyond the memory count like the others. With
  no page left `kernel_stack_alloc` clears page 0 and returns NULL; that write is
  outside the model. There are at least the 4 pages that the heap's bitmap and
  boot's page test take without looking.

## Runs

| Run | What it shows | Bounds |
|---|---|---|
| `scheduler` | The ready queue is a list (`QueueWellFormed`) of live PCBs (`NoDanglingPcb`), one thread runs (`OnlyCurrentRuns`), queued threads are served if the scheduler is entered (`ReadyIsServed`), and the whole implements `RoundRobin` (`RefinesRoundRobin`) | 3 PCBs: head, middle and tail of the queue differ; 4 creations, so that an address is used again; quantum 2 |
| `mutex` | Exclusion, agreement of owner and count with what callers hold, release of the spinlock on every path, no lost update, every stress thread that is scheduled completes | One workload per behaviour: 3 stress threads (two waiters) of 2 rounds, or 2 threads and the boot code making any calls, nesting 2, count modulo 4 |
| `heap` | Allocations are disjoint and nothing leaks, headers are valid exactly for what is held and blocks are large enough, the search is first-fit | 7 blocks, 2 clients; sizes of 2 to 4 blocks and sizes at the wrap of `size_t` |
| `ipc` | Rings implement bounded queues: a call moves exactly the data it was given, only through an open end, and fails only when it must (`RefinesIpcService`) | 2 pipes, 1 queue, rings of 2: full, empty and wrapped. `OneTable` leaves out behaviours that use both tables, which share no state; the view leaves the last call and its result out of the states, since no action reads them and every step is checked |
| `services` | Pids exist exactly while running, an entry is disabled after exactly the permitted restarts, crashes are handled if the passes are made | 3 entries (two names, so a name occurs twice), 2 restarts |
| `vfs` | Reference counts, ownership of buffers and sizes covered by them, creations found | root and 2 more inodes, 2 descriptors, 2 buffers, lengths 1 and 2, assumed buffer 2; two users, one group (mode 0755 does not tell group from others) |
| `compat` | No path of an execution loses a block or frees another's (`BuffersAccounted`), loaded sections are whole (`SectionsIntact`), TLS values stay with their thread (`TlsIsOwn`), the call returns without a timer (`ExecReturns`) | 2 executions, so that tables are used again; files of one and two sections in both orders, and the demo image; tables of 1 to 3 entries, so that each is full at some time. `Groups` leaves out products of tables that share nothing; it cuts off no execution |
| `gui` | What is drawn on top is what a click hits (`AllDrawn`), a step only brings one window to the top (`OrderKept`), a drag ends with its button (`DragIsHeld`) | 5 slots, 3 windows open, an event queue of 2 (it fills), 1 event per frame (events wait over frames) |
| `storage` | Reads are right at every offset and length (`ReadIsRight`), the directory calls agree (`DirectoryAgrees`), a transfer that succeeds is whole (`TransferIsWhole`), calls end and free their buffer (`CallsEnd`) | two volumes (clusters of one and of two sectors, chains out of order), sectors of 2 units, 3 tries |
| `net` | The cache answers with a host's last reply unless its entry was evicted (`ArpKnows`), a changed byte is noticed (`ChecksumGuards`), driver and card agree on descriptors and ring cells (`CardInStep`) | 3 hosts on 2 entries; every byte with every value; 2 descriptors, 3 frames, a ring that wraps |
| `apps` | Buttons can be reached and the highlighted one is the one the toolkit means (`ControlsReachable`), labels show the settings from the first change on (`SettingsShown`) | 2 launches of any of the four applications, with creations that fail at several places; terminal buffers of 3 and 8 |
| `boot` | Boot comes to an end (`BootSettles`), its screen and the ACPI information say what happened (`BootReports`), nothing is used before its set-up but for two known cases (`InitOrder`), no page is handed out twice (`PagesHeldOnce`) | machines that differ in one or two things from a good one, 2 PCI entries, 7 pages from page 2 on, the heap at pages 7 and 8, pages up to 10, so that stacks reach the heap, pass it and go beyond the memory |

Every property has a mutant, a small change of the code's behaviour (`Mut_...` in
the modules) that TLC finds to violate it.

### Disagreements found

`PROJECT.json` quotes the code and what the repository says of it. The models keep
what the code does, and where a property needs an exception for it the property's
comment names it.

- A thread "removed from the scheduler" while queued is dispatched again.
- The stress thread's check after `mutex_unlock` can report an inconsistency when
  there is none.
- The heap's bitmap is sized 16 times too small, and one page is taken for it.
- A write passes the end of the buffer of a small file.
- Every restarted service gets pid 1.
- Panels take ten widgets; the settings create fourteen, and Apply and Cancel are
  among those that are dropped.
- With nearly all window slots in use a raised window leaves the range that is
  drawn.
- Key releases are taken for presses, so Alt+Tab works once.
- The ARP cache's "oldest" entry is slot 0.
- An echo request is answered with an echo request.
- Layer 7 runs only after the GUI has failed, and then fails.
- The network card's interrupt handler is registered before the table is cleared.
- `thread_create` does not enqueue the thread, and the stress threads never run.
- Crashed services are not restarted: nothing makes the check passes.
- The language label of the settings never changes, and a second launch shows the
  values at boot until the next change.
- The terminal writes behind its output buffer, by one byte when a line just fits and
  by the welcome text at a relaunch.
- The boot screen says PASS for a frame buffer that is not there and for a
  compatibility layer whose tests failed.
- The page allocator hands out the heap's pages and pages beyond the memory, and
  `kernel_stack_alloc` clears page 0 when there is none left.
- The handlers of the right mouse button do not exist.
- The card is configured to accept no frame.

### Fairness

A specification has fairness only where the code itself gives it:

- `Compatd`, `Fat32`, `Boot`: weak fairness of the next step of the call in
  progress, which nothing interrupts. Whether the timer ticks is not assumed in
  `Compatd`, and that the disk answers is not assumed in `Fat32`.
- `MutexClients`, `StressTest`: weak fairness of the steps under the spinlock: the
  context that holds it is running and goes on.

Three properties need more than that, and the code does not give it. They have
it as a hypothesis, so that they speak of the algorithm and not of the scheduling:

- `ReadyIsServed` of behaviours in which `timer_handler` or `thread_yield` is called
  again and again (`SchedulerEntered`). The timer line is masked and never unmasked;
  only the waiting loop of `mutex_lock` and `init_main_loop`, which nothing enters,
  yield. `spinlock_lock`, `w32_Sleep`, the waits of `ata.c` and the GUI's main loop do
  not.
- `AllComplete` of behaviours in which the stress threads are scheduled
  (`ThreadsScheduled`, strong fairness: under weak fairness the spinlock, which has no
  queue, may starve a thread). `thread_create` does not enqueue a thread, and
  `run_stress_test` neither enqueues its threads nor is called.
- `CrashHandled` of behaviours in which the check pass goes on being made
  (`PassesGoOn`). Nothing enters `init_main_loop`, and its condition waits for ticks
  that the masked timer does not count.

`Scheduler` and `RoundRobin` have no fairness; what `RoundRobin` promises is the order
of service.

`CHECK_DEADLOCK FALSE` appears where a system may really stop: tables full, no
caller left, applications shut down, boot at its end.

## Proofs

For every value of the constants, under the named assumptions of the modules. Each
module first shows what the operators do, then one lemma per action, then that the
invariant is inductive.

- **`SchedulerProofs`** (`SchedulerAssumption`): `TypeCorrect`, `ReadyQueueIsList`,
  `PcbsAreLive`, `OneRunningThread`, `StatsAreRight`, `ServesInOrder`. The inductive
  invariant joins `SchedOK` (the links form a list of live PCBs, only the current
  thread is RUNNING) with the statistics. None of its parts is inductive alone:
  unlinking is correct only for a list, the list stays one of live PCBs only if
  destruction unlinks, and one RUNNING thread rests on the dispatched one having
  been queued. The lemmas go from the two queue operations (`AddList`, `RemoveList`,
  with the new list given as a witness) over `dispatch` and `schedule` to the
  actions; `StatsCreate` and `StatsDestroy` carry the cardinalities.
  `ServesInOrder` is the refinement of `RoundRobin`. The mapping chooses the list that the links form; `OneList` shows by
  induction along the links that there is only one, so adding is appending to the
  line, removing is taking one out, and `schedule` is a switch, an idle step or
  nothing.
- **`KernelProofs`**, mutex (`MutexAssumption`, `DepthAssumption`, `StressAssumption`):
  `MutexTypes`, `MutexExcludes`, `OwnershipIsRight` of `MutexClients`, in which
  every context may make every call; `CounterIsExact`, `FinalCount` and
  `StressExcludes` of `StressTest`. `MutualExclusion` speaks of what callers hold
  and is not inductive. `SpinExclusion` says that at most one context is inside the
  spinlock and that a context about to take the mutex has seen it free; `Agrees`
  relates, at each place of a call, `depth` to `owner` and `recursion_count`;
  `Bounded` keeps the count below its modulus. `StressInv` adds, for each thread,
  how its place in the loop goes with its place in the call and that a loaded value
  is still the counter's (`InTurn`, `Counted`), and that a behaviour has one of the
  two workloads.
- **`KernelProofs`**, heap (`HeapAssumption`): `HeapIsDisjoint`, `HeadersAreRight`,
  `SearchIsFirstFit`. `HeapInv` joins disjointness with the header of every held
  allocation, which is what `kfree` trusts, and with the bounds of every allocation.
  What `find_run` returns is proved by induction over the blocks: all it has passed
  cannot be the start of a run that is long enough.
- **`VfsProofs`** (`VfsAssumption`): `RefCountsAreRight`, `BuffersHaveOneOwner`,
  `WhatIsCreatedIsFound`. `VfsInv` says that the inodes form a tree in order of
  creation (`TableOK`), descriptors point into it, counts are one more than the
  descriptors, each buffer has one owner, and, until the first fault, sizes are
  covered. The walks of `lookup_path` are followed by induction over the path.
- **`ServicesProofs`**, service manager (`ServiceAssumption`): `ServiceTypes`, `PidIsRight`,
  `OnlyCrashLoopsDisable`. The invariant is a property of each entry; that a
  restarted service has a pid rests on its type. That restarts end at
  the limit rests on `crash_count` being the history `restarts` (`Counted`).
- **`ServicesProofs`**, pipes and queues (`IpcAssumption`): `RingsAreQueues`, the
  whole of `RefinesIpcService`, which has no fairness. What a ring holds is the
  sequence of `count` cells from `tail` on, modulo the size (`InRing`). `IpcInv` says
  of each ring that head, tail and count go together, without which a write would
  go to a cell that still holds data (`RingOK`). From it a write appends the
  bytes of its request to the sequence, all or none, and a read takes its front, index by index modulo the size (`Wrap`).
- **`ServicesProofs`**, storage (`Fat32Assumption`, `VolumesAssumption`,
  `SectorsAssumption`):
  `ReadsAreExact`, `DirectoryCallsAgree`, `TransfersAreWhole`. The properties speak
  of calls that have ended. `FatInv` says what a call has at each disk access: how
  many clusters it still skips (`Skips`), that its buffer is the part of the chain's
  contents read so far and its result that of the clusters before (`Loads`,
  `Follows`, with one `Progress` per kind of call), and what it may answer
  (`CallDone`; `Marred` after an error). A disk answer is right unless it belongs to a
  command given up before, so a late write must go to a scratch sector (`AtaGood`).
  The chain is a recursive function over its length, and the contents are given by
  index, so that the call's arithmetic of offsets meets them cluster by cluster.
  Names of directory entries are filtered cluster by cluster by the code and at once
  by the property; `WithoutParts` shows that this is the same.
- **`CompatdProofs`** (`CompatdAssumption` and those of `Win32` and `PeImage`):
  `NoBlockIsLost`, `TlsStaysPrivate`, `ImagesAreWhole`. `BuffersAccounted` speaks of
  the end of a call, so `CompatInv` says at each stage which blocks the call holds
  (`ExecOK`) and that these, the program's and the mapped ones are apart and are all
  there are (`AccountedNow`, unless an exit function ran twice); the entry of a
  thread that is in use is that thread's. `ImageInv` adds that the image is what
  loading the accepted file gives. That all sections survive the copying is an
  induction over them: a section's copy is not touched by the later ones, because
  the validator found them apart and `linked` keeps the padding short.
- **`NetProofs`** (`NetAssumption`, `RtlAssumption`): `ArpAnswersLast`,
  `ChecksumCatchesOneByte`, `CardStaysInStep`, and `ComposedNet`, by which the
  first three hold of the composed specification that the run checks. `ArpInv` keeps
  at most one valid entry per host; `SentOK` and `GotOK` say that the last packet
  is well formed, without which a changed byte could meet an old error. The sum
  of pairs is unrolled for the header's usual length; a change of one byte then moves it by
  less than the modulus of the end-around carry.
  `CardStaysInStep` has the hypothesis `RTL_MAX_PACKETS = Descriptors`, as in the
  driver (both are 4): the driver's count and the card's would drift apart
  otherwise.
- **`BootProofs`** (`PagesAssumption`, `BootAssumption`): `PagesAreHeldOnce`,
  `BootIsInOrder`, `BootReportsAreTrue`. `PagesInv`: held pages lie below
  `next_free_page`, which never goes back, whatever is freed. `OrderInv` lists the parts
  that are up at each place of `kernel_main`, `DiagInv` which stages are passed
  there and that their parts, and no later ones, are up, and `AcpiInv` that the scan is at the start of an entry and has counted the
  processors before it.
- **`GuiProofs`**, window manager (`GuiAssumption`, `InputAssumption`,
  `WindowsAssumption`):
  `ScreenAndMouseAgree`, `RaisesOnly`, `DragsEnd`. `StackInv` says that ids are
  below the next one, that z orders are different, and, if at most `WM_MAX_WINDOWS - 2`
  windows are open at a time, that none is larger than their number, so that
  `wm_compact_z` and `wm_draw_all` reach them all. `wm_compact_z` is a loop: what it
  has renumbered is in the old order and below the rest (an induction over its
  passes). `RaisesOnly` follows step by step: each of create, close, raise
  and compact keeps the order of the other windows. `DragInv` says that, unless an
  event was dropped, the button is seen down, or its release is in the queue with no
  press after it, or nothing is dragged and no press is in the queue.
- **`GuiProofs`**, applications (`AppsAssumption`, `ToolkitAssumption`):
  `ButtonsReachable`, `LabelsAgree`. `AppsInv`: a launch that succeeded left the
  panel with all the children it has room for, the highlighted button of the last
  application is the toolkit's, levels are multiples of the step, and the labels
  show the settings at boot before the first change on the panel and the present ones
  after it. The assumption that no widget before the limit
  lies on a button is a fact of the four layouts of the source, which TLC evaluates.

Recursive functions (`find_run`, `lookup_path`, `pe_load_image`, `ChainFrom`,
`Without`, `kbd_take`, `push_all`, `wm_compact_z`) are reached by
induction over finite sets of numbers: the facts to prove are written as a set, and
the least element outside of it (`LeastExists`, `Induction`) is refuted. This needs
no theorem that takes an operator as its parameter.

Only model-checked:

- Liveness (`ReadyIsServed`, `SpinlockReleased`, `AllComplete`, `CrashHandled`,
  `ExecReturns`, `CallsEnd`, `BootSettles`), which is out of the prover's reach.

Every invariant and every safety property that the runs check is a theorem.

## Not modelled

- `kernel/vmm.c` defines its functions several times, cut into each other; it cannot
  be compiled and nothing calls it.
- `services/signal.c`, `services/udp.c` and the entry point of the system calls are
  stubs without state.
- Of `win32_stubs.c` the calls that log and return a constant, or forward to the
  VFS; exception codes and the API log.
- Port and register I/O, the DMA tables of `ata.c`, boot code in assembler.
- Rendering, fonts, themes, animation, formatting, reports and self-tests: no state
  that anything decides by. Login screen, release checks and stress suites call what
  is modelled.
- Command-line front ends (`apps/shell.c`, `fileman.c`, `taskmgr.c`, `http_client.c`
  and others), which keep little beyond what the services keep.

## Plan

Done: scheduler, mutex, stress test, heap, pipes and queues, VFS, service manager;
compatibility layer, input path and window manager, storage, network, applications,
page allocator, ACPI and boot; the safety
properties of all runs proved.

What is left, and what it would need:

1. A property for the hazards that have none (`PROJECT.json` says why for each):
   contents of files in `Vfs`, so that a shrinking file under an open descriptor can
   be told from a whole one; the heap's bitmap in bytes.
2. Liveness, which a prover with fairness and ENABLED could take from the invariants
   above: `ReadyIsServed` from `ServesInOrder` and the length of the line.
3. The parts listed under "Not modelled", once the code calls them.
