------------------------------ MODULE Compatd -------------------------------
(***************************************************************************)
(* compatd_exec_exe of compat/compatd.c: an executable is read, checked,   *)
(* loaded, bound, given a process entry and memory, and exercised by       *)
(* run_api_smoke; every step can fail.  The tables are those of Win32, the *)
(* checks those of PeImage.  Processes: compat_process.c; libraries:       *)
(* module_registry.c; paths: exe_sandbox.c; the functions run at an exit:  *)
(* safe_exit.c.                                                            *)
(*                                                                         *)
(* exec is the call in progress, at its stage.  Programs make calls while  *)
(* no exec is in progress: nothing interrupts one.                         *)
(***************************************************************************)
EXTENDS Win32, PeImage

CONSTANTS Files,        \* what files under /apps can hold
          Demo,         \* g_demo_pe
          Dlls,         \* names of libraries
          Funcs,        \* names of functions
          ModuleCount,  \* COMPAT_MAX_MODULES
          ExportCount,  \* COMPAT_MAX_EXPORTS
          ProcCount,    \* COMPAT_MAX_PROCESSES
          ProcThreads,  \* COMPAT_MAX_THREADS_PER_PROC
          AtexitCount,  \* COMPAT_MAX_ATEXIT
          SleepGuard,   \* the spins after which w32_Sleep gives up
          MaxExecs      \* bound: calls of compatd_exec_exe

ASSUME CompatdAssumption ==
    /\ \A f \in Files \cup {Demo} : IsFile(f)
    /\ {ProcCount, ModuleCount, ExportCount, ProcThreads, AtexitCount, SleepGuard, MaxExecs} \subseteq Nat

VARIABLES exec,         \* the call in progress
          g_processes,  \* entries in use, in order: [pid, exited, threads]
          g_modules,    \* entries in use, in order: [dll_name, exports]
          g_atexit_funcs, \* each stands for the block of its program that it frees
          execs,        \* calls of compatd_exec_exe made
          atexit_ran,   \* history: functions that have run
          rerun         \* history: one of them has run again

exit_vars == <<g_atexit_funcs, atexit_ran, rerun>>
compat_vars == <<win32_vars, exec, g_processes, g_modules, execs, exit_vars>>

Stages == {"idle", "parse", "load", "bind", "process", "map", "file", "alloc", "thread",
           "sleep", "sleep_again", "finish", "crash"}

NoFile == [size |-> 0]
Idle == [at |-> "idle", file |-> NoFile, tmp |-> NULL, image |-> NULL, contents |-> <<>>,
         bound |-> <<>>, relocs_applied |-> FALSE,
         maps |-> <<NULL, NULL, NULL>>, guard |-> 0]

CompatInit ==
    /\ Win32Init
    /\ exec = Idle /\ g_processes = <<>> /\ g_modules = <<>> /\ execs = 0
    /\ g_atexit_funcs = <<>> /\ atexit_ran = 0 /\ rerun = FALSE

-----------------------------------------------------------------------------
\* Libraries: registration and exports.

module_registry_register(dll) ==
    /\ find_module(g_modules, dll) = 0
    /\ Len(g_modules) < ModuleCount
    /\ g_modules' = Append(g_modules, [dll_name |-> dll, exports |-> <<>>])
    /\ UNCHANGED <<win32_vars, exec, g_processes, execs, exit_vars>>

module_registry_add_export(dll, func) ==
    LET m == find_module(g_modules, dll) IN
    /\ m # 0 /\ Len(g_modules[m].exports) < ExportCount
    /\ g_modules' = [g_modules EXCEPT ![m].exports = Append(@, func)]
    /\ UNCHANGED <<win32_vars, exec, g_processes, execs, exit_vars>>

-----------------------------------------------------------------------------
\* Processes: they are never removed from the table.

compat_process_get(pid) == {i \in 1 .. Len(g_processes) : g_processes[i].pid = pid}

compat_process_exit(pid) ==
    \E i \in compat_process_get(pid) :
        /\ g_processes' = [g_processes EXCEPT ![i].exited = TRUE]
        /\ UNCHANGED <<win32_vars, exec, g_modules, execs, exit_vars>>

compat_process_add_thread(pid, tid) ==
    \E i \in compat_process_get(pid) :
        /\ Len(g_processes[i].threads) < ProcThreads
        /\ g_processes' = [g_processes EXCEPT ![i].threads = Append(@, tid)]
        /\ UNCHANGED <<win32_vars, exec, g_modules, execs, exit_vars>>

-----------------------------------------------------------------------------
\* Exits.

\* A program registers the release of one of its blocks.
compat_atexit(block) ==
    /\ Len(g_atexit_funcs) < AtexitCount
    /\ g_atexit_funcs' = Append(g_atexit_funcs, block)
    /\ UNCHANGED <<win32_vars, exec, g_processes, g_modules, execs, atexit_ran, rerun>>

\* Every function that was ever registered is run; the list is not cleared.  A
\* program gives up its block when its function runs for the first time.
compat_cleanup_on_crash ==
    /\ atexit_ran' = Len(g_atexit_funcs)
    /\ rerun' = (rerun \/ atexit_ran > 0)
    /\ owned' = owned \ {g_atexit_funcs[i] : i \in atexit_ran + 1 .. Len(g_atexit_funcs)}

-----------------------------------------------------------------------------
\* compatd_exec_exe.  Each return of the code has its own list of frees; which of
\* tmp, image and maps the call holds by then says exec (NULL for what it does
\* not), and Release stands for all the lists: it frees what is held (kfree,
\* pe_unload_image and compat_munmap_region).

\* A seeded slip: the image is not unloaded.
Mut_Release(e) == heap \ ({e.tmp} \cup {e.maps[i] : i \in 1 .. 3})

Release(e) == heap \ ({e.tmp, e.image} \cup {e.maps[i] : i \in 1 .. 3})

unmapped(e) == [r \in Region |-> IF g_regions[r] \in {e.maps[i] : i \in 1 .. 3} THEN NULL
                                 ELSE g_regions[r]]

exec_return ==
    /\ exec' = Idle
    /\ heap' = Release(exec)
    /\ g_regions' = unmapped(exec)

goto(stage) == exec' = [exec EXCEPT !.at = stage]

tables_kept == UNCHANGED <<owned, stacks, thread_vars, sync_vars, g_modules, execs, exit_vars>>

\* The sandbox lets /apps pass, and everything but the system's directories.
sandbox_check_path(path) == path = "/apps" \/ path \notin {"/kernel", "/etc", "/boot", "/system"}

\* The buffer, the handle, and what is read; without them the demo image is
\* taken.  The handle is closed only when there is a buffer.
exec_open(path) ==
    /\ exec.at = "idle" /\ execs < MaxExecs
    /\ sandbox_check_path(path)
    /\ \E tmp \in kmalloc(heap), handle \in {{}} \cup {{f} : f \in lowest_fd} :
       \E data \in {Demo} \cup (IF handle # {} /\ tmp # NULL THEN Files ELSE {}) :
          /\ exec' = [Idle EXCEPT !.at = "parse", !.file = data, !.tmp = tmp]
          /\ heap' = heap \cup ({tmp} \ {NULL})
          /\ fds' = IF tmp = NULL THEN fds \cup handle ELSE fds
    /\ execs' = execs + 1
    /\ UNCHANGED <<owned, stacks, g_regions, thread_vars, sync_vars, g_processes, g_modules,
                   exit_vars>>

exec_parse ==
    /\ exec.at = "parse"
    /\ IF pe_parse_image(exec.file) /\ pe_validate_image(exec.file)
       THEN goto("load") /\ UNCHANGED <<heap, g_regions>>
       ELSE exec_return
    /\ tables_kept /\ UNCHANGED <<fds, g_processes>>

exec_load ==
    /\ exec.at = "load"
    /\ \E image \in kmalloc(heap) :
          IF image # NULL /\ pe_load_fits(exec.file)
          THEN /\ exec' = [exec EXCEPT !.at = "bind", !.image = image,
                                       !.contents = pe_load_image(exec.file)]
               /\ heap' = heap \cup {image}
               /\ UNCHANGED g_regions
          ELSE exec_return
    /\ tables_kept /\ UNCHANGED <<fds, g_processes>>

\* A failed relocation and unresolved imports are reported and do not stop it.
exec_bind ==
    /\ exec.at = "bind"
    /\ exec' = [exec EXCEPT !.at = "process",
                  !.relocs_applied = pe_apply_relocations(exec.file) = "applied",
                  !.bound = import_resolver_resolve(import_resolver_parse(exec.file), g_modules)]
    /\ tables_kept /\ UNCHANGED <<heap, g_regions, fds, g_processes>>

\* compat_process_create; nobody looks at its result.
exec_process ==
    /\ exec.at = "process"
    /\ g_processes' = IF Len(g_processes) < ProcCount
                      THEN Append(g_processes, [pid |-> Len(g_processes) + 1, exited |-> FALSE,
                                                threads |-> <<>>])
                      ELSE g_processes
    /\ exec' = [exec EXCEPT !.at = "map", !.file = NoFile, !.contents = <<>>, !.bound = <<>>,
                            !.relocs_applied = FALSE]
    /\ tables_kept /\ UNCHANGED <<heap, g_regions, fds>>

\* Three regions are asked for, whichever of them fail.
exec_map ==
    /\ exec.at = "map"
    /\ \E a \in compat_mmap_region(here) : \E b \in compat_mmap_region(a) :
       \E c \in compat_mmap_region(b) :
          IF NULL \notin {a.base, b.base, c.base}
          THEN /\ exec' = [exec EXCEPT !.at = "file", !.maps = <<a.base, b.base, c.base>>]
               /\ heap' = c.heap /\ g_regions' = c.regions
          ELSE /\ exec' = Idle
               /\ heap' = c.heap \ {exec.tmp, exec.image, a.base, b.base, c.base}
               /\ g_regions' = [r \in Region |->
                      IF c.regions[r] \in {a.base, b.base, c.base} THEN NULL ELSE c.regions[r]]
    /\ tables_kept /\ UNCHANGED <<fds, g_processes>>

\* run_api_smoke: open and read, allocate, a thread with its TLS value, sleep.
smoke_file ==
    /\ exec.at = "file"
    /\ \/ lowest_fd # {} /\ goto("alloc")
       \/ goto("crash")
    /\ tables_kept /\ UNCHANGED <<heap, g_regions, fds, g_processes>>

smoke_alloc ==
    /\ exec.at = "alloc"
    /\ \E v \in kmalloc(heap), h \in kmalloc(heap) :
          goto(IF NULL \in {v, h} THEN "crash" ELSE "thread")
    /\ tables_kept /\ UNCHANGED <<heap, g_regions, fds, g_processes>>

\* The thread's entry gives thread 1 a value; the test reads the new thread's.
smoke_thread ==
    /\ exec.at = "thread"
    /\ \/ /\ free_thread(g_threads) = {}
          /\ goto("crash")
          /\ UNCHANGED thread_vars
       \/ /\ \E i \in free_thread(g_threads), v \in TlsValues :
                LET ts == compat_set_tls(started(g_threads, i, g_next_tid, TRUE), 1, v) IN
                /\ g_threads' = ts
                /\ tls_written' = tls_written \cup
                       (IF find_thread(started(g_threads, i, g_next_tid, TRUE), 1) = {} THEN {}
                        ELSE {<<1, v>>})
                /\ exec' = [exec EXCEPT !.at = IF ts[i].tls = v THEN "sleep" ELSE "crash",
                                        !.guard = SleepGuard]
          /\ g_next_tid' = g_next_tid + 1
    /\ UNCHANGED <<heap, owned, stacks, g_regions, sync_vars, g_modules, execs, exit_vars, fds,
                   g_processes>>

\* w32_Sleep spins until the timer has ticked or the guard has run out.
next_stage == [sleep |-> "sleep_again", sleep_again |-> "finish"]

wake == exec' = [exec EXCEPT !.at = next_stage[exec.at], !.guard = SleepGuard]

\* A seeded slip: the guard is not counted down.
Mut_sleep_spin ==
    /\ exec.at \in DOMAIN next_stage
    /\ exec.guard = 0 /\ wake
    /\ tables_kept /\ UNCHANGED <<heap, g_regions, fds, g_processes>>

sleep_spin ==
    /\ exec.at \in DOMAIN next_stage
    /\ IF exec.guard = 0 THEN wake ELSE exec' = [exec EXCEPT !.guard = @ - 1]
    /\ tables_kept /\ UNCHANGED <<heap, g_regions, fds, g_processes>>

sleep_tick ==
    /\ exec.at \in DOMAIN next_stage
    /\ wake
    /\ tables_kept /\ UNCHANGED <<heap, g_regions, fds, g_processes>>

\* The end, after run_api_smoke has failed or after two exceptions raised as a
\* test, which the handler only prints; both run the functions for an exit.
exec_end ==
    /\ exec.at \in {"finish", "crash"}
    /\ compat_cleanup_on_crash
    /\ exec' = Idle
    /\ heap' = Release(exec) \ {g_atexit_funcs[i] : i \in DOMAIN g_atexit_funcs}
    /\ g_regions' = unmapped(exec)
    /\ UNCHANGED <<stacks, thread_vars, sync_vars, fds, g_processes, g_modules, execs,
                   g_atexit_funcs>>

-----------------------------------------------------------------------------
ExecStep ==
    \/ exec_parse \/ exec_load \/ exec_bind \/ exec_process \/ exec_map
    \/ smoke_file \/ smoke_alloc \/ smoke_thread \/ sleep_spin \/ exec_end

\* The blocks that functions for the exit will free; a program does not free
\* these itself as well.
Promised == {g_atexit_funcs[i] : i \in atexit_ran + 1 .. Len(g_atexit_funcs)}

Program ==
    /\ exec.at = "idle"
    /\ \/ ProgramCall /\ Promised \subseteq owned' /\ UNCHANGED <<exec, g_processes, g_modules, execs, exit_vars>>
       \/ \E pid \in 1 .. ProcCount :
             compat_process_exit(pid) \/ \E tid \in 1 .. MaxTid : compat_process_add_thread(pid, tid)
       \/ \E block \in owned : compat_atexit(block)
       \/ \E d \in Dlls : module_registry_register(d)
       \/ \E d \in Dlls, f \in Funcs : module_registry_add_export(d, f)

Next ==
    \/ \E path \in {"/apps", "/etc"} : exec_open(path)
    \/ ExecStep \/ sleep_tick
    \/ Program

\* The call goes on by itself; whether the timer ticks is not assumed, for
\* pic_init masks its line.
Spec == CompatInit /\ [][Next]_compat_vars /\ WF_compat_vars(ExecStep)

-----------------------------------------------------------------------------
Held == {exec.tmp, exec.image} \cup {exec.maps[i] : i \in 1 .. 3}

Nonzero(x) == IF x = NULL THEN 0 ELSE 1

\* No path through compatd_exec_exe loses a block or frees another's: the
\* allocated blocks are, without overlap, what programs hold and what the call
\* in progress holds, and the region table lists exactly the mapped ones.  A
\* function that runs at a second exit (the list is not cleared) can free the
\* block of somebody else, so this holds until one does.
BuffersAccounted == rerun \/
    /\ Win32TypeOK
    /\ heap = owned \cup stacks \cup (Held \ {NULL})
    /\ Cardinality(heap) = Cardinality(owned) + Cardinality(stacks)
          + Nonzero(exec.tmp) + Nonzero(exec.image)
          + Nonzero(exec.maps[1]) + Nonzero(exec.maps[2]) + Nonzero(exec.maps[3])
    /\ {g_regions[r] : r \in Region} \ {NULL} = stacks \cup ({exec.maps[i] : i \in 1 .. 3} \ {NULL})

\* A thread reads from TLS only what it was given itself, although entries of
\* the thread table are used again (compat_create_thread_pid, compat_set_tls).
TlsIsOwn ==
    \A i \in ThreadSlot : LET t == g_threads[i] IN
        t.used /\ t.tls # 0 => <<t.tid, t.tls>> \in tls_written

\* Linkers pad the data of a section at most to the alignment, and no section
\* goes beyond the last address.
linked(f) ==
    \A i \in 1 .. Len(f.sections) : LET s == f.sections[i] IN
        s.rva + s.virtual_size < Word /\ \E n \in 0 .. s.virtual_size : s.raw_size <= n * f.align /\ n * f.align < s.virtual_size + f.align

\* What pe_validate_image accepts and pe_load_image loads is there as a whole:
\* copying the sections one by one lets none overwrite another's data, for
\* files as linkers write them.  And the second validator, pe_validate_full,
\* turns none of these down but for headers that end before the section table.
SectionsIntact ==
    exec.at = "bind" =>
        /\ linked(exec.file) =>
             \A i \in 1 .. Len(exec.file.sections) : LET s == exec.file.sections[i] IN
                 \A k \in 0 .. s.raw_size - 1 : exec.contents[s.rva + k] = s.raw_offset + k
        /\ pe_validate_full(exec.file) <=> exec.file.size_of_headers >= HeadersMin

\* compatd_exec_exe returns, also when the timer never ticks.
ExecReturns == exec.at # "idle" ~> exec.at = "idle"
=============================================================================
