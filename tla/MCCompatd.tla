----------------------------- MODULE MCCompatd ------------------------------
(***************************************************************************)
(* Compatd for TLC.  Files of one and two sections around the alignment,   *)
(* in order and out of order, with and without relocations and imports.    *)
(* The constraints leave out what multiplies states without relating them: *)
(* synchronisation objects and libraries together with the rest.           *)
(***************************************************************************)
EXTENDS Compatd, TLC

k == [stem |-> "k", upper |-> FALSE, ext |-> "dll"]
K == [stem |-> "k", upper |-> TRUE, ext |-> "dll"]
u == [stem |-> "u", upper |-> FALSE, ext |-> "dll"]

MCDlls == {k, K, u}
MCFuncs == {"f"}

NoDir == [rva |-> 0, size |-> 0]

Image(secs, reloc, imports) ==
    [size |-> 5, magic |-> TRUE, table |-> 1, size_of_image |-> 6, size_of_headers |-> 2,
     align |-> 2, sections |-> secs, reloc |-> reloc, imports |-> imports]

Section(rva, virtual_size, raw_size, raw_offset) ==
    [rva |-> rva, virtual_size |-> virtual_size, raw_size |-> raw_size, raw_offset |-> raw_offset]

\* Shorter than its data, longer than its data, across the next one; and alone:
\* outside the file, misaligned, without data.
Neighbours == {Section(r, 1, 2, 2) : r \in {2, 4}} \cup {Section(2, 2, 1, 3), Section(2, 3, 4, 1)}
Alone == {Section(4, 1, 2, 4), Section(3, 1, 1, 2), Section(4, 2, 0, 0)}

\* build_demo_pe in units of 0x100, with pages of 0x400 in place of 0x1000.
MCDemo ==
    [size |-> 8, magic |-> TRUE, table |-> 1, size_of_image |-> 16, size_of_headers |-> 2, align |-> 4,
     sections |-> <<Section(4, 2, 2, 2), Section(8, 2, 2, 4), Section(12, 2, 2, 6)>>,
     reloc |-> NoDir, imports |-> <<>>]

MCFiles ==
    {Image(<<s>>, r, <<[dll |-> K, func |-> "f"], [dll |-> u, func |-> "f"]>>) :
        s \in {Section(2, 2, 2, 2)}, r \in {NoDir, [rva |-> 2, size |-> 1], [rva |-> 5, size |-> 1]}}
    \cup {Image(<<s, t>>, NoDir, <<>>) : s, t \in Neighbours}
    \cup {Image(<<s>>, NoDir, <<>>) : s \in Alone}
    \cup {[MCDemo EXCEPT !.magic = FALSE], [MCDemo EXCEPT !.size_of_image = 15],
          [MCDemo EXCEPT !.size_of_headers = 1]}

\* Programs hold one block at a time; synchronisation objects, the entries
\* of processes, libraries, functions for the exit and the rest are used one
\* at a time, and an exec begins only after the last three.  No step of
\* an exec is cut off.
Untouched == owned = {} /\ stacks = {} /\ fds = {} /\ g_modules = <<>> /\ g_next_tid <= execs + 1

Groups ==
    LET blocks == Cardinality(owned) + Cardinality(stacks) IN
    /\ blocks <= 1
    /\ g_next_sync_id > 0 => Untouched /\ execs = 0
    /\ g_modules # <<>> => blocks = 0
    /\ \A i \in DOMAIN g_processes :
          g_processes[i].exited \/ g_processes[i].threads # <<>> => exec.at = "idle" /\ Untouched
    /\ exec.at = "idle" /\ g_atexit_funcs # <<>> =>
          stacks = {} /\ fds = {} /\ g_modules = <<>> /\ g_next_tid <= execs + 1
=============================================================================
