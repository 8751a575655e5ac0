------------------------------- MODULE MCBoot -------------------------------
(***************************************************************************)
(* Boot for TLC: machines that differ in one or two things from a good one *)
(* with two processors, a disabled one among them.                         *)
(***************************************************************************)
EXTENDS Boot

rsdp(sum, revision, extended_sum, rsdt) ==
    [signature |-> TRUE, sum |-> sum, revision |-> revision, extended_sum |-> extended_sum,
     rsdt |-> rsdt]
GoodRsdp == rsdp(TRUE, 2, TRUE, "right")

table(signature, sum) == [signature |-> signature, sum |-> sum]

\* An entry's first cell; the cells after it hold anything, even a processor.
entry(type, length, enabled) == [type |-> type, length |-> length, enabled |-> enabled]
Filler == entry("lapic", 1, TRUE)
GoodCells == <<entry("lapic", 2, TRUE), Filler, entry("ioapic", 2, TRUE), Filler,
               entry("lapic", 1, FALSE), entry("iso", 1, TRUE), entry("lapic", 2, TRUE)>>

firmware(rsdps, tables, cells) ==
    [rsdps |-> rsdps, tables |-> tables, cells |-> cells,
     processors |-> IF cells = <<>> THEN 0 ELSE 2]

Rsdps == {<<>>, <<GoodRsdp>>, <<rsdp(FALSE, 1, TRUE, "right"), rsdp(TRUE, 2, FALSE, "right"),
                                rsdp(TRUE, 1, FALSE, "right")>>,
          <<rsdp(TRUE, 1, TRUE, "wrong"), GoodRsdp>>}
Tables == {<<table("other", TRUE), table("FACP", fadt), table("APIC", madt)>> :
               fadt \in BOOLEAN, madt \in BOOLEAN}
          \cup {<<table("FACP", TRUE)>>, <<table("APIC", TRUE)>>}
Cells == {GoodCells, <<entry("lapic", 1, TRUE), entry("iso", 0, TRUE), entry("lapic", 1, TRUE)>>}

MCMachine ==
    [magic : {TRUE}, fb : {"rgb32", "none"},
     firmware : {firmware(r, t, c) : r \in Rsdps, t \in Tables, c \in Cells},
     devices : {<<"ide">>, <<"ide", "rtl8139">>, <<"ide", "vga", "rtl8139">>}]
    \cup [magic : {FALSE}, fb : {"rgb32"},
          firmware : {firmware(<<>>, <<>>, <<>>)}, devices : {<<>>}]
=============================================================================
