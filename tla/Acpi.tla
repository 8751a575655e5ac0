-------------------------------- MODULE Acpi --------------------------------
(***************************************************************************)
(* The ACPI tables as src/kernel/acpi.c reads them.  The firmware is a     *)
(* record: the places where a root pointer may lie, in the order they are  *)
(* searched, the tables of the RSDT in order, and the body of the MADT as  *)
(* cells, of which an entry takes as many as its length says.  A checksum  *)
(* is whether it is right.                                                 *)
(***************************************************************************)
EXTENDS Naturals, Sequences, FiniteSets

VARIABLES acpi,      \* g_rsdp, g_fadt, g_madt and g_acpi_info
          ics_ptr,   \* the next entry of the MADT
          cpus       \* cpu_count, the local

acpiVars == <<acpi, ics_ptr, cpus>>

\* acpi_init clears its state.
acpi_cleared == [rsdp |-> 0, fadt |-> 0, madt |-> 0, sci |-> FALSE,
                 valid |-> FALSE, cpu_count |-> 0]

\* The first of the elements of s that Test holds of, 0 if there is none.
First(s, Test(_)) ==
    IF \E k \in DOMAIN s : Test(s[k])
    THEN CHOOSE k \in DOMAIN s : Test(s[k]) /\ \A j \in 1 .. k - 1 : ~Test(s[j])
    ELSE 0

\* The first root pointer with its signature and its checksums right.
acpi_find_rsdp_internal(fw) ==
    LET Good(r) == r.signature /\ r.sum /\ (r.revision >= 2 => r.extended_sum)
    IN  First(fw.rsdps, Good)

\* The first table with the signature, if the RSDT is there and right.  A right
\* RSDT is at least as long as its header: of a shorter one the number of entries
\* (acpi.c:104) wraps around, and the loop reads far behind the table.
acpi_find_table_addr(fw, rsdp, signature) ==
    LET Named(t) == t.signature = signature
    IN  IF rsdp # 0 /\ fw.rsdps[rsdp].rsdt = "right" THEN First(fw.tables, Named) ELSE 0

\* The address is kept even if the checksum is then found wrong.
acpi_parse_fadt_internal(fw, a) ==
    LET at == acpi_find_table_addr(fw, a.rsdp, "FACP")
    IN  IF at = 0 THEN a
        ELSE [a EXCEPT !.fadt = at, !.sci = fw.tables[at].sum]

madt_found(fw, a) == acpi_find_table_addr(fw, a.rsdp, "APIC")

\* Is there a table at this place, and is it right?
Right(fw, at) == at # 0 /\ fw.tables[at].sum

(***************************************************************************)
(* What the firmware writes (the ACPI specification): the cells of the     *)
(* MADT are entries one behind the other, and processors is the number of  *)
(* entries for an enabled processor.  starts are the cells that an entry   *)
(* starts at.                                                              *)
(***************************************************************************)
Cell == [type : {"lapic", "ioapic", "iso"}, length : Nat, enabled : BOOLEAN]
Enabled(fw, k) == fw.cells[k].type = "lapic" /\ fw.cells[k].enabled

EntriesStartAt(fw, starts) ==
    /\ fw.cells # <<>> => 1 \in starts
    /\ \A k \in starts :
          LET next == k + fw.cells[k].length
          IN  /\ next \in starts \/ next > Len(fw.cells)
              /\ (k + 1 .. next - 1) \cap starts = {}
    /\ fw.processors = Cardinality({k \in starts : Enabled(fw, k)})

FirmwareOK(fw) ==
    /\ fw.cells \in Seq(Cell)
    /\ \A k \in DOMAIN fw.tables : fw.tables[k].sum \in BOOLEAN
    /\ (\A k \in DOMAIN fw.cells : fw.cells[k].length # 0) =>
          \E starts \in SUBSET DOMAIN fw.cells : EntriesStartAt(fw, starts)

(***************************************************************************)
(* The scan of the MADT.  It goes on while ics_ptr is in the table and the *)
(* entry there has a length.                                               *)
(***************************************************************************)
\* Mutant: an entry without a length is not the end of the scan.
Mut_scanning(fw) == ics_ptr <= Len(fw.cells)

scanning(fw) == ics_ptr <= Len(fw.cells) /\ fw.cells[ics_ptr].length # 0

madt_entry(fw) ==
    LET e == fw.cells[ics_ptr]
    IN  /\ cpus' = cpus + (IF e.type = "lapic" /\ e.enabled THEN 1 ELSE 0)
        /\ ics_ptr' = ics_ptr + e.length
        /\ UNCHANGED acpi

\* Mutant: only the result of the second table counts.
Mut_acpi_parse_tables(fw, a) == Right(fw, a.madt)

\* acpi_parse_tables succeeds when both tables do.
acpi_parse_tables(fw, a) == Right(fw, a.fadt) /\ Right(fw, a.madt)

\* acpi_init calls the information valid when both tables were parsed.
acpi_done(fw) ==
    acpi' = [acpi EXCEPT !.cpu_count = cpus, !.valid = acpi_parse_tables(fw, acpi)]

\* What is called valid was read from two tables with right checksums and,
\* unless an entry without a length hides the rest of the table, has every
\* processor of the machine in it: partial failures of the parser (one table
\* of two, a table behind a wrong RSDT) are never passed on as valid.
AcpiAgrees(fw) ==
    acpi.valid => /\ Right(fw, acpi.fadt) /\ Right(fw, acpi.madt) /\ acpi.sci
                  /\ (\A k \in DOMAIN fw.cells : fw.cells[k].length # 0) =>
                         acpi.cpu_count = fw.processors
=============================================================================
