------------------------------ MODULE PeImage -------------------------------
(***************************************************************************)
(* Reading, checking and laying out an executable: compat/pe_parser.c,     *)
(* pe_loader.c, import_resolver.c and the lookup of module_registry.c, as  *)
(* operators on a file.                                                    *)
(*                                                                         *)
(* A file is what its headers say: size (of the file), magic (the DOS, NT, *)
(* machine and optional-header tests all succeed), table (the offset of    *)
(* the section table), size_of_image, size_of_headers, align, sections     *)
(* [rva, virtual_size, raw_size, raw_offset], reloc (the relocation        *)
(* directory [rva, size], or zeros) and imports (the entries of the import *)
(* directory, [dll, func]).                                                *)
(* Lengths are in units and modulo Word.  Alignments are powers of two, so *)
(* the code's masks are remainders.                                        *)
(***************************************************************************)
EXTENDS Naturals, Sequences, FiniteSets, SequencesExt

CONSTANTS Word,         \* 2^32, the modulus of file offsets and addresses
          MaxImage,     \* the largest image that is loaded (16 MB)
          MaxSections,  \* PE_MAX_SECTIONS
          HeadersMin,   \* the headers up to the section table (pe_structs.h)
          MaxImports    \* COMPAT_MAX_IMPORTS

ASSUME PeAssumption ==
    /\ Word \in Nat \ {0} /\ {MaxImage, MaxSections, HeadersMin, MaxImports} \subseteq Nat

\* The numbers of a file.
IsFile(f) ==
    /\ {f.size, f.table, f.size_of_image, f.size_of_headers} \subseteq 0 .. Word - 1
    /\ f.magic \in BOOLEAN /\ f.align \in 1 .. Word - 1
    /\ f.sections \in Seq([rva : 0 .. Word - 1, virtual_size : 0 .. Word - 1,
                           raw_size : 0 .. Word - 1, raw_offset : 0 .. Word - 1])

plus(a, b) == (a + b) % Word

-----------------------------------------------------------------------------
\* pe_parser.c

safe_range(off, size, file_size) == off <= file_size /\ size <= file_size - off

pe_parse_image(f) ==
    /\ f.magic
    /\ Len(f.sections) \in 1 .. MaxSections
    /\ f.size_of_image % f.align = 0
    /\ f.size_of_image # 0
    /\ safe_range(f.table, Len(f.sections), f.size)

has_relocs(f) == f.reloc.rva # 0 /\ f.reloc.size # 0

virtual_end(s) == plus(s.rva, s.virtual_size)

\* A seeded slip: the start of s in place of its end.
Mut_overlap(s, t) == s.rva < virtual_end(t) /\ t.rva < s.rva

overlap(s, t) == s.rva < virtual_end(t) /\ t.rva < virtual_end(s)

pe_validate_image(f) ==
    /\ f.size_of_headers \in 1 .. f.size_of_image
    /\ f.size_of_headers <= f.size
    /\ \A i \in 1 .. Len(f.sections) :
          LET s == f.sections[i] IN
          /\ s.rva % f.align = 0
          /\ virtual_end(s) <= f.size_of_image
          /\ s.raw_size > 0 => s.raw_offset < f.size /\ s.raw_size <= f.size - s.raw_offset
          /\ \A j \in 1 .. i - 1 : ~overlap(s, f.sections[j])

\* pe_validator.c, a second check of the same headers.  The subsystem is
\* reported and decides nothing.
pe_validate_full(f) ==
    /\ f.size_of_headers \in HeadersMin .. f.size
    /\ f.size_of_headers <= f.size_of_image
    /\ \A i \in 1 .. Len(f.sections) :
          LET s == f.sections[i] IN
          /\ s.rva % f.align = 0
          /\ s.virtual_size > 0 => virtual_end(s) <= f.size_of_image
          /\ \A j \in 1 .. i - 1 : ~overlap(s, f.sections[j])

\* The offset of an address in the file, or the set is empty (-1).
pe_rva_to_offset(f, rva) ==
    IF rva < f.size_of_headers THEN {rva}
    ELSE LET covers == {i \in 1 .. Len(f.sections) :
                           /\ f.sections[i].raw_size > 0
                           /\ f.sections[i].rva <= rva
                           /\ rva < virtual_end(f.sections[i])} IN
         {plus(f.sections[i].raw_offset, rva - f.sections[i].rva) :
             i \in {k \in covers : \A j \in covers : k <= j}}

-----------------------------------------------------------------------------
\* pe_loader.c

\* The tests of a section as it is copied; sections without data are skipped.
copies(f, s) ==
    s.raw_size > 0 => /\ plus(s.raw_offset, s.raw_size) <= f.size
                      /\ plus(s.rva, s.raw_size) <= f.size_of_image

pe_load_fits(f) ==
    /\ f.size_of_image \in 1 .. MaxImage
    /\ \A i \in 1 .. Len(f.sections) : copies(f, f.sections[i])

load_headers(f) ==
    [a \in 0 .. f.size_of_image - 1 |-> IF a < f.size_of_headers /\ a < f.size THEN a ELSE f.size]

load_section(s, mem) ==
    [a \in DOMAIN mem |-> IF s.raw_size > 0 /\ a \in s.rva .. s.rva + s.raw_size - 1
                          THEN s.raw_offset + (a - s.rva) ELSE mem[a]]

\* What each cell of the image holds after the sections have been copied in
\* order: the cell of the file; f.size stands for zero.
pe_load_image(f) ==
    LET mem[i \in 0 .. Len(f.sections)] ==
            IF i = 0 THEN load_headers(f) ELSE load_section(f.sections[i], mem[i - 1])
    IN  mem[Len(f.sections)]

\* "none", "failed" or "applied"; the patches themselves are data.
pe_apply_relocations(f) ==
    IF ~has_relocs(f) THEN "none"
    ELSE LET off == pe_rva_to_offset(f, f.reloc.rva) IN
         IF off = {} \/ \E o \in off : ~safe_range(o, f.reloc.size, f.size)
         THEN "failed" ELSE "applied"

-----------------------------------------------------------------------------
\* module_registry.c and import_resolver.c.  A name of a library is [stem,
\* upper, ext]: stricmp does not look at upper, strncmp of the stems does.

same_module(m, n) ==
    \/ m.stem = n.stem /\ m.ext = n.ext
    \/ m.stem = n.stem /\ m.upper = n.upper

\* The slot of the first matching module, 0 when there is none.
find_module(modules, dll) ==
    SelectInSeq(modules, LAMBDA m : same_module(m.dll_name, dll))

exported(m, func) == SelectInSeq(m.exports, LAMBDA e : e = func)

\* The module whose export of func an import of dll is bound to, 0 when none.
module_registry_lookup(modules, dll, func) ==
    LET named == find_module(modules, dll) IN
    IF named # 0 /\ exported(modules[named], func) # 0 THEN named
    ELSE SelectInSeq(modules, LAMBDA m : exported(m, func) # 0)

import_resolver_parse(f) == SubSeq(f.imports, 1, IF Len(f.imports) < MaxImports
                                                 THEN Len(f.imports) ELSE MaxImports)

import_resolver_resolve(table, modules) ==
    [i \in 1 .. Len(table) |-> module_registry_lookup(modules, table[i].dll, table[i].func)]
=============================================================================
