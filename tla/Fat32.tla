-------------------------------- MODULE Fat32 --------------------------------
(***************************************************************************)
(* src/services/fat32.c, fat_dir.c and disk_io.c on the ATA driver, with   *)
(* the driver's multi-sector calls and their retries.  A call is a record  *)
(* op that moves from one disk access to the next.                         *)
(*                                                                         *)
(* Numbers are scaled: a sector holds FAT32_SECTOR_SIZE units, a FAT entry *)
(* or a directory entry is one unit, and unsigned arithmetic is modulo     *)
(* Word instead of 2^32.  The unit of a directory entry says what its      *)
(* first byte and its attribute say: 0 ends the directory, Skipped are     *)
(* deleted entries and parts of long names, Labels are volume labels.      *)
(***************************************************************************)
EXTENDS Ata, SequencesExt

CONSTANTS
    FAT32_SECTOR_SIZE, ATA_RETRY_COUNT,
    Word,                   \* unsigned values are 0 .. Word - 1
    EndOfChain,             \* FAT entries from here on end a chain
    Skipped, Labels,        \* directory entries
    Volumes,                \* contents a disk can have
    Names, Offsets, Lengths,\* arguments of the calls
    Scratch,                \* sectors outside the volume that are written directly
    Patterns                \* what is written there

ASSUME Fat32Assumption ==
    /\ FAT32_SECTOR_SIZE \in Nat \ {0} /\ ATA_RETRY_COUNT \in Nat \ {0}
    /\ Word \in Nat /\ EndOfChain \in 2 .. Word - 1
    /\ Names \subseteq Nat /\ Offsets \subseteq Nat /\ Lengths \subseteq Nat \ {0}
    /\ Scratch \subseteq 0 .. Sectors - 1 /\ Patterns \subseteq 0 .. Word - 1

VARIABLES fat32_ctx,        \* the mounted volume's parameters
          op,               \* the call that runs, or the last one that ended; walked and
                            \* failed are history: it took BadCluster for a cluster, it met
                            \* an error
          held              \* cluster buffers allocated and not freed

fatVars == <<ataVars, fat32_ctx, op, held>>

BadCluster == Word - 1
unsigned(n) == n % Word

NoCtx == [mounted |-> FALSE, fat_start |-> 0, data_start |-> 0, spc |-> 1, root |-> 0]
cluster_size == fat32_ctx.spc * FAT32_SECTOR_SIZE

NoOp == [kind |-> "none", at |-> "done", arg |-> 0, cluster |-> 0, skip |-> 0, offset |-> 0,
         len |-> 0, cbuf |-> << >>, buf |-> << >>, retry |-> 0, result |-> 0, walked |-> FALSE, failed |-> FALSE]

Idle == op.at = "done"
Return(o, r) == op' = [o EXCEPT !.at = "done", !.result = r]

FatInit ==
    /\ \E v \in Volumes : AtaInit(v)
    /\ fat32_ctx = NoCtx /\ op = NoOp /\ held = 0

Probe == ata_init /\ UNCHANGED <<fat32_ctx, op, held>>

-----------------------------------------------------------------------------
\* The boot sector is <<reserved, tables, table size, sectors per cluster, root>>.
Parameters(bpb) ==
    [mounted |-> TRUE, fat_start |-> bpb[1], spc |-> bpb[4],
     data_start |-> unsigned(bpb[1] + bpb[2] * bpb[3]), root |-> bpb[5]]

\* A boot sector with no sectors per cluster would make the division of
\* fat32.c:45 fault; WellFormed leaves such volumes out.  total_clusters, its
\* result, is only printed.
fat32_mount ==
    /\ Idle /\ ~fat32_ctx.mounted /\ ata0 # "unprobed"
    /\ \E a \in ata_pio_sector("read", 0, << >>) :
         /\ Took(a)
         /\ fat32_ctx' = IF a.err THEN fat32_ctx ELSE Parameters(a.data)
    /\ UNCHANGED <<op, held>>

\* Where fat32_next_cluster and fat32_read_cluster look, on a volume with parameters v.
fat_sector(v, c) == unsigned(v.fat_start + c \div FAT32_SECTOR_SIZE)
entry_offset(c) == c % FAT32_SECTOR_SIZE
data_sector(v, c, k) == unsigned(v.data_start + (c - 2) * v.spc + k)

\* fat32_next_cluster, from the answer to its sector read.
next_cluster(c, a) ==
    IF a.err THEN BadCluster
    ELSE LET next == a.data[entry_offset(c) + 1] IN IF next >= EndOfChain THEN 0 ELSE next

\* kmalloc of the cluster buffer, then the loop; without memory the call fails.
Allocate(o) ==
    \/ op' = [o EXCEPT !.at = "load"] /\ held' = held + 1
    \/ Return([o EXCEPT !.failed = TRUE], -1) /\ UNCHANGED held

Call(kind, arg, start) ==
    [NoOp EXCEPT !.kind = kind, !.arg = arg, !.cluster = start]

fat32_read_file ==
    /\ Idle /\ fat32_ctx.mounted
    /\ \E start \in {fat32_ctx.root, 0}, offset \in Offsets, len \in Lengths :
         LET o == [Call("read", <<offset, len, start>>, start) EXCEPT
                      !.skip = offset \div cluster_size, !.offset = offset % cluster_size,
                      !.len = len]
         IN  \/ o.cluster < 2 /\ Return(o, -1) /\ UNCHANGED held
             \/ o.cluster >= 2 /\ o.skip > 0 /\ op' = [o EXCEPT !.at = "skip"] /\ UNCHANGED held
             \/ o.cluster >= 2 /\ o.skip = 0 /\ Allocate(o)
    /\ UNCHANGED <<ataVars, fat32_ctx>>

\* One turn of the loop that skips clusters.
skip_cluster ==
    /\ op.at = "skip"
    /\ \E a \in ata_pio_sector("read", fat_sector(fat32_ctx, op.cluster), << >>) :
         /\ Took(a)
         /\ LET o == [op EXCEPT !.cluster = next_cluster(op.cluster, a), !.skip = @ - 1,
                              !.failed = @ \/ a.err]
            IN  \/ o.cluster < 2 /\ Return(o, -1) /\ UNCHANGED held
                \/ o.cluster >= 2 /\ o.skip > 0 /\ op' = o /\ UNCHANGED held
                \/ o.cluster >= 2 /\ o.skip = 0 /\ Allocate(o)
    /\ UNCHANGED fat32_ctx

\* fat32_list_root, fat32_readdir and fat32_lookup.
fat32_dir ==
    /\ Idle /\ fat32_ctx.mounted
    /\ \/ \E max \in Lengths : Allocate(Call("list", max, fat32_ctx.root))
       \/ \E idx \in Offsets : Allocate(Call("readdir", idx, fat32_ctx.root))
       \/ \E name \in Names : Allocate(Call("lookup", name, fat32_ctx.root))
    /\ UNCHANGED <<ataVars, fat32_ctx>>

-----------------------------------------------------------------------------
(***************************************************************************)
(* What a call does with a cluster that is in cbuf.  It is Left with a     *)
(* result, or it goes on to the next cluster.                              *)
(***************************************************************************)
Free(o, r) == Return(o, r) /\ held' = held - 1
GoOn(o) == op' = [o EXCEPT !.at = "next", !.cbuf = << >>] /\ UNCHANGED held

\* The members of s that are not in X.
Without(s, X) ==
    LET kept[n \in 0 .. Len(s)] ==
            IF n = 0 THEN << >>
            ELSE IF s[n] \in X THEN kept[n - 1] ELSE Append(kept[n - 1], s[n])
    IN  kept[Len(s)]

\* The entries before the end mark, without those a listing leaves out.
BeforeEnd(entries) ==
    LET ends == {i \in DOMAIN entries : entries[i] = 0}
    IN  IF ends = {} THEN entries
        ELSE SubSeq(entries, 1, (CHOOSE i \in ends : \A j \in ends : i <= j) - 1)
Live(entries) == Without(BeforeEnd(entries), Skipped)
Listed(entries) == Without(Live(entries), Labels)
Ends(entries) == \E i \in DOMAIN entries : entries[i] = 0

Mut_copy(o, cb) ==
    LET n == IF cluster_size - o.offset > o.len THEN o.len ELSE cluster_size - o.offset
    IN  GoOn([o EXCEPT !.buf = @ \o SubSeq(cb, o.offset + 1, o.offset + n), !.len = @ - n])

copy(o, cb) ==
    LET n == IF cluster_size - o.offset > o.len THEN o.len ELSE cluster_size - o.offset
    IN  GoOn([o EXCEPT !.buf = @ \o SubSeq(cb, o.offset + 1, o.offset + n),
                       !.len = @ - n, !.offset = 0])

\* Names are appended until there are max; an end mark returns at once.
list_cluster(o, cb) ==
    LET room == o.arg - Len(o.buf)
        new == Listed(cb)
        all == [o EXCEPT !.buf = @ \o SubSeq(new, 1, IF Len(new) > room THEN room ELSE Len(new))]
    IN  IF Ends(cb) /\ Len(new) < room THEN Free(all, Len(all.buf)) ELSE GoOn(all)

Mut_readdir_cluster(o, cb) ==
    LET at == o.arg - Len(o.buf) + 1
        new == Listed(cb)
    IN  IF at \in DOMAIN new THEN Free(o, new[at])
        ELSE IF Ends(cb) THEN Free(o, -1)
        ELSE GoOn([o EXCEPT !.buf = @ \o Live(cb)])

readdir_cluster(o, cb) ==
    LET at == o.arg - Len(o.buf) + 1
        new == Listed(cb)
    IN  IF at \in DOMAIN new THEN Free(o, new[at])
        ELSE IF Ends(cb) THEN Free(o, -1)
        ELSE GoOn([o EXCEPT !.buf = @ \o new])

lookup_cluster(o, cb) ==
    IF \E i \in DOMAIN Live(cb) : Live(cb)[i] = o.arg THEN Free(o, o.arg)
    ELSE IF Ends(cb) THEN Free(o, -1)
    ELSE GoOn(o)

process(o, cb) ==
    \/ o.kind = "read" /\ copy(o, cb)
    \/ o.kind = "list" /\ list_cluster(o, cb)
    \/ o.kind = "readdir" /\ readdir_cluster(o, cb)
    \/ o.kind = "lookup" /\ lookup_cluster(o, cb)

\* A sector of a cluster cannot be read: a listing ends with what it has, others fail.
Mut_give_up(o) == IF o.kind = "list" THEN Free(o, Len(o.buf)) ELSE Return(o, -1) /\ UNCHANGED held
give_up(o) == Free(o, IF o.kind = "list" THEN Len(o.buf) ELSE -1)

\* One sector of fat32_read_cluster (disk_io_read_sectors).
load_sector ==
    /\ op.at = "load"
    /\ LET k == Len(op.cbuf) \div FAT32_SECTOR_SIZE
           o == [op EXCEPT !.walked = @ \/ op.cluster = BadCluster]
       IN  \E a \in ata_pio_sector("read", data_sector(fat32_ctx, op.cluster, k), << >>) :
             /\ Took(a)
             /\ \/ a.err /\ give_up([o EXCEPT !.failed = TRUE])
                \/ ~a.err /\ k + 1 < fat32_ctx.spc
                   /\ op' = [o EXCEPT !.cbuf = @ \o a.data] /\ UNCHANGED held
                \/ ~a.err /\ k + 1 = fat32_ctx.spc /\ process(o, op.cbuf \o a.data)
    /\ UNCHANGED fat32_ctx

\* The loop conditions, once the next cluster is known.
Continues(o) ==
    /\ o.cluster >= 2
    /\ o.kind = "read" => o.len > 0
    /\ o.kind = "list" => Len(o.buf) < o.arg
Finish(o) == Free(o, IF o.kind \in {"read", "list"} THEN Len(o.buf) ELSE -1)

follow_chain ==
    /\ op.at = "next"
    /\ \E a \in ata_pio_sector("read", fat_sector(fat32_ctx, op.cluster), << >>) :
         /\ Took(a)
         /\ LET o == [op EXCEPT !.cluster = next_cluster(op.cluster, a), !.failed = @ \/ a.err]
            IN  \/ Continues(o) /\ op' = [o EXCEPT !.at = "load"] /\ UNCHANGED held
                \/ ~Continues(o) /\ Finish(o)
    /\ UNCHANGED fat32_ctx

-----------------------------------------------------------------------------
(***************************************************************************)
(* Transfers of two sectors: ata_read_sectors and ata_write_sectors start  *)
(* again from the first sector when one fails, ATA_RETRY_COUNT times in    *)
(* all; disk_io_read_sectors and disk_io_write_sectors do not try again.   *)
(***************************************************************************)
transfer ==
    /\ Idle /\ fat32_ctx.mounted
    /\ \E kind \in {"pio_read", "pio_write"}, lba \in Scratch, p \in Patterns,
          tries \in {1, ATA_RETRY_COUNT} :
         /\ lba + 1 \in Scratch
         /\ op' = [Call(kind, p, lba) EXCEPT !.at = "pio", !.retry = tries]
    /\ UNCHANGED <<ataVars, fat32_ctx, held>>

\* A sector full of the pattern p, or of the number of the sector in the transfer.
Filled(p, n) == [k \in 1 .. FAT32_SECTOR_SIZE |-> IF k = 1 THEN p ELSE n]

Mut_retried(o) == [o EXCEPT !.retry = @ - 1, !.len = 0]
retried(o) == [o EXCEPT !.retry = @ - 1, !.len = 0, !.buf = << >>]

transfer_sector ==
    /\ op.at = "pio"
    /\ \E a \in ata_pio_sector(IF op.kind = "pio_read" THEN "read" ELSE "write",
                               op.cluster + op.len, Filled(op.arg, op.len)) :
         /\ Took(a)
         /\ LET o == [op EXCEPT !.len = @ + 1, !.buf = @ \o a.data]
            IN  \/ a.err /\ op.retry > 1 /\ op' = retried(op)
                \/ a.err /\ op.retry = 1 /\ Return(op, -1)
                \/ ~a.err /\ o.len < 2 /\ op' = o
                \/ ~a.err /\ o.len = 2 /\ Return(o, 0)
    /\ UNCHANGED <<fat32_ctx, held>>

Step == skip_cluster \/ load_sector \/ follow_chain \/ transfer_sector

FatNext == Probe \/ fat32_mount \/ fat32_read_file \/ fat32_dir \/ transfer \/ Step

FatSpec == FatInit /\ [][FatNext]_fatVars /\ WF_fatVars(Step)

-----------------------------------------------------------------------------
(***************************************************************************)
(* Reference: the chain of clusters from c on a disk d with a volume v,    *)
(* after n links, and the units of the volume's root directory.            *)
(***************************************************************************)
link(d, v, c) == d[fat_sector(v, c)][entry_offset(c) + 1]

ChainFrom(d, v, c) ==
    LET from[n \in 0 .. Word] ==
            IF n = 0 THEN <<c>>
            ELSE LET s == from[n - 1]
                     next == link(d, v, s[Len(s)])
                 IN  IF next \in 2 .. EndOfChain - 1 THEN Append(s, next) ELSE s
    IN  from

Contents(d, v) ==
    LET chain == ChainFrom(d, v, v.root)[Word]
        size == v.spc * FAT32_SECTOR_SIZE
    IN  [u \in 1 .. Len(chain) * size |->
            LET at == (u - 1) % size
            IN  d[data_sector(v, chain[((u - 1) \div size) + 1], at \div FAT32_SECTOR_SIZE)]
                 [(at % FAT32_SECTOR_SIZE) + 1]]

\* The root directory of a volume can be read: its chain ends, and the sectors
\* of its clusters and of their FAT entries are on the disk and outside Scratch.
WellFormed(d) ==
    LET v == Parameters(d[0])
        chain == ChainFrom(d, v, v.root)
        end(n) == chain[n][Len(chain[n])]
        safe == (1 .. Sectors - 1) \ Scratch
    IN  /\ v.spc > 0 /\ v.root \in 2 .. EndOfChain - 1
        /\ \A n \in 0 .. Word : /\ fat_sector(v, end(n)) \in safe
                                /\ \A k \in 0 .. v.spc - 1 : data_sector(v, end(n), k) \in safe
        /\ link(d, v, end(Word)) \notin 2 .. EndOfChain - 1

\* The boot sector is not Scratch and has its five parameters; the others have
\* the size of a sector.
ASSUME VolumesAssumption ==
    /\ 0 \notin Scratch
    /\ \A d \in Volumes :
         /\ d \in [0 .. Sectors - 1 -> Seq(0 .. Word - 1)] /\ WellFormed(d)
         /\ Len(d[0]) >= 5 /\ Len(d[0]) >= FAT32_SECTOR_SIZE
         /\ \A s \in 1 .. Sectors - 1 : Len(d[s]) = FAT32_SECTOR_SIZE

Trusted == Idle /\ ~astray /\ ~op.walked
UpTo(s, n) == SubSeq(s, 1, IF n > Len(s) THEN Len(s) ELSE n)

(***************************************************************************)
(* fat32_read_file returns exactly the units of the cluster chain at its   *)
(* offset, cut at the length and at the end of the chain, whatever the     *)
(* alignment, and fails only on an error or past the end; unless the       *)
(* disk's answer was taken for another command's, or a failed FAT read was *)
(* followed as a cluster number.                                           *)
(***************************************************************************)
ReadIsRight ==
    (Trusted /\ op.kind = "read" /\ ~op.failed) =>
        LET all == Contents(disk, fat32_ctx)
            cut == UpTo(all, op.arg[1] + op.arg[2])
        IN  IF op.result < 0 THEN op.arg[3] < 2 \/ op.arg[1] >= Len(all)
            ELSE op.arg[1] < Len(all) /\ op.buf = SubSeq(cut, op.arg[1] + 1, Len(cut))

(***************************************************************************)
(* The three directory calls agree: without an error a listing is the live *)
(* entries of the whole chain up to its end mark, fat32_readdir gives the  *)
(* entry at its index, and fat32_lookup finds every name that is listed;   *)
(* with one, a listing is still a prefix and what is found is there.       *)
(***************************************************************************)
DirectoryAgrees ==
    (Trusted /\ op.kind \in {"list", "readdir", "lookup"}) =>
        LET entries == Contents(disk, fat32_ctx)
            all == Listed(entries)
            found == op.result >= 0
        IN  /\ op.kind = "list" =>
                 /\ IsPrefix(op.buf, all)
                 /\ ~op.failed => op.buf = UpTo(all, op.arg)
            /\ op.kind = "readdir" =>
                 /\ found => op.arg + 1 \in DOMAIN all /\ op.result = all[op.arg + 1]
                 /\ ~found /\ ~op.failed => op.arg + 1 \notin DOMAIN all
            /\ op.kind = "lookup" =>
                 /\ found => op.arg \in Range(Live(entries))
                 /\ ~found /\ ~op.failed => op.arg \notin Range(all)

(***************************************************************************)
(* A transfer that reports success moved both sectors, also after retries  *)
(* in the middle of it; unless an answer went astray.                      *)
(***************************************************************************)
TransferIsWhole ==
    /\ AtaTypeOK
    /\ (Trusted /\ op.kind \in {"pio_read", "pio_write"} /\ op.result = 0) =>
        /\ op.kind = "pio_read" => op.buf = disk[op.cluster] \o disk[op.cluster + 1]
        /\ op.kind = "pio_write" => \A i \in 0 .. 1 : disk[op.cluster + i] = Filled(op.arg, i)

(***************************************************************************)
(* Every call ends, and no way out keeps its cluster buffer: errors,       *)
(* missing memory, end of the chain, a match in the middle of a cluster.   *)
(***************************************************************************)
CallsEnd == (~Idle) ~> (op.walked \/ astray \/ (Idle /\ held = 0))
=============================================================================
