--------------------------------- MODULE Ata ---------------------------------
(***************************************************************************)
(* The PIO path of src/drivers/ata.c, one sector command at a time, and    *)
(* the disk behind it (external).                                          *)
(*                                                                         *)
(* The driver waits for BSY to clear and gives up silently, writes the     *)
(* command, and polls for DRQ or ERR until ATA_TIMEOUT_DRQ.  A command it  *)
(* gave up on stays with the disk: the disk ignores what is written while  *)
(* it is busy, and answers later.  DRQ does not say which command it       *)
(* answers.  After the data of a write is sent nobody looks at the status. *)
(***************************************************************************)
EXTENDS Integers, Sequences

CONSTANT Sectors            \* sectors of the disk

ASSUME SectorsAssumption == Sectors \in Nat \ {0}

VARIABLES ata0,             \* what ata_init has found: "unprobed", "present" or "absent"
          disk,             \* lba -> contents of the sector
          pending,          \* the command the driver gave up on, or NoCommand
          astray            \* history: an answer was taken for another command's, or a
                            \* write was lost after its data was sent

ataVars == <<ata0, disk, pending, astray>>

NoCommand == [op |-> "none", lba |-> 0]
Command == [op: {"read", "write"}, lba: Nat]

\* What one sector command ends in: err, the data read, and the disk afterwards.
Answer(err, data, contents, left, wrong) ==
    [err |-> err, data |-> data, disk |-> contents, pending |-> left, wrong |-> wrong]

Failed(left) == Answer(TRUE, << >>, disk, left, FALSE)

\* The disk takes the command: it answers, reports an error, or is too slow.
Accepted(op, lba, data) ==
    {Failed(NoCommand), Failed([op |-> op, lba |-> lba])} \cup
    (IF lba >= Sectors THEN {}
     ELSE IF op = "read" THEN {Answer(FALSE, disk[lba], disk, NoCommand, FALSE)}
     ELSE {Answer(FALSE, << >>, [disk EXCEPT ![lba] = data], NoCommand, FALSE),
           Answer(FALSE, << >>, disk, NoCommand, TRUE)})

(***************************************************************************)
(* The disk still works on the command p: it ends in time for the wait     *)
(* before the command, or the new command is ignored and what is polled    *)
(* for is p's answer, or that does not come either.  A transfer in the     *)
(* wrong direction moves nothing (what is read then is arbitrary).         *)
(***************************************************************************)
StillBusy(p, op, lba, data) ==
    Accepted(op, lba, data) \cup {Failed(NoCommand), Failed(p)} \cup
    (IF p.lba >= Sectors THEN {}
     ELSE IF op # p.op THEN {Answer(FALSE, disk[p.lba], disk, NoCommand, TRUE)}
     ELSE IF op = "read" THEN {Answer(FALSE, disk[p.lba], disk, NoCommand, p.lba # lba)}
     ELSE {Answer(FALSE, << >>, [disk EXCEPT ![p.lba] = data], NoCommand, p.lba # lba)})

\* The body of the loops in ata_pio_read_sectors and ata_pio_write_sectors.  The
\* registers take the low 28 bits of an lba (ata.c:212, 249); a larger one, which
\* would reach another sector, is here one beyond the disk.  On a well formed volume
\* only a call that took a failed read of the FAT for a link has one.
ata_pio_sector(op, lba, data) ==
    IF ata0 # "present" THEN {Failed(pending)}
    ELSE IF pending = NoCommand THEN Accepted(op, lba, data)
    ELSE StillBusy(pending, op, lba, data)

\* The variables after an answer.
Took(a) == /\ disk' = a.disk /\ pending' = a.pending /\ astray' = (astray \/ a.wrong)
           /\ UNCHANGED ata0

\* ata_init: IDENTIFY is answered, or the status is 0, or there is an error or no
\* answer in time; the driver then leaves the disk alone.
ata_identify_device == {"present", "absent"}
ata_init == /\ ata0 = "unprobed" /\ ata0' \in ata_identify_device
            /\ UNCHANGED <<disk, pending, astray>>

AtaTypeOK == /\ ata0 \in {"unprobed", "present", "absent"}
             /\ pending \in Command \cup {NoCommand}
             /\ astray \in BOOLEAN
             /\ DOMAIN disk = 0 .. Sectors - 1

AtaInit(contents) == ata0 = "unprobed" /\ disk = contents /\ pending = NoCommand /\ astray = FALSE
=============================================================================
