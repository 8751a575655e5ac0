-------------------------------- MODULE Vfs ---------------------------------
(***************************************************************************)
(* The virtual file system, services/vfs.c, with the ramdisk that feeds it *)
(* (services/ramdisk.c) and the permission checks of services/security.c.  *)
(*                                                                         *)
(* Inodes are never removed, so the table is a sequence in order of        *)
(* creation, the root first.  A path is the sequence of the components     *)
(* between slashes ("/a/" is <<"a", "">>).  The contents of files are left *)
(* out: a file is its size and its buffer, a buffer is its length.         *)
(* Calls are atomic, as in module Scheduler; any kmalloc may fail.  A call *)
(* that returns -1 before it has changed anything is no step.              *)
(***************************************************************************)
EXTENDS Integers, Sequences, FiniteSets, SequencesExt

CONSTANTS Name,        \* names of files and directories
          Paths,       \* the paths that callers use
          Lens,        \* lengths of files, reads and writes
          Flags,       \* sets of flags that vfs_open is called with
          Seeks,       \* arguments of vfs_seek
          Uids, Gids,  \* user and group ids, root (0) among them
          FdCount,     \* VFS_MAX_OPEN_FILES
          RamdiskMax,  \* RAMDISK_MAX_FILES
          FsMax,       \* entries of registered_fs
          Assumed,     \* 4096, the buffer vfs_write counts on
          OffMod,      \* sizes and offsets are computed modulo this (2^32)
          MaxInodes,   \* bound: inodes
          BufCount,    \* bound: buffers allocated at a time
          MaxOffset    \* bound: file offsets

NULL == 0
Special == {"", ".", ".."}

ASSUME VfsAssumption ==
    /\ Name \cap Special = {}
    /\ Paths \subseteq Seq(Name \cup Special) \ {<<>>}
    /\ Flags \subseteq SUBSET {"RDONLY", "WRONLY", "TRUNC"}
    /\ Lens \subseteq Nat /\ Seeks \subseteq Int
    /\ Uids \subseteq Nat /\ Gids \subseteq Nat
    /\ {FdCount, RamdiskMax, FsMax, Assumed, MaxInodes, BufCount, MaxOffset} \subseteq Nat
    /\ OffMod \in Nat /\ OffMod > MaxOffset

VARIABLES inode,         \* the inodes; inode[1] is root_inode
          open_files,    \* the descriptor table
          buffers,       \* lengths of the allocated buffers, 0 when free
          ramdisk_files, \* the ramdisk's own table
          fs_count,      \* file systems registered (all are ramdisk_ops)
          current_uid, current_gid,
          fault          \* the first access outside a buffer: "none", "read", "write"

vars == <<inode, open_files, buffers, ramdisk_files, fs_count, current_uid, current_gid, fault>>
tables == <<ramdisk_files, fs_count, current_uid, current_gid>>

Fd == 1 .. FdCount
Buf == 1 .. BufCount

-----------------------------------------------------------------------------
\* Inodes and paths.

\* alloc_inode; every inode belongs to root, mode 0755.
alloc_inode(type, name, parent) ==
    [type |-> type, name |-> name, size |-> 0, fs_data |-> NULL, ref_count |-> 1,
     parent |-> parent, children |-> <<>>]

sec == [uid |-> 0, gid |-> 0, owner |-> {"READ", "WRITE", "EXEC"},
        group |-> {"READ", "EXEC"}, other |-> {"READ", "EXEC"}]

\* One component of a path, from directory cur.  An inode without a name is
\* not found by any.
walk(ino, cur, comp) ==
    IF cur = NULL \/ comp \in {"", "."} THEN cur
    ELSE IF comp = ".." THEN IF ino[cur].parent # NULL THEN ino[cur].parent ELSE cur
    ELSE LET kids == ino[cur].children
             k == SelectInSeq(kids, LAMBDA c : ino[c].name = comp)
         IN  IF k = 0 THEN NULL ELSE kids[k]

lookup_path(ino, path) ==
    LET cur[k \in 0 .. Len(path)] == IF k = 0 THEN 1 ELSE walk(ino, cur[k - 1], path[k])
    IN  cur[Len(path)]

\* Mutant: the child is put at the end of its siblings.
Mut_add_child(ino, parent, child) ==
    Append([ino EXCEPT ![parent].children = Append(@, Len(ino) + 1)], child)

\* A new inode, linked in front of its siblings.
add_child(ino, parent, child) ==
    Append([ino EXCEPT ![parent].children = <<Len(ino) + 1>> \o @], child)

\* What kmalloc(len) can do: fail, or return a buffer.
kmalloc(b, len) ==
    LET free == {x \in Buf : b[x] = 0}
    IN  {[data |-> NULL, buffers |-> b]} \cup
        {[data |-> x, buffers |-> [b EXCEPT ![x] = len]] :
            x \in {y \in free : \A z \in free : y <= z}}

\* kfree(NULL) does nothing.
kfree(b, x) == IF x = NULL THEN b ELSE [b EXCEPT ![x] = 0]

-----------------------------------------------------------------------------
\* vfs_init, ramdisk_init and security_init
Init ==
    /\ inode = <<alloc_inode("DIR", "", NULL)>>
    /\ open_files = [fd \in Fd |-> [used |-> FALSE, flags |-> {}, offset |-> 0, inode |-> NULL]]
    /\ buffers = [b \in Buf |-> 0]
    /\ ramdisk_files = <<>> /\ fs_count = 0
    /\ current_uid = 0 /\ current_gid = 0
    /\ fault = "none"

\* security_check
security_check(req) ==
    \/ current_uid = 0
    \/ req \subseteq IF sec.uid = current_uid THEN sec.owner
                     ELSE IF sec.gid = current_gid THEN sec.group ELSE sec.other

\* Only root changes its ids.
security_set_uid(uid) ==
    /\ current_uid' = IF current_uid = 0 THEN uid ELSE current_uid
    /\ UNCHANGED <<inode, open_files, buffers, ramdisk_files, fs_count, current_gid, fault>>

security_set_gid(gid) ==
    /\ current_gid' = IF current_uid = 0 THEN gid ELSE current_gid
    /\ UNCHANGED <<inode, open_files, buffers, ramdisk_files, fs_count, current_uid, fault>>

-----------------------------------------------------------------------------
\* Creating.

\* The results of vfs_mkdir: the parent's type is not looked at, and neither
\* is an inode of the same name.
mkdir_results(path) ==
    LET parent == lookup_path(inode, Front(path))
        fails == [inode |-> inode, ok |-> FALSE]
    IN  {fails} \cup
        IF parent = NULL \/ Len(inode) = MaxInodes THEN {}
        ELSE {[inode |-> add_child(inode, parent, alloc_inode("DIR", Last(path), parent)), ok |-> TRUE]}

vfs_mkdir(path) ==
    \E r \in mkdir_results(path) :
        /\ inode' = r.inode
        /\ UNCHANGED <<open_files, buffers, tables, fault>>

\* Mutant: the old buffer is not freed.
Mut_leak_data(b, x, len) ==
    LET new == IF len = 0 THEN {[data |-> NULL, buffers |-> b]} ELSE kmalloc(b, len)
    IN  {[inode |-> [inode EXCEPT ![x].fs_data = r.data,
                                  ![x].size = IF r.data = NULL THEN 0 ELSE len],
          buffers |-> r.buffers, ok |-> len = 0 \/ r.data # NULL] : r \in new}

\* vfs_create_file of a file that exists: new contents.
replace_data(b, x, len) ==
    LET old == kfree(b, inode[x].fs_data)
        new == IF len = 0 THEN {[data |-> NULL, buffers |-> old]} ELSE kmalloc(old, len)
    IN  {[inode |-> [inode EXCEPT ![x].fs_data = r.data,
                                  ![x].size = IF r.data = NULL THEN 0 ELSE len],
          buffers |-> r.buffers, ok |-> len = 0 \/ r.data # NULL] : r \in new}

\* vfs_create_file of a new file; nothing is linked before all is allocated.
new_file(b, parent, name, len) ==
    LET new == IF len = 0 THEN {[data |-> NULL, buffers |-> b]}
               ELSE {r \in kmalloc(b, len) : r.data # NULL}
        child(r) == [alloc_inode("FILE", name, parent) EXCEPT !.fs_data = r.data, !.size = len]
    IN  IF Len(inode) = MaxInodes THEN {}
        ELSE {[inode |-> add_child(inode, parent, child(r)), buffers |-> r.buffers, ok |-> TRUE] : r \in new}

create_results(b, path, len) ==
    LET parent == lookup_path(inode, Front(path))
        existing == lookup_path(inode, path)
        fails == [inode |-> inode, buffers |-> b, ok |-> FALSE]
    IN  IF Last(path) = "" \/ parent = NULL THEN {fails}
        ELSE IF inode[parent].type # "DIR" THEN {fails}
        ELSE IF existing # NULL /\ inode[existing].type = "FILE" THEN replace_data(b, existing, len)
        ELSE {fails} \cup new_file(b, parent, Last(path), len)

vfs_create_file(path, len) ==
    \E r \in create_results(buffers, path, len) :
        /\ inode' = r.inode /\ buffers' = r.buffers
        /\ UNCHANGED <<open_files, tables, fault>>

\* ramdisk_create_file keeps a copy of its own, then creates the file; what
\* becomes of that does not matter to it.
ramdisk_create_file(path, len) ==
    /\ Len(ramdisk_files) < RamdiskMax
    /\ \E f \in IF len = 0 THEN {[data |-> NULL, buffers |-> buffers]} ELSE kmalloc(buffers, len) :
         /\ ramdisk_files' = Append(ramdisk_files, f.data)
         /\ \E r \in create_results(f.buffers, path, len) : inode' = r.inode /\ buffers' = r.buffers
    /\ UNCHANGED <<open_files, fs_count, current_uid, current_gid, fault>>

\* ramdisk_mount registers ramdisk_ops once more.
ramdisk_mount ==
    /\ fs_count' = IF fs_count < FsMax THEN fs_count + 1 ELSE fs_count
    /\ UNCHANGED <<inode, open_files, buffers, ramdisk_files, current_uid, current_gid, fault>>

\* vfs_mount("ramdisk", ...): the ramdisk has no mount operation, so all it
\* does is make the mount point.
vfs_mount(path) ==
    /\ fs_count > 0 /\ lookup_path(inode, path) = NULL
    /\ \E r \in mkdir_results(path) : inode' = r.inode
    /\ UNCHANGED <<open_files, buffers, tables, fault>>

-----------------------------------------------------------------------------
\* Descriptors.

\* VFS_O_RDONLY and VFS_O_WRONLY are the two bits of VFS_O_RDWR, so a test
\* of flags & VFS_O_RDWR succeeds when either is set.
wants_data(flags) == flags \cap {"RDONLY", "WRONLY"} # {}

required(flags) == IF wants_data(flags) THEN {"READ", "WRITE"} ELSE {}

Opens(path, flags) ==
    /\ lookup_path(inode, path) # NULL
    /\ security_check(required(flags))
    /\ \E fd \in Fd : ~open_files[fd].used

vfs_open(path, flags) ==
    /\ Opens(path, flags)
    /\ LET x == lookup_path(inode, path)
           fd == CHOOSE d \in Fd : ~open_files[d].used /\ \A e \in 1 .. d - 1 : open_files[e].used
       IN  /\ open_files' = [open_files EXCEPT ![fd] =
                 [used |-> TRUE, flags |-> flags, offset |-> 0, inode |-> x]]
           /\ inode' = [inode EXCEPT ![x].ref_count = @ + 1,
                                     ![x].size = IF "TRUNC" \in flags THEN 0 ELSE @]
    /\ UNCHANGED <<buffers, tables, fault>>

\* The descriptor of a file with a buffer, open for reading or writing (the
\* two tests of the flags are the same, see wants_data).
Accessible(fd) ==
    LET f == open_files[fd]
    IN  /\ f.used /\ wants_data(f.flags)
        /\ inode[f.inode].type = "FILE" /\ inode[f.inode].fs_data # NULL

Clipped(len, room) == IF len > room THEN room ELSE len

\* A copy of n bytes from or to the buffer of fd at its offset.  It is a fault
\* when the end of the copy, or for n = 0 its place, is not in the buffer.
Copy(fd, n, kind) ==
    LET f == open_files[fd]
    IN  /\ open_files' = [open_files EXCEPT ![fd].offset = (@ + n) % OffMod]
        /\ fault' = IF fault = "none" /\ f.offset + n > buffers[inode[f.inode].fs_data]
                    THEN kind ELSE fault

vfs_read(fd, len) ==
    /\ Accessible(fd)
    /\ LET f == open_files[fd]
           avail == (inode[f.inode].size - f.offset) % OffMod
       IN  Copy(fd, Clipped(len, avail), "read")
    /\ UNCHANGED <<inode, buffers, tables>>

vfs_write(fd, len) ==
    /\ Accessible(fd)
    /\ LET f == open_files[fd]
           max_write == (Assumed - f.offset) % OffMod
       IN  /\ Copy(fd, Clipped(len, max_write), "write")
           /\ inode' = [inode EXCEPT ![f.inode].size =
                 IF open_files'[fd].offset > @ THEN open_files'[fd].offset ELSE @]
    /\ UNCHANGED <<buffers, tables>>

\* Mutant: the reference is kept.
Mut_vfs_close(fd) ==
    /\ open_files[fd].used
    /\ open_files' = [open_files EXCEPT ![fd] =
            [used |-> FALSE, flags |-> {}, offset |-> 0, inode |-> NULL]]
    /\ UNCHANGED <<inode, buffers, tables, fault>>

\* vfs_close: free_fd drops the reference and clears the entry.
vfs_close(fd) ==
    /\ open_files[fd].used
    /\ inode' = [inode EXCEPT ![open_files[fd].inode].ref_count = @ - 1]
    /\ open_files' = [open_files EXCEPT ![fd] =
            [used |-> FALSE, flags |-> {}, offset |-> 0, inode |-> NULL]]
    /\ UNCHANGED <<buffers, tables, fault>>

vfs_seek(fd, offset, whence) ==
    LET f == open_files[fd]
        base == CASE whence = "SET" -> 0
                  [] whence = "CUR" -> f.offset
                  [] whence = "END" -> inode[f.inode].size
        new_off == IF base + offset < 0 THEN 0 ELSE base + offset
    IN  /\ f.used
        /\ new_off <= MaxOffset
        /\ open_files' = [open_files EXCEPT ![fd].offset = new_off]
        /\ UNCHANGED <<inode, buffers, tables, fault>>

Next ==
    \/ \E path \in Paths : \/ vfs_mkdir(path) \/ vfs_mount(path)
                           \/ \E len \in Lens \cup {0} : \/ vfs_create_file(path, len)
                                                         \/ ramdisk_create_file(path, len)
                           \/ \E flags \in Flags : vfs_open(path, flags)
    \/ \E fd \in Fd : \/ \E len \in Lens : vfs_read(fd, len) \/ vfs_write(fd, len)
                      \/ \E n \in Seeks, w \in {"SET", "CUR", "END"} : vfs_seek(fd, n, w)
                      \/ vfs_close(fd)
    \/ (\E uid \in Uids : security_set_uid(uid)) \/ (\E gid \in Gids : security_set_gid(gid))
    \/ ramdisk_mount

Spec == Init /\ [][Next]_vars

-----------------------------------------------------------------------------
Inode == DOMAIN inode

\* Every variable has its type.
VfsTypeOK ==
    /\ \A x \in Inode :
         /\ inode[x].type \in {"FILE", "DIR"} /\ inode[x].fs_data \in Buf \cup {NULL}
         /\ inode[x].ref_count \in Nat /\ inode[x].parent \in Inode \cup {NULL}
         /\ inode[x].children \in Seq(Inode)
    /\ \A fd \in Fd : /\ open_files[fd].offset \in 0 .. OffMod - 1
                      /\ open_files[fd].inode \in Inode \cup {NULL}
    /\ fs_count \in 0 .. FsMax

\* An inode is referenced by the tree and by each descriptor that is open on
\* it, whatever opens failed on the way: ref_count never reaches 0, so
\* free_inode never frees an inode that lookup_path can still find.
RefCountsMatch ==
    /\ VfsTypeOK
    /\ \A x \in Inode : inode[x].ref_count =
         1 + Cardinality({fd \in Fd : open_files[fd].used /\ open_files[fd].inode = x})

\* Every buffer belongs to one file, or to one file of the ramdisk, and none
\* is lost, over replaced contents and failed allocations; and until an
\* access has left a buffer, no file is larger than its buffer, so what
\* vfs_read clips to is there.
BuffersOwned ==
    LET owners(b) == Cardinality({x \in Inode : inode[x].fs_data = b})
                   + Cardinality({k \in DOMAIN ramdisk_files : ramdisk_files[k] = b})
        room(x) == IF inode[x].fs_data = NULL THEN 0 ELSE buffers[inode[x].fs_data]
    IN  /\ \A b \in Buf : owners(b) = IF buffers[b] > 0 THEN 1 ELSE 0
        /\ fault = "none" => \A x \in Inode : inode[x].size <= room(x)

\* vfs_create_file and vfs_mkdir of a proper name: whenever they succeed, the
\* name leads from the directory the path led to to what was created, also
\* when there was something of that name before; and so does the whole path
\* if it does not go up.  (A path that goes up may have come through what
\* the new inode now hides.)
CreatedIsFound ==
    LET found(ino, path) == walk(ino, lookup_path(inode, Front(path)), Last(path))
        leads(ino, path) == ".." \notin Range(path) => lookup_path(ino, path) = found(ino, path)
    IN  \A path \in Paths : Last(path) \in Name =>
        /\ \A len \in Lens : \A r \in create_results(buffers, path, len) : r.ok =>
             LET x == found(r.inode, path)
             IN  /\ x # NULL /\ r.inode[x].type = "FILE" /\ r.inode[x].size = len
                 /\ leads(r.inode, path)
        /\ \A r \in mkdir_results(path) : r.ok =>
             LET x == found(r.inode, path)
             IN  /\ x # NULL /\ r.inode[x].type = "DIR" /\ r.inode[x].children = <<>>
                 /\ leads(r.inode, path)
=============================================================================
