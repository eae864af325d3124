------------------------------- MODULE FileSys ------------------------------
(***************************************************************************)
(* The base file system: filesys/filesys.c, directory.c, inode.c, file.c   *)
(* and free-map.c.  Every write of a sector is a step of its own, and the  *)
(* machine may crash (or be switched off) between any two: what is on disk *)
(* then is all that filesys_init finds.                                    *)
(*                                                                         *)
(* The file system has no locks of its own and requires that one thread at *)
(* a time executes it (doc/userprog.texi:148), so one operation is in      *)
(* progress at a time.  File data are modelled a sector at a time; the     *)
(* arithmetic on bytes within sectors is module InodeIO's.  The free map   *)
(* file and the root directory file, made by do_format, are not counted    *)
(* among the sectors here: they are allocated for good.                    *)
(***************************************************************************)
EXTENDS Integers, FiniteSets, Sequences

CONSTANTS NSec,      \* sectors left after formatting
          Name,      \* file names
          DirSlots,  \* entries in the root directory (16 in do_format)
          MaxLen,    \* bound: sectors in a file
          Handle,    \* struct file objects
          Value,     \* what a caller writes into a sector
          MaxCrash,  \* bound: crashes
          None

ASSUME FileSysAssumption ==
    /\ NSec \in Nat /\ DirSlots \in Nat /\ MaxLen \in Nat /\ MaxCrash \in Nat
    /\ None \notin Name /\ IsFiniteSet(Handle)

Sector == 1 .. NSec
Slot == 1 .. DirSlots

VARIABLES
    disk,         \* each sector: an inode or data
    entries,      \* the root directory on disk
    disk_map,     \* the free map file on disk: the sectors marked in use
    free_map,     \* the free map in memory
    open_inodes,  \* the open inodes, by sector; NotOpen if not open
    files,        \* the open files, NoFile if the handle is free
    op,           \* the operation in progress and how far it is
    crashes,
    contents,     \* history: what each file should hold, by inode sector
    lost          \* history: sectors marked in use that no file will free

vars == <<disk, entries, disk_map, free_map, open_inodes, files, op, crashes,
          contents, lost>>

Inode(start, len) == [kind |-> "inode", start |-> start, len |-> len, val |-> None]
Data(v) == [kind |-> "data", start |-> 0, len |-> 0, val |-> v]

NotOpen == [open_cnt |-> 0, removed |-> FALSE, deny_write_cnt |-> 0,
            start |-> 0, len |-> 0]
NoFile == [inode |-> 0, pos |-> 0, deny |-> FALSE]
NoEntry == [name |-> None, sector |-> 0, in_use |-> FALSE]
Idle == [pc |-> "idle", name |-> None, sector |-> 0, start |-> 0, len |-> 0, i |-> 0]

\* The state do_format leaves: an empty directory, nothing else allocated.
Init ==
    /\ disk = [s \in Sector |-> Data("junk")]
    /\ entries = [e \in Slot |-> NoEntry]
    /\ disk_map = {}
    /\ free_map = {}
    /\ open_inodes = [s \in Sector |-> NotOpen]
    /\ files = [h \in Handle |-> NoFile]
    /\ op = Idle
    /\ crashes = 0
    /\ contents = [s \in Sector |-> <<>>]
    /\ lost = {}

Extent(start, len) == start .. start + len - 1

\* bitmap_scan: the starts at which len free sectors follow each other.
Fits(len) == {s \in Sector : s + len - 1 <= NSec /\ Extent(s, len) \cap free_map = {}}

\* The first of them is taken, as is the first free slot of the directory.
First(S) == {x \in S : \A y \in S : x <= y}

\* lookup: the slot of a name, if any.
SlotsOf(n) == {e \in Slot : entries[e].in_use /\ entries[e].name = n}

FreeSlots == {e \in Slot : ~entries[e].in_use}

\* bitmap_write can fail (its bounce buffer comes from malloc): then the disk
\* keeps the old map, and free_map_allocate takes its marks back.
free_map_allocate(ext) ==
    /\ free_map' = free_map \cup ext
    /\ disk_map' = free_map'

\* free_map_release ignores whether the map reached the disk.
free_map_release(ext) ==
    /\ free_map' = free_map \ ext
    /\ disk_map' \in {free_map', disk_map}

-----------------------------------------------------------------------------
\* filesys_create: the inode's sector is marked in use.
filesys_create(n, len) ==
    /\ op = Idle
    /\ \E s \in First(Fits(1)) :
          /\ free_map_allocate({s})
          /\ op' = [Idle EXCEPT !.pc = "alloc", !.name = n, !.sector = s, !.len = len]
    /\ UNCHANGED <<disk, entries, open_inodes, files, crashes, contents, lost>>

\* The entry is added before the inode is written.
Mut_alloc_add ==
    /\ op.pc = "alloc"
    /\ \E start \in IF op.len = 0 THEN {0} ELSE First(Fits(op.len)) :
          /\ free_map_allocate(Extent(start, op.len))
          /\ op' = [op EXCEPT !.pc = "add", !.start = start]
    /\ UNCHANGED <<disk, entries, open_inodes, files, crashes, contents, lost>>

\* inode_create: the data sectors are marked in use ...
inode_create_alloc ==
    /\ op.pc = "alloc"
    /\ \E start \in IF op.len = 0 THEN {0} ELSE First(Fits(op.len)) :
          /\ free_map_allocate(Extent(start, op.len))
          /\ op' = [op EXCEPT !.pc = "inode", !.start = start]
    /\ UNCHANGED <<disk, entries, open_inodes, files, crashes, contents, lost>>

\* ... or cannot be, or there is no memory: filesys_create gives up its sector.
inode_create_fail ==
    /\ op.pc = "alloc"
    /\ free_map_release({op.sector})
    /\ op' = Idle
    /\ UNCHANGED <<disk, entries, open_inodes, files, crashes, contents, lost>>

\* inode_create: the inode is written, ...
inode_create_write ==
    /\ op.pc = "inode"
    /\ disk' = [disk EXCEPT ![op.sector] = Inode(op.start, op.len)]
    /\ op' = [op EXCEPT !.pc = IF op.len > 0 THEN "zero" ELSE "add"]
    /\ UNCHANGED <<entries, disk_map, free_map, open_inodes, files, crashes, contents, lost>>

\* Only the first sector is zeroed.
Mut_zero_first ==
    /\ op.pc = "zero"
    /\ disk' = [disk EXCEPT ![op.start + op.i] = Data("zero")]
    /\ op' = [op EXCEPT !.pc = "add"]
    /\ UNCHANGED <<entries, disk_map, free_map, open_inodes, files, crashes, contents, lost>>

\* ... then zeros over its data, a sector at a time.
inode_create_zero ==
    /\ op.pc = "zero"
    /\ disk' = [disk EXCEPT ![op.start + op.i] = Data("zero")]
    /\ op' = [op EXCEPT !.i = @ + 1, !.pc = IF op.i + 1 < op.len THEN "zero" ELSE "add"]
    /\ UNCHANGED <<entries, disk_map, free_map, open_inodes, files, crashes, contents, lost>>

\* dir_add: the entry is written into the first free slot.
dir_add ==
    /\ op.pc = "add"
    /\ SlotsOf(op.name) = {}
    /\ \E e \in First(FreeSlots) :
          entries' = [entries EXCEPT ![e] =
                        [name |-> op.name, sector |-> op.sector, in_use |-> TRUE]]
    /\ contents' = [contents EXCEPT ![op.sector] = [i \in 1 .. op.len |-> "zero"]]
    /\ op' = Idle
    /\ UNCHANGED <<disk, disk_map, free_map, open_inodes, files, crashes, lost>>

\* dir_add fails (the name exists, the directory is full, no memory), and
\* filesys_create releases the inode's sector: the data sectors are lost.
dir_add_fail ==
    /\ op.pc = "add"
    /\ free_map_release({op.sector})
    /\ lost' = lost \cup Extent(op.start, op.len)
    /\ op' = Idle
    /\ UNCHANGED <<disk, entries, open_inodes, files, crashes, contents>>

-----------------------------------------------------------------------------
\* inode_open: one more opener of a known inode, or the inode read from disk.
inode_open(s) ==
    IF open_inodes[s].open_cnt > 0
    THEN [open_inodes EXCEPT ![s].open_cnt = @ + 1]
    ELSE [open_inodes EXCEPT ![s] =
            [NotOpen EXCEPT !.open_cnt = 1, !.start = disk[s].start, !.len = disk[s].len]]

filesys_open(n, h) ==
    /\ op = Idle
    /\ files[h] = NoFile
    /\ \E e \in SlotsOf(n) :
          /\ open_inodes' = inode_open(entries[e].sector)
          /\ files' = [files EXCEPT ![h] = [NoFile EXCEPT !.inode = entries[e].sector]]
    /\ UNCHANGED <<disk, entries, disk_map, free_map, op, crashes, contents, lost>>

file_reopen(h, new) ==
    /\ op = Idle
    /\ files[h] # NoFile
    /\ files[new] = NoFile
    /\ open_inodes' = [open_inodes EXCEPT ![files[h].inode].open_cnt = @ + 1]
    /\ files' = [files EXCEPT ![new] = [NoFile EXCEPT !.inode = files[h].inode]]
    /\ UNCHANGED <<disk, entries, disk_map, free_map, op, crashes, contents, lost>>

\* A removed inode is freed whoever still has it open.
Mut_inode_close(s, inode) ==
    /\ open_inodes' = [open_inodes EXCEPT ![s] =
         IF inode.open_cnt > 1 THEN [inode EXCEPT !.open_cnt = @ - 1] ELSE NotOpen]
    /\ op' = IF inode.removed
             THEN [Idle EXCEPT !.pc = "release", !.sector = s,
                               !.start = inode.start, !.len = inode.len]
             ELSE Idle

\* inode_close of sector s, given the inode as the caller left it: the last
\* closer drops it and, if it was removed, goes on to free its sectors.
inode_close(s, inode) ==
    IF inode.open_cnt > 1
    THEN /\ open_inodes' = [open_inodes EXCEPT ![s] = [inode EXCEPT !.open_cnt = @ - 1]]
         /\ op' = Idle
    ELSE /\ open_inodes' = [open_inodes EXCEPT ![s] = NotOpen]
         /\ op' = IF inode.removed
                  THEN [Idle EXCEPT !.pc = "release", !.sector = s,
                                    !.start = inode.start, !.len = inode.len]
                  ELSE Idle

\* file_close: file_allow_write, then inode_close.
file_close(h) ==
    LET s == files[h].inode
    IN  /\ op = Idle
        /\ files[h] # NoFile
        /\ inode_close(s, [open_inodes[s] EXCEPT
                             !.deny_write_cnt = IF files[h].deny THEN @ - 1 ELSE @])
        /\ files' = [files EXCEPT ![h] = NoFile]
        /\ UNCHANGED <<disk, entries, disk_map, free_map, crashes, contents, lost>>

\* The two calls of free_map_release in inode_close.
release_inode ==
    /\ op.pc = "release"
    /\ free_map_release({op.sector})
    /\ op' = [op EXCEPT !.pc = "release_data"]
    /\ contents' = [contents EXCEPT ![op.sector] = <<>>]
    /\ UNCHANGED <<disk, entries, open_inodes, files, crashes, lost>>

release_data ==
    /\ op.pc = "release_data"
    /\ free_map_release(Extent(op.start, op.len))
    /\ op' = Idle
    /\ UNCHANGED <<disk, entries, open_inodes, files, crashes, contents, lost>>

\* dir_remove: open the inode, erase the entry on disk (what is left in an unused
\* slot is never read), mark the inode ...
dir_remove(n) ==
    /\ op = Idle
    /\ \E e \in SlotsOf(n) :
          LET s == entries[e].sector
              opened == inode_open(s)
          IN  /\ open_inodes' = [opened EXCEPT ![s].removed = TRUE]
              /\ entries' = [entries EXCEPT ![e] = NoEntry]
              /\ op' = [Idle EXCEPT !.pc = "close", !.sector = s]
    /\ UNCHANGED <<disk, disk_map, free_map, files, crashes, contents, lost>>

\* ... and close it.
dir_remove_close ==
    /\ op.pc = "close"
    /\ inode_close(op.sector, open_inodes[op.sector])
    /\ UNCHANGED <<disk, entries, disk_map, free_map, files, crashes, contents, lost>>

\* file_write at the file's position: nothing is written past the end or while
\* writes are denied.
file_write(h, v) ==
    LET s == files[h].inode
        pos == files[h].pos
    IN  /\ op = Idle
        /\ files[h] # NoFile
        /\ open_inodes[s].deny_write_cnt = 0
        /\ pos < open_inodes[s].len
        /\ disk' = [disk EXCEPT ![open_inodes[s].start + pos] = Data(v)]
        /\ contents' = [contents EXCEPT ![s][pos + 1] = v]
        /\ files' = [files EXCEPT ![h].pos = @ + 1]
        /\ UNCHANGED <<entries, disk_map, free_map, open_inodes, op, crashes, lost>>

\* file_seek, and file_read, which moves the position and changes nothing else.
file_seek(h, pos) ==
    /\ op = Idle
    /\ files[h] # NoFile
    /\ files' = [files EXCEPT ![h].pos = pos]
    /\ UNCHANGED <<disk, entries, disk_map, free_map, open_inodes, op, crashes, contents, lost>>

file_deny_write(h) ==
    /\ op = Idle
    /\ files[h] # NoFile
    /\ ~files[h].deny
    /\ files' = [files EXCEPT ![h].deny = TRUE]
    /\ open_inodes' = [open_inodes EXCEPT ![files[h].inode].deny_write_cnt = @ + 1]
    /\ UNCHANGED <<disk, entries, disk_map, free_map, op, crashes, contents, lost>>

file_allow_write(h) ==
    /\ op = Idle
    /\ files[h] # NoFile
    /\ files[h].deny
    /\ files' = [files EXCEPT ![h].deny = FALSE]
    /\ open_inodes' = [open_inodes EXCEPT ![files[h].inode].deny_write_cnt = @ - 1]
    /\ UNCHANGED <<disk, entries, disk_map, free_map, op, crashes, contents, lost>>

-----------------------------------------------------------------------------
\* The sectors of the file whose inode is in sector s, as the disk has it.
OnDisk(s) == {s} \cup Extent(disk[s].start, disk[s].len)

InDir == {entries[e].sector : e \in {f \in Slot : entries[f].in_use}}

\* The machine stops; the next boot's filesys_init reads the map from the disk.
crash ==
    /\ crashes < MaxCrash
    /\ crashes' = crashes + 1
    /\ free_map' = disk_map
    /\ open_inodes' = [s \in Sector |-> NotOpen]
    /\ files' = [h \in Handle |-> NoFile]
    /\ op' = Idle
    /\ lost' = disk_map \ UNION {OnDisk(s) : s \in InDir}
    /\ contents' = [s \in Sector |-> IF s \in InDir THEN contents[s] ELSE <<>>]
    /\ UNCHANGED <<disk, entries, disk_map>>

Next ==
    \/ \E n \in Name, len \in 0 .. MaxLen : filesys_create(n, len)
    \/ inode_create_alloc \/ inode_create_fail \/ inode_create_write
    \/ inode_create_zero \/ dir_add \/ dir_add_fail
    \/ \E n \in Name, h \in Handle : filesys_open(n, h)
    \/ \E h, new \in Handle : file_reopen(h, new)
    \/ \E h \in Handle : \/ file_close(h) \/ file_deny_write(h) \/ file_allow_write(h)
                         \/ \E v \in Value : file_write(h, v)
                         \/ \E pos \in 0 .. MaxLen : file_seek(h, pos)
    \/ \E n \in Name : dir_remove(n)
    \/ dir_remove_close \/ release_inode \/ release_data
    \/ crash

Spec == Init /\ [][Next]_vars

-----------------------------------------------------------------------------

Operation ==
    [pc : {"idle", "alloc", "inode", "zero", "add", "release", "release_data", "close"},
     name : Name \cup {None}, sector : Sector \cup {0}, start : Nat, len : Nat, i : Nat]

OpenInode == [open_cnt : Nat, removed : BOOLEAN, deny_write_cnt : Nat, start : Nat, len : Nat]

OpenFile == [inode : Sector \cup {0}, pos : Nat, deny : BOOLEAN]

TypeOK ==
    /\ disk \in [Sector -> [kind : {"inode", "data"}, start : Nat, len : Nat,
                            val : Value \cup {None, "junk", "zero"}]]
    /\ entries \in [Slot -> [name : Name \cup {None}, sector : Sector \cup {0},
                             in_use : BOOLEAN]]
    /\ disk_map \subseteq Sector /\ free_map \subseteq Sector /\ lost \subseteq Sector
    /\ open_inodes \in [Sector -> OpenInode]
    /\ files \in [Handle -> OpenFile]
    /\ op \in Operation
    /\ contents \in [Sector -> Seq(Value \cup {"zero"})]

Open == {s \in Sector : open_inodes[s].open_cnt > 0}

\* The sectors of a file that is open, as its in-memory inode has them.
InMemory(s) == {s} \cup Extent(open_inodes[s].start, open_inodes[s].len)

\* The sectors of a file that is open or in the directory.
SectorsOf(s) == IF s \in Open THEN InMemory(s) ELSE OnDisk(s)

\* No sector belongs to two files, and every sector of a file in the directory or
\* still open is marked in use, in memory and on disk: not even a crash makes a
\* later file overwrite it.  This includes removed files until their last close.
\* Between operations every marked sector belongs to a file, except for those
\* lost when dir_add failed after inode_create or when the machine stopped: no
\* other path leaks, and removal gives everything back.
SectorsAccounted ==
    /\ \A s, t \in InDir \cup Open : s # t => SectorsOf(s) \cap SectorsOf(t) = {}
    /\ \A s \in InDir \cup Open : SectorsOf(s) \subseteq free_map \cap disk_map
    /\ op = Idle => free_map = lost \cup UNION {SectorsOf(s) : s \in InDir \cup Open}

\* A file holds what was written to it, and zeros elsewhere, through removal of
\* it or of others, sector reuse and crashes.
ContentsKept ==
    \A s \in InDir \cup Open :
        /\ Len(contents[s]) = disk[s].len
        /\ \A i \in 1 .. disk[s].len : disk[disk[s].start + i - 1] = Data(contents[s][i])

Openers(s) == {h \in Handle : files[h].inode = s}

Deniers(s) == {h \in Handle : files[h].inode = s /\ files[h].deny}

\* open_cnt counts the files that have the inode open (and a removal in progress),
\* deny_write_cnt those of them that deny writes: the assertions of
\* inode_deny_write and inode_allow_write (inode.c:325, 336) hold.
CountsExact ==
    \A s \in Sector :
        /\ open_inodes[s].open_cnt =
             Cardinality(Openers(s)) + (IF op.pc = "close" /\ op.sector = s THEN 1 ELSE 0)
        /\ open_inodes[s].deny_write_cnt = Cardinality(Deniers(s))

\* The files: what is in the directory or open.
Files == InDir \cup Open

\* The sectors that belong to the operation in progress and to no file: those of
\* a file that is being created or freed.
HeldInode ==
    IF op.pc \in {"alloc", "inode", "zero", "add", "release"} THEN {op.sector} ELSE {}

HeldData ==
    IF op.pc \in {"inode", "zero", "add", "release", "release_data"}
    THEN Extent(op.start, op.len) ELSE {}

Held == HeldInode \cup HeldData

\* What the operation in progress has done so far.
OpInv ==
    /\ op.pc = "idle" => op = Idle
    /\ op.pc \notin {"idle", "release_data"} => op.sector \in Sector
    /\ op.pc \in {"alloc", "inode", "zero", "add"} => op.name \in Name
    /\ op.pc \in {"inode", "zero", "add", "release"} =>
           op.sector \notin Extent(op.start, op.len)
    /\ op.pc \in {"alloc", "inode"} => op.i = 0
    /\ op.pc = "zero" => op.i < op.len
    /\ op.pc = "add" => op.i = op.len
    /\ op.pc \in {"zero", "add"} =>
           /\ disk[op.sector] = Inode(op.start, op.len)
           /\ \A j \in 1 .. op.i : disk[op.start + j - 1] = Data("zero")

\* Entries, open inodes and files refer to each other: no two entries have a name
\* or an inode in common, an open inode is removed when it is not in the directory,
\* and a file in the directory always has a valid inode on disk, whenever the
\* machine stopped, of which an open inode is a copy: creation writes the inode
\* before the entry, removal the entry before the map.
DirInv ==
    /\ \A e, f \in Slot :
           /\ entries[e].in_use /\ entries[f].in_use
           /\ entries[e].name = entries[f].name \/ entries[e].sector = entries[f].sector
           => e = f
    /\ \A e \in Slot : entries[e].in_use => entries[e].sector \in Sector
    /\ \A h \in Handle : files[h].inode = 0 => files[h] = NoFile
    /\ \A s \in Sector \ Open : open_inodes[s] = NotOpen
    /\ \A s \in Open : /\ open_inodes[s].removed <=> s \notin InDir
                      /\ open_inodes[s].start = disk[s].start
                      /\ open_inodes[s].len = disk[s].len
    /\ \A s \in Files : disk[s].kind = "inode"

\* A sector that is marked in use is lost, or held by the operation in progress,
\* or belongs to one file; what the disk's map marks includes all of them.
SectorInv ==
    /\ free_map \subseteq disk_map
    /\ \A x \in Sector :
           x \in free_map <=> x \in lost \cup Held \/ \E s \in Files : x \in OnDisk(s)
    /\ Held \subseteq Sector \ lost
    /\ \A s \in Files :
           /\ s \notin Extent(disk[s].start, disk[s].len)
           /\ OnDisk(s) \subseteq Sector \ (lost \cup Held)
           /\ \A t \in Files : s # t => OnDisk(s) \cap OnDisk(t) = {}

\* The inductive invariant.
IndInv == TypeOK /\ OpInv /\ DirInv /\ CountsExact /\ SectorInv /\ ContentsKept

\* Directory, inode table and files agree on what is open, denied and named,
\* through removals of open files, failed operations and crashes.
Inv == TypeOK /\ OpInv /\ DirInv /\ CountsExact /\ SectorInv
=============================================================================
