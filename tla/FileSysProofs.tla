--------------------------- MODULE FileSysProofs ----------------------------
(***************************************************************************)
(* Proofs about FileSys, for any disk, any directory and any sequence of   *)
(* operations and crashes: no sector is in two files, every sector in use  *)
(* is accounted for, and files keep their contents.  The argument is       *)
(* IndInv: SectorInv gives every marked sector one owner - a file, the     *)
(* operation in progress, or nobody for good - and keeps the map on disk   *)
(* from marking less than the map in memory, so that a crash at any step   *)
(* finds the files of the directory intact.                                *)
(***************************************************************************)
EXTENDS FileSysLemmas, FiniteSetTheorems

-----------------------------------------------------------------------------
(* The initial state, and the counts of openers. *)

\* Nobody has a file open that no handle refers to.
LEMMA NoOpeners ==
    ASSUME \A h \in Handle : files[h].inode = 0, NEW s \in Sector
    PROVE  Cardinality(Openers(s)) = 0 /\ Cardinality(Deniers(s)) = 0
<1>1. Openers(s) = {} /\ Deniers(s) = {}
    BY DEF Sector, Openers, Deniers
<1> QED BY <1>1, FS_EmptySet, Zenon

\* The state do_format() leaves satisfies the invariant.
LEMMA InitInv == Init => IndInv
<1> SUFFICES ASSUME Init PROVE IndInv
    OBVIOUS
<1>1. TypeOK
    <2>1. disk \in [Sector -> [kind : {"inode", "data"}, start : Nat, len : Nat,
                               val : Value \cup {None, "junk", "zero"}]]
        BY ZenonT(30) DEF Init, Data
    <2>2. contents \in [Sector -> Seq(Value \cup {"zero"})]
        BY DEF Init
    <2> QED BY <2>1, <2>2, Zenon DEF Init, TypeOK, NoEntry, NotOpen, NoFile, Idle, Operation, OpenInode,
           OpenFile
<1>2. InDir = {} /\ Open = {} /\ Files = {}
    BY Records DEF Init, InDir, Open, Files
<1>3. OpInv
    BY Records, ZenonT(30) DEF Init, OpInv
<1>4. DirInv
    BY <1>2, Records, ZenonT(30) DEF Init, DirInv
<1>5. CountsExact
    BY NoOpeners, Records DEF Init, CountsExact
<1>6. SectorInv
    BY <1>2, Records, ZenonT(30) DEF Init, SectorInv, Held, HeldInode, HeldData
<1>7. ContentsKept
    BY <1>2, ZenonT(30) DEF ContentsKept
<1> QED BY <1>1, <1>3, <1>4, <1>5, <1>6, <1>7, ZenonT(30) DEF IndInv

\* How the openers of inode s change when handle h does.
LEMMA OpenerFacts ==
    ASSUME TypeOK, NEW h \in Handle, NEW f \in OpenFile,
           files' = [files EXCEPT ![h] = f], NEW s \in Sector
    PROVE  \E others, denying \in Nat :
               /\ Cardinality(Openers(s)) = others + (IF files[h].inode = s THEN 1 ELSE 0)
               /\ Cardinality(Openers(s)') = others + (IF f.inode = s THEN 1 ELSE 0)
               /\ Cardinality(Deniers(s)) =
                      denying + (IF files[h].inode = s /\ files[h].deny THEN 1 ELSE 0)
               /\ Cardinality(Deniers(s)') =
                      denying + (IF f.inode = s /\ f.deny THEN 1 ELSE 0)
<1> DEFINE mine == Openers(s) \ {h}
           deny == Deniers(s) \ {h}
<1>1. /\ files'[h] = f
      /\ \A k \in Handle \ {h} : files'[k] = files[k]
    BY ZenonT(30) DEF TypeOK
<1>2. /\ Openers(s)' = IF f.inode = s THEN mine \cup {h} ELSE mine
      /\ Openers(s) = IF files[h].inode = s THEN mine \cup {h} ELSE mine
    BY <1>1, ZenonT(30) DEF Openers
<1>3. /\ Deniers(s)' = IF f.inode = s /\ f.deny THEN deny \cup {h} ELSE deny
      /\ Deniers(s) = IF files[h].inode = s /\ files[h].deny THEN deny \cup {h} ELSE deny
    BY <1>1, ZenonT(30) DEF Deniers
<1>4. IsFiniteSet(mine) /\ IsFiniteSet(deny) /\ h \notin mine /\ h \notin deny
    BY FileSysAssumption, FS_Subset, ZenonT(30) DEF Openers, Deniers
<1> HIDE DEF mine, deny
<1>5. /\ Cardinality(mine) \in Nat /\ Cardinality(deny) \in Nat
      /\ Cardinality(mine \cup {h}) = Cardinality(mine) + 1
      /\ Cardinality(deny \cup {h}) = Cardinality(deny) + 1
    BY <1>4, FS_AddElement, FS_CardinalityType, Zenon
<1>6. /\ Cardinality(Openers(s)) = Cardinality(mine) + (IF files[h].inode = s THEN 1 ELSE 0)
      /\ Cardinality(Openers(s)') = Cardinality(mine) + (IF f.inode = s THEN 1 ELSE 0)
    BY <1>2, <1>5
<1>7. /\ Cardinality(Deniers(s)) = Cardinality(deny)
             + (IF files[h].inode = s /\ files[h].deny THEN 1 ELSE 0)
      /\ Cardinality(Deniers(s)') = Cardinality(deny)
             + (IF f.inode = s /\ f.deny THEN 1 ELSE 0)
    BY <1>3, <1>5
<1> QED BY <1>5, <1>6, <1>7, Zenon

\* A handle of inode s changes, and the inode's counts with it.
LEMMA CountsStep ==
    ASSUME TypeOK, CountsExact, op.pc # "close", op'.pc # "close",
           NEW s \in Sector, NEW x \in OpenInode, open_inodes' = [open_inodes EXCEPT ![s] = x],
           NEW h \in Handle, NEW f \in OpenFile, files' = [files EXCEPT ![h] = f],
           files[h].inode \in {0, s}, f.inode \in {0, s},
           x.open_cnt + (IF files[h].inode = s THEN 1 ELSE 0) =
               open_inodes[s].open_cnt + (IF f.inode = s THEN 1 ELSE 0),
           x.deny_write_cnt + (IF files[h].inode = s /\ files[h].deny THEN 1 ELSE 0) =
               open_inodes[s].deny_write_cnt + (IF f.inode = s /\ f.deny THEN 1 ELSE 0)
    PROVE  CountsExact'
<1> SUFFICES ASSUME NEW t \in Sector
             PROVE  /\ open_inodes'[t].open_cnt = Cardinality(Openers(t)')
                         + (IF op'.pc = "close" /\ op'.sector = t THEN 1 ELSE 0)
                    /\ open_inodes'[t].deny_write_cnt = Cardinality(Deniers(t)')
    BY Zenon DEF CountsExact
<1>1. /\ open_inodes[t].open_cnt = Cardinality(Openers(t))
             + (IF op.pc = "close" /\ op.sector = t THEN 1 ELSE 0)
      /\ open_inodes[t].deny_write_cnt = Cardinality(Deniers(t))
    BY Zenon DEF CountsExact
<1>2. PICK others, denying \in Nat :
          /\ Cardinality(Openers(t)) = others + (IF files[h].inode = t THEN 1 ELSE 0)
          /\ Cardinality(Openers(t)') = others + (IF f.inode = t THEN 1 ELSE 0)
          /\ Cardinality(Deniers(t)) =
                 denying + (IF files[h].inode = t /\ files[h].deny THEN 1 ELSE 0)
          /\ Cardinality(Deniers(t)') =
                 denying + (IF f.inode = t /\ f.deny THEN 1 ELSE 0)
    BY OpenerFacts, Zenon
<1>3. CASE t = s
    <2>1. open_inodes'[s] = x /\ x.open_cnt \in Nat /\ x.deny_write_cnt \in Nat
        BY ZenonT(30) DEF TypeOK, OpenInode
    <2> QED BY <1>1, <1>2, <1>3, <2>1
<1>4. CASE t # s
    <2>1. files[h].inode # t /\ f.inode # t
        BY <1>4 DEF Sector
    <2>2. open_inodes'[t] = open_inodes[t]
        BY <1>4, ZenonT(30) DEF TypeOK
    <2> QED BY <1>1, <1>2, <2>1, <2>2, ZenonT(30)
<1> QED BY <1>3, <1>4, ZenonT(30)

-----------------------------------------------------------------------------
(* The operations on open files. *)

\* The inode of an open file is open, and knows when the file denies writes.
LEMMA HandleOpen ==
    ASSUME TypeOK, DirInv, CountsExact, NEW h \in Handle, files[h] # NoFile
    PROVE  LET s == files[h].inode
           IN  /\ s \in Sector /\ s \in Open /\ s \in Files
               /\ open_inodes[s] \in OpenInode /\ open_inodes[s].open_cnt > 0
               /\ files[h].deny => open_inodes[s].deny_write_cnt > 0
<1> DEFINE s == files[h].inode
<1>1. s \in Sector
    BY ZenonT(30) DEF TypeOK, OpenFile, DirInv
<1> HIDE DEF s
<1>2. h \in Openers(s) /\ (files[h].deny => h \in Deniers(s))
    BY ZenonT(30) DEF Openers, Deniers, s
<1>3. IsFiniteSet(Openers(s)) /\ IsFiniteSet(Deniers(s))
    BY FileSysAssumption, FS_Subset, ZenonT(30) DEF Openers, Deniers
<1>4. /\ Cardinality(Openers(s)) \in Nat /\ Cardinality(Openers(s)) # 0
      /\ Cardinality(Deniers(s)) \in Nat
      /\ files[h].deny => Cardinality(Deniers(s)) # 0
    BY <1>2, <1>3, FS_EmptySet, FS_CardinalityType, Zenon
<1>5. /\ open_inodes[s].open_cnt = Cardinality(Openers(s))
             + (IF op.pc = "close" /\ op.sector = s THEN 1 ELSE 0)
      /\ open_inodes[s].deny_write_cnt = Cardinality(Deniers(s))
    BY <1>1, Zenon DEF CountsExact
<1>6. open_inodes[s] \in OpenInode
    BY <1>1, ZenonT(30) DEF TypeOK
<1>7. /\ open_inodes[s].open_cnt > 0
      /\ files[h].deny => open_inodes[s].deny_write_cnt > 0
    BY <1>4, <1>5
<1>8. s \in Open /\ s \in Files
    BY <1>1, <1>7, ZenonT(30) DEF Open, Files
<1> QED BY <1>1, <1>6, <1>7, <1>8, ZenonT(30) DEF s

\* A handle of inode s changes, and the inode with it; the inode is dropped only
\* when it is in the directory.
LEMMA HandleStep ==
    ASSUME IndInv, op.pc = "idle",
           UNCHANGED <<disk, entries, disk_map, free_map, op, contents, lost>>,
           NEW s \in Files, NEW x \in OpenInode, open_inodes' = [open_inodes EXCEPT ![s] = x],
           x.open_cnt = 0 => x = NotOpen /\ s \in InDir,
           x.open_cnt > 0 => /\ x.removed <=> s \notin InDir
                             /\ x.start = disk[s].start /\ x.len = disk[s].len,
           NEW h \in Handle, NEW f \in OpenFile, files' = [files EXCEPT ![h] = f],
           f.inode = 0 => f = NoFile,
           files[h].inode \in {0, s}, f.inode \in {0, s},
           x.open_cnt + (IF files[h].inode = s THEN 1 ELSE 0) =
               open_inodes[s].open_cnt + (IF f.inode = s THEN 1 ELSE 0),
           x.deny_write_cnt + (IF files[h].inode = s /\ files[h].deny THEN 1 ELSE 0) =
               open_inodes[s].deny_write_cnt + (IF f.inode = s /\ f.deny THEN 1 ELSE 0)
    PROVE  IndInv'
<1>i. TypeOK /\ OpInv /\ DirInv /\ CountsExact /\ SectorInv /\ ContentsKept
    BY ZenonT(30) DEF IndInv
<1>1. s \in Sector
    BY <1>i DEF Files, InDir, Open, DirInv
<1>2. TypeOK'
    <2>1. open_inodes' \in [Sector -> OpenInode] /\ files' \in [Handle -> OpenFile]
        BY <1>i, Zenon DEF TypeOK
    <2> QED BY <1>i, <2>1, Zenon DEF TypeOK
<1>3. OpInv'
    BY <1>i, Zenon DEF OpInv
<1>4. \A k \in Handle : files'[k].inode = 0 => files'[k] = NoFile
    BY <1>i, ZenonT(30) DEF DirInv, TypeOK
<1>5. DirInv' /\ Files' = Files
    BY <1>i, <1>4, DirStep, ZenonT(30)
<1>6. CountsExact'
    BY <1>i, <1>1, CountsStep, ZenonT(30)
<1>7. SectorInv'
    <2>1. Held' = Held
        BY ZenonT(30) DEF Held, HeldInode, HeldData
    <2> QED BY <1>i, <1>5, <2>1, SectorsSame, ZenonT(30)
<1>8. ContentsKept'
    BY <1>i, <1>5, ContentsSame, ZenonT(30)
<1> QED BY <1>2, <1>3, <1>5, <1>6, <1>7, <1>8, ZenonT(30) DEF IndInv

\* filesys_open() of a file in the directory.
LEMMA filesys_openStep ==
    ASSUME IndInv, NEW n \in Name, NEW h \in Handle, filesys_open(n, h)
    PROVE  IndInv'
<1>i. TypeOK /\ DirInv /\ CountsExact
    BY ZenonT(30) DEF IndInv
<1>1. PICK e \in SlotsOf(n) :
          /\ open_inodes' = inode_open(entries[e].sector)
          /\ files' = [files EXCEPT ![h] = [NoFile EXCEPT !.inode = entries[e].sector]]
    BY Zenon DEF filesys_open
<1> DEFINE s == entries[e].sector
           f == [inode |-> s, pos |-> 0, deny |-> FALSE]
<1>2. s \in InDir /\ s \in Files /\ s \in Sector
    BY <1>i, ZenonT(30) DEF SlotsOf, InDir, Files, DirInv
<1>3. files' = [files EXCEPT ![h] = f]
    BY <1>1, NewFile, Zenon
<1>4. f \in OpenFile /\ f.inode = s /\ f.deny = FALSE /\ s # 0
    BY <1>2 DEF OpenFile, Sector
<1> HIDE DEF s, f
<1>5. PICK x \in OpenInode :
          /\ open_inodes' = [open_inodes EXCEPT ![s] = x]
          /\ x.open_cnt = open_inodes[s].open_cnt + 1
          /\ x.deny_write_cnt = open_inodes[s].deny_write_cnt
          /\ x.start = disk[s].start /\ x.len = disk[s].len
          /\ x.removed <=> s \notin InDir
    BY <1>i, <1>1, <1>2, InodeOpenFacts, Zenon DEF s
<1>6. /\ op.pc = "idle" /\ files[h].inode = 0
      /\ UNCHANGED <<disk, entries, disk_map, free_map, op, contents, lost>>
    BY Records, ZenonT(30) DEF filesys_open
<1>7. /\ x.open_cnt # 0
      /\ x.open_cnt + (IF files[h].inode = s THEN 1 ELSE 0) =
             open_inodes[s].open_cnt + (IF f.inode = s THEN 1 ELSE 0)
      /\ x.deny_write_cnt + (IF files[h].inode = s /\ files[h].deny THEN 1 ELSE 0) =
             open_inodes[s].deny_write_cnt + (IF f.inode = s /\ f.deny THEN 1 ELSE 0)
    <2>1. open_inodes[s].open_cnt \in Nat /\ open_inodes[s].deny_write_cnt \in Nat
        BY <1>i, <1>2, ZenonT(30) DEF TypeOK, OpenInode
    <2> QED BY <1>4, <1>5, <1>6, <2>1
<1> QED BY <1>2, <1>3, <1>4, <1>5, <1>6, <1>7, HandleStep, ZenonT(30)

\* file_reopen().
LEMMA file_reopenStep ==
    ASSUME IndInv, NEW h \in Handle, NEW new \in Handle, file_reopen(h, new)
    PROVE  IndInv'
<1>i. TypeOK /\ DirInv /\ CountsExact
    BY ZenonT(30) DEF IndInv
<1> DEFINE s == files[h].inode
           f == [inode |-> s, pos |-> 0, deny |-> FALSE]
           x == [open_inodes[s] EXCEPT !.open_cnt = @ + 1]
<1>1. /\ s \in Sector /\ s \in Open /\ s \in Files
      /\ open_inodes[s] \in OpenInode
    BY <1>i, HandleOpen, ZenonT(30) DEF file_reopen
<1>2. /\ op.pc = "idle" /\ files[new].inode = 0
      /\ UNCHANGED <<disk, entries, disk_map, free_map, op, contents, lost>>
    BY Records, ZenonT(30) DEF file_reopen
<1>3. files' = [files EXCEPT ![new] = f] /\ open_inodes' = [open_inodes EXCEPT ![s] = x]
    BY NewFile, Zenon DEF file_reopen
<1>4. f \in OpenFile /\ f.inode = s /\ f.deny = FALSE /\ s # 0
    BY <1>1 DEF OpenFile, Sector
<1>5. /\ x \in OpenInode /\ x.open_cnt = open_inodes[s].open_cnt + 1
      /\ x.deny_write_cnt = open_inodes[s].deny_write_cnt
      /\ x.start = open_inodes[s].start /\ x.len = open_inodes[s].len
      /\ x.removed = open_inodes[s].removed
    BY <1>1 DEF OpenInode
<1> HIDE DEF s, f, x
<1>6. /\ x.removed <=> s \notin InDir
      /\ x.start = disk[s].start /\ x.len = disk[s].len
    BY <1>i, <1>1, <1>5, ZenonT(30) DEF DirInv
<1>7. /\ x.open_cnt # 0
      /\ x.open_cnt + (IF files[new].inode = s THEN 1 ELSE 0) =
             open_inodes[s].open_cnt + (IF f.inode = s THEN 1 ELSE 0)
      /\ x.deny_write_cnt + (IF files[new].inode = s /\ files[new].deny THEN 1 ELSE 0) =
             open_inodes[s].deny_write_cnt + (IF f.inode = s /\ f.deny THEN 1 ELSE 0)
    <2>1. open_inodes[s].open_cnt \in Nat /\ open_inodes[s].deny_write_cnt \in Nat
        BY <1>1, ZenonT(30) DEF OpenInode
    <2> QED BY <1>2, <1>4, <1>5, <2>1
<1> QED BY <1>1, <1>2, <1>3, <1>4, <1>5, <1>6, <1>7, HandleStep, ZenonT(30)

\* An open file changes its position or whether it denies writes.
LEMMA FileStep ==
    ASSUME IndInv, op = Idle, NEW h \in Handle, files[h] # NoFile,
           UNCHANGED <<disk, entries, disk_map, free_map, op, contents, lost>>,
           NEW f \in OpenFile, f.inode = files[h].inode, files' = [files EXCEPT ![h] = f],
           NEW x \in OpenInode, open_inodes' = [open_inodes EXCEPT ![files[h].inode] = x],
           x.open_cnt = open_inodes[files[h].inode].open_cnt,
           x.removed = open_inodes[files[h].inode].removed,
           x.start = open_inodes[files[h].inode].start,
           x.len = open_inodes[files[h].inode].len,
           x.deny_write_cnt + (IF files[h].deny THEN 1 ELSE 0) =
               open_inodes[files[h].inode].deny_write_cnt + (IF f.deny THEN 1 ELSE 0)
    PROVE  IndInv'
<1>i. TypeOK /\ DirInv /\ CountsExact
    BY ZenonT(30) DEF IndInv
<1> DEFINE s == files[h].inode
<1>1. /\ s \in Sector /\ s \in Open /\ s \in Files /\ s # 0
      /\ open_inodes[s] \in OpenInode /\ open_inodes[s].open_cnt > 0
    BY <1>i, HandleOpen DEF Sector
<1>2. /\ open_inodes[s].removed <=> s \notin InDir
      /\ open_inodes[s].start = disk[s].start /\ open_inodes[s].len = disk[s].len
    BY <1>i, <1>1, ZenonT(30) DEF DirInv
<1>3. /\ x.open_cnt # 0 /\ op.pc = "idle"
      /\ x.open_cnt + (IF files[h].inode = s THEN 1 ELSE 0) =
             open_inodes[s].open_cnt + (IF f.inode = s THEN 1 ELSE 0)
      /\ x.deny_write_cnt + (IF files[h].inode = s /\ files[h].deny THEN 1 ELSE 0) =
             open_inodes[s].deny_write_cnt + (IF f.inode = s /\ f.deny THEN 1 ELSE 0)
    BY <1>1, Records
<1>4. f.inode = s /\ files[h].inode = s
    OBVIOUS
<1> HIDE DEF s
<1> QED BY <1>1, <1>2, <1>3, <1>4, HandleStep, ZenonT(60) DEF s

\* file_seek(), and the change of position of file_read().
LEMMA file_seekStep ==
    ASSUME IndInv, NEW h \in Handle, NEW pos \in Nat, file_seek(h, pos)
    PROVE  IndInv'
<1>i. TypeOK /\ DirInv /\ CountsExact
    BY ZenonT(30) DEF IndInv
<1> DEFINE s == files[h].inode
           f == [files[h] EXCEPT !.pos = pos]
<1>1. s \in Sector /\ open_inodes[s] \in OpenInode
    BY <1>i, HandleOpen, ZenonT(30) DEF file_seek
<1>2. open_inodes' = [open_inodes EXCEPT ![s] = open_inodes[s]]
    BY <1>i, <1>1, ZenonT(30) DEF file_seek, TypeOK
<1>3. f \in OpenFile /\ f.inode = files[h].inode /\ f.deny = files[h].deny
    BY <1>i, ZenonT(30) DEF TypeOK, OpenFile
<1>4. files' = [files EXCEPT ![h] = f]
    BY ZenonT(30) DEF file_seek
<1> HIDE DEF f
<1>5. open_inodes[s].deny_write_cnt + (IF files[h].deny THEN 1 ELSE 0) =
      open_inodes[s].deny_write_cnt + (IF f.deny THEN 1 ELSE 0)
    BY <1>3, ZenonT(30)
<1>6. /\ op = Idle /\ files[h] # NoFile
      /\ UNCHANGED <<disk, entries, disk_map, free_map, op, contents, lost>>
    BY Zenon DEF file_seek
<1> QED BY <1>1, <1>2, <1>3, <1>4, <1>5, <1>6, FileStep, ZenonT(60)

\* file_deny_write() counts the file once.
LEMMA file_deny_writeStep ==
    ASSUME IndInv, NEW h \in Handle, file_deny_write(h)
    PROVE  IndInv'
<1>i. TypeOK /\ DirInv /\ CountsExact
    BY ZenonT(30) DEF IndInv
<1> DEFINE s == files[h].inode
           f == [files[h] EXCEPT !.deny = TRUE]
           x == [open_inodes[s] EXCEPT !.deny_write_cnt = @ + 1]
<1>1. s \in Sector /\ open_inodes[s] \in OpenInode
    BY <1>i, HandleOpen, ZenonT(30) DEF file_deny_write
<1>2. files' = [files EXCEPT ![h] = f] /\ open_inodes' = [open_inodes EXCEPT ![s] = x]
    BY ZenonT(30) DEF file_deny_write
<1>3. f \in OpenFile /\ f.inode = files[h].inode /\ f.deny = TRUE
    BY <1>i, ZenonT(30) DEF TypeOK, OpenFile
<1>4. /\ x \in OpenInode /\ x.open_cnt = open_inodes[s].open_cnt
      /\ x.removed = open_inodes[s].removed
      /\ x.start = open_inodes[s].start /\ x.len = open_inodes[s].len
      /\ x.deny_write_cnt = open_inodes[s].deny_write_cnt + 1
      /\ open_inodes[s].deny_write_cnt \in Nat
    BY <1>1 DEF OpenInode
<1> HIDE DEF f, x
<1>5. x.deny_write_cnt + (IF files[h].deny THEN 1 ELSE 0) =
      open_inodes[s].deny_write_cnt + (IF f.deny THEN 1 ELSE 0)
    BY <1>3, <1>4 DEF file_deny_write
<1>6. /\ op = Idle /\ files[h] # NoFile
      /\ UNCHANGED <<disk, entries, disk_map, free_map, op, contents, lost>>
    BY Zenon DEF file_deny_write
<1> QED BY <1>1, <1>2, <1>3, <1>4, <1>5, <1>6, FileStep, ZenonT(60)

\* file_allow_write() takes the file out of the count, which it is in: the count
\* does not go below zero.
LEMMA file_allow_writeStep ==
    ASSUME IndInv, NEW h \in Handle, file_allow_write(h)
    PROVE  IndInv'
<1>i. TypeOK /\ DirInv /\ CountsExact
    BY ZenonT(30) DEF IndInv
<1> DEFINE s == files[h].inode
           f == [files[h] EXCEPT !.deny = FALSE]
           x == [open_inodes[s] EXCEPT !.deny_write_cnt = @ - 1]
<1>1. /\ s \in Sector /\ open_inodes[s] \in OpenInode
      /\ open_inodes[s].deny_write_cnt > 0
    BY <1>i, HandleOpen, ZenonT(30) DEF file_allow_write
<1>2. files' = [files EXCEPT ![h] = f] /\ open_inodes' = [open_inodes EXCEPT ![s] = x]
    BY ZenonT(30) DEF file_allow_write
<1>3. f \in OpenFile /\ f.inode = files[h].inode /\ f.deny = FALSE
    BY <1>i, ZenonT(30) DEF TypeOK, OpenFile
<1>4. /\ x \in OpenInode /\ x.open_cnt = open_inodes[s].open_cnt
      /\ x.removed = open_inodes[s].removed
      /\ x.start = open_inodes[s].start /\ x.len = open_inodes[s].len
      /\ x.deny_write_cnt = open_inodes[s].deny_write_cnt - 1
      /\ open_inodes[s].deny_write_cnt \in Nat
    BY <1>1 DEF OpenInode
<1> HIDE DEF f, x
<1>5. x.deny_write_cnt + (IF files[h].deny THEN 1 ELSE 0) =
      open_inodes[s].deny_write_cnt + (IF f.deny THEN 1 ELSE 0)
    BY <1>3, <1>4 DEF file_allow_write
<1>6. /\ op = Idle /\ files[h] # NoFile
      /\ UNCHANGED <<disk, entries, disk_map, free_map, op, contents, lost>>
    BY Zenon DEF file_allow_write
<1> QED BY <1>1, <1>2, <1>3, <1>4, <1>5, <1>6, FileStep, ZenonT(60)

\* file_write() writes a sector of its own file, and of no other.
LEMMA file_writeStep ==
    ASSUME IndInv, NEW h \in Handle, NEW v \in Value, file_write(h, v)
    PROVE  IndInv'
<1>i. TypeOK /\ OpInv /\ DirInv /\ CountsExact /\ SectorInv /\ ContentsKept
    BY ZenonT(30) DEF IndInv
<1> DEFINE s == files[h].inode
           pos == files[h].pos
           f == [files[h] EXCEPT !.pos = @ + 1]
           k == disk[s].start + pos
<1>0. /\ op = Idle /\ op.pc = "idle" /\ files[h] # NoFile
      /\ files' = [files EXCEPT ![h] = f]
      /\ contents' = [contents EXCEPT ![s][pos + 1] = v]
      /\ UNCHANGED <<entries, disk_map, free_map, open_inodes, op, lost>>
    BY Records, ZenonT(30) DEF file_write
<1>1. /\ s \in Sector /\ s \in Open /\ s \in Files
      /\ open_inodes[s] \in OpenInode /\ open_inodes[s].open_cnt > 0
    BY <1>i, <1>0, HandleOpen, ZenonT(30)
<1>2. /\ open_inodes[s].removed <=> s \notin InDir
      /\ open_inodes[s].start = disk[s].start /\ open_inodes[s].len = disk[s].len
    BY <1>i, <1>1, ZenonT(30) DEF DirInv
<1>3. /\ disk' = [disk EXCEPT ![k] = Data(v)] /\ pos < disk[s].len
      /\ pos \in Nat /\ disk[s].start \in Nat /\ disk[s].len \in Nat
    BY <1>i, <1>1, <1>2, ZenonT(30) DEF file_write, TypeOK, OpenFile
<1>4. f \in OpenFile /\ f.inode = files[h].inode /\ f.deny = files[h].deny
    <2>1. pos + 1 \in Nat
        BY <1>3
    <2> QED BY <1>i, <2>1, ZenonT(30) DEF TypeOK, OpenFile
<1>5. k \in Extent(disk[s].start, disk[s].len)
    BY <1>3 DEF Extent
<1> HIDE DEF f, k
<1>6. k \in OnDisk(s) /\ k \in Sector /\ k # s
    BY <1>i, <1>1, <1>5 DEF OnDisk, SectorInv
<1>7. \A t \in Files : t # s => k \notin OnDisk(t)
    BY <1>i, <1>1, <1>6, ZenonT(30) DEF SectorInv
<1>8. \A t \in Files : k # t
    BY <1>6, <1>7, ZenonT(30) DEF OnDisk
<1>9. disk'[k] = Data(v) /\ \A x : x # k => disk'[x] = disk[x]
    <2>1. disk = [x \in Sector |-> disk[x]]
        BY <1>i, ZenonT(30) DEF TypeOK
    <2> QED BY <1>3, <1>6, <2>1
<1> DEFINE c == [contents[s] EXCEPT ![pos + 1] = v]
<1>c. /\ contents' = [contents EXCEPT ![s] = c]
      /\ c \in Seq(Value \cup {"zero"}) /\ Len(c) = disk[s].len
      /\ \A i \in 1 .. disk[s].len : c[i] = IF i = pos + 1 THEN v ELSE contents[s][i]
    <2>1. contents[s] \in Seq(Value \cup {"zero"}) /\ Len(contents[s]) = disk[s].len
        BY <1>i, <1>1, ZenonT(30) DEF TypeOK, ContentsKept, Files
    <2>2. pos + 1 \in 1 .. Len(contents[s]) /\ v \in Value \cup {"zero"}
        BY <1>3, <2>1
    <2>3. /\ c \in Seq(Value \cup {"zero"}) /\ Len(c) = Len(contents[s])
          /\ \A i \in 1 .. Len(contents[s]) :
                 c[i] = IF i = pos + 1 THEN v ELSE contents[s][i]
        <3> DEFINE S == Value \cup {"zero"}
                   q == contents[s]
                   j == pos + 1
        <3>1. q \in Seq(S) /\ j \in 1 .. Len(q) /\ v \in S /\ c = [q EXCEPT ![j] = v]
            BY <2>1, <2>2, ZenonT(30)
        <3> HIDE DEF S, q, c, j
        <3>2. /\ c \in Seq(S) /\ Len(c) = Len(q)
              /\ \A i \in 1 .. Len(q) : c[i] = IF i = j THEN v ELSE q[i]
            BY <3>1, Replaced, SMTT(30)
        <3> QED BY <3>2, Zenon DEF S, q, j
    <2> QED BY <1>0, <2>1, <2>3, Zenon
<1> HIDE DEF c
<1>10. TypeOK'
    <2>1. Data(v) \in [kind : {"inode", "data"}, start : Nat, len : Nat,
                       val : Value \cup {None, "junk", "zero"}]
        BY ZenonT(30) DEF Data
    <2>2. disk' \in [Sector -> [kind : {"inode", "data"}, start : Nat, len : Nat,
                                val : Value \cup {None, "junk", "zero"}]]
        BY <1>i, <1>3, <2>1, Zenon DEF TypeOK
    <2>3. files' \in [Handle -> OpenFile]
        BY <1>i, <1>0, <1>4, Zenon DEF TypeOK
    <2>4. contents' \in [Sector -> Seq(Value \cup {"zero"})]
        BY <1>i, <1>c, Zenon DEF TypeOK
    <2> QED BY <1>i, <1>0, <2>2, <2>3, <2>4, Zenon DEF TypeOK
<1>11. OpInv'
    BY <1>0, ZenonT(30) DEF OpInv
<1>12. DirInv' /\ Files' = Files
    <2>1. open_inodes' = [open_inodes EXCEPT ![s] = open_inodes[s]]
        BY <1>i, <1>0, <1>1, ZenonT(30) DEF TypeOK
    <2>2. \A j \in Handle : files'[j].inode = 0 => files'[j] = NoFile
        <3>1. s # 0
            BY <1>1 DEF Sector
        <3> QED BY <1>i, <1>0, <1>4, <3>1, ZenonT(30) DEF DirInv, TypeOK
    <2>3. \A t \in Files : disk'[t] = disk[t]
        BY <1>8, <1>9, ZenonT(30)
    <2>4. open_inodes[s].open_cnt # 0
        BY <1>1
    <2> QED BY <1>i, <1>0, <1>1, <1>2, <2>1, <2>2, <2>3, <2>4, DirStep, ZenonT(30)
<1>13. CountsExact'
    <2>1. open_inodes' = [open_inodes EXCEPT ![s] = open_inodes[s]]
        BY <1>i, <1>0, <1>1, ZenonT(30) DEF TypeOK
    <2>2. op.pc # "close" /\ op'.pc # "close"
        BY <1>0, ZenonT(30)
    <2> QED BY <1>i, <1>0, <1>1, <1>4, <2>1, <2>2, CountsStep, ZenonT(30)
<1>14. SectorInv'
    <2>1. Held' = Held
        BY <1>0, ZenonT(30) DEF Held, HeldInode, HeldData
    <2> QED BY <1>i, <1>0, <1>8, <1>9, <1>12, <2>1, SectorsSame, ZenonT(30)
<1>15. ContentsKept'
    <2> SUFFICES ASSUME NEW t \in Files
                 PROVE  /\ Len(contents'[t]) = disk'[t].len
                        /\ \A i \in 1 .. disk'[t].len :
                               disk'[disk'[t].start + i - 1] = Data(contents'[t][i])
        BY <1>12, Zenon DEF ContentsKept, Files, Data
    <2>1. /\ t \in Sector /\ disk'[t] = disk[t]
          /\ disk[t].start \in Nat /\ disk[t].len \in Nat
          /\ Len(contents[t]) = disk[t].len
          /\ \A i \in 1 .. disk[t].len : disk[disk[t].start + i - 1] = Data(contents[t][i])
        <3>1. t \in Sector
            BY <1>i, ZenonT(30) DEF Files, InDir, Open, DirInv
        <3>2. disk[t].start \in Nat /\ disk[t].len \in Nat
            BY <1>i, <3>1, ZenonT(30) DEF TypeOK
        <3>3. disk'[t] = disk[t]
            BY <1>8, <1>9, ZenonT(30)
        <3> QED BY <1>i, <3>1, <3>2, <3>3, Zenon DEF ContentsKept, Files
    <2>2. CASE t = s
        <3>1. contents'[s] = c
            BY <1>i, <1>1, <1>c, ZenonT(30) DEF TypeOK
        <3>2. ASSUME NEW i \in 1 .. disk[s].len
              PROVE  disk'[disk[s].start + i - 1] = Data(c[i])
            <4>1. disk[s].start + i - 1 = k <=> i = pos + 1
                BY <1>3 DEF k
            <4>2. c[i] = IF i = pos + 1 THEN v ELSE contents[s][i]
                BY <1>c, ZenonT(30)
            <4>3. disk[disk[s].start + i - 1] = Data(contents[s][i])
                BY <2>1, <2>2, ZenonT(30)
            <4> QED BY <1>9, <4>1, <4>2, <4>3, Zenon
        <3> HIDE DEF s
        <3> QED BY <1>c, <2>1, <2>2, <3>1, <3>2, ZenonT(30)
    <2>3. CASE t # s
        <3>1. contents'[t] = contents[t]
            BY <1>i, <1>c, <2>1, <2>3, ZenonT(30) DEF TypeOK
        <3>2. ASSUME NEW i \in 1 .. disk[t].len
              PROVE  disk'[disk[t].start + i - 1] = disk[disk[t].start + i - 1]
            <4>1. disk[t].start + i - 1 \in OnDisk(t)
                BY <2>1 DEF OnDisk, Extent
            <4> QED BY <1>7, <1>9, <2>3, <4>1, Zenon
        <3> QED BY <2>1, <3>1, <3>2, Zenon
    <2> QED BY <2>2, <2>3, ZenonT(30)
<1> QED BY <1>10, <1>11, <1>12, <1>13, <1>14, <1>15, ZenonT(30) DEF IndInv

\* The only opener of an inode is the only one who can deny writes to it.
LEMMA OnlyOpener ==
    ASSUME TypeOK, CountsExact, op.pc = "idle", NEW h \in Handle, NEW s \in Sector,
           files[h].inode = s, open_inodes[s].open_cnt = 1
    PROVE  open_inodes[s].deny_write_cnt = IF files[h].deny THEN 1 ELSE 0
<1>1. /\ open_inodes[s].open_cnt = Cardinality(Openers(s)) + 0
      /\ open_inodes[s].deny_write_cnt = Cardinality(Deniers(s))
    BY Zenon DEF CountsExact
<1>2. IsFiniteSet(Openers(s)) /\ Cardinality(Openers(s)) \in Nat
    BY FileSysAssumption, FS_Subset, FS_CardinalityType, ZenonT(30) DEF Openers
<1>3. Cardinality(Openers(s)) = 1
    BY <1>1, <1>2
<1>4. h \in Openers(s) /\ Deniers(s) \subseteq Openers(s)
    BY ZenonT(30) DEF Openers, Deniers
<1>5. Openers(s) = {h}
    <2>1. PICK k : Openers(s) = {k}
        BY <1>2, <1>3, FS_Singleton, Zenon
    <2> QED BY <1>4, <2>1, ZenonT(30)
<1>6. Deniers(s) = IF files[h].deny THEN {h} ELSE {}
    BY <1>4, <1>5, ZenonT(30) DEF Deniers
<1>7. Cardinality({h}) = 1 /\ Cardinality({}) = 0
    BY FS_Singleton, FS_EmptySet, Zenon
<1> QED BY <1>1, <1>6, <1>7, Zenon

\* file_close() by an opener that is not the last, or of a file that is still in
\* the directory, and the last close of a removed file.
LEMMA file_closeStep ==
    ASSUME IndInv, NEW h \in Handle, file_close(h)
    PROVE  IndInv'
<1>i. TypeOK /\ OpInv /\ DirInv /\ CountsExact /\ SectorInv /\ ContentsKept
    BY ZenonT(30) DEF IndInv
<1> DEFINE s == files[h].inode
           n == open_inodes[s]
           d == [n EXCEPT !.deny_write_cnt = IF files[h].deny THEN @ - 1 ELSE @]
<1>0. /\ op = Idle /\ op.pc = "idle" /\ files[h] # NoFile /\ inode_close(s, d)
      /\ files' = [files EXCEPT ![h] = NoFile]
      /\ UNCHANGED <<disk, entries, disk_map, free_map, contents, lost>>
    BY Records, ZenonT(30) DEF file_close
<1>1. /\ s \in Sector /\ s \in Open /\ s \in Files /\ n \in OpenInode /\ n.open_cnt > 0
      /\ files[h].deny => n.deny_write_cnt > 0
    BY <1>i, <1>0, HandleOpen, ZenonT(30)
<1>2. n.removed <=> s \notin InDir
    BY <1>i, <1>1, ZenonT(30) DEF DirInv
<1>3. n.start = disk[s].start /\ n.len = disk[s].len
    BY <1>i, <1>1, ZenonT(30) DEF DirInv
<1>4. n.open_cnt \in Nat /\ n.deny_write_cnt \in Nat
    BY <1>1, ZenonT(30) DEF OpenInode
<1>5. /\ d \in OpenInode /\ d.open_cnt = n.open_cnt /\ d.removed = n.removed
      /\ d.start = n.start /\ d.len = n.len
      /\ d.deny_write_cnt = n.deny_write_cnt - (IF files[h].deny THEN 1 ELSE 0)
    BY <1>1 DEF OpenInode
<1>6. /\ NoFile \in OpenFile /\ NoFile.inode = 0 /\ s # 0 /\ files[h].inode = s
      /\ NotOpen \in OpenInode /\ NotOpen.open_cnt = 0 /\ NotOpen.deny_write_cnt = 0
    BY <1>1, Records DEF NoFile, OpenFile, NotOpen, OpenInode, Sector
<1> HIDE DEF s, n, d
<1>7. CASE d.open_cnt > 1
    <2> DEFINE x == [d EXCEPT !.open_cnt = @ - 1]
    <2>1. open_inodes' = [open_inodes EXCEPT ![s] = x] /\ op' = op
        BY <1>0, <1>7, ZenonT(30) DEF inode_close
    <2>2. /\ x \in OpenInode /\ x.open_cnt = n.open_cnt - 1 /\ x.removed = n.removed
          /\ x.start = n.start /\ x.len = n.len /\ x.deny_write_cnt = d.deny_write_cnt
        BY <1>4, <1>5, <1>7 DEF OpenInode
    <2> HIDE DEF x
    <2>3. /\ x.open_cnt # 0
          /\ x.open_cnt + (IF files[h].inode = s THEN 1 ELSE 0) =
                 n.open_cnt + (IF NoFile.inode = s THEN 1 ELSE 0)
          /\ x.deny_write_cnt + (IF files[h].inode = s /\ files[h].deny THEN 1 ELSE 0) =
                 n.deny_write_cnt + (IF NoFile.inode = s /\ NoFile.deny THEN 1 ELSE 0)
        BY <1>4, <1>5, <1>6, <1>7, <2>2
    <2>4. /\ x.removed <=> s \notin InDir
          /\ x.start = disk[s].start /\ x.len = disk[s].len
        BY <1>2, <1>3, <2>2, Zenon
    <2>5. UNCHANGED <<disk, entries, disk_map, free_map, op, contents, lost>>
        BY <1>0, <2>1, ZenonT(30)
    <2> QED BY <1>0, <1>1, <1>6, <2>1, <2>2, <2>3, <2>4, <2>5, HandleStep, ZenonT(30) DEF n
<1>8. CASE ~(d.open_cnt > 1)
    <2>1. /\ open_inodes' = [open_inodes EXCEPT ![s] = NotOpen]
          /\ op' = IF d.removed
                   THEN [Idle EXCEPT !.pc = "release", !.sector = s,
                                     !.start = d.start, !.len = d.len]
                   ELSE Idle
        BY <1>0, <1>8, Zenon DEF inode_close
    <2>2. n.open_cnt = 1
        BY <1>1, <1>4, <1>5, <1>8
    <2>3. n.deny_write_cnt = IF files[h].deny THEN 1 ELSE 0
        BY <1>i, <1>0, <1>1, <1>6, <2>2, OnlyOpener, Zenon DEF n
    <2>4. /\ NotOpen.open_cnt + (IF files[h].inode = s THEN 1 ELSE 0) =
                 n.open_cnt + (IF NoFile.inode = s THEN 1 ELSE 0)
          /\ NotOpen.deny_write_cnt + (IF files[h].inode = s /\ files[h].deny THEN 1 ELSE 0) =
                 n.deny_write_cnt + (IF NoFile.inode = s /\ NoFile.deny THEN 1 ELSE 0)
        BY <1>6, <2>2, <2>3
    <2>5. ~(NotOpen.open_cnt > 0)
        BY <1>6
    <2>6. CASE ~n.removed
        <3>1. s \in InDir /\ op' = op
            BY <1>0, <1>2, <1>5, <2>1, <2>6, ZenonT(30)
        <3>2. UNCHANGED <<disk, entries, disk_map, free_map, op, contents, lost>>
            BY <1>0, <3>1, ZenonT(30)
        <3> QED BY <1>0, <1>1, <1>6, <2>1, <2>4, <2>5, <3>1, <3>2, HandleStep, ZenonT(30) DEF n
    <2>7. CASE n.removed
        <3>1. \A k \in Handle : files'[k].inode = 0 => files'[k] = NoFile
            BY <1>i, <1>0, ZenonT(30) DEF DirInv, TypeOK
        <3>2. s \notin InDir
            BY <1>2, <2>7, ZenonT(30)
        <3>3. DirInv' /\ Files' = Files \ {s}
            BY <1>i, <1>0, <1>1, <1>6, <2>1, <2>5, <3>1, <3>2, DirStep, ZenonT(30)
        <3>4. op' = [Idle EXCEPT !.pc = "release", !.sector = s,
                                 !.start = disk[s].start, !.len = disk[s].len]
            BY <1>3, <1>5, <2>1, <2>7, Zenon
        <3>5. /\ op' \in Operation /\ op'.pc = "release"
              /\ OpInv' /\ SectorInv' /\ ContentsKept'
            <4>1. op.pc \in {"idle", "close"}
                BY <1>0, ZenonT(30)
            <4> QED BY <1>i, <1>0, <1>1, <3>3, <3>4, <4>1, LastClosed, ZenonT(30)
        <3>6. CountsExact'
            <4>1. op.pc # "close" /\ op'.pc # "close"
                BY <1>0, <3>5, ZenonT(30)
            <4> QED BY <1>i, <1>0, <1>1, <1>6, <2>1, <2>4, <4>1, CountsStep, ZenonT(30) DEF n
        <3>7. TypeOK'
            <4>1. open_inodes' \in [Sector -> OpenInode] /\ files' \in [Handle -> OpenFile]
                BY <1>i, <1>0, <1>6, <2>1, Zenon DEF TypeOK
            <4> QED BY <1>i, <1>0, <3>5, <4>1, Zenon DEF TypeOK
        <3> QED BY <3>3, <3>5, <3>6, <3>7, ZenonT(30) DEF IndInv
    <2> QED BY <2>6, <2>7, ZenonT(30)
<1> QED BY <1>7, <1>8, ZenonT(30)

-----------------------------------------------------------------------------
(* The removal of a file, and the crash. *)

\* dir_remove() takes the entry away and has the inode open, marked removed.
LEMMA dir_removeStep ==
    ASSUME IndInv, NEW n \in Name, dir_remove(n)
    PROVE  IndInv'
<1>i. TypeOK /\ OpInv /\ DirInv /\ CountsExact /\ SectorInv /\ ContentsKept
    BY ZenonT(30) DEF IndInv
<1>0. /\ op = Idle /\ op.pc = "idle"
      /\ UNCHANGED <<disk, disk_map, free_map, files, contents, lost>>
    BY Records, ZenonT(30) DEF dir_remove
<1>1. PICK e \in SlotsOf(n) :
          /\ open_inodes' = [inode_open(entries[e].sector) EXCEPT
                                 ![entries[e].sector].removed = TRUE]
          /\ entries' = [entries EXCEPT ![e] = NoEntry]
          /\ op' = [Idle EXCEPT !.pc = "close", !.sector = entries[e].sector]
    BY Zenon DEF dir_remove
<1> DEFINE s == entries[e].sector
<1>2. e \in Slot /\ entries[e].in_use /\ s \in InDir /\ s \in Files /\ s \in Sector
    BY <1>i, ZenonT(30) DEF SlotsOf, InDir, Files, DirInv
<1>3. PICK y \in OpenInode :
          /\ inode_open(s) = [open_inodes EXCEPT ![s] = y]
          /\ y.open_cnt = open_inodes[s].open_cnt + 1
          /\ y.deny_write_cnt = open_inodes[s].deny_write_cnt
          /\ y.start = disk[s].start /\ y.len = disk[s].len
    BY <1>i, <1>2, InodeOpenFacts, Zenon
<1> DEFINE x == [y EXCEPT !.removed = TRUE]
<1>4. open_inodes' = [open_inodes EXCEPT ![s] = x]
    BY <1>i, <1>1, <1>2, <1>3, ZenonT(30) DEF TypeOK
<1>5. /\ x \in OpenInode /\ x.open_cnt = open_inodes[s].open_cnt + 1 /\ x.removed = TRUE
      /\ x.deny_write_cnt = open_inodes[s].deny_write_cnt
      /\ x.start = disk[s].start /\ x.len = disk[s].len
    BY <1>3, ZenonT(30) DEF OpenInode
<1>6. op'.pc = "close" /\ op'.sector = s
    BY <1>1, Zenon DEF Idle
<1> HIDE DEF s, x
<1>7. /\ open_inodes'[s] = x /\ open_inodes[s].open_cnt \in Nat
      /\ \A t \in Sector \ {s} : open_inodes'[t] = open_inodes[t]
    BY <1>i, <1>2, <1>4, ZenonT(30) DEF TypeOK, OpenInode
<1>8. Open' = Open \cup {s}
    BY <1>2, <1>5, <1>7 DEF Open
<1>9. /\ ~entries'[e].in_use
      /\ \A g \in Slot \ {e} : entries'[g] = entries[g]
    BY <1>i, <1>1, <1>2, Records, ZenonT(30) DEF TypeOK
<1>10. InDir' = InDir \ {s}
    <2>1. \A g \in Slot : entries[g].in_use /\ entries[g].sector = s => g = e
        BY <1>i, <1>2, ZenonT(30) DEF DirInv, s
    <2> QED BY <1>2, <1>9, <2>1 DEF InDir, s
<1>11. Files' = Files
    BY <1>2, <1>8, <1>10, ZenonT(30) DEF Files
<1>12. TypeOK'
    <2>1. op' \in Operation
        BY <1>1, <1>2, ZenonT(30) DEF Idle, Operation, s
    <2>2. NoEntry \in [name : Name \cup {None}, sector : Sector \cup {0}, in_use : BOOLEAN]
        BY ZenonT(30) DEF NoEntry
    <2>3. entries' \in [Slot -> [name : Name \cup {None}, sector : Sector \cup {0},
                                 in_use : BOOLEAN]]
        BY <1>i, <1>1, <2>2, Zenon DEF TypeOK
    <2>4. open_inodes' \in [Sector -> OpenInode]
        BY <1>i, <1>4, <1>5, Zenon DEF TypeOK
    <2> QED BY <1>i, <1>0, <2>1, <2>3, <2>4, Zenon DEF TypeOK
<1>13. OpInv'
    BY <1>2, <1>6, ZenonT(30) DEF OpInv
<1>14. DirInv'
    <2>1. \A f, g \in Slot :
              /\ entries'[f].in_use /\ entries'[g].in_use
              /\ entries'[f].name = entries'[g].name \/ entries'[f].sector = entries'[g].sector
              => f = g
        BY <1>i, <1>9, SMTT(30) DEF DirInv
    <2>2. \A g \in Slot : entries'[g].in_use => entries'[g].sector \in Sector
        BY <1>i, <1>9, ZenonT(30) DEF DirInv
    <2>3. \A t \in Sector \ Open' : open_inodes'[t] = NotOpen
        BY <1>i, <1>7, <1>8, ZenonT(30) DEF DirInv
    <2>4. \A t \in Open' : /\ open_inodes'[t].removed <=> t \notin InDir'
                           /\ open_inodes'[t].start = disk'[t].start
                           /\ open_inodes'[t].len = disk'[t].len
        <3> SUFFICES ASSUME NEW t \in Open'
                     PROVE  /\ open_inodes'[t].removed <=> t \notin InDir'
                            /\ open_inodes'[t].start = disk'[t].start
                            /\ open_inodes'[t].len = disk'[t].len
            OBVIOUS
        <3>1. CASE t = s
            BY <1>0, <1>5, <1>7, <1>10, <3>1, ZenonT(30)
        <3>2. CASE t # s
            <4>1. t \in Sector /\ t \in Open
                BY <1>8, <3>2, ZenonT(30) DEF Open
            <4> QED BY <1>i, <1>0, <1>7, <1>10, <3>2, <4>1, ZenonT(30) DEF DirInv
        <3> QED BY <3>1, <3>2, ZenonT(30)
    <2>5. \A t \in Files' : disk'[t].kind = "inode"
        BY <1>i, <1>0, <1>11, ZenonT(30) DEF DirInv
    <2> QED BY <1>i, <1>0, <2>1, <2>2, <2>3, <2>4, <2>5, Zenon DEF DirInv
<1>15. CountsExact'
    <2> SUFFICES ASSUME NEW t \in Sector
                 PROVE  /\ open_inodes'[t].open_cnt = Cardinality(Openers(t)')
                              + (IF op'.pc = "close" /\ op'.sector = t THEN 1 ELSE 0)
                        /\ open_inodes'[t].deny_write_cnt = Cardinality(Deniers(t)')
        BY Zenon DEF CountsExact
    <2>1. /\ open_inodes[t].open_cnt = Cardinality(Openers(t))
                 + (IF op.pc = "close" /\ op.sector = t THEN 1 ELSE 0)
          /\ open_inodes[t].deny_write_cnt = Cardinality(Deniers(t))
        BY <1>i, Zenon DEF CountsExact
    <2>2. Cardinality(Openers(t)) \in Nat
        BY FileSysAssumption, FS_Subset, FS_CardinalityType, ZenonT(30) DEF Openers
    <2>3. Openers(t)' = Openers(t) /\ Deniers(t)' = Deniers(t)
        BY <1>0, ZenonT(30) DEF Openers, Deniers
    <2> QED BY <1>0, <1>5, <1>6, <1>7, <2>1, <2>2, <2>3
<1>16. SectorInv'
    <2>1. Held = {} /\ Held' = {}
        BY <1>0, <1>6, ZenonT(30) DEF Held, HeldInode, HeldData
    <2> QED BY <1>i, <1>0, <1>11, <2>1, SectorsSame, ZenonT(30)
<1>17. ContentsKept'
    BY <1>i, <1>0, <1>11, ContentsSame, ZenonT(30)
<1> QED BY <1>12, <1>13, <1>14, <1>15, <1>16, <1>17, ZenonT(30) DEF IndInv

\* The removal closes the inode it had open itself.
LEMMA CountsClose ==
    ASSUME TypeOK, CountsExact, op.pc = "close", op'.pc # "close", NEW s \in Sector,
           op.sector = s, files' = files,
           NEW x \in OpenInode, open_inodes' = [open_inodes EXCEPT ![s] = x],
           x.open_cnt = open_inodes[s].open_cnt - 1,
           x.deny_write_cnt = open_inodes[s].deny_write_cnt
    PROVE  CountsExact'
<1> SUFFICES ASSUME NEW t \in Sector
             PROVE  /\ open_inodes'[t].open_cnt = Cardinality(Openers(t)')
                          + (IF op'.pc = "close" /\ op'.sector = t THEN 1 ELSE 0)
                    /\ open_inodes'[t].deny_write_cnt = Cardinality(Deniers(t)')
    BY Zenon DEF CountsExact
<1>1. /\ open_inodes[t].open_cnt = Cardinality(Openers(t))
             + (IF op.pc = "close" /\ op.sector = t THEN 1 ELSE 0)
      /\ open_inodes[t].deny_write_cnt = Cardinality(Deniers(t))
    BY Zenon DEF CountsExact
<1>2. Cardinality(Openers(t)) \in Nat
    BY FileSysAssumption, FS_Subset, FS_CardinalityType, ZenonT(30) DEF Openers
<1>3. Openers(t)' = Openers(t) /\ Deniers(t)' = Deniers(t)
    BY ZenonT(30) DEF Openers, Deniers
<1>4. open_inodes'[t] = IF t = s THEN x ELSE open_inodes[t]
    BY ZenonT(30) DEF TypeOK
<1> QED BY <1>1, <1>2, <1>3, <1>4

\* When the removal has the inode open and nobody else, nobody denies writes.
LEMMA RemoverAlone ==
    ASSUME TypeOK, CountsExact, op.pc = "close", NEW s \in Sector, op.sector = s
    PROVE  /\ open_inodes[s].open_cnt > 0 /\ s \in Open /\ s \in Files
           /\ open_inodes[s].open_cnt = 1 => open_inodes[s].deny_write_cnt = 0
<1>1. /\ open_inodes[s].open_cnt = Cardinality(Openers(s)) + 1
      /\ open_inodes[s].deny_write_cnt = Cardinality(Deniers(s))
    BY Zenon DEF CountsExact
<1>2. IsFiniteSet(Openers(s)) /\ Cardinality(Openers(s)) \in Nat
    BY FileSysAssumption, FS_Subset, FS_CardinalityType, ZenonT(30) DEF Openers
<1>3. open_inodes[s].open_cnt > 0 /\ s \in Open /\ s \in Files
    BY <1>1, <1>2 DEF Open, Files
<1>4. ASSUME open_inodes[s].open_cnt = 1 PROVE open_inodes[s].deny_write_cnt = 0
    <2>1. Cardinality(Openers(s)) = 0
        BY <1>1, <1>2, <1>4
    <2>2. Openers(s) = {}
        BY <1>2, <2>1, FS_EmptySet, Zenon
    <2>3. Deniers(s) = {}
        BY <2>2, ZenonT(30) DEF Openers, Deniers
    <2> QED BY <1>1, <2>3, FS_EmptySet, Zenon
<1> QED BY <1>3, <1>4, ZenonT(30)

\* dir_remove() closes the inode: it is freed, unless somebody still has it open.
LEMMA dir_remove_closeStep ==
    ASSUME IndInv, dir_remove_close
    PROVE  IndInv'
<1>i. TypeOK /\ OpInv /\ DirInv /\ CountsExact /\ SectorInv /\ ContentsKept
    BY ZenonT(30) DEF IndInv
<1> DEFINE s == op.sector
           n == open_inodes[s]
<1>0. /\ op.pc = "close" /\ s \in Sector /\ inode_close(s, n)
      /\ UNCHANGED <<disk, entries, disk_map, free_map, files, contents, lost>>
    BY <1>i, ZenonT(30) DEF dir_remove_close, OpInv
<1>1. /\ n.open_cnt > 0 /\ s \in Open /\ s \in Files
      /\ n.open_cnt = 1 => n.deny_write_cnt = 0
    BY <1>i, <1>0, RemoverAlone, Zenon
<1>2. /\ n.removed <=> s \notin InDir
      /\ n.start = disk[s].start /\ n.len = disk[s].len
    BY <1>i, <1>1, ZenonT(30) DEF DirInv
<1>3. n \in OpenInode /\ n.open_cnt \in Nat
    BY <1>i, <1>0, ZenonT(30) DEF TypeOK, OpenInode
<1> DEFINE x == IF n.open_cnt > 1 THEN [n EXCEPT !.open_cnt = @ - 1] ELSE NotOpen
<1>4. open_inodes' = [open_inodes EXCEPT ![s] = x]
    BY <1>0, Zenon DEF inode_close
<1>5. /\ x \in OpenInode /\ x.open_cnt = n.open_cnt - 1
      /\ x.deny_write_cnt = n.deny_write_cnt
      /\ x.open_cnt = 0 => x = NotOpen
      /\ x.open_cnt > 0 => /\ x.removed = n.removed
                           /\ x.start = n.start /\ x.len = n.len
    <2>1. CASE n.open_cnt > 1
        BY <1>3, <2>1 DEF OpenInode
    <2>2. CASE ~(n.open_cnt > 1)
        <3>1. n.open_cnt = 1 /\ x = NotOpen
            BY <1>1, <1>3, <2>2
        <3>2. /\ NotOpen \in OpenInode /\ NotOpen.open_cnt = 0
              /\ NotOpen.deny_write_cnt = 0
            BY Records, ZenonT(30) DEF NotOpen, OpenInode
        <3> QED BY <1>1, <3>1, <3>2
    <2> QED BY <2>1, <2>2, ZenonT(30)
<1> HIDE DEF x
<1>6. /\ DirInv'
      /\ Files' = IF x.open_cnt = 0 /\ s \notin InDir THEN Files \ {s} ELSE Files
    <2>1. \A k \in Handle : files'[k].inode = 0 => files'[k] = NoFile
        BY <1>i, <1>0, ZenonT(30) DEF DirInv
    <2>2. x.open_cnt > 0 => /\ x.removed <=> s \notin InDir
                            /\ x.start = disk[s].start /\ x.len = disk[s].len
        BY <1>2, <1>5, ZenonT(30)
    <2> HIDE DEF n, s
    <2> QED BY <1>i, <1>0, <1>1, <1>4, <1>5, <2>1, <2>2, DirStep, ZenonT(30)
<1>7. CASE x.open_cnt = 0 /\ s \notin InDir
    <2>1. n.removed /\ ~(n.open_cnt > 1) /\ Files' = Files \ {s}
        BY <1>2, <1>3, <1>5, <1>6, <1>7
    <2>2. op' = [Idle EXCEPT !.pc = "release", !.sector = s,
                             !.start = disk[s].start, !.len = disk[s].len]
        BY <1>0, <1>2, <2>1, Zenon DEF inode_close
    <2>3. /\ op' \in Operation /\ op'.pc = "release"
          /\ OpInv' /\ SectorInv' /\ ContentsKept'
        <3>1. op.pc \in {"idle", "close"}
            BY <1>0, ZenonT(30)
        <3> HIDE DEF n, s
        <3> QED BY <1>i, <1>0, <1>1, <2>1, <2>2, <3>1, LastClosed, ZenonT(30)
    <2>4. CountsExact'
        <3>1. op'.pc # "close"
            BY <2>3, ZenonT(30)
        <3> QED BY <1>i, <1>0, <1>4, <1>5, <3>1, CountsClose, ZenonT(30)
    <2>5. TypeOK'
        <3>1. open_inodes' \in [Sector -> OpenInode]
            BY <1>i, <1>4, <1>5, Zenon DEF TypeOK
        <3> QED BY <1>i, <1>0, <2>3, <3>1, Zenon DEF TypeOK
    <2> QED BY <1>6, <2>3, <2>4, <2>5, ZenonT(30) DEF IndInv
<1>8. CASE ~(x.open_cnt = 0 /\ s \notin InDir)
    <2>1. (n.open_cnt > 1 \/ ~n.removed) /\ Files' = Files
        BY <1>1, <1>2, <1>3, <1>5, <1>6, <1>8
    <2>2. op' = Idle /\ op'.pc = "idle" /\ op'.pc # "close"
        BY <1>0, <2>1, Records, ZenonT(30) DEF inode_close
    <2>3. TypeOK'
        <3>1. open_inodes' \in [Sector -> OpenInode]
            BY <1>i, <1>4, <1>5, Zenon DEF TypeOK
        <3>2. op' \in Operation
            BY <2>2, ZenonT(30) DEF Idle, Operation
        <3> QED BY <1>i, <1>0, <3>1, <3>2, Zenon DEF TypeOK
    <2>4. OpInv'
        BY <2>2, ZenonT(30) DEF OpInv
    <2>5. CountsExact'
        BY <1>i, <1>0, <1>4, <1>5, <2>2, CountsClose, ZenonT(30)
    <2>6. SectorInv'
        <3>1. Held = {} /\ Held' = {}
            BY <1>0, <2>2, ZenonT(30) DEF Held, HeldInode, HeldData
        <3> QED BY <1>i, <1>0, <2>1, <3>1, SectorsSame, ZenonT(30)
    <2>7. ContentsKept'
        BY <1>i, <1>0, <2>1, ContentsSame, ZenonT(30)
    <2> QED BY <1>6, <2>3, <2>4, <2>5, <2>6, <2>7, ZenonT(30) DEF IndInv
<1> QED BY <1>7, <1>8, ZenonT(30)

\* The machine stops: what the disk's map marks and no file in the directory has
\* is lost, and the files in the directory are as they were.
LEMMA crashStep ==
    ASSUME IndInv, crash
    PROVE  IndInv'
<1>i. TypeOK /\ OpInv /\ DirInv /\ CountsExact /\ SectorInv /\ ContentsKept
    BY ZenonT(30) DEF IndInv
<1>1. /\ free_map' = disk_map /\ op' = Idle /\ op'.pc = "idle"
      /\ open_inodes' = [s \in Sector |-> NotOpen]
      /\ files' = [h \in Handle |-> NoFile]
      /\ lost' = disk_map \ UNION {OnDisk(s) : s \in InDir}
      /\ contents' = [s \in Sector |-> IF s \in InDir THEN contents[s] ELSE <<>>]
      /\ UNCHANGED <<disk, entries, disk_map>>
    BY Records, Zenon DEF crash
<1>2. /\ InDir' = InDir /\ InDir \subseteq Sector /\ InDir \subseteq Files
      /\ Open' = {} /\ Files' = InDir
    BY <1>i, <1>1, Records DEF InDir, Open, Files, DirInv
<1>3. TypeOK'
    <2>1. op' \in Operation
        BY <1>1, ZenonT(30) DEF Idle, Operation
    <2>2. open_inodes' \in [Sector -> OpenInode] /\ files' \in [Handle -> OpenFile]
        BY <1>1, ZenonT(30) DEF NotOpen, OpenInode, NoFile, OpenFile
    <2>3. contents' \in [Sector -> Seq(Value \cup {"zero"})]
        BY <1>i, <1>1 DEF TypeOK
    <2>4. free_map' \subseteq Sector /\ disk_map' \subseteq Sector /\ lost' \subseteq Sector
        BY <1>i, <1>1, ZenonT(30) DEF TypeOK
    <2> QED BY <1>i, <1>1, <2>1, <2>2, <2>3, <2>4, Zenon DEF TypeOK
<1>4. OpInv'
    BY <1>1, ZenonT(30) DEF OpInv
<1>5. DirInv'
    <2>1. \A h \in Handle : files'[h].inode = 0 => files'[h] = NoFile
        BY <1>1, ZenonT(30)
    <2>2. \A s \in Sector \ Open' : open_inodes'[s] = NotOpen
        BY <1>1, ZenonT(30)
    <2>3. \A s \in Files' : disk'[s].kind = "inode"
        BY <1>i, <1>1, <1>2, ZenonT(30) DEF DirInv
    <2> QED BY <1>i, <1>1, <1>2, <2>1, <2>2, <2>3, Zenon DEF DirInv
<1>6. CountsExact'
    <2> SUFFICES ASSUME NEW s \in Sector
                 PROVE  /\ open_inodes'[s].open_cnt = Cardinality(Openers(s)')
                              + (IF op'.pc = "close" /\ op'.sector = s THEN 1 ELSE 0)
                        /\ open_inodes'[s].deny_write_cnt = Cardinality(Deniers(s)')
        BY Zenon DEF CountsExact
    <2>1. Openers(s)' = {} /\ Deniers(s)' = {}
        BY <1>1, Records DEF Openers, Deniers, Sector
    <2>2. Cardinality({}) = 0
        BY FS_EmptySet, Zenon
    <2> QED BY <1>1, <2>1, <2>2, Records
<1>7. SectorInv'
    <2>1. \A s : OnDisk(s)' = OnDisk(s)
        BY <1>1, ZenonT(30) DEF OnDisk
    <2>2. Held' = {}
        BY <1>1, ZenonT(30) DEF Held, HeldInode, HeldData
    <2>3. \A s \in Files : OnDisk(s) \subseteq disk_map
        BY <1>i, ZenonT(30) DEF SectorInv
    <2>4. \A x : x \in lost' <=> x \in disk_map /\ ~\E s \in InDir : x \in OnDisk(s)
        BY <1>1, Zenon
    <2>5. \A x \in Sector : x \in free_map' <=>
              x \in lost' \cup Held' \/ \E s \in Files' : x \in OnDisk(s)'
        BY <1>1, <1>2, <2>1, <2>2, <2>3, <2>4, ZenonT(30)
    <2>6. \A s \in Files' :
              /\ s \notin Extent(disk[s].start, disk[s].len)'
              /\ OnDisk(s)' \subseteq Sector \ (lost' \cup Held')
              /\ \A t \in Files' : s # t => OnDisk(s)' \cap OnDisk(t)' = {}
        BY <1>i, <1>1, <1>2, <2>1, <2>2, <2>4, ZenonT(30) DEF SectorInv
    <2>7. free_map' \subseteq disk_map' /\ Held' \subseteq Sector \ lost'
        BY <1>1, <2>2, ZenonT(30)
    <2> QED BY <2>5, <2>6, <2>7, Zenon DEF SectorInv
<1>8. ContentsKept'
    <2>1. Files' \subseteq Files
        BY <1>2, ZenonT(30)
    <2>2. \A s \in Files' : contents'[s] = contents[s]
        BY <1>1, <1>2, ZenonT(30)
    <2>3. \A s \in Files : \A x \in OnDisk(s) : disk'[x] = disk[x]
        BY <1>1, ZenonT(30)
    <2> QED BY <1>i, <2>1, <2>2, <2>3, ContentsSame, ZenonT(30)
<1> QED BY <1>3, <1>4, <1>5, <1>6, <1>7, <1>8, ZenonT(30) DEF IndInv

-----------------------------------------------------------------------------
(* The invariant and what follows from it. *)

\* Every step preserves the invariant.
LEMMA NextInv == IndInv /\ [Next]_vars => IndInv'
<1> SUFFICES ASSUME IndInv, [Next]_vars PROVE IndInv'
    OBVIOUS
<1>n. 0 .. MaxLen \subseteq Nat
    BY FileSysAssumption
<1>1. ASSUME NEW n \in Name, NEW len \in 0 .. MaxLen, filesys_create(n, len) PROVE IndInv'
    BY <1>1, <1>n, filesys_createStep, ZenonT(30)
<1>2. CASE inode_create_alloc
    BY <1>2, inode_create_allocStep, ZenonT(30)
<1>3. CASE inode_create_fail
    BY <1>3, inode_create_failStep, ZenonT(30)
<1>4. CASE inode_create_write
    BY <1>4, inode_create_writeStep, ZenonT(30)
<1>5. CASE inode_create_zero
    BY <1>5, inode_create_zeroStep, ZenonT(30)
<1>6. CASE dir_add
    BY <1>6, dir_addStep, ZenonT(30)
<1>7. CASE dir_add_fail
    BY <1>7, dir_add_failStep, ZenonT(30)
<1>8. ASSUME NEW n \in Name, NEW h \in Handle, filesys_open(n, h) PROVE IndInv'
    BY <1>8, filesys_openStep, ZenonT(30)
<1>9. ASSUME NEW h \in Handle, NEW new \in Handle, file_reopen(h, new) PROVE IndInv'
    BY <1>9, file_reopenStep, ZenonT(30)
<1>10. ASSUME NEW h \in Handle, file_close(h) PROVE IndInv'
    BY <1>10, file_closeStep, ZenonT(30)
<1>11. ASSUME NEW h \in Handle, file_deny_write(h) PROVE IndInv'
    BY <1>11, file_deny_writeStep, ZenonT(30)
<1>12. ASSUME NEW h \in Handle, file_allow_write(h) PROVE IndInv'
    BY <1>12, file_allow_writeStep, ZenonT(30)
<1>13. ASSUME NEW h \in Handle, NEW v \in Value, file_write(h, v) PROVE IndInv'
    BY <1>13, file_writeStep, ZenonT(30)
<1>14. ASSUME NEW h \in Handle, NEW pos \in 0 .. MaxLen, file_seek(h, pos) PROVE IndInv'
    BY <1>14, <1>n, file_seekStep, ZenonT(30)
<1>15. ASSUME NEW n \in Name, dir_remove(n) PROVE IndInv'
    BY <1>15, dir_removeStep, ZenonT(30)
<1>16. CASE dir_remove_close
    BY <1>16, dir_remove_closeStep, ZenonT(30)
<1>17. CASE release_inode
    BY <1>17, release_inodeStep, ZenonT(30)
<1>18. CASE release_data
    BY <1>18, release_dataStep, ZenonT(30)
<1>19. CASE crash
    BY <1>19, crashStep, ZenonT(30)
<1>20. CASE UNCHANGED vars
    <2>i. TypeOK /\ OpInv /\ DirInv /\ CountsExact /\ SectorInv /\ ContentsKept
        BY ZenonT(30) DEF IndInv
    <2>1. UNCHANGED <<disk, entries, disk_map, free_map, open_inodes, files, op, contents, lost>>
        BY <1>20, ZenonT(30) DEF vars
    <2>2. TypeOK' /\ OpInv'
        BY <2>i, <2>1, ZenonT(30) DEF TypeOK, OpInv
    <2>3. DirInv' /\ Files' = Files
        BY <2>i, <2>1, DirSame, ZenonT(30)
    <2>4. CountsExact'
        BY <2>i, <2>1, SMTT(30) DEF CountsExact, Openers, Deniers
    <2>5. Held' = Held
        BY <2>1, ZenonT(30) DEF Held, HeldInode, HeldData
    <2>6. SectorInv' /\ ContentsKept'
        BY <2>i, <2>1, <2>3, <2>5, SectorsSame, ContentsSame, ZenonT(30)
    <2> QED BY <2>2, <2>3, <2>4, <2>6, ZenonT(30) DEF IndInv
<1> QED BY <1>1, <1>2, <1>3, <1>4, <1>5, <1>6, <1>7, <1>8, <1>9, <1>10, <1>11, <1>12,
           <1>13, <1>14, <1>15, <1>16, <1>17, <1>18, <1>19, <1>20, ZenonT(60) DEF Next

\* The invariant holds throughout, for every disk, directory, set of handles and
\* sequence of operations and crashes.
LEMMA AlwaysIndInv == Spec => []IndInv
BY InitInv, NextInv, PTL DEF Spec

\* An open inode's copy of start and length is the disk's.
LEMMA MemoryIsDisk ==
    ASSUME DirInv, NEW s \in Files
    PROVE  /\ s \in Open => InMemory(s) = OnDisk(s)
           /\ SectorsOf(s) = OnDisk(s)
BY ZenonT(30) DEF DirInv, InMemory, OnDisk, SectorsOf

\* Directory, open inodes and files agree at every step of every operation and
\* after every crash (filesys.c, directory.c, inode.c): names and inodes are in the
\* directory once, every entry and every open inode has its inode on disk, open_cnt
\* and deny_write_cnt count the files that are open and deny writes, and a removed
\* file stays until its last close.
THEOREM FilesConsistent == Spec => []Inv
<1>1. IndInv => Inv
    BY ZenonT(30) DEF IndInv, Inv
<1> QED BY <1>1, AlwaysIndInv, PTL

\* No sector is ever in two files, every sector of a file is marked in use in
\* memory and on disk, and between operations what is marked is in a file or was
\* lost by a failed dir_add() or a crash (free-map.c): the free map neither hands
\* out a sector twice nor leaks one in any other way.
THEOREM SectorsNeverShared == Spec => []SectorsAccounted
<1>1. IndInv => SectorsAccounted
    <2> SUFFICES ASSUME IndInv PROVE SectorsAccounted
        OBVIOUS
    <2>i. TypeOK /\ DirInv /\ SectorInv
        BY ZenonT(30) DEF IndInv
    <2>1. \A s \in Files : SectorsOf(s) = OnDisk(s) /\ OnDisk(s) \subseteq Sector
        BY <2>i, MemoryIsDisk, ZenonT(30) DEF SectorInv
    <2>2. \A s, t \in Files : s # t => SectorsOf(s) \cap SectorsOf(t) = {}
        BY <2>i, <2>1, ZenonT(30) DEF SectorInv
    <2>3. \A s \in Files : SectorsOf(s) \subseteq free_map \cap disk_map
        BY <2>i, <2>1 DEF SectorInv
    <2>4. ASSUME op = Idle
          PROVE  free_map = lost \cup UNION {SectorsOf(s) : s \in Files}
        <3>1. Held = {}
            BY <2>4, Records, ZenonT(30) DEF Held, HeldInode, HeldData
        <3>2. \A x \in Sector : x \in free_map <=>
                  x \in lost \/ \E s \in Files : x \in SectorsOf(s)
            BY <2>i, <2>1, <3>1 DEF SectorInv
        <3>3. free_map \subseteq Sector /\ lost \subseteq Sector
            BY <2>i, ZenonT(30) DEF TypeOK
        <3>4. \A s \in Files : SectorsOf(s) \subseteq Sector
            BY <2>1, ZenonT(30)
        <3> QED BY <3>2, <3>3, <3>4, ZenonT(30)
    <2> QED BY <2>2, <2>3, <2>4, Zenon DEF SectorsAccounted, Files
<1> QED BY <1>1, AlwaysIndInv, PTL

\* A file holds what was written to it and zeros elsewhere, whatever is created,
\* written, removed or freed around it and whenever the machine stops (inode.c).
THEOREM ContentsNeverLost == Spec => []ContentsKept
<1>1. IndInv => ContentsKept
    BY ZenonT(30) DEF IndInv
<1> QED BY <1>1, AlwaysIndInv, PTL
=============================================================================
