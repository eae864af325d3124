--------------------------- MODULE FileSysLemmas ----------------------------
(***************************************************************************)
(* Creating and freeing files keep the inductive invariant of FileSys, and *)
(* what opening and closing do to the directory and to the sectors.        *)
(***************************************************************************)
EXTENDS FileSys, TLAPS

\* The records of the model have their fields.
LEMMA Records ==
    /\ NoEntry.name = None /\ NoEntry.sector = 0 /\ NoEntry.in_use = FALSE
    /\ NoFile.inode = 0 /\ NoFile.pos = 0 /\ NoFile.deny = FALSE
    /\ NotOpen.open_cnt = 0 /\ NotOpen.removed = FALSE /\ NotOpen.deny_write_cnt = 0
    /\ Idle.pc = "idle"
BY DEF NoEntry, NoFile, NotOpen, Idle

-----------------------------------------------------------------------------
(* What keeps each part of the invariant. *)

\* Files whose inodes are not written keep their sectors.
LEMMA SameSectors ==
    ASSUME NEW s, disk'[s] = disk[s]
    PROVE  OnDisk(s)' = OnDisk(s)
BY DEF OnDisk

\* Nothing is allocated or freed, and no inode of a file is written.
LEMMA SectorsSame ==
    ASSUME SectorInv, Files' = Files, \A s \in Files : disk'[s] = disk[s], Held' = Held,
           lost' = lost, free_map' = free_map, disk_map' = disk_map
    PROVE  SectorInv'
<1>1. \A s \in Files : OnDisk(s)' = OnDisk(s)
    BY SameSectors
<1>2. \A s \in Files' :
          /\ s \notin Extent(disk[s].start, disk[s].len)'
          /\ OnDisk(s)' \subseteq Sector \ (lost' \cup Held')
          /\ \A t \in Files' : s # t => OnDisk(s)' \cap OnDisk(t)' = {}
    BY <1>1 DEF SectorInv
<1>3. \A x \in Sector : x \in free_map' <=>
          x \in lost' \cup Held' \/ \E s \in Files' : x \in OnDisk(s)'
    BY <1>1 DEF SectorInv
<1> QED BY <1>2, <1>3, Zenon DEF SectorInv

\* free_map_allocate() of free sectors, for the operation in progress.
LEMMA Allocated ==
    ASSUME TypeOK, SectorInv, NEW ext \in SUBSET Sector, ext \cap free_map = {},
           free_map' = free_map \cup ext, disk_map' = free_map', lost' = lost,
           Files' = Files, \A s \in Files : disk'[s] = disk[s], Held' = Held \cup ext
    PROVE  SectorInv'
<1>1. \A s \in Files : OnDisk(s)' = OnDisk(s)
    BY SameSectors
<1>2. \A s \in Files : OnDisk(s) \cap ext = {}
    BY DEF SectorInv
<1>3. ext \cap lost = {}
    BY DEF SectorInv, TypeOK
<1>4. \A x \in Sector : x \in free_map' <=>
          x \in lost' \cup Held' \/ \E s \in Files' : x \in OnDisk(s)'
    BY <1>1 DEF SectorInv
<1>5. Held' \subseteq Sector \ lost'
    BY <1>3 DEF SectorInv
<1>6. \A s \in Files' :
          /\ s \notin Extent(disk[s].start, disk[s].len)'
          /\ OnDisk(s)' \subseteq Sector \ (lost' \cup Held')
          /\ \A t \in Files' : s # t => OnDisk(s)' \cap OnDisk(t)' = {}
    BY <1>1, <1>2 DEF SectorInv
<1> QED BY <1>4, <1>5, <1>6, Zenon DEF SectorInv

\* free_map_release() of sectors of the operation in progress, which forgets
\* others of its sectors.
LEMMA Released ==
    ASSUME TypeOK, SectorInv, NEW ext \in SUBSET Held, NEW left \in SUBSET Held,
           ext \cap left = {}, free_map' = free_map \ ext,
           disk_map' \in {free_map', disk_map}, lost' = lost \cup left,
           Files' = Files, \A s \in Files : disk'[s] = disk[s],
           Held' = Held \ (ext \cup left)
    PROVE  SectorInv'
<1>1. \A s \in Files : OnDisk(s)' = OnDisk(s)
    BY SameSectors
<1>2. \A s \in Files : OnDisk(s) \cap (ext \cup left) = {}
    BY DEF SectorInv
<1>3. free_map' \subseteq disk_map'
    BY DEF SectorInv
<1>4. \A x \in Sector : x \in free_map' <=>
          x \in lost' \cup Held' \/ \E s \in Files' : x \in OnDisk(s)'
    BY <1>1, <1>2 DEF SectorInv
<1>5. Held' \subseteq Sector \ lost'
    BY DEF SectorInv
<1>6. \A s \in Files' :
          /\ s \notin Extent(disk[s].start, disk[s].len)'
          /\ OnDisk(s)' \subseteq Sector \ (lost' \cup Held')
          /\ \A t \in Files' : s # t => OnDisk(s)' \cap OnDisk(t)' = {}
    BY <1>1, <1>2 DEF SectorInv
<1> QED BY <1>3, <1>4, <1>5, <1>6, Zenon DEF SectorInv

\* Files whose sectors are not written keep their contents.
LEMMA ContentsSame ==
    ASSUME TypeOK, DirInv, ContentsKept, Files' \subseteq Files,
           \A s \in Files' : contents'[s] = contents[s],
           \A s \in Files : \A x \in OnDisk(s) : disk'[x] = disk[x]
    PROVE  ContentsKept'
<1> SUFFICES ASSUME NEW s \in Files'
             PROVE  /\ Len(contents'[s]) = disk'[s].len
                    /\ \A i \in 1 .. disk'[s].len :
                           disk'[disk'[s].start + i - 1] = Data(contents'[s][i])
    BY DEF ContentsKept, Files, Data
<1>1. s \in Files /\ s \in Sector
    BY DEF Files, InDir, Open, DirInv
<1>2. disk'[s] = disk[s] /\ contents'[s] = contents[s]
    BY <1>1 DEF OnDisk
<1>3. disk[s].start \in Nat /\ disk[s].len \in Nat
    BY <1>1 DEF TypeOK
<1>4. ASSUME NEW i \in 1 .. disk[s].len
      PROVE  disk'[disk[s].start + i - 1] = disk[disk[s].start + i - 1]
    <2>1. disk[s].start + i - 1 \in Extent(disk[s].start, disk[s].len)
        BY <1>3 DEF Extent
    <2> QED BY <1>1, <2>1 DEF OnDisk
<1>5. /\ Len(contents[s]) = disk[s].len
      /\ \A i \in 1 .. disk[s].len : disk[disk[s].start + i - 1] = Data(contents[s][i])
    BY <1>1 DEF ContentsKept, Files
<1> QED BY <1>2, <1>4, <1>5

\* Neither the directory nor what is open changes.
LEMMA DirSame ==
    ASSUME DirInv, UNCHANGED <<entries, open_inodes, files>>,
           \A s \in Files : disk'[s] = disk[s]
    PROVE  DirInv' /\ Files' = Files
<1>1. InDir' = InDir /\ Open' = Open /\ Files' = Files
    BY DEF InDir, Open, Files
<1> QED BY <1>1, SMTT(30) DEF DirInv, Files

\* The counts of openers depend on the handles only, and on a removal that is
\* about to close.
LEMMA CountsSame ==
    ASSUME CountsExact, UNCHANGED <<open_inodes, files>>,
           op.pc # "close", op'.pc # "close"
    PROVE  CountsExact'
BY DEF CountsExact, Openers, Deniers

-----------------------------------------------------------------------------
(* The steps of filesys_create(). *)

\* filesys_create() marks the first free sector for the inode.
LEMMA filesys_createStep ==
    ASSUME IndInv, NEW n \in Name, NEW len \in Nat, filesys_create(n, len)
    PROVE  IndInv'
<1>i. TypeOK /\ OpInv /\ DirInv /\ CountsExact /\ SectorInv /\ ContentsKept
    BY DEF IndInv
<1>0. PICK s \in First(Fits(1)) :
          /\ free_map_allocate({s})
          /\ op' = [Idle EXCEPT !.pc = "alloc", !.name = n, !.sector = s, !.len = len]
    BY Zenon DEF filesys_create
<1>1. s \in Sector /\ s \notin free_map
    BY <1>0 DEF First, Fits, Extent, Sector
<1>2. /\ op' = [pc |-> "alloc", name |-> n, sector |-> s, start |-> 0, len |-> len, i |-> 0]
      /\ free_map' = free_map \cup {s} /\ disk_map' = free_map' /\ op = Idle
      /\ UNCHANGED <<disk, entries, open_inodes, files, crashes, contents, lost>>
    BY <1>0, Zenon DEF filesys_create, free_map_allocate, Idle
<1>3. /\ op'.pc = "alloc" /\ op'.sector = s /\ op'.name = n /\ op'.i = 0
      /\ op.pc = "idle"
    BY <1>2, Records
<1>4. TypeOK'
    <2>1. op' \in Operation
        BY <1>1, <1>2 DEF Operation
    <2>2. free_map' \subseteq Sector /\ disk_map' \subseteq Sector
        BY <1>i, <1>1, <1>2 DEF TypeOK
    <2> QED BY <1>i, <1>2, <2>1, <2>2, Zenon DEF TypeOK
<1>5. OpInv'
    BY <1>1, <1>3 DEF OpInv
<1>6. DirInv' /\ Files' = Files
    BY <1>i, <1>2, DirSame
<1>7. CountsExact'
    BY <1>i, <1>2, <1>3, CountsSame
<1>8. SectorInv'
    <2>1. Held = {} /\ Held' = {s}
        BY <1>3 DEF Held, HeldInode, HeldData
    <2> QED BY <1>i, <1>1, <1>2, <1>6, <2>1, Allocated
<1>9. ContentsKept'
    BY <1>i, <1>2, <1>6, ContentsSame
<1> QED BY <1>4, <1>5, <1>6, <1>7, <1>8, <1>9 DEF IndInv

\* inode_create() marks the data sectors.
LEMMA inode_create_allocStep ==
    ASSUME IndInv, inode_create_alloc
    PROVE  IndInv'
<1>i. TypeOK /\ OpInv /\ DirInv /\ CountsExact /\ SectorInv /\ ContentsKept
    BY DEF IndInv
<1>0. op.pc = "alloc" /\ op.len \in Nat /\ op.sector \in Sector /\ op.i = 0 /\ op.name \in Name
    BY <1>i DEF inode_create_alloc, TypeOK, OpInv, Operation
<1>a. PICK start \in IF op.len = 0 THEN {0} ELSE First(Fits(op.len)) :
          /\ free_map_allocate(Extent(start, op.len))
          /\ op' = [op EXCEPT !.pc = "inode", !.start = start]
    BY Zenon DEF inode_create_alloc
<1>1. /\ start \in Nat /\ Extent(start, op.len) \subseteq Sector
      /\ Extent(start, op.len) \cap free_map = {}
    <2>1. CASE op.len = 0
        BY <1>a, <2>1 DEF Extent
    <2>2. CASE op.len # 0
        <3>1. /\ start \in Sector /\ start + op.len - 1 <= NSec
              /\ Extent(start, op.len) \cap free_map = {}
            BY <1>a, <2>2 DEF First, Fits
        <3> QED BY <3>1, <1>0, FileSysAssumption DEF Extent, Sector
    <2> QED BY <2>1, <2>2
<1>2. /\ op' = [op EXCEPT !.pc = "inode", !.start = start]
      /\ free_map' = free_map \cup Extent(start, op.len) /\ disk_map' = free_map'
      /\ UNCHANGED <<disk, entries, open_inodes, files, crashes, contents, lost>>
    BY <1>a, Zenon DEF inode_create_alloc, free_map_allocate
<1>3. /\ op'.pc = "inode" /\ op'.sector = op.sector /\ op'.name = op.name /\ op'.i = 0
      /\ op'.start = start /\ op'.len = op.len
    BY <1>i, <1>0, <1>2 DEF TypeOK, Operation
<1>4. TypeOK'
    <2>1. op' \in Operation
        BY <1>i, <1>1, <1>2, Zenon DEF TypeOK, Operation
    <2>2. free_map' \subseteq Sector /\ disk_map' \subseteq Sector
        BY <1>i, <1>1, <1>2 DEF TypeOK
    <2> QED BY <1>i, <1>2, <2>1, <2>2, Zenon DEF TypeOK
<1>h. Held = {op.sector} /\ Held' = {op.sector} \cup Extent(start, op.len)
    BY <1>0, <1>3 DEF Held, HeldInode, HeldData
<1>5. OpInv'
    <2>1. op.sector \in free_map
        BY <1>i, <1>0, <1>h DEF SectorInv
    <2>2. op.sector \notin Extent(start, op.len)
        BY <1>1, <2>1
    <2> QED BY <1>0, <1>3, <2>2 DEF OpInv
<1>6. DirInv' /\ Files' = Files
    BY <1>i, <1>2, DirSame
<1>7. CountsExact'
    BY <1>i, <1>0, <1>2, <1>3, CountsSame
<1>8. SectorInv'
    BY <1>i, <1>1, <1>2, <1>6, <1>h, Allocated
<1>9. ContentsKept'
    BY <1>i, <1>2, <1>6, ContentsSame
<1> QED BY <1>4, <1>5, <1>6, <1>7, <1>8, <1>9 DEF IndInv

\* inode_create() fails, and filesys_create() gives the inode's sector back.
LEMMA inode_create_failStep ==
    ASSUME IndInv, inode_create_fail
    PROVE  IndInv'
<1>i. TypeOK /\ OpInv /\ DirInv /\ CountsExact /\ SectorInv /\ ContentsKept
    BY DEF IndInv
<1>1. /\ op.pc = "alloc" /\ op' = Idle /\ op'.pc = "idle"
      /\ free_map' = free_map \ {op.sector} /\ disk_map' \in {free_map', disk_map}
      /\ UNCHANGED <<disk, entries, open_inodes, files, crashes, contents, lost>>
    BY Records, Zenon DEF inode_create_fail, free_map_release
<1>2. TypeOK'
    <2>1. op' \in Operation
        BY <1>1 DEF Idle, Operation
    <2>2. free_map' \subseteq Sector /\ disk_map' \subseteq Sector
        BY <1>i, <1>1 DEF TypeOK
    <2> QED BY <1>i, <1>1, <2>1, <2>2, Zenon DEF TypeOK
<1>3. OpInv'
    BY <1>1 DEF OpInv
<1>4. DirInv' /\ Files' = Files
    BY <1>i, <1>1, DirSame
<1>5. CountsExact'
    BY <1>i, <1>1, CountsSame
<1>6. SectorInv'
    <2>1. Held = {op.sector} /\ Held' = {}
        BY <1>1 DEF Held, HeldInode, HeldData
    <2> QED BY <1>i, <1>1, <1>4, <2>1, Released
<1>7. ContentsKept'
    BY <1>i, <1>1, <1>4, ContentsSame
<1> QED BY <1>2, <1>3, <1>4, <1>5, <1>6, <1>7 DEF IndInv

\* The sectors of the operation in progress are in no file.
LEMMA HeldApart ==
    ASSUME SectorInv, NEW x \in Held, NEW s \in Files
    PROVE  x \notin OnDisk(s) /\ x # s
BY DEF SectorInv, OnDisk

\* inode_create() writes the inode.
LEMMA inode_create_writeStep ==
    ASSUME IndInv, inode_create_write
    PROVE  IndInv'
<1>i. TypeOK /\ OpInv /\ DirInv /\ CountsExact /\ SectorInv /\ ContentsKept
    BY DEF IndInv
<1>0. /\ op.pc = "inode" /\ op.sector \in Sector /\ op.i = 0 /\ op.len \in Nat
      /\ op.name \in Name /\ op.sector \notin Extent(op.start, op.len)
    BY <1>i DEF inode_create_write, OpInv, TypeOK, Operation
<1>1. /\ disk' = [disk EXCEPT ![op.sector] = Inode(op.start, op.len)]
      /\ op' = [op EXCEPT !.pc = IF op.len > 0 THEN "zero" ELSE "add"]
      /\ UNCHANGED <<entries, disk_map, free_map, open_inodes, files, crashes, contents, lost>>
    BY DEF inode_create_write
<1>2. /\ op'.pc = IF op.len > 0 THEN "zero" ELSE "add"
      /\ op'.sector = op.sector /\ op'.name = op.name /\ op'.i = 0
      /\ op'.start = op.start /\ op'.len = op.len
    BY <1>i, <1>0, <1>1 DEF TypeOK, Operation
<1>3. Held = {op.sector} \cup Extent(op.start, op.len) /\ Held' = Held
    BY <1>0, <1>2 DEF Held, HeldInode, HeldData, Extent
<1>4. /\ disk'[op.sector] = Inode(op.start, op.len)
      /\ \A s \in Files : \A x \in OnDisk(s) \cup {s} : disk'[x] = disk[x]
    BY <1>i, <1>0, <1>1, <1>3, HeldApart DEF TypeOK
<1>5. TypeOK'
    <2>1. op' \in Operation
        BY <1>i, <1>1, Zenon DEF TypeOK, Operation
    <2>2. Inode(op.start, op.len) \in [kind : {"inode", "data"}, start : Nat, len : Nat,
                                       val : Value \cup {None, "junk", "zero"}]
        BY <1>i DEF TypeOK, Operation, Inode
    <2> QED BY <1>i, <1>1, <2>1, <2>2, Zenon DEF TypeOK
<1>6. OpInv'
    BY <1>0, <1>2, <1>4 DEF OpInv
<1>7. DirInv' /\ Files' = Files
    BY <1>i, <1>1, <1>4, DirSame
<1>8. CountsExact'
    BY <1>i, <1>0, <1>1, <1>2, CountsSame
<1>9. SectorInv'
    BY <1>i, <1>1, <1>3, <1>4, <1>7, SectorsSame
<1>10. ContentsKept'
    BY <1>i, <1>1, <1>4, <1>7, ContentsSame
<1> QED BY <1>5, <1>6, <1>7, <1>8, <1>9, <1>10 DEF IndInv

\* inode_create() writes zeros over a data sector.
LEMMA inode_create_zeroStep ==
    ASSUME IndInv, inode_create_zero
    PROVE  IndInv'
<1>i. TypeOK /\ OpInv /\ DirInv /\ CountsExact /\ SectorInv /\ ContentsKept
    BY DEF IndInv
<1>0. /\ op.pc = "zero" /\ op.sector \in Sector /\ op.i \in Nat /\ op.len \in Nat
      /\ op.start \in Nat /\ op.name \in Name /\ op.i < op.len
      /\ op.sector \notin Extent(op.start, op.len)
      /\ disk[op.sector] = Inode(op.start, op.len)
      /\ \A j \in 1 .. op.i : disk[op.start + j - 1] = Data("zero")
    BY <1>i, Zenon DEF inode_create_zero, OpInv, TypeOK, Operation
<1>1. /\ disk' = [disk EXCEPT ![op.start + op.i] = Data("zero")]
      /\ op' = [op EXCEPT !.i = @ + 1, !.pc = IF op.i + 1 < op.len THEN "zero" ELSE "add"]
      /\ UNCHANGED <<entries, disk_map, free_map, open_inodes, files, crashes, contents, lost>>
    BY DEF inode_create_zero
<1>2. /\ op'.pc = IF op.i + 1 < op.len THEN "zero" ELSE "add"
      /\ op'.sector = op.sector /\ op'.name = op.name /\ op'.i = op.i + 1
      /\ op'.start = op.start /\ op'.len = op.len
    BY <1>i, <1>0, <1>1 DEF TypeOK, Operation
<1>3. Held = {op.sector} \cup Extent(op.start, op.len) /\ Held' = Held
    BY <1>0, <1>2 DEF Held, HeldInode, HeldData, Extent
<1>a. op.start + op.i \in Extent(op.start, op.len) /\ op.start + op.i # op.sector
    BY <1>0 DEF Extent
<1>b. op.start + op.i \in Sector
    BY <1>i, <1>3, <1>a DEF SectorInv
<1>4. \A s \in Files : \A x \in OnDisk(s) \cup {s} : disk'[x] = disk[x]
    BY <1>i, <1>b, <1>1, <1>3, <1>a, HeldApart DEF TypeOK
<1>5. TypeOK'
    <2>0. op.i + 1 \in Nat
        BY <1>0
    <2>1. op' \in Operation
        BY <1>i, <2>0, <1>1, ZenonT(30) DEF TypeOK, Operation
    <2>2. Data("zero") \in [kind : {"inode", "data"}, start : Nat, len : Nat,
                            val : Value \cup {None, "junk", "zero"}]
        BY DEF Data
    <2> QED BY <1>i, <1>1, <2>1, <2>2, Zenon DEF TypeOK
<1>6. OpInv'
    <2>1. disk'[op.sector] = Inode(op.start, op.len)
        BY <1>i, <1>0, <1>1, <1>a DEF TypeOK
    <2>2. ASSUME NEW j \in 1 .. op.i + 1 PROVE disk'[op.start + j - 1] = Data("zero")
        <3>1. CASE j = op.i + 1
            <4>1. disk'[op.start + op.i] = Data("zero")
                BY <1>i, <1>1, <1>b DEF TypeOK
            <4>2. op.start + j - 1 = op.start + op.i
                BY <3>1, <1>0
            <4> QED BY <4>1, <4>2, Zenon
        <3>2. CASE j # op.i + 1
            <4>1. j \in 1 .. op.i /\ op.start + j - 1 # op.start + op.i
                BY <3>2, <1>0
            <4>2. disk'[op.start + j - 1] = disk[op.start + j - 1]
                BY <4>1, <1>1, <1>b, <1>i DEF TypeOK
            <4> QED BY <4>1, <4>2, <1>0
        <3> QED BY <3>1, <3>2
    <2>3. op'.pc = "zero" => op.i + 1 < op.len
        BY <1>2
    <2>4. op'.pc = "add" => op.i + 1 = op.len
        BY <1>0, <1>2
    <2> QED BY <1>0, <1>2, <2>1, <2>2, <2>3, <2>4 DEF OpInv
<1>7. DirInv' /\ Files' = Files
    BY <1>i, <1>1, <1>4, DirSame
<1>8. CountsExact'
    BY <1>i, <1>0, <1>1, <1>2, CountsSame
<1>9. SectorInv'
    BY <1>i, <1>1, <1>3, <1>4, <1>7, SectorsSame
<1>10. ContentsKept'
    BY <1>i, <1>1, <1>4, <1>7, ContentsSame
<1> QED BY <1>5, <1>6, <1>7, <1>8, <1>9, <1>10 DEF IndInv

\* The sectors of the operation in progress become those of a file.
LEMMA Published ==
    ASSUME SectorInv, NEW s, s \notin Files, Files' = Files \cup {s}, OnDisk(s) = Held,
           s \notin Extent(disk[s].start, disk[s].len), Held' = {},
           UNCHANGED <<disk, lost, free_map, disk_map>>
    PROVE  SectorInv'
<1>1. \A t : OnDisk(t)' = OnDisk(t)
    BY DEF OnDisk
<1>2. \A x \in Sector : x \in free_map' <=>
          x \in lost' \cup Held' \/ \E t \in Files' : x \in OnDisk(t)'
    BY <1>1 DEF SectorInv
<1>3. \A t \in Files' : /\ t \notin Extent(disk[t].start, disk[t].len)'
                        /\ OnDisk(t)' \subseteq Sector \ (lost' \cup Held')
    BY <1>1 DEF SectorInv
<1>4. \A t \in Files : OnDisk(t) \cap OnDisk(s) = {}
    BY DEF SectorInv
<1>5. \A t, u \in Files' : t # u => OnDisk(t)' \cap OnDisk(u)' = {}
    BY <1>1, <1>4 DEF SectorInv
<1> QED BY <1>2, <1>3, <1>5, Zenon DEF SectorInv

\* dir_add() writes the entry: what was created is a file, all zeros.
LEMMA dir_addStep ==
    ASSUME IndInv, dir_add
    PROVE  IndInv'
<1>i. TypeOK /\ OpInv /\ DirInv /\ CountsExact /\ SectorInv /\ ContentsKept
    BY DEF IndInv
<1>0. /\ op.pc = "add" /\ op.sector \in Sector /\ op.len \in Nat /\ op.i = op.len
      /\ op.start \in Nat /\ op.name \in Name
      /\ op.sector \notin Extent(op.start, op.len)
      /\ disk[op.sector] = Inode(op.start, op.len)
      /\ \A j \in 1 .. op.i : disk[op.start + j - 1] = Data("zero")
    BY <1>i, Zenon DEF dir_add, OpInv, TypeOK, Operation
<1> DEFINE new == [name |-> op.name, sector |-> op.sector, in_use |-> TRUE]
           zeros == [i \in 1 .. op.len |-> "zero"]
<1>a. PICK e \in First(FreeSlots) : entries' = [entries EXCEPT ![e] = new]
    BY Zenon DEF dir_add
<1>1. /\ entries' = [entries EXCEPT ![e] = new]
      /\ contents' = [contents EXCEPT ![op.sector] = zeros]
      /\ op' = Idle /\ op'.pc = "idle" /\ SlotsOf(op.name) = {}
      /\ UNCHANGED <<disk, disk_map, free_map, open_inodes, files, crashes, lost>>
    BY <1>a, Records, Zenon DEF dir_add
<1>2. e \in Slot /\ ~entries[e].in_use
    BY <1>a DEF First, FreeSlots
<1>3. new \in [name : Name \cup {None}, sector : Sector \cup {0}, in_use : BOOLEAN]
    BY <1>0
<1>4. zeros \in Seq(Value \cup {"zero"}) /\ Len(zeros) = op.len
      /\ \A i \in 1 .. op.len : zeros[i] = "zero"
    BY <1>0
<1> HIDE DEF zeros
<1>5. /\ entries'[e].name = op.name /\ entries'[e].sector = op.sector /\ entries'[e].in_use
      /\ \A f \in Slot \ {e} : entries'[f] = entries[f]
    BY <1>i, <1>1, <1>2 DEF TypeOK
<1>6. InDir' = InDir \cup {op.sector} /\ Open' = Open /\ Files' = Files \cup {op.sector}
    <2>1. InDir' = InDir \cup {op.sector}
        BY <1>2, <1>5 DEF InDir
    <2> QED BY <1>1, <2>1 DEF Open, Files
<1>h. /\ Held = {op.sector} \cup Extent(op.start, op.len) /\ Held' = {}
      /\ OnDisk(op.sector) = Held
    BY <1>0, <1>1 DEF Held, HeldInode, HeldData, OnDisk, Inode
<1>7. op.sector \notin Files
    BY <1>i, <1>h, HeldApart
<1>8. TypeOK'
    <2>1. op' \in Operation
        BY <1>1 DEF Idle, Operation
    <2>2. entries' \in [Slot -> [name : Name \cup {None}, sector : Sector \cup {0},
                                 in_use : BOOLEAN]]
        BY <1>i, <1>1, <1>3, Zenon DEF TypeOK
    <2>3. contents' \in [Sector -> Seq(Value \cup {"zero"})]
        BY <1>i, <1>1, <1>4, Zenon DEF TypeOK
    <2> QED BY <1>i, <1>1, <2>1, <2>2, <2>3, Zenon DEF TypeOK
<1>9. OpInv'
    BY <1>1 DEF OpInv
<1>10. DirInv'
    <2>1. \A f \in Slot : entries[f].in_use =>
              entries[f].name # op.name /\ entries[f].sector # op.sector
        BY <1>1, <1>7 DEF SlotsOf, Files, InDir
    <2>2. \A f, g \in Slot :
              /\ entries'[f].in_use /\ entries'[g].in_use
              /\ entries'[f].name = entries'[g].name \/ entries'[f].sector = entries'[g].sector
              => f = g
        BY <1>i, <1>5, <2>1, SMTT(30) DEF DirInv
    <2>3. \A f \in Slot : entries'[f].in_use => entries'[f].sector \in Sector
        BY <1>i, <1>0, <1>5 DEF DirInv
    <2>4. \A s \in Open : /\ open_inodes[s].removed <=> s \notin InDir'
                          /\ open_inodes[s].start = disk[s].start
                          /\ open_inodes[s].len = disk[s].len
        BY <1>i, <1>6, <1>7 DEF DirInv, Files
    <2>5. \A s \in Files' : disk[s].kind = "inode"
        BY <1>i, <1>0, <1>6 DEF DirInv, Inode
    <2> QED BY <1>i, <1>1, <1>6, <2>2, <2>3, <2>4, <2>5, Zenon DEF DirInv
<1>11. CountsExact'
    BY <1>i, <1>0, <1>1, CountsSame
<1>12. SectorInv'
    <2>1. op.sector \notin Extent(disk[op.sector].start, disk[op.sector].len)
        BY <1>0 DEF Inode
    <2> QED BY <1>i, <1>1, <1>6, <1>7, <1>h, <2>1, Published
<1>13. ContentsKept'
    <2>1. ASSUME NEW s \in Files
          PROVE  /\ Len(contents'[s]) = disk'[s].len
                 /\ \A i \in 1 .. disk'[s].len :
                        disk'[disk'[s].start + i - 1] = Data(contents'[s][i])
        <3>1. s # op.sector /\ s \in Sector
            BY <1>i, <1>7 DEF Files, InDir, Open, DirInv
        <3>2. contents'[s] = contents[s] /\ disk' = disk
            BY <1>i, <1>1, <3>1 DEF TypeOK
        <3> QED BY <1>i, <3>2, Zenon DEF ContentsKept, Files
    <2>2. /\ Len(contents'[op.sector]) = disk'[op.sector].len
          /\ \A i \in 1 .. disk'[op.sector].len :
                 disk'[disk'[op.sector].start + i - 1] = Data(contents'[op.sector][i])
        <3>1. contents'[op.sector] = zeros /\ disk' = disk
            BY <1>i, <1>0, <1>1 DEF TypeOK
        <3>2. disk[op.sector].len = op.len /\ disk[op.sector].start = op.start
            BY <1>0 DEF Inode
        <3> QED BY <1>0, <1>4, <3>1, <3>2, Zenon
    <2> QED BY <1>6, <2>1, <2>2, Zenon DEF ContentsKept, Files, Data
<1> QED BY <1>8, <1>9, <1>10, <1>11, <1>12, <1>13 DEF IndInv

\* dir_add() fails: the inode's sector is given back, the data sectors are lost.
LEMMA dir_add_failStep ==
    ASSUME IndInv, dir_add_fail
    PROVE  IndInv'
<1>i. TypeOK /\ OpInv /\ DirInv /\ CountsExact /\ SectorInv /\ ContentsKept
    BY DEF IndInv
<1>0. op.pc = "add" /\ op.sector \notin Extent(op.start, op.len)
    BY <1>i DEF dir_add_fail, OpInv
<1>1. /\ op' = Idle /\ op'.pc = "idle" /\ lost' = lost \cup Extent(op.start, op.len)
      /\ free_map' = free_map \ {op.sector} /\ disk_map' \in {free_map', disk_map}
      /\ UNCHANGED <<disk, entries, open_inodes, files, crashes, contents>>
    BY Records, Zenon DEF dir_add_fail, free_map_release
<1>h. Held = {op.sector} \cup Extent(op.start, op.len) /\ Held' = {}
    BY <1>0, <1>1 DEF Held, HeldInode, HeldData
<1>2. TypeOK'
    <2>1. op' \in Operation
        BY <1>1 DEF Idle, Operation
    <2>2. free_map' \subseteq Sector /\ disk_map' \subseteq Sector /\ lost' \subseteq Sector
        BY <1>i, <1>1, <1>h DEF TypeOK, SectorInv
    <2> QED BY <1>i, <1>1, <2>1, <2>2, Zenon DEF TypeOK
<1>3. OpInv'
    BY <1>1 DEF OpInv
<1>4. DirInv' /\ Files' = Files
    BY <1>i, <1>1, DirSame
<1>5. CountsExact'
    BY <1>i, <1>0, <1>1, CountsSame
<1>6. SectorInv'
    <2>1. /\ {op.sector} \in SUBSET Held /\ Extent(op.start, op.len) \in SUBSET Held
          /\ {op.sector} \cap Extent(op.start, op.len) = {}
          /\ Held' = Held \ ({op.sector} \cup Extent(op.start, op.len))
        BY <1>0, <1>h
    <2>2. \A s \in Files : disk'[s] = disk[s]
        BY <1>1
    <2> QED BY <1>i, <1>1, <1>4, <2>1, <2>2, Released, Zenon
<1>7. ContentsKept'
    BY <1>i, <1>1, <1>4, ContentsSame
<1> QED BY <1>2, <1>3, <1>4, <1>5, <1>6, <1>7 DEF IndInv

-----------------------------------------------------------------------------
(* Opening, writing and closing. *)

\* An open inode s changes, and the directory does not.
LEMMA DirStep ==
    ASSUME TypeOK, DirInv, entries' = entries, \A t \in Files : disk'[t] = disk[t],
           NEW s \in Files, NEW x \in OpenInode, open_inodes' = [open_inodes EXCEPT ![s] = x],
           x.open_cnt = 0 => x = NotOpen,
           x.open_cnt > 0 => /\ x.removed <=> s \notin InDir
                             /\ x.start = disk[s].start /\ x.len = disk[s].len,
           \A k \in Handle : files'[k].inode = 0 => files'[k] = NoFile
    PROVE  /\ DirInv'
           /\ Files' = IF x.open_cnt = 0 /\ s \notin InDir THEN Files \ {s} ELSE Files
<1>1. s \in Sector /\ InDir' = InDir
    BY DEF Files, InDir, Open, DirInv
<1>2. /\ open_inodes'[s] = x /\ x.open_cnt \in Nat
      /\ \A t \in Sector \ {s} : open_inodes'[t] = open_inodes[t]
    BY <1>1 DEF TypeOK, OpenInode
<1>3. /\ \A t \in Sector \ {s} : t \in Open' <=> t \in Open
      /\ s \in Open' <=> x.open_cnt > 0
    BY <1>1, <1>2 DEF Open
<1>4. Files' = IF x.open_cnt = 0 /\ s \notin InDir THEN Files \ {s} ELSE Files
    <2>1. Open \subseteq Sector /\ Open' \subseteq Sector
        BY DEF Open
    <2>2. x.open_cnt = 0 \/ x.open_cnt > 0
        BY <1>2
    <2> QED BY <1>1, <1>2, <1>3, <2>1, <2>2, SMTT(30) DEF Files
<1>5. \A t \in Sector \ Open' : open_inodes'[t] = NotOpen
    BY <1>2, <1>3 DEF DirInv
<1>6. \A t \in Open' : /\ open_inodes'[t].removed <=> t \notin InDir'
                       /\ open_inodes'[t].start = disk'[t].start
                       /\ open_inodes'[t].len = disk'[t].len
    <2> SUFFICES ASSUME NEW t \in Open'
                 PROVE  /\ open_inodes'[t].removed <=> t \notin InDir'
                        /\ open_inodes'[t].start = disk'[t].start
                        /\ open_inodes'[t].len = disk'[t].len
        OBVIOUS
    <2>1. CASE t = s
        BY <1>1, <1>2, <1>3, <2>1
    <2>2. CASE t # s
        <3>1. t \in Sector /\ t \in Open /\ t \in Files
            BY <2>2, <1>3 DEF Open, Files
        <3> QED BY <2>2, <3>1, <1>1, <1>2 DEF DirInv
    <2> QED BY <2>1, <2>2
<1>7. \A t \in Files' : disk'[t].kind = "inode"
    BY <1>4 DEF DirInv
<1>8. DirInv'
    BY <1>5, <1>6, <1>7, Zenon DEF DirInv
<1> QED BY <1>4, <1>8

\* inode_open() of a file: one opener more, the inode as the disk has it.
LEMMA InodeOpenFacts ==
    ASSUME TypeOK, DirInv, NEW s \in Files
    PROVE  \E x \in OpenInode :
               /\ inode_open(s) = [open_inodes EXCEPT ![s] = x]
               /\ x.open_cnt = open_inodes[s].open_cnt + 1
               /\ x.deny_write_cnt = open_inodes[s].deny_write_cnt
               /\ x.removed = open_inodes[s].removed
               /\ x.start = disk[s].start /\ x.len = disk[s].len
               /\ x.removed <=> s \notin InDir
<1>1. s \in Sector /\ open_inodes[s] \in OpenInode /\ disk[s].start \in Nat /\ disk[s].len \in Nat
    BY DEF Files, InDir, Open, DirInv, TypeOK
<1>2. CASE open_inodes[s].open_cnt > 0
    <2> DEFINE x == [open_inodes[s] EXCEPT !.open_cnt = @ + 1]
    <2>1. s \in Open
        BY <1>1, <1>2 DEF Open
    <2>2. inode_open(s) = [open_inodes EXCEPT ![s] = x]
        BY <1>2 DEF inode_open
    <2>3. /\ x \in OpenInode /\ x.open_cnt = open_inodes[s].open_cnt + 1
          /\ x.deny_write_cnt = open_inodes[s].deny_write_cnt
          /\ x.removed = open_inodes[s].removed
          /\ x.start = open_inodes[s].start /\ x.len = open_inodes[s].len
        BY <1>1 DEF OpenInode
    <2>4. /\ open_inodes[s].start = disk[s].start /\ open_inodes[s].len = disk[s].len
          /\ open_inodes[s].removed <=> s \notin InDir
        BY <2>1 DEF DirInv
    <2> HIDE DEF x
    <2> QED BY <2>2, <2>3, <2>4, ZenonT(30)
<1>3. CASE ~(open_inodes[s].open_cnt > 0)
    <2> DEFINE x == [NotOpen EXCEPT !.open_cnt = 1, !.start = disk[s].start,
                                    !.len = disk[s].len]
    <2>1. s \notin Open /\ s \in InDir /\ open_inodes[s] = NotOpen
        BY <1>1, <1>3 DEF Open, Files, DirInv
    <2>2. inode_open(s) = [open_inodes EXCEPT ![s] = x]
        BY <1>3 DEF inode_open
    <2>3. /\ x \in OpenInode /\ x.open_cnt = 1 /\ x.deny_write_cnt = 0 /\ x.removed = FALSE
          /\ x.start = disk[s].start /\ x.len = disk[s].len
        BY <1>1, ZenonT(30) DEF OpenInode, NotOpen
    <2> HIDE DEF x
    <2>4. /\ x.open_cnt = open_inodes[s].open_cnt + 1
          /\ x.deny_write_cnt = open_inodes[s].deny_write_cnt
          /\ x.removed = open_inodes[s].removed
        <3>1. 1 = 0 + 1
            OBVIOUS
        <3> QED BY <2>1, <2>3, <3>1, Records, Zenon
    <2> QED BY <2>1, <2>2, <2>3, <2>4, ZenonT(30)
<1> QED BY <1>2, <1>3

\* What file_open() returns for inode s.
LEMMA NewFile ==
    ASSUME NEW s, NEW f, f = [NoFile EXCEPT !.inode = s]
    PROVE  f = [inode |-> s, pos |-> 0, deny |-> FALSE]
BY Zenon DEF NoFile

\* One sector's contents replaced in a file's.
LEMMA Replaced ==
    ASSUME NEW S, NEW q \in Seq(S), NEW i \in 1 .. Len(q), NEW e \in S,
           NEW c, c = [q EXCEPT ![i] = e]
    PROVE  /\ c \in Seq(S) /\ Len(c) = Len(q)
           /\ \A j \in 1 .. Len(q) : c[j] = IF j = i THEN e ELSE q[j]
OBVIOUS

\* The sectors of a file become those of the operation that frees them.
LEMMA Unpublished ==
    ASSUME SectorInv, NEW s \in Files, Files' = Files \ {s}, Held = {}, Held' = OnDisk(s),
           UNCHANGED <<disk, lost, free_map, disk_map>>
    PROVE  SectorInv'
<1>1. \A t : OnDisk(t)' = OnDisk(t)
    BY DEF OnDisk
<1>2. \A x \in Sector : x \in free_map' <=>
          x \in lost' \cup Held' \/ \E t \in Files' : x \in OnDisk(t)'
    BY <1>1 DEF SectorInv
<1>3. Held' \subseteq Sector \ lost'
    BY DEF SectorInv
<1>4. \A t \in Files' : /\ t \notin Extent(disk[t].start, disk[t].len)'
                        /\ OnDisk(t)' \subseteq Sector \ (lost' \cup Held')
    BY <1>1 DEF SectorInv
<1>5. \A t, u \in Files' : t # u => OnDisk(t)' \cap OnDisk(u)' = {}
    BY <1>1 DEF SectorInv
<1> QED BY <1>2, <1>3, <1>4, <1>5, Zenon DEF SectorInv

\* inode_close() of a removed inode by its last opener: the operation goes on to
\* free the file's sectors.
LEMMA LastClosed ==
    ASSUME TypeOK, DirInv, SectorInv, ContentsKept, op.pc \in {"idle", "close"},
           NEW s \in Files, Files' = Files \ {s},
           op' = [Idle EXCEPT !.pc = "release", !.sector = s,
                              !.start = disk[s].start, !.len = disk[s].len],
           UNCHANGED <<disk, lost, free_map, disk_map, contents>>
    PROVE  /\ op' \in Operation /\ op'.pc = "release"
           /\ OpInv' /\ SectorInv' /\ ContentsKept'
<1>1. s \in Sector /\ disk[s].start \in Nat /\ disk[s].len \in Nat
    <2>1. s \in Sector
        BY DEF Files, InDir, Open, DirInv
    <2> QED BY <2>1 DEF TypeOK
<1>2. /\ op'.pc = "release" /\ op'.sector = s
      /\ op'.start = disk[s].start /\ op'.len = disk[s].len
    BY Zenon DEF Idle
<1>3. op' \in Operation
    BY <1>1, ZenonT(30) DEF Idle, Operation
<1>4. OpInv'
    <2>1. s \notin Extent(disk[s].start, disk[s].len)
        BY DEF SectorInv
    <2> QED BY <1>1, <1>2, <2>1 DEF OpInv
<1>5. SectorInv'
    <2>1. Held = {} /\ Held' = OnDisk(s)
        BY <1>2 DEF Held, HeldInode, HeldData, OnDisk, Extent
    <2> QED BY <2>1, Unpublished
<1>6. ContentsKept'
    BY ContentsSame
<1> QED BY <1>2, <1>3, <1>4, <1>5, <1>6

-----------------------------------------------------------------------------
(* The steps that free a file. *)

\* inode_close() frees the inode's sector.
LEMMA release_inodeStep ==
    ASSUME IndInv, release_inode
    PROVE  IndInv'
<1>i. TypeOK /\ OpInv /\ DirInv /\ CountsExact /\ SectorInv /\ ContentsKept
    BY DEF IndInv
<1>0. op.pc = "release" /\ op.sector \in Sector /\ op.sector \notin Extent(op.start, op.len)
    BY <1>i DEF release_inode, OpInv
<1>1. /\ op' = [op EXCEPT !.pc = "release_data"]
      /\ free_map' = free_map \ {op.sector} /\ disk_map' \in {free_map', disk_map}
      /\ contents' = [contents EXCEPT ![op.sector] = <<>>]
      /\ UNCHANGED <<disk, entries, open_inodes, files, lost>>
    BY Zenon DEF release_inode, free_map_release
<1>2. op'.pc = "release_data" /\ op'.start = op.start /\ op'.len = op.len
    BY <1>i, <1>1 DEF TypeOK, Operation
<1>h. /\ Held = {op.sector} \cup Extent(op.start, op.len)
      /\ Held' = Extent(op.start, op.len)
    BY <1>0, <1>2 DEF Held, HeldInode, HeldData, Extent
<1>3. TypeOK'
    <2>1. op' \in Operation
        BY <1>i, <1>1, Zenon DEF TypeOK, Operation
    <2>2. free_map' \subseteq Sector /\ disk_map' \subseteq Sector
        BY <1>i, <1>1 DEF TypeOK
    <2>3. contents' \in [Sector -> Seq(Value \cup {"zero"})]
        <3>1. << >> \in Seq(Value \cup {"zero"})
            OBVIOUS
        <3> QED BY <1>i, <1>1, <3>1, Zenon DEF TypeOK
    <2> QED BY <1>i, <1>1, <2>1, <2>2, <2>3, Zenon DEF TypeOK
<1>4. OpInv'
    BY <1>2 DEF OpInv
<1>5. DirInv' /\ Files' = Files
    BY <1>i, <1>1, DirSame
<1>6. CountsExact'
    BY <1>i, <1>0, <1>1, <1>2, CountsSame
<1>7. SectorInv'
    <2>1. /\ {op.sector} \in SUBSET Held /\ {} \in SUBSET Held
          /\ {op.sector} \cap {} = {} /\ lost' = lost \cup {}
          /\ Held' = Held \ ({op.sector} \cup {})
        BY <1>0, <1>1, <1>h
    <2>2. \A s \in Files : disk'[s] = disk[s]
        BY <1>1
    <2> QED BY <1>i, <1>1, <1>5, <2>1, <2>2, Released, Zenon
<1>8. ContentsKept'
    <2>1. op.sector \notin Files
        BY <1>i, <1>h, HeldApart
    <2>2. \A s \in Files' : contents'[s] = contents[s]
        BY <1>i, <1>1, <1>5, <2>1 DEF TypeOK
    <2>3. \A s \in Files : \A x \in OnDisk(s) : disk'[x] = disk[x]
        BY <1>1
    <2> QED BY <1>i, <1>5, <2>2, <2>3, ContentsSame
<1> QED BY <1>3, <1>4, <1>5, <1>6, <1>7, <1>8 DEF IndInv

\* inode_close() frees the data sectors.
LEMMA release_dataStep ==
    ASSUME IndInv, release_data
    PROVE  IndInv'
<1>i. TypeOK /\ OpInv /\ DirInv /\ CountsExact /\ SectorInv /\ ContentsKept
    BY DEF IndInv
<1>1. /\ op.pc = "release_data" /\ op' = Idle /\ op'.pc = "idle"
      /\ free_map' = free_map \ Extent(op.start, op.len)
      /\ disk_map' \in {free_map', disk_map}
      /\ UNCHANGED <<disk, entries, open_inodes, files, contents, lost>>
    BY Records, Zenon DEF release_data, free_map_release
<1>h. Held = Extent(op.start, op.len) /\ Held' = {}
    BY <1>1 DEF Held, HeldInode, HeldData
<1>2. TypeOK'
    <2>1. op' \in Operation
        BY <1>1 DEF Idle, Operation
    <2>2. free_map' \subseteq Sector /\ disk_map' \subseteq Sector
        BY <1>i, <1>1 DEF TypeOK
    <2> QED BY <1>i, <1>1, <2>1, <2>2, Zenon DEF TypeOK
<1>3. OpInv'
    BY <1>1 DEF OpInv
<1>4. DirInv' /\ Files' = Files
    BY <1>i, <1>1, DirSame
<1>5. CountsExact'
    BY <1>i, <1>1, CountsSame
<1>6. SectorInv'
    <2> DEFINE ext == Extent(op.start, op.len)
    <2>1. /\ ext \in SUBSET Held /\ {} \in SUBSET Held
          /\ ext \cap {} = {} /\ lost' = lost \cup {}
          /\ Held' = Held \ (ext \cup {})
        BY <1>1, <1>h
    <2>2. \A s \in Files : disk'[s] = disk[s]
        BY <1>1
    <2>3. free_map' = free_map \ ext
        BY <1>1
    <2> HIDE DEF ext
    <2> QED BY <1>i, <1>1, <1>4, <2>1, <2>2, <2>3, Released, Zenon
<1>7. ContentsKept'
    BY <1>i, <1>1, <1>4, ContentsSame
<1> QED BY <1>2, <1>3, <1>4, <1>5, <1>6, <1>7 DEF IndInv
=============================================================================
