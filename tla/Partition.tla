------------------------------ MODULE Partition -----------------------------
(***************************************************************************)
(* Partition tables (devices/partition.c) and the range check of block     *)
(* devices (devices/block.c).  Sector numbers are unsigned and wrap at     *)
(* SectorRange (2^32 in the code).  The table that is read is always the   *)
(* one in sector 0, as the code does, at whatever nesting, so that a scan  *)
(* that follows an extended partition meets it again and may never return: *)
(* the kernel stack overflows.  MaxNesting is the room of the stack.       *)
(***************************************************************************)
EXTENDS Integers, Sequences, SequencesExt

CONSTANTS SectorRange, MaxNesting

Extended == {"extended"}

found_partition(block_size, start, size) ==
  IF \/ start >= block_size
     \/ (start + size) % SectorRange < start
     \/ (start + size) % SectorRange > block_size
  THEN <<>> ELSE <<[start |-> start, size |-> size]>>

\* The partitions registered, in order, and whether the stack overflowed.
Returned(found) == [found |-> found, overflow |-> FALSE]

RECURSIVE read_partition_table(_, _, _, _, _)
read_partition_table(pt, block_size, sector, primary, depth) ==
  LET Nested(to, ext) == read_partition_table(pt, block_size, to, ext, depth + 1)
      Read(e) ==
        IF e.size = 0 \/ e.type = "empty" THEN Returned(<<>>)
        ELSE IF e.type \in Extended
        THEN IF sector = 0 THEN Nested(e.offset, e.offset)
             ELSE Nested((e.offset + primary) % SectorRange, primary)
        ELSE Returned(found_partition(block_size, (e.offset + sector) % SectorRange, e.size))
      \* The entries one after the other, none after an overflow.
      Then(r, e) == IF r.overflow THEN r
                    ELSE [Read(e) EXCEPT !.found = r.found \o @]
  IN  IF depth > MaxNesting THEN [found |-> <<>>, overflow |-> TRUE]
      ELSE IF sector >= block_size \/ ~pt.signature THEN Returned(<<>>)
      ELSE FoldLeft(Then, Returned(<<>>), pt.partitions)

partition_scan(pt, block_size) == read_partition_table(pt, block_size, 0, 0, 0)

\* Sector S of partition P as block_read sees it: PANIC past the end.
PANIC == -1
check_sector(size, s) == s < size
partition_read(p, block_size, s) ==
  IF ~check_sector(p.size, s) THEN PANIC
  ELSE IF ~check_sector(block_size, (p.start + s) % SectorRange) THEN PANIC
  ELSE (p.start + s) % SectorRange

----------------------------------------------------------------------------
\* An extended partition that the scan goes into.
Entered(e, block_size) == e.type \in Extended /\ e.size > 0 /\ e.offset < block_size

\* Whatever the table says, a partition that is registered is a contiguous part
\* of the device: every sector of it can be read, and is the one it should be,
\* although sums of sector numbers wrap.  When no extended partition begins on
\* the device the scan returns, with exactly those entries that lie on the
\* device.  (Nothing is said of extended partitions, which the code does not read
\* as it claims: "Reads the partition table in the given SECTOR", partition.c:36.)
PartitionsInside(pt, block_size) ==
  LET scan == partition_scan(pt, block_size)
      es == pt.partitions
      Fits(e) == e.type \notin {"empty"} \cup Extended /\ e.size > 0
                 /\ e.offset + e.size <= block_size
  IN  /\ \A p \in ToSet(scan.found) : \A s \in 0..(p.size - 1) :
           partition_read(p, block_size, s) = p.start + s
      /\ (\A e \in ToSet(es) : ~Entered(e, block_size)) =>
           scan = Returned(FlattenSeq([i \in DOMAIN es |->
                    IF pt.signature /\ Fits(es[i])
                    THEN <<[start |-> es[i].offset, size |-> es[i].size]>> ELSE <<>>]))
=============================================================================
