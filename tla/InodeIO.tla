------------------------------- MODULE InodeIO ------------------------------
(***************************************************************************)
(* The byte arithmetic of inode_read_at and inode_write_at                 *)
(* (filesys/inode.c): requests are cut at sector boundaries and the end of *)
(* the file; partial sectors go through a bounce buffer, which may not be  *)
(* had (ROOM).  A file is its length and its sectors, whose bytes past the *)
(* end of the file are there too.                                          *)
(***************************************************************************)
EXTENDS Integers, Sequences

CONSTANT BLOCK_SECTOR_SIZE

Bytes(sectors) ==
  [i \in 1..(Len(sectors) * BLOCK_SECTOR_SIZE) |->
     sectors[(i - 1) \div BLOCK_SECTOR_SIZE + 1][((i - 1) % BLOCK_SECTOR_SIZE) + 1]]

byte_to_sector(pos) == pos \div BLOCK_SECTOR_SIZE + 1

Lesser(a, b) == IF a < b THEN a ELSE b

chunk_size(length, size, offset) ==
  Lesser(size, Lesser(length - offset, BLOCK_SECTOR_SIZE - (offset % BLOCK_SECTOR_SIZE)))

FullSector(offset, chunk) == offset % BLOCK_SECTOR_SIZE = 0 /\ chunk = BLOCK_SECTOR_SIZE

\* Returns the bytes read.
RECURSIVE inode_read_at(_, _, _, _, _)
inode_read_at(sectors, length, size, offset, room) ==
  LET chunk == chunk_size(length, size, offset)
      ofs == offset % BLOCK_SECTOR_SIZE
  IN  IF size <= 0 \/ chunk <= 0 \/ (~FullSector(offset, chunk) /\ ~room) THEN <<>>
      ELSE SubSeq(sectors[byte_to_sector(offset)], ofs + 1, ofs + chunk)
             \o inode_read_at(sectors, length, size - chunk, offset + chunk, room)

\* Mutant: the sector is read only if the chunk does not start at its start.
Mut_Merged(sector, buffer, offset, chunk) ==
  LET ofs == offset % BLOCK_SECTOR_SIZE
  IN  [i \in 1..BLOCK_SECTOR_SIZE |->
         IF i \in (ofs + 1)..(ofs + chunk) THEN buffer[i - ofs]
         ELSE IF ofs > 0 THEN sector[i] ELSE 0]

\* The sector after CHUNK bytes of BUFFER are put into it: read first if some
\* of it stays, all zeros otherwise.
Merged(sector, buffer, offset, chunk) ==
  LET ofs == offset % BLOCK_SECTOR_SIZE
      keep == ofs > 0 \/ chunk < BLOCK_SECTOR_SIZE - ofs
  IN  [i \in 1..BLOCK_SECTOR_SIZE |->
         IF i \in (ofs + 1)..(ofs + chunk) THEN buffer[i - ofs]
         ELSE IF keep THEN sector[i] ELSE 0]

\* Returns the sectors and the number of bytes written.
RECURSIVE write_from(_, _, _, _, _, _)
write_from(sectors, length, buffer, offset, room, written) ==
  LET chunk == chunk_size(length, Len(buffer), offset)
      at == byte_to_sector(offset)
  IN  IF buffer = <<>> \/ chunk <= 0 \/ (~FullSector(offset, chunk) /\ ~room)
      THEN [sectors |-> sectors, n |-> written]
      ELSE write_from([sectors EXCEPT ![at] = Merged(sectors[at], buffer, offset, chunk)],
                      length, SubSeq(buffer, chunk + 1, Len(buffer)), offset + chunk,
                      room, written + chunk)

inode_write_at(sectors, length, deny_write_cnt, buffer, offset, room) ==
  IF deny_write_cnt > 0 THEN [sectors |-> sectors, n |-> 0]
  ELSE write_from(sectors, length, buffer, offset, room, 0)

----------------------------------------------------------------------------
\* A write changes exactly the bytes it reports, up to the end of the file,
\* and a read returns exactly the bytes of the file that are there; without
\* memory for the bounce buffer both stop early, with the bytes so far right.
TransfersRight(sectors, length, buffer, offset) ==
  \A room \in BOOLEAN :
    LET w == inode_write_at(sectors, length, 0, buffer, offset, room)
        r == inode_read_at(w.sectors, length, Len(buffer), offset, room)
        left == IF offset < length THEN Lesser(Len(buffer), length - offset) ELSE 0
    IN  /\ IF room THEN w.n = left ELSE w.n <= left
        /\ \A i \in 1..(Len(sectors) * BLOCK_SECTOR_SIZE) :
             Bytes(w.sectors)[i] = IF i \in (offset + 1)..(offset + w.n)
                                   THEN buffer[i - offset] ELSE Bytes(sectors)[i]
        /\ r = SubSeq(buffer, 1, w.n)
=============================================================================
