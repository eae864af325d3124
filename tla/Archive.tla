------------------------------- MODULE Archive ------------------------------
(***************************************************************************)
(* Files carried to and from the scratch disk as a ustar archive: headers  *)
(* (lib/ustar.c) and the append and extract commands (filesys/fsutil.c).   *)
(*                                                                         *)
(* Characters of a name are ".", "/" and letters.  A header has the fields *)
(* that differ between the regular files that append writes; the others    *)
(* are constant.  PANIC stops the machine: a device or a file system in    *)
(* which it happened has panic = TRUE.  Creating a file fails here only if *)
(* the name is taken (FileSys has the other reasons), and memory for the   *)
(* buffers is there.                                                       *)
(***************************************************************************)
EXTENDS Integers, Sequences, FiniteSets, SequencesExt

CONSTANTS DataSize,       \* bytes in a sector, BLOCK_SECTOR_SIZE
          NameMax,        \* 99, the longest name
          SizeDigits,     \* 11, octal digits of a size
          ULONG_MAX, INT_MAX

CharCode(c) == CASE c = "." -> 46 [] c = "/" -> 47 [] OTHER -> 97

(* lib/ustar.c *)

StartsWith(s, prefix) == Len(s) >= Len(prefix) /\ SubSeq(s, 1, Len(prefix)) = prefix

RECURSIVE strip_antisocial_prefixes(_)
strip_antisocial_prefixes(name) ==
  IF StartsWith(name, <<"/">>) \/ StartsWith(name, <<".", "/">>)
     \/ StartsWith(name, <<".", ".", "/">>)
  THEN LET slash == SelectInSeq(name, LAMBDA c : c = "/")
       IN  strip_antisocial_prefixes(SubSeq(name, slash + 1, Len(name)))
  ELSE IF name = <<>> \/ name = <<".", ".">> THEN <<".">> ELSE name

NUL == -1

\* "%0*o" into a field with room for WIDTH digits and a null byte.
Octal(n, width) ==
  [i \in 1..width |-> (n \div 8 ^ (width - i)) % 8] \o <<NUL>>

RECURSIVE octal_from(_, _, _)
octal_from(s, ofs, value) ==
  IF ofs > Len(s) THEN [ok |-> FALSE]
  ELSE IF s[ofs] = NUL THEN [ok |-> ofs > 1, value |-> value]
  ELSE IF value > ULONG_MAX \div 8 THEN [ok |-> FALSE]
  ELSE octal_from(s, ofs + 1, s[ofs] + value * 8)

parse_octal_field(s) == octal_from(s, 1, 0)

\* The sum over the header with the checksum field taken as spaces; the
\* constant fields add a constant.
calculate_chksum(h) ==
  LET Digit(c) == IF c = NUL THEN 0 ELSE 48 + c
  IN  FoldLeft(LAMBDA s, c : s + CharCode(c), 0, h.name)
      + FoldLeft(LAMBDA s, c : s + Digit(c), 0, h.size) + 8 * 32

Zeros == [kind |-> "data", bytes |-> [j \in 1..DataSize |-> 0]]
is_all_zeros(x) == x = Zeros

ustar_make_header(name, size) ==
  LET stripped == strip_antisocial_prefixes(name)
      h == [kind |-> "header", name |-> stripped, size |-> Octal(size, SizeDigits)]
  IN  IF Len(stripped) > NameMax THEN [panic |-> TRUE]
      ELSE h @@ [chksum |-> Octal(calculate_chksum(h), 7)]

ustar_parse_header(h) ==
  CASE is_all_zeros(h) -> [type |-> "eof"]
    [] h.kind = "data" -> [type |-> "error"]
    [] OTHER ->
         LET chksum == parse_octal_field(h.chksum)
             size == parse_octal_field(h.size)
         IN  IF ~chksum.ok THEN [type |-> "error"]
             ELSE IF chksum.value # calculate_chksum(h) \/ Len(h.name) > NameMax
             THEN [type |-> "error"]
             ELSE IF ~size.ok THEN [type |-> "error"]
             ELSE IF size.value > INT_MAX THEN [type |-> "error"]
             ELSE [type |-> "regular", size |-> size.value,
                   name |-> strip_antisocial_prefixes(h.name)]

----------------------------------------------------------------------------
(* filesys/fsutil.c; a device is a function on 0..(size-1) *)

block_write(d, sector, x) ==
  IF d.panic \/ sector \notin DOMAIN d.at THEN [d EXCEPT !.panic = TRUE]
  ELSE [d EXCEPT !.at[sector] = x]

\* A file's bytes, cut into sectors and the last one filled with zeros.
DataSectors(bytes) ==
  [i \in 1..((Len(bytes) + DataSize - 1) \div DataSize) |->
     [kind |-> "data",
      bytes |-> [j \in 1..DataSize |->
                   LET k == (i - 1) * DataSize + j
                   IN  IF k <= Len(bytes) THEN bytes[k] ELSE 0]]]

\* Append FILE at the device's position, which then stands at the two sectors
\* of zeros that end the archive.
fsutil_append(d, file) ==
  LET header == ustar_make_header(file.name, Len(file.bytes))
      xs == <<header>> \o DataSectors(file.bytes)
      d1 == FoldLeft(LAMBDA g, i : block_write(g, d.sector + i - 1, xs[i]), d,
                     [i \in 1..Len(xs) |-> i])
      end == d.sector + Len(xs)
  IN  IF "panic" \in DOMAIN header THEN [d EXCEPT !.panic = TRUE]
      ELSE [block_write(block_write(d1, end, Zeros), end + 1, Zeros)
              EXCEPT !.sector = end]

Crashed(fs) == [fs EXCEPT !.panic = TRUE]

\* Extract from SECTOR on into the files FS, whose sector is the position of
\* the next extraction in the same boot.
RECURSIVE extract_from(_, _, _)
extract_from(d, sector, fs) ==
  IF sector \notin DOMAIN d.at THEN Crashed(fs)
  ELSE LET h == ustar_parse_header(d.at[sector])
       IN  CASE h.type = "error" -> Crashed(fs)
             [] h.type = "eof" -> [fs EXCEPT !.sector = sector + 1]
             [] h.type = "regular" ->
                  LET n == (h.size + DataSize - 1) \div DataSize
                      there == \A i \in 1..n : sector + i \in DOMAIN d.at
                      bytes == [k \in 1..h.size |->
                                  LET x == d.at[sector + 1 + (k - 1) \div DataSize]
                                  IN  x.bytes[((k - 1) % DataSize) + 1]]
                      exists == \E f \in ToSet(fs.files) : f.name = h.name
                  IN  IF exists \/ ~there THEN Crashed(fs)
                      ELSE extract_from(d, sector + n + 1,
                             [fs EXCEPT !.files =
                                Append(fs.files, [name |-> h.name, bytes |-> bytes])])

\* The archive is erased afterwards.
fsutil_extract(d, fs) ==
  LET fs1 == extract_from(d, fs.sector, fs)
  IN  [fs |-> fs1,
       d |-> IF fs1.panic THEN d ELSE block_write(block_write(d, 0, Zeros), 1, Zeros)]

----------------------------------------------------------------------------
Blank(size) == [at |-> [s \in 0..(size - 1) |-> Zeros], sector |-> 0, panic |-> FALSE]
NoFiles == [files |-> <<>>, sector |-> 0, panic |-> FALSE]

Sociable(name) ==
  /\ name # <<>> /\ name # <<".", ".">>
  /\ \A p \in {<<"/">>, <<".", "/">>, <<".", ".", "/">>} : ~StartsWith(name, p)

\* Files appended one after the other come out as they went in, under names
\* that stay inside the directory, or append has panicked.  Extraction is
\* idempotent: done again in the same boot or in the next one it adds nothing.
CarriedRight(files, d, r) ==
  LET names == {strip_antisocial_prefixes(f.name) : f \in ToSet(files)}
  IN  /\ ~d.panic /\ Cardinality(names) = Len(files) =>
           /\ ~r.fs.panic
           /\ r.fs.files = [i \in DOMAIN files |->
                              [files[i] EXCEPT !.name = strip_antisocial_prefixes(files[i].name)]]
           /\ fsutil_extract(r.d, r.fs).fs.files = r.fs.files
           /\ LET next == fsutil_extract(r.d, NoFiles).fs
              IN  next.files = <<>> /\ ~next.panic
      /\ \A n \in names : Sociable(n)

\* Of the device after the appends, and the first extraction from it.
CarriesFiles(files, size) ==
  LET d == FoldLeft(fsutil_append, Blank(size), files)
  IN  CarriedRight(files, d, fsutil_extract(d, NoFiles))
=============================================================================
