------------------------------ MODULE BitArray ------------------------------
(***************************************************************************)
(* lib/kernel/bitmap.c at the level of its elements: an element is the set *)
(* of its bits that are one, so that OR, AND NOT and XOR with a mask are   *)
(* union, difference and symmetric difference.  The reference is the set   *)
(* of the numbers of the bits that are one.                                *)
(***************************************************************************)
EXTENDS Integers, Sequences, FiniteSets

CONSTANT ELEM_BITS

BITMAP_ERROR == -1

elem_idx(bit_idx) == bit_idx \div ELEM_BITS + 1
bit_mask(bit_idx) == {bit_idx % ELEM_BITS}
elem_cnt(bit_cnt) == (bit_cnt + ELEM_BITS - 1) \div ELEM_BITS

last_mask(b) ==
  LET last_bits == b.bit_cnt % ELEM_BITS
  IN  IF last_bits = 0 THEN 0..(ELEM_BITS - 1) ELSE 0..(last_bits - 1)

BitFlip(b, bit_idx) ==
  LET mask == bit_mask(bit_idx)
  IN  [b EXCEPT !.bits[elem_idx(bit_idx)] = (@ \ mask) \cup (mask \ @)]

BitSet(b, idx, value) ==
  [b EXCEPT !.bits[elem_idx(idx)] = IF value THEN @ \cup bit_mask(idx) ELSE @ \ bit_mask(idx)]

BitTest(b, idx) == b.bits[elem_idx(idx)] \cap bit_mask(idx) # {}

RECURSIVE set_multiple(_, _, _, _)
set_multiple(b, start, cnt, value) ==
  IF cnt = 0 THEN b ELSE set_multiple(BitSet(b, start, value), start + 1, cnt - 1, value)

\* Memory from malloc holds anything: OLD stands for its contents.
BitCreate(bit_cnt, old) ==
  set_multiple([bit_cnt |-> bit_cnt, bits |-> [i \in 1..elem_cnt(bit_cnt) |-> old]],
               0, bit_cnt, FALSE)

BitCount(b, start, cnt, value) ==
  Cardinality({i \in start..(start + cnt - 1) : BitTest(b, i) = value})
BitContains(b, start, cnt, value) == \E i \in start..(start + cnt - 1) : BitTest(b, i) = value

\* The positions where a group of CNT bits may start.
Starts(b, start, cnt) == start..(b.bit_cnt - cnt)

BitScan(b, start, cnt, value) ==
  LET fits == {i \in Starts(b, start, cnt) : ~ BitContains(b, i, cnt, ~ value)}
  IN  IF fits = {} THEN BITMAP_ERROR ELSE CHOOSE i \in fits : \A j \in fits : i <= j

BitScanAndFlip(b, start, cnt, value) ==
  LET idx == BitScan(b, start, cnt, value)
  IN  IF idx = BITMAP_ERROR THEN b ELSE set_multiple(b, idx, cnt, ~ value)

\* FILE is the sequence of elements in the file.  A read that fails leaves
\* the elements it got.
BitRead(b, file) ==
  IF b.bit_cnt = 0 THEN b
  ELSE LET got == [i \in DOMAIN b.bits |-> IF i <= Len(file) THEN file[i] ELSE b.bits[i]]
       IN  [b EXCEPT !.bits = [got EXCEPT ![elem_cnt(b.bit_cnt)] = @ \cap last_mask(b)]]
BitWrite(b) == b.bits

----------------------------------------------------------------------------
(* What the operations promise *)

Ones(b) == {i \in 0..(b.bit_cnt - 1) : BitTest(b, i)}
FileOnes(file) == {i \in 0..(ELEM_BITS * Len(file) - 1) : i % ELEM_BITS \in file[elem_idx(i)]}
Reach(start, cnt) == start..(start + cnt - 1)
Group(ones, n, start, cnt, value) ==
  {i \in start..(n - cnt) : \A k \in Reach(i, cnt) : (k \in ones) = value}

\* From a bitmap whose set of ones is ONES: single bits, groups, counting,
\* scanning and the file agree with the same on the set, in every element and
\* across their boundaries; a bitmap written and read back is the same, and no
\* bit above the last appears.
BitsRight(n, ones, old) ==
  LET b == [BitCreate(n, old) EXCEPT !.bits = BitRead(BitCreate(n, {}),
              [e \in 1..elem_cnt(n) |->
                 {k \in 0..(ELEM_BITS - 1) : ELEM_BITS * (e - 1) + k \in ones}]).bits]
  IN  /\ Ones(BitCreate(n, old)) = {}
      /\ Ones(b) = ones
      /\ \A i \in 0..(n - 1) :
           /\ Ones(BitSet(b, i, TRUE)) = ones \cup {i} /\ Ones(BitSet(b, i, FALSE)) = ones \ {i}
           /\ Ones(BitFlip(b, i)) = (ones \ {i}) \cup ({i} \ ones)
      /\ \A start \in 0..n : \A cnt \in 0..(n - start) : \A value \in BOOLEAN :
           LET g == Group(ones, n, start, cnt, value)
               r == BitScan(b, start, cnt, value)
           IN  /\ BitCount(b, start, cnt, TRUE) = Cardinality(ones \cap Reach(start, cnt))
               /\ BitContains(b, start, cnt, TRUE) = (ones \cap Reach(start, cnt) # {})
               /\ r = BITMAP_ERROR <=> g = {}
               /\ r # BITMAP_ERROR => r \in g /\ \A i \in g : r <= i
               /\ Ones(BitScanAndFlip(b, start, cnt, value)) =
                    IF g = {} THEN ones
                    ELSE IF value THEN ones \ Reach(r, cnt) ELSE ones \cup Reach(r, cnt)
      /\ BitRead(BitCreate(n, old), BitWrite(b)) = b
      /\ LET noisy == BitRead(b, [e \in 1..elem_cnt(n) |-> 0..(ELEM_BITS - 1)])
         IN  n > 0 => FileOnes(noisy.bits) = 0..(n - 1)
=============================================================================
