------------------------------- MODULE Stdlib -------------------------------
(***************************************************************************)
(* Algorithms of the Pintos C library, each beside the reference it is     *)
(* checked against: heap sort, binary search and atoi (lib/stdlib.c),      *)
(* 64-bit division on a 32-bit machine (lib/arithmetic.c), and copying and *)
(* tokenizing of strings (lib/string.c).                                   *)
(*                                                                         *)
(* HALF is the width of a machine word: 32 in the code, where uint64_t has *)
(* 2 * HALF bits.                                                          *)
(***************************************************************************)
EXTENDS Integers, Sequences, FiniteSets, SequencesExt

CONSTANT HALF

ASSUME HalfAssumption == HALF \in {2, 4, 8, 16, 32}

----------------------------------------------------------------------------
(* lib/stdlib.c *)

do_swap(a, i, j) == [a EXCEPT ![i] = a[j], ![j] = a[i]]

RECURSIVE heapify(_, _, _)

\* Mutant: the right child is compared with the parent, not with the larger
\* of parent and left child.
Mut_heapify(a, i, cnt) ==
  LET left == 2 * i
      right == 2 * i + 1
      m == IF left <= cnt /\ a[left] > a[i] THEN left ELSE i
      max == IF right <= cnt /\ a[right] > a[i] THEN right ELSE m
  IN  IF max = i THEN a ELSE heapify(do_swap(a, i, max), max, cnt)

heapify(a, i, cnt) ==
  LET left == 2 * i
      right == 2 * i + 1
      m == IF left <= cnt /\ a[left] > a[i] THEN left ELSE i
      max == IF right <= cnt /\ a[right] > a[m] THEN right ELSE m
  IN  IF max = i THEN a ELSE heapify(do_swap(a, i, max), max, cnt)

RECURSIVE build_heap(_, _), sort_heap(_, _)
build_heap(a, i) == IF i = 0 THEN a ELSE build_heap(heapify(a, i, Len(a)), i - 1)
sort_heap(a, i) ==
  IF i <= 1 THEN a ELSE sort_heap(heapify(do_swap(a, 1, i), 1, i - 1), i - 1)

sort(a) == sort_heap(build_heap(a, Len(a) \div 2), Len(a))

\* FIRST and LAST are indices from 0, LAST excluded; -1 is the null pointer.
RECURSIVE search(_, _, _, _)
search(a, key, first, last) ==
  IF first >= last THEN -1
  ELSE LET middle == first + (last - first) \div 2
       IN  IF key < a[middle + 1] THEN search(a, key, first, middle)
           ELSE IF key > a[middle + 1] THEN search(a, key, middle + 1, last)
           ELSE middle

binary_search(a, key) == search(a, key, 0, Len(a))

\* The digits after the sign, folded as a negative number: TRAP if a step
\* leaves the range of int, which has HALF bits.
IntMin == -(2 ^ (HALF - 1))
IntMax == 2 ^ (HALF - 1) - 1
TRAP == -(2 ^ (2 * HALF))
InInt(x) == IF x \in IntMin..IntMax THEN x ELSE TRAP

atoi(negative, digits) ==
  LET value == FoldLeft(LAMBDA v, d : IF v = TRAP THEN TRAP ELSE InInt(v * 10 - d),
                        0, digits)
  IN  IF negative \/ value = TRAP THEN value ELSE InInt(-value)

----------------------------------------------------------------------------
(* lib/arithmetic.c *)

Word1 == 2 ^ HALF
Word2 == 2 ^ (2 * HALF)

\* The divl instruction: it traps if the quotient does not fit a word.
divl(n, d) == IF d = 0 \/ n \div d >= Word1 THEN TRAP ELSE n \div d

Halves == LET H[k \in 0..HALF] == IF k = 0 THEN <<>> ELSE <<k>> \o H[k \div 2]
          IN  H[HALF \div 2]

\* One test and shift for each power of two below HALF.
nlz(x) ==
  FoldLeft(LAMBDA s, k : IF s.x < 2 ^ (HALF - k)
                         THEN [n |-> s.n + k, x |-> s.x * 2 ^ k] ELSE s,
           [n |-> 0, x |-> x], Halves).n

udiv64(n, d) ==
  IF d \div Word1 = 0
  THEN LET n1 == n \div Word1
           n0 == n % Word1
           q0 == divl(Word1 * (n1 % d) + n0, d)
       IN  IF q0 = TRAP THEN TRAP ELSE (q0 + Word1 * (n1 \div d)) % Word2
  ELSE IF n < d THEN 0
  ELSE LET s == nlz(d \div Word1)
           q1 == divl(n \div 2, ((d * 2 ^ s) % Word2) \div Word1)
           q == q1 \div 2 ^ (HALF - 1 - s)
       IN  IF q1 = TRAP THEN TRAP
           ELSE IF (n - (q - 1) * d) % Word2 < d THEN (q - 1) % Word2 ELSE q

\* umod64 and smod64 return 32 bits.
umod64(n, d) == (n - d * udiv64(n, d)) % Word1

Signed(x) == IF x % Word2 >= Word2 \div 2 THEN (x % Word2) - Word2 ELSE x % Word2
Abs64(x) == IF x >= 0 THEN x ELSE -x

sdiv64(n, d) ==
  LET q_abs == udiv64(Abs64(n), Abs64(d))
  IN  IF q_abs = TRAP THEN TRAP
      ELSE IF (n < 0) = (d < 0) THEN Signed(q_abs) ELSE Signed(-q_abs)

Signed1(x) == IF x % Word1 >= Word1 \div 2 THEN (x % Word1) - Word1 ELSE x % Word1

smod64(n, d) == Signed1(n - d * sdiv64(n, d))

----------------------------------------------------------------------------
(* lib/string.c; memory is a sequence of bytes, 0 the null byte *)

RECURSIVE copy_up(_, _, _, _), copy_down(_, _, _, _)
copy_up(m, dst, src, size) ==
  IF size = 0 THEN m ELSE copy_up([m EXCEPT ![dst] = m[src]], dst + 1, src + 1, size - 1)
copy_down(m, dst, src, size) ==
  IF size = 0 THEN m
  ELSE copy_down([m EXCEPT ![dst + size - 1] = m[src + size - 1]], dst, src, size - 1)

\* The memory and the pointer that is returned: DST as the loop leaves it, which
\* the copy upwards has moved to the end of the copied bytes.
memmove(m, dst, src, size) ==
  IF dst < src THEN [m |-> copy_up(m, dst, src, size), ret |-> dst + size]
  ELSE [m |-> copy_down(m, dst, src, size), ret |-> dst]

\* The string at P, without its null byte.
RECURSIVE StringAt(_, _)
StringAt(m, p) == IF m[p] = 0 THEN <<>> ELSE <<m[p]>> \o StringAt(m, p + 1)
strlen(m, p) == Len(StringAt(m, p))

Store(m, p, s) == [i \in DOMAIN m |-> IF i \in p..(p + Len(s) - 1) THEN s[i - p + 1] ELSE m[i]]

strlcpy(m, dst, src, size) ==
  IF size = 0 THEN m
  ELSE LET n == IF Len(src) < size - 1 THEN Len(src) ELSE size - 1
       IN  Store(m, dst, SubSeq(src, 1, n) \o <<0>>)

strlcat(m, dst, src, size) ==
  LET dst_len == strlen(m, dst)
      room == size - dst_len - 1
      n == IF Len(src) < room THEN Len(src) ELSE room
  IN  IF size > 0 /\ dst_len < size
      THEN Store(m, dst + dst_len, SubSeq(src, 1, n) \o <<0>>) ELSE m

\* strtok_r with the one delimiter 1, from the saved position P: the token,
\* the memory and the position it leaves.
RECURSIVE SkipDelimiters(_, _), SkipToken(_, _)
SkipDelimiters(m, p) == IF m[p] = 1 THEN SkipDelimiters(m, p + 1) ELSE p
SkipToken(m, p) == IF m[p] \in {0, 1} THEN p ELSE SkipToken(m, p + 1)

strtok_r(m, p) ==
  LET t == SkipDelimiters(m, p)
      e == SkipToken(m, t)
  IN  IF m[t] = 0 THEN [token |-> 0, m |-> m, save |-> t]
      ELSE IF m[e] = 0 THEN [token |-> t, m |-> m, save |-> e]
      ELSE [token |-> t, m |-> [m EXCEPT ![e] = 0], save |-> e + 1]

RECURSIVE Tokens(_, _)
Tokens(m, p) ==
  LET r == strtok_r(m, p)
  IN  IF r.token = 0 THEN <<>> ELSE <<StringAt(r.m, r.token)>> \o Tokens(r.m, r.save)

----------------------------------------------------------------------------
(* The references. *)

SameItems(a, b) ==
  /\ Len(a) = Len(b)
  /\ \A x \in ToSet(a) \cup ToSet(b) :
       Cardinality({i \in DOMAIN a : a[i] = x}) = Cardinality({i \in DOMAIN b : b[i] = x})

\* sort permutes its array into order, and binary_search then finds a key if
\* and only if the array holds it.
SortsAndFinds(a, keys) ==
  LET s == sort(a)
  IN  /\ SameItems(a, s)
      /\ \A i \in 1..(Len(s) - 1) : s[i] <= s[i + 1]
      /\ \A k \in keys : LET at == binary_search(s, k)
                         IN  IF k \in ToSet(a) THEN at >= 0 /\ s[at + 1] = k ELSE at = -1

\* Division of N by anything is exact and never traps, and so is a remainder
\* that fits the word it is returned in.
DividesRight(n) ==
  \A d \in 1..(Word2 - 1) :
    /\ udiv64(n, d) = n \div d
    /\ n % d < Word1 => umod64(n, d) = n % d

Quotient(n, d) == LET q == Abs64(n) \div Abs64(d) IN IF (n < 0) = (d < 0) THEN q ELSE -q

\* Signed division rounds to zero wherever the quotient can be represented, and
\* the remainder, which has the sign of N, is exact if it fits one word.
DividesSigned(n) ==
  \A d \in (-(Word2 \div 2)..(Word2 \div 2 - 1)) \ {0} :
    LET q == Quotient(n, d)
        r == n - d * q
    IN  /\ q < Word2 \div 2 => sdiv64(n, d) = q
        /\ r \in IntMin..IntMax => smod64(n, d) = r

\* Every int is read back from its digits without overflow on the way, the
\* smallest one included.
ReadsInts(n) ==
  LET D[k \in 0..Word1] == IF k < 10 THEN <<k>> ELSE D[k \div 10] \o <<k % 10>>
  IN  atoi(n < 0, D[Abs64(n)]) = n

\* memmove leaves what a copy through a third buffer would, and returns DST
\* unless it has copied upwards.
MovesRight(m) ==
  \A dst, src \in DOMAIN m : \A size \in 0..Len(m) :
    dst + size - 1 <= Len(m) /\ src + size - 1 <= Len(m) =>
      LET r == memmove(m, dst, src, size)
      IN  /\ r.m = Store(m, dst, SubSeq(m, src, src + size - 1))
          /\ dst >= src \/ size = 0 => r.ret = dst

\* The tokens of a string are the longest runs without a delimiter.
TokenizesRight(s) ==
  LET t == Tokens(s \o <<0>>, 1)
      runs == {<<i, j>> \in (1..Len(s)) \X (1..Len(s)) :
                 /\ i <= j /\ \A k \in i..j : s[k] # 1
                 /\ i = 1 \/ s[i - 1] = 1
                 /\ j = Len(s) \/ s[j + 1] = 1}
  IN  /\ Len(t) = Cardinality(runs)
      /\ \A r \in runs :
           t[Cardinality({x \in runs : x[1] <= r[1]})] = SubSeq(s, r[1], r[2])

\* strlcpy and strlcat leave the longest prefix that fits, terminated, and
\* write nothing beyond SIZE bytes.
CopiesWithin(dst, src, size) ==
  LET m == dst \o [i \in 1..(8 - Len(dst)) |-> IF i = 1 THEN 0 ELSE 9]
      cpy == strlcpy(m, 1, src, size)
      cat == strlcat(m, 1, src, size)
      Fit(s) == SubSeq(s, 1, IF Len(s) < size THEN Len(s) ELSE size - 1)
  IN  /\ \A i \in (size + 1)..Len(m) : cpy[i] = m[i] /\ cat[i] = m[i]
      /\ size > 0 => StringAt(cpy, 1) = Fit(src)
      /\ size > Len(dst) => StringAt(cat, 1) = Fit(dst \o src)
=============================================================================
