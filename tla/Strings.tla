------------------------------- MODULE Strings ------------------------------
(***************************************************************************)
(* The searching functions of lib/string.c and the generator of            *)
(* lib/random.c.  A string is a sequence of nonzero characters followed in *)
(* memory by a null; a returned pointer is an index from 0, NoPtr a null   *)
(* pointer.                                                                *)
(***************************************************************************)
EXTENDS Integers, Sequences, FiniteSets, SequencesExt

CONSTANT StateSize         \* bytes of the generator's state, and values of a byte: 256

NoPtr == -1
CharAt(s, i) == IF i < Len(s) THEN s[i + 1] ELSE 0
Least(S) == IF S = {} THEN NoPtr ELSE CHOOSE i \in S : \A j \in S : i <= j

memcmp(a, b, size) ==
  LET i == Least({k \in 0..(size - 1) : a[k + 1] # b[k + 1]})
  IN  IF i = NoPtr THEN 0 ELSE IF a[i + 1] > b[i + 1] THEN 1 ELSE -1

RECURSIVE compare(_, _, _)
compare(a, b, i) ==
  IF CharAt(a, i) # 0 /\ CharAt(a, i) = CharAt(b, i) THEN compare(a, b, i + 1)
  ELSE IF CharAt(a, i) < CharAt(b, i) THEN -1
  ELSE IF CharAt(a, i) > CharAt(b, i) THEN 1 ELSE 0
strcmp(a, b) == compare(a, b, 0)

\* The null at the end is found when C is null.
strchr(s, c) == Least({i \in 0..Len(s) : CharAt(s, i) = c})
memchr(block, ch, size) == Least({i \in 0..(size - 1) : block[i + 1] = ch})
strrchr(s, c) ==
  FoldLeft(LAMBDA p, i : IF CharAt(s, i) = c THEN i ELSE p, NoPtr, [i \in 1..Len(s) |-> i - 1])

strcspn(s, stop) ==
  Least({i \in 0..Len(s) : CharAt(s, i) = 0 \/ strchr(stop, CharAt(s, i)) # NoPtr})
strspn(s, skip) ==
  Least({i \in 0..Len(s) : CharAt(s, i) = 0 \/ strchr(skip, CharAt(s, i)) = NoPtr})
strpbrk(s, stop) == Least({i \in 0..(Len(s) - 1) : strchr(stop, CharAt(s, i)) # NoPtr})

strstr(haystack, needle) ==
  IF Len(haystack) < Len(needle) THEN NoPtr
  ELSE Least({i \in 0..(Len(haystack) - Len(needle)) :
                memcmp(SubSeq(haystack, i + 1, Len(haystack)), needle, Len(needle)) = 0})

strnlen(s, maxlen) == Least({i \in 0..Len(s) : CharAt(s, i) = 0 \/ i = maxlen})

----------------------------------------------------------------------------
(* lib/random.c *)

swap_byte(s, a, b) == [s EXCEPT ![a] = s[b], ![b] = s[a]]

RECURSIVE schedule(_, _, _, _)
schedule(s, seed, i, j) ==
  IF i = StateSize THEN s
  ELSE LET k == (j + s[i] + seed[(i % Len(seed)) + 1]) % StateSize
       IN  schedule(swap_byte(s, i, k), seed, i + 1, k)

random_init(seed) ==
  [s |-> schedule([i \in 0..(StateSize - 1) |-> i], seed, 0, 0), s_i |-> 0, s_j |-> 0,
   inited |-> TRUE]

\* Before the first call the static variables are zero.
Cold == [s |-> [i \in 0..(StateSize - 1) |-> 0], s_i |-> 0, s_j |-> 0, inited |-> FALSE]

\* One byte: the new state and the byte.
random_byte(r) ==
  LET i == (r.s_i + 1) % StateSize
      j == (r.s_j + r.s[i]) % StateSize
      s == swap_byte(r.s, i, j)
  IN  [state |-> [r EXCEPT !.s = s, !.s_i = i, !.s_j = j], byte |-> s[(s[i] + s[j]) % StateSize]]

RECURSIVE draw(_, _)
draw(r, size) ==
  IF size = 0 THEN [state |-> r, bytes |-> <<>>]
  ELSE LET b == random_byte(r)
           rest == draw(b.state, size - 1)
       IN  [state |-> rest.state, bytes |-> <<b.byte>> \o rest.bytes]

random_bytes(r, size) == draw(IF r.inited THEN r ELSE random_init(<<0>>), size)

----------------------------------------------------------------------------
(* What the functions promise *)

\* The comparisons order strings and blocks by their first difference: they
\* are antisymmetric and zero exactly on equals, a prefix being the smaller.
Prefix(a, b) == Len(a) <= Len(b) /\ SubSeq(b, 1, Len(a)) = a
ComparesRight(a, b) ==
  /\ strcmp(a, b) = -strcmp(b, a)
  /\ strcmp(a, b) = 0 <=> a = b
  /\ Prefix(a, b) => strcmp(a, b) <= 0
  /\ \A n \in 0..(IF Len(a) < Len(b) THEN Len(a) ELSE Len(b)) :
       /\ memcmp(a, b, n) = 0 <=> SubSeq(a, 1, n) = SubSeq(b, 1, n)
       /\ memcmp(a, b, n) # 0 => memcmp(a, b, n) = strcmp(a, b)

\* The searches find the first (strrchr the last) place with the property
\* their name says, and only if there is one.
SearchesRight(s, t) ==
  /\ strstr(s, t) # NoPtr <=> \E p, q \in 0..Len(s) : SubSeq(s, p + 1, q) = t
  /\ strstr(s, t) # NoPtr => Prefix(SubSeq(s, 1, strstr(s, t)) \o t, s)
  /\ Prefix(SubSeq(s, 1, strspn(s, t)), s) /\ ToSet(SubSeq(s, 1, strspn(s, t))) \subseteq ToSet(t)
  /\ CharAt(s, strspn(s, t)) \notin ToSet(t)
  /\ ToSet(SubSeq(s, 1, strcspn(s, t))) \cap ToSet(t) = {}
  /\ CharAt(s, strcspn(s, t)) \in ToSet(t) \cup {0}
  /\ strpbrk(s, t) = (IF strcspn(s, t) = Len(s) THEN NoPtr ELSE strcspn(s, t))
  /\ \A c \in ToSet(t) :
       /\ strchr(s, c) # NoPtr <=> c \in ToSet(s)
       /\ strchr(s, c) # NoPtr => /\ s[strchr(s, c) + 1] = c /\ s[strrchr(s, c) + 1] = c
                                  /\ c \notin ToSet(SubSeq(s, 1, strchr(s, c)))
                                  /\ c \notin ToSet(SubSeq(s, strrchr(s, c) + 2, Len(s)))
       /\ memchr(s, c, Len(s)) = strchr(s, c)
  /\ strchr(s, 0) = Len(s)
  /\ \A n \in 0..(Len(s) + 1) : strnlen(s, n) = IF n < Len(s) THEN n ELSE Len(s)

\* The generator's state stays a permutation, so no value is lost from it, and
\* drawing M + N bytes is drawing M and then N.  A generator nobody seeded
\* behaves as one seeded with zero.
GeneratorRight(seed, m, n) ==
  LET r == random_init(seed)
      first == random_bytes(r, m)
      second == random_bytes(first.state, n)
      all == random_bytes(r, m + n)
  IN  /\ \A g \in {r, first.state, second.state} :
           {g.s[i] : i \in DOMAIN g.s} = 0..(StateSize - 1)
      /\ all.bytes = first.bytes \o second.bytes /\ all.state = second.state
      /\ random_bytes(Cold, m) = random_bytes(random_init([k \in DOMAIN seed |-> 0]), m)
      /\ ToSet(all.bytes) \subseteq 0..(StateSize - 1)
=============================================================================
