-------------------------------- MODULE Hash --------------------------------
(***************************************************************************)
(* The kernel's hash table, lib/kernel/hash.c, as operators on tables.     *)
(* Buckets are lists (KernelList shows that list.c implements them); a     *)
(* table that grows or shrinks moves every element to its new bucket,      *)
(* unless the memory for the new buckets cannot be had.                    *)
(***************************************************************************)
EXTENDS Integers, Sequences, FiniteSets, SequencesExt, Bitwise

CONSTANTS HashElem,      \* elements
          KeyOf(_),      \* what the less function compares
          HashOf(_),     \* the hash function, on keys
          MIN_BUCKETS,   \* 4 in the code
          BEST_ELEMS_PER_BUCKET

NULL == <<0, 0>>

\* The hash function and a mask: bucket_cnt is a power of two.
find_bucket(h, e) == HashOf(KeyOf(e)) & (h.bucket_cnt - 1)

find_elem(h, e) ==
  LET b == h.buckets[find_bucket(h, e)]
      at == SelectInSeq(b, LAMBDA x : KeyOf(x) = KeyOf(e))
  IN  IF at = 0 THEN NULL ELSE b[at]

turn_off_least_1bit(x) == x & (x - 1)
is_power_of_2(x) == x # 0 /\ turn_off_least_1bit(x) = 0

RECURSIVE ReducedToPower(_)
ReducedToPower(x) == IF is_power_of_2(x) THEN x ELSE ReducedToPower(turn_off_least_1bit(x))

NewBucketCnt(n) ==
  LET c == n \div BEST_ELEMS_PER_BUCKET
  IN  ReducedToPower(IF c < MIN_BUCKETS THEN MIN_BUCKETS ELSE c)

Empty(n) == [elem_cnt |-> 0, bucket_cnt |-> n, buckets |-> [b \in 0..(n-1) |-> <<>>]]

push_front(h, b, e) == [h EXCEPT !.buckets[b] = <<e>> \o h.buckets[b]]

\* The elements in the order rehash and the iterators meet them.
Chain(h) == FlattenSeq([i \in 1..h.bucket_cnt |-> h.buckets[i - 1]])

\* Mutant: elements are moved before the new bucket count is installed.
Mut_rehash(h, room) ==
  LET n == NewBucketCnt(h.elem_cnt)
  IN  IF n = h.bucket_cnt \/ ~room THEN h
      ELSE FoldLeft(LAMBDA g, e : push_front(g, find_bucket(h, e) % n, e),
                    [Empty(n) EXCEPT !.elem_cnt = h.elem_cnt], Chain(h))

rehash(h, room) ==
  LET n == NewBucketCnt(h.elem_cnt)
  IN  IF n = h.bucket_cnt \/ ~room THEN h
      ELSE FoldLeft(LAMBDA g, e : push_front(g, find_bucket(g, e), e),
                    [Empty(n) EXCEPT !.elem_cnt = h.elem_cnt], Chain(h))

insert_elem(h, e) == push_front([h EXCEPT !.elem_cnt = h.elem_cnt + 1], find_bucket(h, e), e)

remove_elem(h, e) ==
  LET b == find_bucket(h, e)
  IN  [h EXCEPT !.elem_cnt = h.elem_cnt - 1,
                !.buckets[b] = SelectSeq(h.buckets[b], LAMBDA x : x # e)]

hash_find(h, e) == find_elem(h, e)

\* The operations return the element they found and the table they leave.
hash_insert(h, e, room) ==
  LET old == find_elem(h, e)
  IN  [ret |-> old, h |-> rehash(IF old = NULL THEN insert_elem(h, e) ELSE h, room)]

hash_replace(h, e, room) ==
  LET old == find_elem(h, e)
      g == IF old # NULL THEN remove_elem(h, old) ELSE h
  IN  [ret |-> old, h |-> rehash(insert_elem(g, e), room)]

hash_delete(h, e, room) ==
  LET old == find_elem(h, e)
  IN  [ret |-> old, h |-> IF old = NULL THEN h ELSE rehash(remove_elem(h, old), room)]

\* hash_clear keeps the number of buckets.
hash_clear(h) == [ret |-> NULL, h |-> Empty(h.bucket_cnt)]

\* An iterator is a bucket and a place in it; hash_first stands before the
\* first bucket's first element.
hash_first == [bucket |-> 0, at |-> 0]

RECURSIVE SkipEmpty(_, _)
SkipEmpty(h, i) ==
  IF i.at <= Len(h.buckets[i.bucket]) THEN i
  ELSE IF i.bucket + 1 >= h.bucket_cnt THEN [bucket |-> i.bucket + 1, at |-> 0]
  ELSE SkipEmpty(h, [bucket |-> i.bucket + 1, at |-> 1])

hash_next(h, i) == SkipEmpty(h, [i EXCEPT !.at = i.at + 1])

\* The loop the comment at hash_first shows.
RECURSIVE Walk(_, _)
Walk(h, i) ==
  LET j == hash_next(h, i)
  IN  IF j.bucket >= h.bucket_cnt THEN <<>>
      ELSE <<h.buckets[j.bucket][j.at]>> \o Walk(h, j)

----------------------------------------------------------------------------
\* A map from keys to elements, as the reference: h stands for it if every
\* lookup answers from it, the count is right and the iterator meets each
\* element exactly once.
StandsFor(h, dict) ==
  /\ \A e \in HashElem : hash_find(h, e) = dict[KeyOf(e)]
  /\ LET there == {dict[k] : k \in DOMAIN dict} \ {NULL}
         walk == Walk(h, hash_first)
     IN  /\ h.elem_cnt = Cardinality(there)
         /\ Len(walk) = Cardinality(there)
         /\ {walk[i] : i \in DOMAIN walk} = there
=============================================================================
