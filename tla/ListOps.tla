------------------------------- MODULE ListOps -------------------------------
(***************************************************************************)
(* The doubly linked lists of lib/kernel/list.c, pointer by pointer.  A    *)
(* heap h has the prev and next pointers of every list element and of the  *)
(* head and tail sentinels of every list.                                  *)
(***************************************************************************)
EXTENDS Naturals, Sequences, FiniteSets

CONSTANTS Elem, List, Null

head(l) == <<l, "head">>
tail(l) == <<l, "tail">>
Node == Elem \cup {head(l) : l \in List} \cup {tail(l) : l \in List}

\* list_init() of every list; no element is on one.
list_init ==
  [prev |-> [n \in Node |-> IF \E l \in List : n = tail(l)
                            THEN head(CHOOSE l \in List : n = tail(l)) ELSE Null],
   next |-> [n \in Node |-> IF \E l \in List : n = head(l)
                            THEN tail(CHOOSE l \in List : n = head(l)) ELSE Null]]

list_begin(h, l) == h.next[head(l)]

\* The callers' order: every strict weak order on the elements is the order of
\* some key.
less(key, a, b) == key[a] < key[b]

-----------------------------------------------------------------------------
list_insert(h, before, e) ==
  LET p == h.prev[before] IN
  [prev |-> [h.prev EXCEPT ![e] = p, ![before] = e],
   next |-> [h.next EXCEPT ![e] = before, ![p] = e]]

list_remove(h, e) ==
  [prev |-> [h.prev EXCEPT ![h.next[e]] = h.prev[e]],
   next |-> [h.next EXCEPT ![h.prev[e]] = h.next[e]]]

list_push_front(h, l, e) == list_insert(h, list_begin(h, l), e)
list_push_back(h, l, e)  == list_insert(h, tail(l), e)

\* The element a pop removes and returns.
list_front(h, l) == h.next[head(l)]
list_back(h, l)  == h.prev[tail(l)]

\* Moves the elements from first up to, but not including, end before `before'.
list_splice(h, before, first, end) ==
  LET last == h.prev[end]
      cut  == [prev |-> [h.prev EXCEPT ![h.next[last]] = h.prev[first]],
               next |-> [h.next EXCEPT ![h.prev[first]] = h.next[last]]]
      p    == cut.prev[before]
  IN IF first = end THEN h
     ELSE [prev |-> [cut.prev EXCEPT ![first] = p, ![before] = last],
           next |-> [cut.next EXCEPT ![last] = before, ![p] = first]]

\* The nodes from e up to, but not including, end; at most n of them.
RECURSIVE Walk(_, _, _, _)
Walk(next, e, end, n) ==
  IF e = end \/ e \notin Node \/ n = 0 THEN <<>>
  ELSE <<e>> \o Walk(next, next[e], end, n - 1)

-----------------------------------------------------------------------------
\* The loop swaps the pointers of every element, then the sentinels' pointers
\* and what the first and last element say of the sentinels.
list_reverse(h, l) ==
  LET on   == LET w == Walk(h.next, list_begin(h, l), tail(l), Cardinality(Elem)) IN
              {w[i] : i \in DOMAIN w}
      s    == [prev |-> [n \in Node |-> IF n \in on THEN h.next[n] ELSE h.prev[n]],
               next |-> [n \in Node |-> IF n \in on THEN h.prev[n] ELSE h.next[n]]]
      f    == s.prev[tail(l)]
      g    == s.next[head(l)]
      s1   == [prev |-> [s.prev EXCEPT ![tail(l)] = g],
               next |-> [s.next EXCEPT ![head(l)] = f]]
  IN IF list_begin(h, l) = tail(l) THEN h
     ELSE [prev |-> [s1.prev EXCEPT ![f] = s1.next[g]],
           next |-> [s1.next EXCEPT ![g] = s1.prev[f]]]

RECURSIVE find_end_of_run(_, _, _, _)
find_end_of_run(h, a, b, key) ==
  LET n == h.next[a] IN
  IF n # b /\ ~ less(key, n, h.prev[n]) THEN find_end_of_run(h, n, b, key) ELSE n

\* Variant: equal elements of the second run overtake those of the first.
RECURSIVE Mut_merge_unstable(_, _, _, _, _)
Mut_merge_unstable(h, a0, a1b0, b1, key) ==
  IF a0 = a1b0 \/ a1b0 = b1 THEN h
  ELSE IF less(key, a0, a1b0) THEN Mut_merge_unstable(h, h.next[a0], a1b0, b1, key)
  ELSE Mut_merge_unstable(list_splice(h, a0, a1b0, h.next[a1b0]), a0, h.next[a1b0],
                          b1, key)

RECURSIVE inplace_merge(_, _, _, _, _)
inplace_merge(h, a0, a1b0, b1, key) ==
  IF a0 = a1b0 \/ a1b0 = b1 THEN h
  ELSE IF ~ less(key, a1b0, a0) THEN inplace_merge(h, h.next[a0], a1b0, b1, key)
  ELSE inplace_merge(list_splice(h, a0, a1b0, h.next[a1b0]), a0, h.next[a1b0],
                     b1, key)

\* One pass of list_sort() from a0 on: the heap and the number of runs output.
RECURSIVE sort_pass(_, _, _, _)
sort_pass(h, l, a0, key) ==
  LET a1b0 == find_end_of_run(h, a0, tail(l), key)
      b1   == find_end_of_run(h, a1b0, tail(l), key)
      rest == sort_pass(inplace_merge(h, a0, a1b0, b1, key), l, b1, key)
  IN IF a0 = tail(l) THEN [heap |-> h, runs |-> 0]
     ELSE IF a1b0 = tail(l) THEN [heap |-> h, runs |-> 1]
     ELSE [heap |-> rest.heap, runs |-> 1 + rest.runs]

RECURSIVE list_sort(_, _, _)
list_sort(h, l, key) ==
  LET pass == sort_pass(h, l, list_begin(h, l), key) IN
  IF pass.runs > 1 THEN list_sort(pass.heap, l, key) ELSE pass.heap

RECURSIVE ordered_place(_, _, _, _, _)
ordered_place(h, l, e, x, key) ==
  IF x = tail(l) \/ less(key, e, x) THEN x ELSE ordered_place(h, l, e, h.next[x], key)

list_insert_ordered(h, l, e, key) ==
  list_insert(h, ordered_place(h, l, e, list_begin(h, l), key), e)

\* The loop of list_unique() with dup as its `duplicates' list, or Null.
RECURSIVE unique_from(_, _, _, _, _)
unique_from(h, l, dup, e, key) ==
  LET next == h.next[e] IN
  IF next = tail(l) THEN h
  ELSE IF ~ less(key, e, next) /\ ~ less(key, next, e)
  THEN LET r == list_remove(h, next) IN
       unique_from(IF dup = Null THEN r ELSE list_insert(r, tail(dup), next), l, dup, e, key)
  ELSE unique_from(h, l, dup, next, key)

list_unique(h, l, dup, key) ==
  IF list_begin(h, l) = tail(l) THEN h
  ELSE unique_from(h, l, dup, list_begin(h, l), key)

RECURSIVE max_from(_, _, _, _, _)
max_from(h, l, max, e, key) ==
  IF e = tail(l) THEN max
  ELSE max_from(h, l, IF less(key, max, e) THEN e ELSE max, h.next[e], key)

list_max(h, l, key) ==
  LET b == list_begin(h, l) IN
  IF b = tail(l) THEN b ELSE max_from(h, l, b, h.next[b], key)

RECURSIVE min_from(_, _, _, _, _)
min_from(h, l, min, e, key) ==
  IF e = tail(l) THEN min
  ELSE min_from(h, l, IF less(key, e, min) THEN e ELSE min, h.next[e], key)

list_min(h, l, key) ==
  LET b == list_begin(h, l) IN
  IF b = tail(l) THEN b ELSE min_from(h, l, b, h.next[b], key)
=============================================================================
