----------------------------- MODULE KernelList -----------------------------
(***************************************************************************)
(* The operations of lib/kernel/list.c on a few lists that share a set of  *)
(* elements, called in any order; and that they do to the pointers what    *)
(* list.h promises of sequences (ListSpec).                                *)
(***************************************************************************)
EXTENDS ListOps, SequencesExt

VARIABLES
  heap,  \* the pointers
  key,   \* what the callers' less() compares
  op     \* the last call, with its arguments and what it returned

vars == <<heap, key, op>>

Forward(l)  == Walk(heap.next, list_begin(heap, l), tail(l), Cardinality(Elem) + 1)
Backward(l) == Walk(heap.prev, heap.prev[tail(l)], head(l), Cardinality(Elem) + 1)

On(l)   == ToSet(Forward(l))
Free    == {e \in Elem : \A l \in List : e \notin On(l)}
Ends(l) == On(l) \cup {tail(l)}

\* The caller's name for a node: the end of a list is Null.
Named(n) == IF n \in Elem THEN n ELSE Null

Init == heap = list_init /\ key \in [Elem -> 0 .. 1] /\ op = [fn |-> "none"]

insert(l) ==
  \E before \in Ends(l), e \in Free :
    /\ heap' = list_insert(heap, before, e)
    /\ op' = [fn |-> "insert", l |-> l, before |-> Named(before), e |-> e]

push_front(l) ==
  \E e \in Free : /\ heap' = list_push_front(heap, l, e)
                  /\ op' = [fn |-> "push_front", l |-> l, e |-> e]

push_back(l) ==
  \E e \in Free : /\ heap' = list_push_back(heap, l, e)
                  /\ op' = [fn |-> "push_back", l |-> l, e |-> e]

remove(l) ==
  \E e \in On(l) : /\ heap' = list_remove(heap, e)
                   /\ op' = [fn |-> "remove", l |-> l, e |-> e, ret |-> Named(heap.next[e])]

\* Their callers see to it that the list is not empty, as list_front() asserts.
pop_front(l) ==
  /\ On(l) # {}
  /\ heap' = list_remove(heap, list_front(heap, l))
  /\ op' = [fn |-> "pop_front", l |-> l, ret |-> list_front(heap, l)]

pop_back(l) ==
  /\ On(l) # {}
  /\ heap' = list_remove(heap, list_back(heap, l))
  /\ op' = [fn |-> "pop_back", l |-> l, ret |-> list_back(heap, l)]

splice(l, m) ==
  \E first \in On(m) :
    LET from == Walk(heap.next, first, tail(m), Cardinality(Elem)) IN
    \E last \in ToSet(from) \cup {tail(m)} :
      \E before \in Ends(l) \ ToSet(Walk(heap.next, first, last, Cardinality(Elem))) :
        /\ heap' = list_splice(heap, before, first, last)
        /\ op' = [fn |-> "splice", l |-> l, before |-> Named(before), m |-> m,
                  first |-> first, last |-> Named(last)]

reverse(l) == heap' = list_reverse(heap, l) /\ op' = [fn |-> "reverse", l |-> l]

sort(l) == heap' = list_sort(heap, l, key) /\ op' = [fn |-> "sort", l |-> l]

\* Called on a sorted list only.
insert_ordered(l) ==
  /\ \A i \in 1 .. Len(Forward(l)) - 1 : ~ less(key, Forward(l)[i + 1], Forward(l)[i])
  /\ \E e \in Free : /\ heap' = list_insert_ordered(heap, l, e, key)
                     /\ op' = [fn |-> "insert_ordered", l |-> l, e |-> e]

unique(l, dup) ==
  /\ heap' = list_unique(heap, l, dup, key)
  /\ op' = [fn |-> "unique", l |-> l, dup |-> dup]

Next ==
  /\ \E l \in List :
       \/ insert(l) \/ push_front(l) \/ push_back(l)
       \/ remove(l) \/ pop_front(l) \/ pop_back(l)
       \/ \E m \in List : splice(l, m)
       \/ reverse(l) \/ sort(l) \/ insert_ordered(l)
       \/ \E dup \in (List \ {l}) \cup {Null} : unique(l, dup)
  /\ UNCHANGED key

Spec == Init /\ [][Next]_vars

-----------------------------------------------------------------------------
\* Whatever was done to them, every list reads backwards what it reads forwards,
\* and no two lists share an element.
WellLinked ==
  /\ \A l \in List : Backward(l) = Reverse(Forward(l))
  /\ \A l \in List : IsInjective(Forward(l))
  /\ \A l, m \in List : l # m => On(l) \cap On(m) = {}

\* list_max() and list_min() return the earliest of several extreme elements,
\* as their comments say, and the tail of an empty list.
ExtremesEarliest ==
  \A l \in List :
    LET s == Forward(l)
        max == list_max(heap, l, key)
        min == list_min(heap, l, key)
    IN IF s = <<>> THEN max = tail(l) /\ min = tail(l)
       ELSE /\ \E i \in DOMAIN s : /\ s[i] = max
                                   /\ \A j \in DOMAIN s : key[s[j]] <= key[max]
                                   /\ \A j \in 1 .. i - 1 : key[s[j]] < key[max]
            /\ \E i \in DOMAIN s : /\ s[i] = min
                                   /\ \A j \in DOMAIN s : key[s[j]] >= key[min]
                                   /\ \A j \in 1 .. i - 1 : key[s[j]] > key[min]

S == INSTANCE ListSpec WITH lists <- [l \in List |-> Forward(l)]

\* Every call does to the sequences what list.h says of that call, and returns
\* what it says: in particular list_sort() is a stable sort, list_unique() keeps
\* the first of its equals, and list_insert_ordered() keeps the order.
ImplementsListSpec == S!Spec

\* The links are sound and the searches over them find what they should.
Inv == WellLinked /\ ExtremesEarliest
=============================================================================
