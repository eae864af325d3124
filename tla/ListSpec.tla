------------------------------ MODULE ListSpec ------------------------------
(***************************************************************************)
(* What list.h and the comments of list.c promise: lists are sequences of  *)
(* elements, an element is on at most one of them, and every call does to  *)
(* the sequences what is said of the function called.  A step is one call, *)
(* and op' says which.  The end of a list is Null.                         *)
(***************************************************************************)
EXTENDS SequencesExt

CONSTANTS Elem, List, Null

VARIABLES
  lists,  \* the sequences
  key,    \* what the callers' less() compares
  op      \* the last call, with its arguments and what it returned

Free == {e \in Elem : \A l \in List : e \notin ToSet(lists[l])}

\* The position of e in s, and what s has there.
Pos(s, e) == IF e = Null THEN Len(s) + 1 ELSE CHOOSE i \in DOMAIN s : s[i] = e
At(s, i) == IF i \in DOMAIN s THEN s[i] ELSE Null

\* s with ss put in before position i, and without positions i to j.
Put(s, i, ss) == SubSeq(s, 1, i - 1) \o ss \o SubSeq(s, i, Len(s))
Cut(s, i, j) == SubSeq(s, 1, i - 1) \o SubSeq(s, j + 1, Len(s))

\* The position of s[i] in the stable order of the keys.
Rank(s, i) ==
  Cardinality({j \in DOMAIN s : \/ key[s[j]] < key[s[i]]
                                \/ key[s[j]] = key[s[i]] /\ j <= i})

Sorted(s) == [k \in DOMAIN s |-> s[CHOOSE i \in DOMAIN s : Rank(s, i) = k]]

\* The positions of s whose element repeats the one before.
Repeats(s) == {i \in 2 .. Len(s) : key[s[i]] = key[s[i - 1]]}
Keep(s, P) ==
  [k \in 1 .. Cardinality(P) |-> s[CHOOSE i \in P : Cardinality({j \in P : j <= i}) = k]]

Init ==
  /\ lists = [l \in List |-> <<>>]
  /\ key \in [Elem -> 0 .. 1]
  /\ op = [fn |-> "none"]

-----------------------------------------------------------------------------
\* list o.l becomes s, and nothing else changes.
Becomes(o, s) == lists' = [lists EXCEPT ![o.l] = s]

insert(o) ==
  /\ o.fn = "insert" /\ o.e \in Free
  /\ Becomes(o, Put(lists[o.l], Pos(lists[o.l], o.before), <<o.e>>))

push_front(o) == o.fn = "push_front" /\ o.e \in Free /\ Becomes(o, <<o.e>> \o lists[o.l])

push_back(o) == o.fn = "push_back" /\ o.e \in Free /\ Becomes(o, Append(lists[o.l], o.e))

\* The element that followed is returned.
remove(o) ==
  LET s == lists[o.l]
      i == Pos(s, o.e)
  IN  o.fn = "remove" /\ Becomes(o, Cut(s, i, i)) /\ o.ret = At(s, i + 1)

pop_front(o) == o.fn = "pop_front" /\ lists[o.l] = <<o.ret>> \o lists'[o.l]
                                   /\ Becomes(o, lists'[o.l])

pop_back(o) == o.fn = "pop_back" /\ lists[o.l] = Append(lists'[o.l], o.ret)
                                 /\ Becomes(o, lists'[o.l])

\* The elements from first up to last leave their list, and go before `before'.
splice(o) ==
  LET s    == lists[o.m]
      i    == Pos(s, o.first)
      j    == Pos(s, o.last) - 1
      left == [lists EXCEPT ![o.m] = Cut(s, i, j)]
  IN  /\ o.fn = "splice"
      /\ lists' = [left EXCEPT ![o.l] = Put(@, Pos(@, o.before), SubSeq(s, i, j))]

reverse(o) == o.fn = "reverse" /\ Becomes(o, Reverse(lists[o.l]))

sort(o) == o.fn = "sort" /\ Becomes(o, Sorted(lists[o.l]))

\* After the elements that are not greater; the list was sorted before.
insert_ordered(o) ==
  LET s == lists[o.l]
      i == 1 + Cardinality({j \in DOMAIN s : key[s[j]] <= key[o.e]})
  IN  /\ o.fn = "insert_ordered" /\ o.e \in Free /\ s = Sorted(s)
      /\ Becomes(o, Put(s, i, <<o.e>>))

\* All but the first of adjacent equals go, to the end of o.dup if there is one.
unique(o) ==
  LET s    == lists[o.l]
      kept == [lists EXCEPT ![o.l] = Keep(s, DOMAIN s \ Repeats(s))]
  IN  /\ o.fn = "unique"
      /\ lists' = IF o.dup = Null THEN kept
                  ELSE [kept EXCEPT ![o.dup] = @ \o Keep(s, Repeats(s))]

Next ==
  /\ \/ insert(op') \/ push_front(op') \/ push_back(op')
     \/ remove(op') \/ pop_front(op') \/ pop_back(op') \/ splice(op')
     \/ reverse(op') \/ sort(op') \/ insert_ordered(op') \/ unique(op')
  /\ UNCHANGED key

Spec == Init /\ [][Next]_<<lists, key, op>>
=============================================================================
