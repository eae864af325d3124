------------------------------- MODULE Queues -------------------------------
(***************************************************************************)
(* The lists of lib/kernel/list.c as their users see them: sequences that  *)
(* list_push_back() extends, list_pop_front() shortens and list_remove()   *)
(* takes an element out of.                                                *)
(***************************************************************************)
EXTENDS Naturals, Sequences

\* The elements of a list.
Elems(s) == {s[i] : i \in DOMAIN s}

\* No element is on the list twice.
Injective(s) == \A i, j \in DOMAIN s : s[i] = s[j] => i = j

\* list_remove() of the element that holds x.
list_remove(s, x) ==
  LET k == CHOOSE i \in DOMAIN s : s[i] = x IN
  [i \in 1 .. Len(s) - 1 |-> IF i < k THEN s[i] ELSE s[i + 1]]
=============================================================================
