------------------------------- MODULE AllList -------------------------------
(***************************************************************************)
(* all_list of threads/thread.c: the threads put on it by init_thread(),   *)
(* which runs with interrupts on and so may be preempted between any two   *)
(* stores of list_insert(), and taken off it by thread_exit(), which runs  *)
(* with interrupts off, as thread_foreach() does.                          *)
(***************************************************************************)
EXTENDS Naturals, Sequences, FiniteSets

CONSTANTS Thread, initial_thread, NoThread, Null, all_list

L == INSTANCE ListOps WITH Elem <- Thread, List <- {all_list}

VARIABLES
  heap,    \* the allelem pointers and all_list's sentinels
  stage,   \* how far a thread has come: on its way into the list, there, gone
  making   \* the thread whose init_thread() a thread is executing

vars == <<heap, stage, making>>

tail == L!tail(all_list)

Stages == {"none", "next", "link", "last", "live", "gone"}

Init ==
  /\ heap = L!list_insert(L!list_init, tail, initial_thread)
  /\ stage = [t \in Thread |-> IF t = initial_thread THEN "live" ELSE "none"]
  /\ making = [t \in Thread |-> NoThread]

Goto(c, s) == stage' = [stage EXCEPT ![c] = s]

\* elem->prev = before->prev;
insert_prev(u) ==
  /\ stage[u] = "live" /\ making[u] = NoThread
  /\ \E c \in Thread :
       /\ stage[c] = "none"
       /\ heap' = [heap EXCEPT !.prev[c] = heap.prev[tail]]
       /\ Goto(c, "next")
       /\ making' = [making EXCEPT ![u] = c]

\* elem->next = before;
insert_next(u) ==
  LET c == making[u] IN
  /\ c # NoThread
  /\ stage[c] = "next"
  /\ heap' = [heap EXCEPT !.next[c] = tail]
  /\ Goto(c, "link")
  /\ UNCHANGED making

\* before->prev->next = elem;  before->prev is read again, as the statement says.
\* A build that keeps the value it read for the first store has more ways to
\* lose a thread, not fewer.
insert_link(u) ==
  LET c == making[u] IN
  /\ c # NoThread
  /\ stage[c] = "link"
  /\ heap' = [heap EXCEPT !.next[heap.prev[tail]] = c]
  /\ Goto(c, "last")
  /\ UNCHANGED making

\* before->prev = elem;  Then thread_create() goes on and unblocks the thread.
insert_last(u) ==
  LET c == making[u] IN
  /\ c # NoThread
  /\ stage[c] = "last"
  /\ heap' = [heap EXCEPT !.prev[tail] = c]
  /\ Goto(c, "live")
  /\ making' = [making EXCEPT ![u] = NoThread]

thread_exit(t) ==
  /\ stage[t] = "live" /\ making[t] = NoThread
  /\ heap' = L!list_remove(heap, t)
  /\ Goto(t, "gone")
  /\ UNCHANGED making

Next ==
  \E t \in Thread :
    insert_prev(t) \/ insert_next(t) \/ insert_link(t) \/ insert_last(t)
      \/ thread_exit(t)

Spec == Init /\ [][Next]_vars

-----------------------------------------------------------------------------
\* The threads thread_foreach() calls its function on.
thread_foreach ==
  LET w == L!Walk(heap.next, L!list_begin(heap, all_list), tail, Cardinality(Thread))
  IN {w[i] : i \in DOMAIN w}

\* thread.c:333, "Invoke function 'func' on all threads": thread_foreach()
\* reaches every thread that runs, so that the alarm clock, which walks all_list,
\* wakes every sleeper.
ForeachReachesAll == \A t \in Thread : stage[t] = "live" => t \in thread_foreach
=============================================================================
