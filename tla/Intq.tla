-------------------------------- MODULE Intq --------------------------------
(***************************************************************************)
(* The interrupt queue of devices/intq.c: a circular buffer with one       *)
(* waiting thread for each of its two conditions.  A queue is a record of  *)
(* the fields of struct intq; blocking is left to the module that uses it. *)
(***************************************************************************)
EXTENDS Integers, Sequences

CONSTANTS BUFSIZE,  \* INTQ_BUFSIZE
          NULL      \* no thread waits

\* One position is never used, so the queue of the code (INTQ_BUFSIZE is 64) has
\* at least two.
ASSUME IntqAssumption == BUFSIZE \in Nat /\ BUFSIZE > 1

intq_init == [buf |-> [i \in 0 .. BUFSIZE - 1 |-> 0], head |-> 0, tail |-> 0,
              not_full |-> NULL, not_empty |-> NULL]

\* The position after pos.
next(pos) == (pos + 1) % BUFSIZE

intq_empty(q) == q.head = q.tail

intq_full(q) == next(q.head) = q.tail

\* The byte intq_getc returns.
front(q) == q.buf[q.tail]

\* The queue intq_getc leaves; signal (not_full).
get(q) == [q EXCEPT !.tail = next(@), !.not_full = NULL]

\* The queue intq_putc leaves; signal (not_empty).
put(q, byte) == [q EXCEPT !.buf[q.head] = byte, !.head = next(@), !.not_empty = NULL]

\* The bytes in the queue, oldest first.
Contents(q) ==
    [i \in 1 .. (q.head - q.tail) % BUFSIZE |-> q.buf[(q.tail + i - 1) % BUFSIZE]]
=============================================================================
