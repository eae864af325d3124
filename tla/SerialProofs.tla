---------------------------- MODULE SerialProofs ----------------------------
(***************************************************************************)
(* Theorems about Serial, for queues of any size, any number of bytes and  *)
(* any sets of writers and readers.                                        *)
(***************************************************************************)
EXTENDS Serial, TLAPS

-----------------------------------------------------------------------------
(* The ring buffer. *)

Position == 0 .. BUFSIZE - 1

\* The number of bytes between tail and head, and the position of the i-th.
Distance(h, t) == (h - t) % BUFSIZE

Place(t, i) == (t + i - 1) % BUFSIZE

\* A position has one successor, the last one's being the first.
LEMMA NextFacts ==
    ASSUME NEW p \in Position
    PROVE  /\ next(p) = IF p = BUFSIZE - 1 THEN 0 ELSE p + 1
           /\ next(p) \in Position
           /\ next(p) # p
BY IntqAssumption, SMTT(30) DEF next, Position

\* The two remainders as differences and sums.
LEMMA RingFacts ==
    ASSUME NEW h \in Position, NEW t \in Position
    PROVE  /\ Distance(h, t) = IF h >= t THEN h - t ELSE h - t + BUFSIZE
           /\ Distance(h, t) \in Position
           /\ Distance(h, t) = 0 <=> h = t
           /\ Distance(h, t) = BUFSIZE - 1 <=> next(h) = t
           /\ \A i \in 1 .. BUFSIZE :
                 /\ Place(t, i) = IF t + i - 1 < BUFSIZE THEN t + i - 1
                                  ELSE t + i - 1 - BUFSIZE
                 /\ Place(t, i) \in Position
<1>1. Distance(h, t) = IF h >= t THEN h - t ELSE h - t + BUFSIZE
    BY IntqAssumption, SMTT(30) DEF Distance, Position
<1>2. \A i \in 1 .. BUFSIZE :
          Place(t, i) = IF t + i - 1 < BUFSIZE THEN t + i - 1 ELSE t + i - 1 - BUFSIZE
    BY IntqAssumption, SMTT(30) DEF Place, Position
<1>3. next(h) = IF h = BUFSIZE - 1 THEN 0 ELSE h + 1
    BY NextFacts, ZenonT(30)
<1> QED BY <1>1, <1>2, <1>3, IntqAssumption, SMTT(30) DEF Position

\* Advancing head over a free position.
LEMMA RingPut ==
    ASSUME NEW h \in Position, NEW t \in Position, next(h) # t
    PROVE  /\ Distance(next(h), t) = Distance(h, t) + 1
           /\ Distance(h, t) \in 0 .. BUFSIZE - 2
           /\ \A i \in 1 .. Distance(h, t) : Place(t, i) \in Position \ {h}
           /\ Place(t, Distance(h, t) + 1) = h
<1>1. next(h) = (IF h = BUFSIZE - 1 THEN 0 ELSE h + 1) /\ next(h) \in Position
    BY NextFacts, ZenonT(30)
<1>2. \A x \in Position : Distance(x, t) = IF x >= t THEN x - t ELSE x - t + BUFSIZE
    BY RingFacts, ZenonT(30)
<1>3. \A i \in 1 .. BUFSIZE :
          Place(t, i) = IF t + i - 1 < BUFSIZE THEN t + i - 1 ELSE t + i - 1 - BUFSIZE
    BY RingFacts, ZenonT(30)
<1>4. /\ Distance(next(h), t) = Distance(h, t) + 1
      /\ Distance(h, t) \in 0 .. BUFSIZE - 2
    BY <1>1, <1>2, IntqAssumption, SMTT(30) DEF Position
<1>5. Distance(h, t) = IF h >= t THEN h - t ELSE h - t + BUFSIZE
    BY <1>2, ZenonT(30)
<1> QED BY <1>3, <1>4, <1>5, IntqAssumption, SMTT(30) DEF Position

\* Advancing tail over a byte.
LEMMA RingGet ==
    ASSUME NEW h \in Position, NEW t \in Position, h # t
    PROVE  /\ Distance(h, next(t)) = Distance(h, t) - 1
           /\ Distance(h, t) \in 1 .. BUFSIZE - 1
           /\ \A i \in 1 .. Distance(h, t) - 1 : Place(next(t), i) = Place(t, i + 1)
           /\ Place(t, 1) = t
<1>1. next(t) = (IF t = BUFSIZE - 1 THEN 0 ELSE t + 1) /\ next(t) \in Position
    BY NextFacts, ZenonT(30)
<1>2. \A x \in Position : Distance(h, x) = IF h >= x THEN h - x ELSE h - x + BUFSIZE
    BY RingFacts, ZenonT(30)
<1>3. \A x \in Position : \A i \in 1 .. BUFSIZE :
          Place(x, i) = IF x + i - 1 < BUFSIZE THEN x + i - 1 ELSE x + i - 1 - BUFSIZE
    BY RingFacts, ZenonT(30)
<1>4. /\ Distance(h, next(t)) = Distance(h, t) - 1
      /\ Distance(h, t) \in 1 .. BUFSIZE - 1
    BY <1>1, <1>2, IntqAssumption, SMTT(30) DEF Position
<1>5. Place(t, 1) = t
    BY <1>3, IntqAssumption, SMTT(30) DEF Position
<1>6. \A i \in 1 .. Distance(h, t) - 1 : Place(next(t), i) = Place(t, i + 1)
    BY <1>1, <1>3, <1>4, IntqAssumption, SMTT(30) DEF Position
<1> QED BY <1>4, <1>5, <1>6, ZenonT(30)

-----------------------------------------------------------------------------
(* The queue over the ring buffer. *)

\* The fields of a queue.
LEMMA QueueFields ==
    ASSUME NEW n \in Nat, NEW q \in Queue(n)
    PROVE  /\ q.head \in Position /\ q.tail \in Position
           /\ q.buf \in [Position -> 0 .. n]
           /\ q.not_full \in Thread \cup {NULL} /\ q.not_empty \in Thread \cup {NULL}
           /\ q = [buf |-> q.buf, head |-> q.head, tail |-> q.tail,
                   not_full |-> q.not_full, not_empty |-> q.not_empty]
BY DEF Queue, Position

\* The operations of a queue keep its type.
LEMMA QueueAssigned ==
    ASSUME NEW n \in Nat, NEW q \in Queue(n), NEW x \in [Position -> 0 .. n],
           NEW y \in Position, NEW z \in Thread \cup {NULL}
    PROVE  /\ [q EXCEPT !.buf = x, !.head = y, !.not_empty = z] \in Queue(n)
           /\ [q EXCEPT !.tail = y, !.not_full = z] \in Queue(n)
           /\ [q EXCEPT !.not_full = z] \in Queue(n)
           /\ [q EXCEPT !.not_empty = z] \in Queue(n)
BY ZenonT(30) DEF Queue, Position

\* A function on 1 .. k is a sequence.
LEMMA FunctionIsSeq ==
    ASSUME NEW S, NEW k \in Nat, NEW f \in [1 .. k -> S]
    PROVE  f \in Seq(S) /\ Len(f) = k
OBVIOUS

\* The contents are a sequence of the bytes from tail on.
LEMMA ContentsFacts ==
    ASSUME NEW n \in Nat, NEW q \in Queue(n)
    PROVE  /\ Contents(q) \in Seq(0 .. n)
           /\ Len(Contents(q)) = Distance(q.head, q.tail)
           /\ \A i \in 1 .. Distance(q.head, q.tail) :
                 Contents(q)[i] = q.buf[Place(q.tail, i)]
           /\ intq_empty(q) => Contents(q) = <<>>
<1> DEFINE k == Distance(q.head, q.tail)
<1>1. q.head \in Position /\ q.tail \in Position /\ q.buf \in [Position -> 0 .. n]
    BY QueueFields, ZenonT(30)
<1>2. Contents(q) = [i \in 1 .. k |-> q.buf[Place(q.tail, i)]]
    BY ZenonT(30) DEF Contents, Distance, Place
<1>3. k \in Position /\ \A i \in 1 .. BUFSIZE : Place(q.tail, i) \in Position
    BY <1>1, RingFacts, ZenonT(30)
<1>4. intq_empty(q) => k = 0
    BY <1>1, RingFacts, ZenonT(30) DEF intq_empty
<1> HIDE DEF k
<1>5. k \in Nat /\ \A i \in 1 .. k : i \in 1 .. BUFSIZE
    BY <1>3, IntqAssumption, SMTT(30) DEF Position
<1>6. Contents(q) \in [1 .. k -> 0 .. n]
    BY <1>1, <1>2, <1>3, <1>5, ZenonT(30)
<1>7. Contents(q) \in Seq(0 .. n) /\ Len(Contents(q)) = k
    BY <1>5, <1>6, FunctionIsSeq, ZenonT(30)
<1>8. intq_empty(q) => Contents(q) = <<>>
    BY <1>4, <1>7, SMTT(30)
<1> QED BY <1>2, <1>7, <1>8, ZenonT(30) DEF k

\* intq_putc() appends a byte to a queue that is not full.
LEMMA PutFacts ==
    ASSUME NEW n \in Nat, NEW q \in Queue(n), NEW b \in 0 .. n, ~intq_full(q)
    PROVE  /\ put(q, b) \in Queue(n)
           /\ Contents(put(q, b)) = Append(Contents(q), b)
           /\ put(q, b).not_full = q.not_full /\ put(q, b).not_empty = NULL
           /\ put(q, b) # q
           /\ ~intq_empty(put(q, b))
<1> DEFINE p == put(q, b)
           k == Distance(q.head, q.tail)
<1>1. /\ q.head \in Position /\ q.tail \in Position /\ q.buf \in [Position -> 0 .. n]
      /\ q.not_full \in Thread \cup {NULL}
    BY QueueFields, ZenonT(30)
<1>2. next(q.head) \in Position /\ next(q.head) # q.head
    BY <1>1, NextFacts, ZenonT(30)
<1>3. [q.buf EXCEPT ![q.head] = b] \in [Position -> 0 .. n]
    BY <1>1, ZenonT(30)
<1>4. /\ p.head = next(q.head) /\ p.tail = q.tail
      /\ p.buf = [q.buf EXCEPT ![q.head] = b]
      /\ p.not_full = q.not_full /\ p.not_empty = NULL
    BY DEF put, Queue
<1>5. p \in Queue(n)
    <2> DEFINE x == [q.buf EXCEPT ![q.head] = b]
               y == next(q.head)
    <2>1. p = [q EXCEPT !.buf = x, !.head = y, !.not_empty = NULL]
        BY SMTT(30) DEF put, Queue
    <2>2. x \in [Position -> 0 .. n] /\ y \in Position /\ NULL \in Thread \cup {NULL}
        BY <1>2, <1>3, ZenonT(30)
    <2> HIDE DEF x, y, p
    <2> QED BY <2>1, <2>2, QueueAssigned, ZenonT(30)
<1>6. /\ p.head = next(q.head) /\ p.tail = q.tail
      /\ p.buf = [q.buf EXCEPT ![q.head] = b]
      /\ p.not_full = q.not_full /\ p.not_empty = NULL
    BY <1>4
<1> HIDE DEF p
<1>7. p # q
    BY <1>2, <1>6, ZenonT(30)
<1>8. next(q.head) # q.tail
    BY ZenonT(30) DEF intq_full
<1>9. /\ Distance(next(q.head), q.tail) = k + 1
      /\ k \in 0 .. BUFSIZE - 2
      /\ \A i \in 1 .. k : Place(q.tail, i) \in Position \ {q.head}
      /\ Place(q.tail, k + 1) = q.head
    BY <1>1, <1>8, RingPut, ZenonT(30)
<1>10. /\ Contents(q) \in Seq(0 .. n) /\ Len(Contents(q)) = k
       /\ Contents(p) \in Seq(0 .. n) /\ Len(Contents(p)) = k + 1
       /\ \A i \in 1 .. k : Contents(q)[i] = q.buf[Place(q.tail, i)]
       /\ \A i \in 1 .. k + 1 : Contents(p)[i] = p.buf[Place(q.tail, i)]
    <2>1. /\ Contents(q) \in Seq(0 .. n) /\ Len(Contents(q)) = k
          /\ \A i \in 1 .. k : Contents(q)[i] = q.buf[Place(q.tail, i)]
        BY ContentsFacts, ZenonT(30)
    <2>2. /\ Contents(p) \in Seq(0 .. n)
          /\ Len(Contents(p)) = Distance(p.head, p.tail)
          /\ \A i \in 1 .. Distance(p.head, p.tail) :
                Contents(p)[i] = p.buf[Place(p.tail, i)]
        BY <1>5, ContentsFacts, ZenonT(30)
    <2>3. Distance(p.head, p.tail) = k + 1 /\ p.tail = q.tail
        BY ONLY <1>6, <1>9, ZenonT(30)
    <2> QED BY ONLY <2>1, <2>2, <2>3, ZenonT(30)
<1> HIDE DEF k
<1>11. k + 1 \in 1 .. k + 1 /\ (\A i \in 1 .. k : i \in 1 .. k + 1) /\ k \in Nat
    BY <1>9
<1>12. /\ \A i \in 1 .. k : Contents(p)[i] = Contents(q)[i]
       /\ Contents(p)[k + 1] = b
    BY <1>1, <1>6, <1>9, <1>10, <1>11, ZenonT(30)
<1>13. Contents(p) = Append(Contents(q), b)
    BY ONLY <1>10, <1>11, <1>12, n \in Nat, b \in 0 .. n, SMTT(30)
<1>14. ~intq_empty(p)
    BY <1>6, <1>8, <1>9, <1>10, <1>11, ContentsFacts, <1>5, SMTT(30)
<1> QED BY <1>5, <1>6, <1>7, <1>13, <1>14, ZenonT(30) DEF p

\* A sequence that is another one without its first element.
LEMMA TailByPlace ==
    ASSUME NEW S, NEW c \in Seq(S), NEW d \in Seq(S), NEW k \in Nat \ {0},
           Len(c) = k, Len(d) = k - 1, \A i \in 1 .. k - 1 : d[i] = c[i + 1]
    PROVE  c # <<>> /\ c[1] = Head(c) /\ d = Tail(c)
OBVIOUS

\* intq_getc() takes the first byte of a queue that is not empty.
LEMMA GetFacts ==
    ASSUME NEW n \in Nat, NEW q \in Queue(n), ~intq_empty(q)
    PROVE  /\ get(q) \in Queue(n)
           /\ Contents(q) # <<>>
           /\ front(q) = Head(Contents(q))
           /\ Contents(get(q)) = Tail(Contents(q))
           /\ get(q).not_full = NULL /\ get(q).not_empty = q.not_empty
           /\ get(q) # q
           /\ ~intq_full(get(q))
<1> DEFINE g == get(q)
           k == Distance(q.head, q.tail)
<1>1. /\ q.head \in Position /\ q.tail \in Position /\ q.buf \in [Position -> 0 .. n]
      /\ q.not_empty \in Thread \cup {NULL}
    BY QueueFields, ZenonT(30)
<1>2. next(q.tail) \in Position /\ next(q.tail) # q.tail
    BY <1>1, NextFacts, ZenonT(30)
<1>3. /\ g.head = q.head /\ g.tail = next(q.tail) /\ g.buf = q.buf
      /\ g.not_full = NULL /\ g.not_empty = q.not_empty
    BY DEF get, Queue
<1>4. g \in Queue(n)
    <2> DEFINE y == next(q.tail)
    <2>1. g = [q EXCEPT !.tail = y, !.not_full = NULL]
        BY SMTT(30) DEF get, Queue
    <2>2. q.buf \in [Position -> 0 .. n] /\ y \in Position /\ NULL \in Thread \cup {NULL}
        BY <1>1, <1>2, ZenonT(30)
    <2> HIDE DEF y, g
    <2> QED BY <2>1, <2>2, QueueAssigned, ZenonT(30)
<1> HIDE DEF g
<1>5. g # q
    BY <1>2, <1>3, ZenonT(30)
<1>6. q.head # q.tail
    BY ZenonT(30) DEF intq_empty
<1>7. /\ Distance(q.head, next(q.tail)) = k - 1
      /\ k \in 1 .. BUFSIZE - 1
      /\ \A i \in 1 .. k - 1 : Place(next(q.tail), i) = Place(q.tail, i + 1)
      /\ Place(q.tail, 1) = q.tail
    BY <1>1, <1>6, RingGet, ZenonT(30)
<1>8. /\ Contents(q) \in Seq(0 .. n) /\ Len(Contents(q)) = k
      /\ Contents(g) \in Seq(0 .. n) /\ Len(Contents(g)) = k - 1
      /\ \A i \in 1 .. k : Contents(q)[i] = q.buf[Place(q.tail, i)]
      /\ \A i \in 1 .. k - 1 : Contents(g)[i] = q.buf[Place(next(q.tail), i)]
    <2>1. /\ Contents(q) \in Seq(0 .. n) /\ Len(Contents(q)) = k
          /\ \A i \in 1 .. k : Contents(q)[i] = q.buf[Place(q.tail, i)]
        BY ContentsFacts, ZenonT(30)
    <2>2. /\ Contents(g) \in Seq(0 .. n)
          /\ Len(Contents(g)) = Distance(g.head, g.tail)
          /\ \A i \in 1 .. Distance(g.head, g.tail) :
                Contents(g)[i] = g.buf[Place(g.tail, i)]
        BY <1>4, ContentsFacts, ZenonT(30)
    <2>3. /\ Distance(g.head, g.tail) = k - 1 /\ g.tail = next(q.tail)
          /\ g.buf = q.buf
        BY ONLY <1>3, <1>7, ZenonT(30)
    <2> QED BY ONLY <2>1, <2>2, <2>3, ZenonT(30)
<1>9. ~intq_full(g)
    <2>1. next(g.head) = g.tail <=> Distance(g.head, g.tail) = BUFSIZE - 1
        <3>1. g.head \in Position /\ g.tail \in Position
            BY <1>1, <1>2, <1>3, ZenonT(30)
        <3> QED BY <3>1, RingFacts, ZenonT(30)
    <2>2. Distance(g.head, g.tail) = k - 1
        BY ONLY <1>3, <1>7, ZenonT(30)
    <2> HIDE DEF k
    <2>3. k - 1 # BUFSIZE - 1
        BY <1>7, IntqAssumption
    <2> QED BY <2>1, <2>2, <2>3, ZenonT(30) DEF intq_full
<1> HIDE DEF k
<1>10. 1 \in 1 .. k /\ (\A i \in 1 .. k - 1 : i + 1 \in 1 .. k) /\ k \in Nat \ {0}
    BY <1>7, IntqAssumption
<1>11. /\ \A i \in 1 .. k - 1 : Contents(g)[i] = Contents(q)[i + 1]
       /\ front(q) = Contents(q)[1]
    BY <1>7, <1>8, <1>10, ZenonT(30) DEF front
<1>12. /\ Contents(q) # <<>> /\ front(q) = Head(Contents(q))
       /\ Contents(g) = Tail(Contents(q))
    BY ONLY <1>8, <1>10, <1>11, TailByPlace, ZenonT(30)
<1> QED BY <1>3, <1>4, <1>5, <1>9, <1>12, ZenonT(30) DEF g

-----------------------------------------------------------------------------
(***************************************************************************)
(* Sequences of bytes.                                                     *)
(***************************************************************************)

\* The bytes of a are numbered 1 to n.
Ordered(a, n) == (\A i \in DOMAIN a : a[i] = i) /\ Len(a) = n

\* A byte moved from the front of one sequence to the end of another.
LEMMA MoveByte ==
    ASSUME NEW S, NEW o \in Seq(S), NEW c \in Seq(S), c # <<>>
    PROVE  Append(o, Head(c)) \o Tail(c) = o \o c
OBVIOUS

\* A byte added at the end.
LEMMA AddByte ==
    ASSUME NEW S, NEW o \in Seq(S), NEW c \in Seq(S), NEW b \in S
    PROVE  o \o Append(c, b) = Append(o \o c, b)
OBVIOUS

\* Nothing is left to follow.
LEMMA EmptyEnd ==
    ASSUME NEW S, NEW o \in Seq(S)
    PROVE  o \o <<>> = o
OBVIOUS

\* The types of the parts.
LEMMA PartTypes ==
    ASSUME NEW S, NEW T, NEW o \in Seq(S), NEW c \in Seq(T), S \subseteq T
    PROVE  o \in Seq(T) /\ o \o c \in Seq(T)
OBVIOUS

\* The byte after the last numbered one.
LEMMA OrderedAppend ==
    ASSUME NEW a \in Seq(Nat), NEW n \in Nat, Ordered(a, n)
    PROVE  Ordered(Append(a, n + 1), n + 1)
BY DEF Ordered

\* The first byte after o has the next number.
LEMMA OrderedHead ==
    ASSUME NEW m \in Nat, NEW o \in Seq(1 .. m), NEW c \in Seq(0 .. m), c # <<>>,
           NEW n, Ordered(o \o c, n)
    PROVE  Head(c) \in 1 .. m
<1>1. Len(o) + 1 \in DOMAIN (o \o c) /\ (o \o c)[Len(o) + 1] = c[1]
    OBVIOUS
<1>2. (o \o c)[Len(o) + 1] = Len(o) + 1
    BY <1>1, ZenonT(30) DEF Ordered
<1>3. Head(c) = c[1] /\ c[1] \in 0 .. m /\ Len(o) \in Nat
    OBVIOUS
<1> QED BY <1>1, <1>2, <1>3

\* The first byte of the second part of a sequence.
LEMMA PartHead ==
    ASSUME NEW S, NEW T, NEW e \in Seq(S), NEW g \in Seq(S), NEW c \in Seq(T), c # <<>>,
           e = g \o c
    PROVE  Head(c) \in S
<1>1. Len(g) + 1 \in DOMAIN e /\ e[Len(g) + 1] = c[1]
    OBVIOUS
<1> QED BY <1>1

-----------------------------------------------------------------------------
(***************************************************************************)
(* The steps.  The order of the bytes is the first thing to come from the  *)
(* queues: each way it is what has left and what is still queued.          *)
(***************************************************************************)

\* What has been accepted from the writers.
Accepted == IF console = NULL THEN sent ELSE sent - 1

TxOrder == Ordered(out \o Contents(txq), Accepted)

RxOrder == entered = got \o Contents(buffer)

\* The writers' side while the machine runs: who has the console lock is printing,
\* and waits only for room.
TxInv ==
    /\ \A w \in Writer : /\ pc[w] # "idle" <=> console = w
                         /\ pc[w] # "lock"
                         /\ mode = "POLL" => pc[w] \in {"idle", "putc"}
                         /\ pc[w] = "wait" => w = txq.not_full /\ intq_full(txq)
    /\ console # NULL => sent > 0
    /\ mode = "POLL" => intq_empty(txq)
    /\ txq.not_full # NULL => txq.not_full \in Writer /\ pc[txq.not_full] = "wait"
    /\ TxOrder

\* The readers' side: who sleeps or was woken has the lock, and waits only for a
\* byte.
RxInv ==
    /\ \A r \in Reader : /\ pc[r] # "putc"
                         /\ pc[r] \in {"wait", "woken"} => lock = r
                         /\ pc[r] = "wait" => r = buffer.not_empty /\ intq_empty(buffer)
    /\ buffer.not_empty # NULL =>
           buffer.not_empty \in Reader /\ pc[buffer.not_empty] = "wait"
    /\ RxOrder

\* The parts of the invariant.
LEMMA Parts ==
    ASSUME IndInv, ~halted
    PROVE  TypeOK /\ TxInv /\ RxInv /\ IerTruthful
<1>1. TypeOK /\ HoldersExact /\ WaitersJustified /\ IerTruthful /\ BytesInOrder
    BY ZenonT(30) DEF IndInv, NoLostInterrupt
<1>2. TxOrder /\ RxOrder
    BY <1>1, ZenonT(30) DEF BytesInOrder, TxOrder, RxOrder, Ordered, Accepted
<1>3. \A w \in Writer : pc[w] = "wait" => w = txq.not_full /\ intq_full(txq)
    <2> SUFFICES ASSUME NEW w \in Writer, pc[w] = "wait"
                 PROVE  w = txq.not_full /\ intq_full(txq)
        OBVIOUS
    <2>1. w \in Thread /\ w \notin Reader /\ w # NULL
        BY SerialAssumption, ZenonT(30) DEF Thread
    <2> QED BY <1>1, <2>1, ZenonT(30) DEF HoldersExact, WaitersJustified
<1>4. \A r \in Reader : pc[r] = "wait" => r = buffer.not_empty /\ intq_empty(buffer)
    <2> SUFFICES ASSUME NEW r \in Reader, pc[r] = "wait"
                 PROVE  r = buffer.not_empty /\ intq_empty(buffer)
        OBVIOUS
    <2>1. r \in Thread /\ r \notin Writer /\ r # NULL
        BY SerialAssumption, ZenonT(30) DEF Thread
    <2> QED BY <1>1, <2>1, ZenonT(30) DEF HoldersExact, WaitersJustified
<1>5. TxInv
    BY <1>1, <1>2, <1>3, ZenonT(30) DEF TxInv, HoldersExact
<1>6. RxInv
    BY <1>1, <1>2, <1>4, ZenonT(30) DEF RxInv, HoldersExact
<1> QED BY <1>1, <1>5, <1>6

\* The invariant from its parts.
LEMMA Whole ==
    ASSUME TypeOK', TxInv', RxInv', IerTruthful', ~halted'
    PROVE  IndInv'
<1>1. HoldersExact'
    BY ZenonT(30) DEF TxInv, RxInv, HoldersExact
<1>2. WaitersJustified'
    BY ZenonT(30) DEF TxInv, RxInv, WaitersJustified, Thread
<1>3. BytesInOrder'
    BY ZenonT(30) DEF TxInv, RxInv, BytesInOrder, TxOrder, RxOrder, Ordered, Accepted
<1> QED BY <1>1, <1>2, <1>3, ZenonT(30) DEF IndInv, NoLostInterrupt

\* The state the driver starts in.
LEMMA InitInv ==
    ASSUME Init
    PROVE  IndInv
<1>1. 0 \in Position /\ \A n \in Nat : 0 \in 0 .. n
    BY IntqAssumption DEF Position
<1>2. \A n \in Nat : intq_init \in Queue(n)
    BY <1>1, ZenonT(30) DEF Queue, intq_init, Position
<1>3. intq_empty(intq_init)
    BY DEF intq_empty, intq_init
<1>4. Contents(intq_init) = <<>>
    BY <1>2, <1>3, SerialAssumption, ContentsFacts, ZenonT(30)
<1>5. TypeOK
    <2>1. ier \subseteq {"XMIT", "RECV"} /\ thre \in BOOLEAN /\ rbr \in 0 .. MaxRx
        BY <1>1, SerialAssumption, ZenonT(30) DEF Init
    <2>2. out \in Seq(1 .. MaxTx) /\ entered \in Seq(1 .. MaxRx) /\ got \in Seq(1 .. MaxRx)
        BY DEF Init
    <2>3. pc \in [Thread -> {"idle", "putc", "wait", "woken", "lock"}]
        BY DEF Init
    <2>4. MaxTx \in Nat /\ MaxRx \in Nat
        BY SerialAssumption
    <2> QED BY <1>1, <1>2, <2>1, <2>2, <2>3, <2>4, ZenonT(30) DEF Init, TypeOK
<1>6. intq_init.not_full = NULL /\ intq_init.not_empty = NULL
    BY DEF intq_init
<1>7. HoldersExact /\ WaitersJustified /\ IerTruthful
    BY <1>3, <1>6, SerialAssumption DEF Init, HoldersExact, WaitersJustified, IerTruthful, Thread
<1>8. <<>> \o <<>> = <<>> /\ Ordered(<<>>, 0)
    BY DEF Ordered
<1>9. BytesInOrder
    BY <1>3, <1>4, <1>8, ZenonT(30) DEF Init, BytesInOrder, Ordered
<1> QED BY <1>5, <1>7, <1>9, ZenonT(30) DEF IndInv, NoLostInterrupt

\* The readers' side is as it was when no step of it was taken.
LEMMA RxQuiet ==
    ASSUME RxInv, buffer' = buffer, lock' = lock, entered' = entered, got' = got,
           \A r \in Reader : pc'[r] = pc[r]
    PROVE  RxInv'
BY ZenonT(30) DEF RxInv, RxOrder

\* The writers' side is as it was when no step of it was taken.
LEMMA TxQuiet ==
    ASSUME TxInv, mode' = mode, txq' = txq, console' = console, sent' = sent, out' = out,
           \A w \in Writer : pc'[w] = pc[w]
    PROVE  TxInv'
BY ZenonT(30) DEF TxInv, TxOrder, Accepted

\* write_ier() keeps the register's type.
LEMMA IerType ==
    ASSUME NEW t, NEW r
    PROVE  ier_of(t, r) \subseteq {"XMIT", "RECV"}
BY ZenonT(30) DEF ier_of

\* Threads are writers or readers.
LEMMA ThreadKinds ==
    /\ MaxTx \in Nat /\ MaxRx \in Nat
    /\ \A w \in Writer : w \in Thread /\ w \notin Reader /\ w # NULL
    /\ \A r \in Reader : r \in Thread /\ r \notin Writer /\ r # NULL
    /\ NULL \in Thread \cup {NULL}
BY SerialAssumption, ZenonT(30) DEF Thread

\* A thread's state is changed.
LEMMA PcStep ==
    ASSUME TypeOK, NEW t \in Thread, NEW v \in {"idle", "putc", "wait", "woken", "lock"},
           pc' = [pc EXCEPT ![t] = v]
    PROVE  /\ pc' \in [Thread -> {"idle", "putc", "wait", "woken", "lock"}]
           /\ pc'[t] = v
           /\ \A u \in Thread : u # t => pc'[u] = pc[u]
BY ZenonT(30) DEF TypeOK

\* A step of the UART by itself.
LEMMA UartStep ==
    ASSUME IndInv, ~halted, uart_ready \/ uart_receive
    PROVE  IndInv'
<1>0. TypeOK /\ TxInv /\ RxInv /\ IerTruthful
    BY Parts, ZenonT(30)
<1>1. /\ mode' = mode /\ txq' = txq /\ out' = out /\ console' = console /\ sent' = sent
      /\ buffer' = buffer /\ lock' = lock /\ entered' = entered /\ got' = got
      /\ ier' = ier /\ pc' = pc /\ failed' = failed /\ halted' = halted
    BY DEF uart_ready, uart_receive, txvars, rxvars
<1>2. thre' \in BOOLEAN /\ rbr' \in 0 .. MaxRx /\ arrived' \in 0 .. MaxRx
    <2>1. thre \in BOOLEAN /\ rbr \in 0 .. MaxRx /\ arrived \in 0 .. MaxRx /\ MaxRx \in Nat
        BY <1>0, SerialAssumption, ZenonT(30) DEF TypeOK
    <2>2. CASE uart_ready
        BY <2>1, <2>2, ZenonT(30) DEF uart_ready
    <2>3. CASE uart_receive
        <3>1. arrived + 1 \in 0 .. MaxRx
            BY <2>1, <2>3 DEF uart_receive
        <3> QED BY <2>1, <2>3, <3>1, ZenonT(30) DEF uart_receive
    <2> QED BY <2>2, <2>3
<1>3. TypeOK'
    BY <1>0, <1>1, <1>2, ZenonT(30) DEF TypeOK
<1>4. TxInv' /\ RxInv'
    BY <1>0, <1>1, TxQuiet, RxQuiet, ZenonT(30)
<1>5. IerTruthful' /\ ~halted'
    BY <1>0, <1>1, ZenonT(30) DEF IerTruthful
<1> QED BY <1>3, <1>4, <1>5, Whole, ZenonT(30)

\* serial_init_queue() leaves polling mode.
LEMMA InitQueueStep ==
    ASSUME IndInv, ~halted, serial_init_queue
    PROVE  IndInv'
<1>0. TypeOK /\ TxInv /\ RxInv /\ IerTruthful
    BY Parts, ZenonT(30)
<1>1. /\ mode' = "QUEUE" /\ ier' = ier_of(txq, buffer)
      /\ txq' = txq /\ out' = out /\ console' = console /\ sent' = sent
      /\ buffer' = buffer /\ lock' = lock /\ entered' = entered /\ got' = got
      /\ thre' = thre /\ rbr' = rbr /\ pc' = pc /\ arrived' = arrived
      /\ failed' = failed /\ halted' = halted
    BY DEF serial_init_queue, write_ier, rxvars
<1>2. TypeOK'
    BY <1>0, <1>1, IerType, ZenonT(30) DEF TypeOK
<1>3. TxInv'
    BY <1>0, <1>1, ZenonT(30) DEF TxInv, TxOrder, Accepted
<1>4. RxInv'
    BY <1>0, <1>1, RxQuiet, ZenonT(30)
<1>5. IerTruthful' /\ ~halted'
    BY <1>1, ZenonT(30) DEF IerTruthful
<1> QED BY <1>2, <1>3, <1>4, <1>5, Whole, ZenonT(30)

\* A writer gets the console lock.
LEMMA AcquireStep ==
    ASSUME IndInv, ~halted, NEW w \in Writer, acquire_console(w)
    PROVE  IndInv'
<1>0. TypeOK /\ TxInv /\ RxInv /\ IerTruthful
    BY Parts, ZenonT(30)
<1>1. /\ pc[w] = "idle" /\ console = NULL /\ sent < MaxTx
      /\ console' = w /\ sent' = sent + 1 /\ pc' = [pc EXCEPT ![w] = "putc"]
      /\ mode' = mode /\ txq' = txq /\ out' = out
      /\ buffer' = buffer /\ lock' = lock /\ entered' = entered /\ got' = got
      /\ ier' = ier /\ thre' = thre /\ rbr' = rbr /\ arrived' = arrived
      /\ failed' = failed /\ halted' = halted
    BY DEF acquire_console, rxvars
<1>2. w \in Thread /\ w \notin Reader /\ w # NULL
    BY ThreadKinds, ZenonT(30)
<1>3. /\ pc' \in [Thread -> {"idle", "putc", "wait", "woken", "lock"}]
      /\ pc'[w] = "putc"
      /\ \A u \in Thread : u # w => pc'[u] = pc[u]
    BY <1>0, <1>1, <1>2, PcStep, ZenonT(30)
<1>4. /\ sent' \in 0 .. MaxTx /\ sent' > 0 /\ sent' - 1 = sent
    <2>1. sent \in 0 .. MaxTx /\ MaxTx \in Nat
        BY <1>0, ThreadKinds, ZenonT(30) DEF TypeOK
    <2> QED BY <1>1, <2>1
<1>5. TypeOK'
    BY <1>0, <1>1, <1>3, <1>4, ZenonT(30) DEF TypeOK
<1>6. TxInv'
    <2>1. \A v \in Writer : pc[v] = "idle" /\ (v # w => pc'[v] = "idle")
        BY <1>0, <1>1, <1>3, ThreadKinds, ZenonT(30) DEF TxInv
    <2>2. txq.not_full = NULL
        BY <1>0, <2>1, ZenonT(30) DEF TxInv
    <2>3. TxOrder'
        BY <1>0, <1>1, <1>2, <1>4, ZenonT(30) DEF TxInv, TxOrder, Accepted
    <2> QED BY <1>0, <1>1, <1>3, <1>4, <2>1, <2>2, <2>3, ZenonT(30) DEF TxInv
<1>7. RxInv'
    BY <1>0, <1>1, <1>2, <1>3, ThreadKinds, RxQuiet, ZenonT(30)
<1>8. IerTruthful' /\ ~halted'
    BY <1>0, <1>1, ZenonT(30) DEF IerTruthful
<1> QED BY <1>5, <1>6, <1>7, <1>8, Whole, ZenonT(30)

\* The holder of the console lock is the only writer under way.
LEMMA SoleWriter ==
    ASSUME TypeOK, TxInv, NEW w \in Writer, pc[w] # "idle"
    PROVE  /\ console = w /\ console # NULL
           /\ sent \in 1 .. MaxTx /\ MaxTx \in Nat /\ sent - 1 \in Nat
           /\ Ordered(out \o Contents(txq), sent - 1)
           /\ \A v \in Writer : v # w => pc[v] = "idle"
           /\ pc[w] # "wait" => txq.not_full = NULL
<1>1. console = w /\ console # NULL
    BY ThreadKinds, ZenonT(30) DEF TxInv
<1>2. sent > 0 /\ sent \in 0 .. MaxTx /\ MaxTx \in Nat
    BY <1>1, ThreadKinds, ZenonT(30) DEF TypeOK, TxInv
<1>3. sent \in 1 .. MaxTx /\ sent - 1 \in Nat
    BY <1>2
<1>4. Ordered(out \o Contents(txq), sent - 1)
    BY <1>1, ZenonT(30) DEF TxInv, TxOrder, Accepted
<1>5. \A v \in Writer : v # w => pc[v] = "idle"
    BY <1>1, ZenonT(30) DEF TxInv
<1>6. pc[w] # "wait" => txq.not_full = NULL
    BY <1>5, ZenonT(30) DEF TxInv
<1> QED BY <1>1, <1>2, <1>3, <1>4, <1>5, <1>6, ZenonT(30)

\* What a byte that is accepted does to the order.
LEMMA AcceptByte ==
    ASSUME TypeOK, NEW a, NEW b, sent \in 1 .. MaxTx,
           a \in Seq(0 .. MaxTx), Ordered(a, sent - 1), b = Append(a, sent)
    PROVE  Ordered(b, sent)
<1>1. MaxTx \in Nat
    BY ThreadKinds
<1>2. a \in Seq(Nat) /\ sent - 1 \in Nat /\ sent = (sent - 1) + 1
    BY <1>1
<1> QED BY <1>2, OrderedAppend

\* A writer whose byte has been accepted returns to the console.
LEMMA WriterReturns ==
    ASSUME TypeOK, TxInv, RxInv, NEW w \in Writer, pc[w] # "idle",
           console' = NULL, sent' = sent, mode' = mode,
           pc' = [pc EXCEPT ![w] = "idle"],
           txq'.not_full = NULL, mode = "POLL" => intq_empty(txq'),
           Ordered(out' \o Contents(txq'), sent),
           buffer' = buffer, lock' = lock, entered' = entered, got' = got
    PROVE  /\ TxInv' /\ RxInv'
           /\ pc' \in [Thread -> {"idle", "putc", "wait", "woken", "lock"}]
<1>1. w \in Thread /\ w \notin Reader
    BY ThreadKinds, ZenonT(30)
<1>2. /\ pc' \in [Thread -> {"idle", "putc", "wait", "woken", "lock"}]
      /\ pc'[w] = "idle"
      /\ \A u \in Thread : u # w => pc'[u] = pc[u]
    BY <1>1, PcStep, ZenonT(30)
<1>3. \A v \in Writer : pc'[v] = "idle" /\ v # NULL
    BY <1>2, SoleWriter, ThreadKinds, ZenonT(30)
<1>4. TxOrder'
    BY ZenonT(30) DEF TxOrder, Accepted
<1>5. TxInv'
    BY <1>3, <1>4, ZenonT(30) DEF TxInv
<1>6. RxInv'
    BY <1>1, <1>2, ThreadKinds, RxQuiet, ZenonT(30)
<1> QED BY <1>2, <1>5, <1>6

\* A polled byte leaves at once.
LEMMA PutcPollStep ==
    ASSUME IndInv, ~halted, NEW w \in Writer, serial_putc_poll(w)
    PROVE  IndInv'
<1>0. TypeOK /\ TxInv /\ RxInv /\ IerTruthful
    BY Parts, ZenonT(30)
<1>1. /\ pc[w] = "putc" /\ mode = "POLL"
      /\ thre' = FALSE /\ out' = Append(out, sent) /\ console' = NULL
      /\ pc' = [pc EXCEPT ![w] = "idle"]
      /\ mode' = mode /\ txq' = txq /\ sent' = sent
      /\ buffer' = buffer /\ lock' = lock /\ entered' = entered /\ got' = got
      /\ ier' = ier /\ rbr' = rbr /\ arrived' = arrived
      /\ failed' = failed /\ halted' = halted
    BY DEF serial_putc_poll, rxvars
<1>2. pc[w] # "idle" /\ pc[w] # "wait"
    BY <1>1
<1>3. /\ sent \in 1 .. MaxTx /\ MaxTx \in Nat
      /\ Ordered(out \o Contents(txq), sent - 1) /\ txq.not_full = NULL
    BY <1>0, <1>2, SoleWriter, ZenonT(30)
<1>4. txq \in Queue(MaxTx) /\ out \in Seq(1 .. MaxTx)
    BY <1>0, ZenonT(30) DEF TypeOK
<1>5. intq_empty(txq) /\ Contents(txq) = <<>>
    BY <1>0, <1>1, <1>3, <1>4, ContentsFacts, ZenonT(30) DEF TxInv
<1>6. out \in Seq(0 .. MaxTx) /\ out' \in Seq(1 .. MaxTx) /\ out \o <<>> = out
      /\ out' \o <<>> = out'
    BY <1>1, <1>3, <1>4
<1>7. Ordered(out' \o Contents(txq'), sent)
    BY <1>0, <1>1, <1>3, <1>5, <1>6, AcceptByte, ZenonT(30)
<1>8. /\ TxInv' /\ RxInv'
      /\ pc' \in [Thread -> {"idle", "putc", "wait", "woken", "lock"}]
    BY <1>0, <1>1, <1>2, <1>3, <1>5, <1>7, WriterReturns, ZenonT(30)
<1>9. TypeOK'
    BY <1>0, <1>1, <1>6, <1>8, ZenonT(30) DEF TypeOK
<1>10. IerTruthful' /\ ~halted'
    BY <1>0, <1>1, ZenonT(30) DEF IerTruthful
<1> QED BY <1>8, <1>9, <1>10, Whole, ZenonT(30)

\* A byte is queued, by a writer that found room or by one that was woken.
LEMMA QueueByteStep ==
    ASSUME IndInv, ~halted, NEW w \in Writer, pc[w] \in {"putc", "woken"}, mode = "QUEUE",
           queue_byte(w),
           UNCHANGED <<mode, sent, rxvars, rbr, arrived, failed, halted>>
    PROVE  IndInv'
<1>0. TypeOK /\ TxInv /\ RxInv /\ IerTruthful
    BY Parts, ZenonT(30)
<1>1. /\ ~intq_full(txq) /\ txq' = put(txq, sent) /\ ier' = ier_of(txq', buffer)
      /\ console' = NULL /\ pc' = [pc EXCEPT ![w] = "idle"]
      /\ thre' = thre /\ out' = out
      /\ mode' = mode /\ sent' = sent
      /\ buffer' = buffer /\ lock' = lock /\ entered' = entered /\ got' = got
      /\ rbr' = rbr /\ arrived' = arrived /\ failed' = failed /\ halted' = halted
    BY DEF queue_byte, write_ier, rxvars
<1>2. pc[w] # "idle" /\ pc[w] # "wait" /\ mode # "POLL"
    OBVIOUS
<1>3. /\ sent \in 1 .. MaxTx /\ MaxTx \in Nat
      /\ Ordered(out \o Contents(txq), sent - 1) /\ txq.not_full = NULL
    BY <1>0, <1>2, SoleWriter, ZenonT(30)
<1>4. txq \in Queue(MaxTx) /\ out \in Seq(1 .. MaxTx)
    BY <1>0, ZenonT(30) DEF TypeOK
<1>5. sent \in 0 .. MaxTx
    BY <1>3
<1>6. /\ txq' \in Queue(MaxTx) /\ Contents(txq') = Append(Contents(txq), sent)
      /\ txq'.not_full = NULL
    BY <1>1, <1>3, <1>4, <1>5, PutFacts, ZenonT(30)
<1>7. Ordered(out' \o Contents(txq'), sent)
    <2>1. Contents(txq) \in Seq(0 .. MaxTx)
        BY <1>3, <1>4, ContentsFacts, ZenonT(30)
    <2>2. out \in Seq(0 .. MaxTx) /\ out \o Contents(txq) \in Seq(0 .. MaxTx)
        BY <1>3, <1>4, <2>1
    <2>3. out \o Append(Contents(txq), sent) = Append(out \o Contents(txq), sent)
        BY ONLY <1>5, <2>1, <2>2, AddByte
    <2>4. out' \o Contents(txq') = Append(out \o Contents(txq), sent)
        BY <1>1, <1>6, <2>3, ZenonT(30)
    <2> QED BY <1>0, <1>3, <2>2, <2>4, AcceptByte, ZenonT(30)
<1>8. /\ TxInv' /\ RxInv'
      /\ pc' \in [Thread -> {"idle", "putc", "wait", "woken", "lock"}]
    BY ONLY <1>0, <1>1, <1>2, <1>6, <1>7, w \in Writer, WriterReturns, ZenonT(30)
<1>9. TypeOK'
    BY <1>0, <1>1, <1>6, <1>8, IerType, ZenonT(30) DEF TypeOK
<1>10. IerTruthful' /\ ~halted'
    <2>1. ier' = ier_of(txq', buffer') /\ ~halted'
        BY ONLY <1>1, ~halted
    <2> QED BY ONLY <2>1, ZenonT(30) DEF IerTruthful
<1> QED BY <1>8, <1>9, <1>10, Whole, ZenonT(30)

\* A full queue is not empty.
LEMMA FullNotEmpty ==
    ASSUME NEW n \in Nat, NEW q \in Queue(n), intq_full(q)
    PROVE  ~intq_empty(q)
<1>1. q.head \in Position
    BY QueueFields, ZenonT(30)
<1>2. next(q.head) # q.head
    BY <1>1, NextFacts, ZenonT(30)
<1> QED BY <1>2, ZenonT(30) DEF intq_full, intq_empty

\* The register depends on whether there is a byte to send and room for one.
LEMMA IerSame ==
    ASSUME NEW t, NEW r, NEW t1, NEW r1,
           intq_empty(t) <=> intq_empty(t1), intq_full(r) <=> intq_full(r1)
    PROVE  ier_of(t, r) = ier_of(t1, r1)
BY ZenonT(30) DEF ier_of

\* A waiter is registered: the bytes stay as they are.
LEMMA RegisterWaiter ==
    ASSUME NEW n \in Nat, NEW q \in Queue(n), NEW t \in Thread
    PROVE  LET p == [q EXCEPT !.not_full = t]
               e == [q EXCEPT !.not_empty = t]
           IN  /\ p \in Queue(n) /\ e \in Queue(n)
               /\ p.not_full = t /\ e.not_empty = t
               /\ Contents(p) = Contents(q) /\ Contents(e) = Contents(q)
               /\ intq_empty(p) <=> intq_empty(q)
               /\ intq_empty(e) <=> intq_empty(q)
               /\ intq_full(p) <=> intq_full(q)
               /\ intq_full(e) <=> intq_full(q)
<1> DEFINE p == [q EXCEPT !.not_full = t]
           e == [q EXCEPT !.not_empty = t]
<1>1. p \in Queue(n) /\ e \in Queue(n)
    <2>1. /\ q.buf \in [Position -> 0 .. n] /\ q.head \in Position
          /\ t \in Thread \cup {NULL}
        BY QueueFields, ZenonT(30)
    <2> QED BY <2>1, QueueAssigned, ZenonT(30)
<1>2. /\ p.not_full = t /\ p.buf = q.buf /\ p.head = q.head /\ p.tail = q.tail
      /\ e.not_empty = t /\ e.buf = q.buf /\ e.head = q.head /\ e.tail = q.tail
    BY DEF Queue
<1> HIDE DEF p, e
<1>3. Contents(p) = Contents(q) /\ Contents(e) = Contents(q)
    BY ONLY <1>2, ZenonT(30) DEF Contents
<1>4. /\ intq_empty(p) <=> intq_empty(q)
      /\ intq_empty(e) <=> intq_empty(q)
      /\ intq_full(p) <=> intq_full(q)
      /\ intq_full(e) <=> intq_full(q)
    BY ONLY <1>2, ZenonT(30) DEF intq_empty, intq_full
<1> QED BY <1>1, <1>2, <1>3, <1>4, ZenonT(30) DEF p, e

\* A writer that finds the queue full goes to sleep.
LEMMA WaitNotFullStep ==
    ASSUME IndInv, ~halted, NEW w \in Writer, pc[w] = "putc", mode = "QUEUE",
           wait_not_full(w),
           UNCHANGED <<mode, sent, rxvars, rbr, arrived, failed, halted>>
    PROVE  IndInv'
<1>0. TypeOK /\ TxInv /\ RxInv /\ IerTruthful
    BY Parts, ZenonT(30)
<1>1. /\ intq_full(txq) /\ txq' = [txq EXCEPT !.not_full = w]
      /\ pc' = [pc EXCEPT ![w] = "wait"]
      /\ ier' = ier /\ thre' = thre /\ out' = out /\ console' = console
      /\ mode' = mode /\ sent' = sent
      /\ buffer' = buffer /\ lock' = lock /\ entered' = entered /\ got' = got
      /\ rbr' = rbr /\ arrived' = arrived /\ failed' = failed /\ halted' = halted
    BY DEF wait_not_full, rxvars
<1>2. pc[w] # "idle" /\ mode' # "POLL"
    BY <1>1
<1>3. /\ console = w /\ console # NULL
      /\ \A v \in Writer : v # w => pc[v] = "idle"
    BY <1>0, <1>2, SoleWriter, ZenonT(30)
<1>4. w \in Thread /\ w \notin Reader
    BY ThreadKinds, ZenonT(30)
<1>5. /\ pc' \in [Thread -> {"idle", "putc", "wait", "woken", "lock"}]
      /\ pc'[w] = "wait"
      /\ \A u \in Thread : u # w => pc'[u] = pc[u]
    BY <1>0, <1>1, <1>4, PcStep, ZenonT(30)
<1>6. txq \in Queue(MaxTx) /\ MaxTx \in Nat
    BY <1>0, ThreadKinds, ZenonT(30) DEF TypeOK
<1>7. /\ txq' \in Queue(MaxTx) /\ txq'.not_full = w
      /\ Contents(txq') = Contents(txq)
      /\ intq_empty(txq') <=> intq_empty(txq)
      /\ intq_full(txq')
    BY <1>1, <1>4, <1>6, RegisterWaiter, ZenonT(30)
<1>8. TypeOK'
    BY <1>0, <1>1, <1>5, <1>7, ZenonT(30) DEF TypeOK
<1>9. TxInv'
    <2>1. TxOrder'
        BY <1>0, <1>1, <1>7, ZenonT(30) DEF TxInv, TxOrder, Accepted
    <2>2. \A v \in Writer : v # w => pc'[v] = "idle"
        BY <1>3, <1>5, ThreadKinds, ZenonT(30)
    <2>3. console' = w /\ (console' # NULL => sent' > 0)
        BY <1>0, <1>1, <1>3, ZenonT(30) DEF TxInv
    <2> QED BY <1>2, <1>5, <1>7, <2>1, <2>2, <2>3, ZenonT(30) DEF TxInv
<1>10. RxInv'
    BY <1>0, <1>1, <1>4, <1>5, ThreadKinds, RxQuiet, ZenonT(30)
<1>11. IerTruthful' /\ ~halted'
    <2>1. ier_of(txq', buffer') = ier_of(txq, buffer)
        <3>1. intq_full(buffer') <=> intq_full(buffer)
            BY <1>1
        <3>2. intq_empty(txq') <=> intq_empty(txq)
            BY <1>7
        <3> QED BY ONLY <3>1, <3>2, IerSame
    <2>2. ier = ier_of(txq, buffer)
        BY <1>0, ZenonT(30) DEF IerTruthful
    <2>3. ier' = ier_of(txq', buffer') /\ ~halted'
        BY <1>1, <2>1, <2>2
    <2> QED BY ONLY <2>3, ZenonT(30) DEF IerTruthful
<1> QED BY <1>8, <1>9, <1>10, <1>11, Whole, ZenonT(30)

\* The oldest byte is polled out to make room.
LEMMA PollOldestStep ==
    ASSUME IndInv, ~halted, NEW w \in Writer, pc[w] = "putc", mode = "QUEUE",
           poll_oldest(w),
           UNCHANGED <<mode, sent, rxvars, rbr, arrived, failed, halted>>
    PROVE  IndInv'
<1>0. TypeOK /\ TxInv /\ RxInv /\ IerTruthful
    BY Parts, ZenonT(30)
<1> DEFINE g == get(txq)
           C == Contents(txq)
<1>1. /\ intq_full(txq) /\ txq' = put(g, sent) /\ ier' = ier_of(txq', buffer)
      /\ out' = Append(out, front(txq))
      /\ console' = NULL /\ pc' = [pc EXCEPT ![w] = "idle"] /\ thre' = FALSE
      /\ mode' = mode /\ sent' = sent
      /\ buffer' = buffer /\ lock' = lock /\ entered' = entered /\ got' = got
      /\ rbr' = rbr /\ arrived' = arrived /\ failed' = failed /\ halted' = halted
    BY DEF poll_oldest, write_ier, rxvars
<1>2. pc[w] # "idle" /\ pc[w] # "wait" /\ mode # "POLL"
    OBVIOUS
<1>3. /\ sent \in 1 .. MaxTx /\ MaxTx \in Nat /\ Ordered(out \o C, sent - 1)
    BY <1>0, <1>2, SoleWriter, ZenonT(30)
<1>4. txq \in Queue(MaxTx) /\ out \in Seq(1 .. MaxTx) /\ C \in Seq(0 .. MaxTx)
    BY <1>0, <1>3, ContentsFacts, ZenonT(30) DEF TypeOK
<1>5. sent \in 0 .. MaxTx
    BY <1>3
<1>6. /\ g \in Queue(MaxTx) /\ C # <<>> /\ front(txq) = Head(C)
      /\ Contents(g) = Tail(C) /\ g.not_full = NULL /\ ~intq_full(g)
    BY <1>1, <1>3, <1>4, FullNotEmpty, GetFacts, ZenonT(30)
<1> HIDE DEF g, C
<1>7. /\ txq' \in Queue(MaxTx) /\ Contents(txq') = Append(Tail(C), sent)
      /\ txq'.not_full = NULL
    <2>1. /\ put(g, sent) \in Queue(MaxTx)
          /\ Contents(put(g, sent)) = Append(Contents(g), sent)
          /\ put(g, sent).not_full = g.not_full
        BY ONLY <1>3, <1>5, <1>6, PutFacts, ZenonT(30)
    <2> QED BY ONLY <1>1, <1>6, <2>1, ZenonT(30)
<1>8. Head(C) \in 1 .. MaxTx
    BY <1>3, <1>4, <1>6, OrderedHead, ZenonT(30)
<1>9. out' \in Seq(1 .. MaxTx) /\ out' = Append(out, Head(C))
    BY <1>1, <1>4, <1>6, <1>8
<1>10. Ordered(out' \o Contents(txq'), sent)
    <2>1. out \o C \in Seq(0 .. MaxTx) /\ Tail(C) \in Seq(0 .. MaxTx)
          /\ out' \in Seq(0 .. MaxTx) /\ out \in Seq(0 .. MaxTx)
        BY <1>3, <1>4, <1>6, <1>9
    <2>2. out' \o Append(Tail(C), sent) = Append(out' \o Tail(C), sent)
        BY ONLY <1>5, <2>1, AddByte
    <2>3. Append(out, Head(C)) \o Tail(C) = out \o C
        BY ONLY <1>4, <1>6, <2>1, MoveByte
    <2>4. out' \o Contents(txq') = Append(out \o C, sent)
        BY <1>7, <1>9, <2>2, <2>3, ZenonT(30)
    <2> QED BY <1>0, <1>3, <2>1, <2>4, AcceptByte, ZenonT(30)
<1>11. /\ TxInv' /\ RxInv'
       /\ pc' \in [Thread -> {"idle", "putc", "wait", "woken", "lock"}]
    BY ONLY <1>0, <1>1, <1>2, <1>7, <1>10, w \in Writer, WriterReturns, ZenonT(30)
<1>12. TypeOK'
    BY <1>0, <1>1, <1>7, <1>9, <1>11, IerType, ZenonT(30) DEF TypeOK
<1>13. IerTruthful' /\ ~halted'
    <2>1. ier' = ier_of(txq', buffer') /\ ~halted'
        BY ONLY <1>1, ~halted
    <2> QED BY ONLY <2>1, ZenonT(30) DEF IerTruthful
<1> QED BY <1>11, <1>12, <1>13, Whole, ZenonT(30)

\* A step of a writer.
LEMMA WriterInv ==
    ASSUME IndInv, ~halted, NEW w \in Writer, acquire_console(w) \/ WriterStep(w)
    PROVE  IndInv'
<1>1. CASE acquire_console(w)
    BY <1>1, AcquireStep
<1>2. CASE serial_putc_poll(w)
    BY <1>2, PutcPollStep
<1>3. CASE serial_putc(w)
    <2>1. /\ pc[w] = "putc" /\ mode = "QUEUE"
          /\ queue_byte(w) \/ wait_not_full(w) \/ poll_oldest(w)
          /\ UNCHANGED <<mode, sent, rxvars, rbr, arrived, failed, halted>>
        BY <1>3, ZenonT(30) DEF serial_putc
    <2> QED BY <2>1, QueueByteStep, WaitNotFullStep, PollOldestStep, ZenonT(30)
<1>4. CASE putc_resume(w)
    <2>1. /\ pc[w] = "woken" /\ queue_byte(w)
          /\ UNCHANGED <<mode, sent, rxvars, rbr, arrived, failed, halted>>
        BY <1>4, ZenonT(30) DEF putc_resume
    <2>2. mode = "QUEUE"
        BY <2>1, Parts, ZenonT(30) DEF TxInv, TypeOK
    <2> QED BY <2>1, <2>2, QueueByteStep, ZenonT(30)
<1> QED BY <1>1, <1>2, <1>3, <1>4 DEF WriterStep

\* The register after serial_notify() is what the queues say.
LEMMA NotifyTruthful ==
    ASSUME TypeOK, IerTruthful, ~halted, serial_notify(buffer'), txq' = txq, mode' = mode,
           halted' = halted
    PROVE  IerTruthful' /\ ~halted' /\ ier' \subseteq {"XMIT", "RECV"}
<1>1. CASE mode = "QUEUE"
    <2>1. ier' = ier_of(txq', buffer')
        BY <1>1 DEF serial_notify, write_ier
    <2> QED BY <2>1, IerType, ZenonT(30) DEF IerTruthful
<1>2. CASE mode # "QUEUE"
    <2>1. ier' = ier /\ mode' # "QUEUE"
        BY <1>2 DEF serial_notify
    <2> QED BY <2>1, ZenonT(30) DEF IerTruthful, TypeOK
<1> QED BY <1>1, <1>2

\* A reader takes a byte and returns, with the lock released if it had waited.
LEMMA KeyTaken ==
    ASSUME IndInv, ~halted, NEW r \in Reader, take_key(r),
           \/ pc[r] = "idle" /\ lock' = lock
           \/ pc[r] = "woken" /\ lock' = NULL,
           UNCHANGED <<mode, out, console, sent, entered, thre, rbr, arrived, failed, halted>>
    PROVE  IndInv'
<1>0. TypeOK /\ TxInv /\ RxInv /\ IerTruthful
    BY Parts, ZenonT(30)
<1> DEFINE C == Contents(buffer)
<1>1. /\ ~intq_empty(buffer) /\ got' = Append(got, front(buffer)) /\ buffer' = get(buffer)
      /\ txq' = txq /\ serial_notify(buffer') /\ pc' = [pc EXCEPT ![r] = "idle"]
      /\ mode' = mode /\ out' = out /\ console' = console /\ sent' = sent
      /\ entered' = entered /\ thre' = thre /\ rbr' = rbr /\ arrived' = arrived
      /\ failed' = failed /\ halted' = halted
    BY DEF take_key
<1>2. r \in Thread /\ r \notin Writer /\ r # NULL /\ MaxRx \in Nat
    BY ThreadKinds, ZenonT(30)
<1>3. /\ pc' \in [Thread -> {"idle", "putc", "wait", "woken", "lock"}]
      /\ pc'[r] = "idle"
      /\ \A u \in Thread : u # r => pc'[u] = pc[u]
    BY <1>0, <1>1, <1>2, PcStep, ZenonT(30)
<1>4. /\ buffer \in Queue(MaxRx) /\ got \in Seq(1 .. MaxRx) /\ entered \in Seq(1 .. MaxRx)
      /\ lock \in Reader \cup {NULL}
    BY <1>0, ZenonT(30) DEF TypeOK
<1>5. /\ get(buffer) \in Queue(MaxRx) /\ C # <<>> /\ front(buffer) = Head(C)
      /\ Contents(get(buffer)) = Tail(C) /\ get(buffer).not_empty = buffer.not_empty
      /\ C \in Seq(0 .. MaxRx)
    BY <1>1, <1>2, <1>4, ContentsFacts, GetFacts, ZenonT(30)
<1>6. entered = got \o C
    BY <1>0, ZenonT(30) DEF RxInv, RxOrder
<1> HIDE DEF C
<1>7. Head(C) \in 1 .. MaxRx
    BY ONLY <1>4, <1>5, <1>6, PartHead, ZenonT(30)
<1>8. got' = Append(got, Head(C)) /\ got' \in Seq(1 .. MaxRx)
    BY ONLY <1>1, <1>4, <1>5, <1>7
<1>9. lock' \in Reader \cup {NULL}
    BY <1>4, ZenonT(30)
<1>10. IerTruthful' /\ ~halted' /\ ier' \subseteq {"XMIT", "RECV"}
    BY <1>0, <1>1, NotifyTruthful, ZenonT(30)
<1>11. buffer' \in Queue(MaxRx) /\ Contents(buffer') = Tail(C)
       /\ buffer'.not_empty = buffer.not_empty
    BY ONLY <1>1, <1>5, ZenonT(30)
<1>12. TypeOK'
    BY <1>0, <1>1, <1>3, <1>8, <1>9, <1>10, <1>11, ZenonT(30) DEF TypeOK
<1>13. TxInv'
    BY <1>0, <1>1, <1>2, <1>3, ThreadKinds, TxQuiet, ZenonT(30)
<1>14. RxInv'
    <2>1. RxOrder'
        <3>1. got \in Seq(0 .. MaxRx)
            BY ONLY <1>2, <1>4
        <3>2. Append(got, Head(C)) \o Tail(C) = got \o C
            BY ONLY <1>5, <3>1, MoveByte
        <3> QED BY ONLY <1>1, <1>6, <1>8, <1>11, <3>2, ZenonT(30) DEF RxOrder
    <2>2. \A u \in Reader : pc[u] # "wait"
        BY <1>0, <1>1, ZenonT(30) DEF RxInv
    <2>3. buffer'.not_empty = NULL
        BY <1>0, <1>11, <2>2, ZenonT(30) DEF RxInv
    <2>4. \A u \in Reader : /\ pc'[u] # "putc" /\ pc'[u] # "wait"
                            /\ pc'[u] = "woken" => lock' = u
        <3> SUFFICES ASSUME NEW u \in Reader
                     PROVE  /\ pc'[u] # "putc" /\ pc'[u] # "wait"
                            /\ pc'[u] = "woken" => lock' = u
            OBVIOUS
        <3>1. CASE u = r
            BY <1>3, <3>1, ZenonT(30)
        <3>2. CASE u # r
            <4>1. pc'[u] = pc[u] /\ pc[u] # "putc" /\ pc[u] # "wait"
                  /\ (pc[u] = "woken" => lock = u) /\ (pc[r] = "woken" => lock = r)
                BY <1>0, <1>3, <2>2, <3>2, ThreadKinds, ZenonT(30) DEF RxInv
            <4> QED BY <3>2, <4>1, ZenonT(30)
        <3> QED BY <3>1, <3>2
    <2> QED BY <2>1, <2>3, <2>4, ZenonT(30) DEF RxInv
<1> QED BY <1>10, <1>12, <1>13, <1>14, Whole, ZenonT(30)

\* A reader that has the lock, and nobody else asleep, goes to sleep.
LEMMA KeyWait ==
    ASSUME IndInv, ~halted, NEW r \in Reader, wait_not_empty(r),
           pc[r] \in {"idle", "lock", "woken"}, lock = NULL \/ lock = r,
           UNCHANGED <<txvars, entered, got, ier, thre, rbr, arrived, failed, halted>>
    PROVE  IndInv'
<1>0. TypeOK /\ TxInv /\ RxInv /\ IerTruthful
    BY Parts, ZenonT(30)
<1>1. /\ intq_empty(buffer) /\ lock' = r /\ buffer' = [buffer EXCEPT !.not_empty = r]
      /\ pc' = [pc EXCEPT ![r] = "wait"]
      /\ mode' = mode /\ txq' = txq /\ out' = out /\ console' = console /\ sent' = sent
      /\ entered' = entered /\ got' = got /\ ier' = ier /\ thre' = thre /\ rbr' = rbr
      /\ arrived' = arrived /\ failed' = failed /\ halted' = halted
    BY DEF wait_not_empty, txvars
<1>2. r \in Thread /\ r \notin Writer /\ r # NULL /\ MaxRx \in Nat
    BY ThreadKinds, ZenonT(30)
<1>3. /\ pc' \in [Thread -> {"idle", "putc", "wait", "woken", "lock"}]
      /\ pc'[r] = "wait"
      /\ \A u \in Thread : u # r => pc'[u] = pc[u]
    BY <1>0, <1>1, <1>2, PcStep, ZenonT(30)
<1>4. buffer \in Queue(MaxRx)
    BY <1>0, ZenonT(30) DEF TypeOK
<1>5. /\ buffer' \in Queue(MaxRx) /\ buffer'.not_empty = r
      /\ Contents(buffer') = Contents(buffer) /\ intq_empty(buffer')
      /\ intq_full(buffer') <=> intq_full(buffer)
    BY <1>1, <1>2, <1>4, RegisterWaiter, ZenonT(30)
<1>6. TypeOK'
    BY <1>0, <1>1, <1>3, <1>5, ZenonT(30) DEF TypeOK
<1>7. TxInv'
    BY <1>0, <1>1, <1>2, <1>3, ThreadKinds, TxQuiet, ZenonT(30)
<1>8. RxInv'
    <2>1. RxOrder'
        BY <1>0, <1>1, <1>5, ZenonT(30) DEF RxInv, RxOrder
    <2>2. \A u \in Reader : u # r => /\ pc'[u] # "putc"
                                     /\ pc'[u] \notin {"wait", "woken"}
        BY <1>0, <1>3, ThreadKinds, ZenonT(30) DEF RxInv
    <2> QED BY <1>1, <1>3, <1>5, <2>1, <2>2, ZenonT(30) DEF RxInv
<1>9. IerTruthful' /\ ~halted'
    <2>1. intq_empty(txq') <=> intq_empty(txq)
        BY <1>1
    <2>2. ier_of(txq', buffer') = ier_of(txq, buffer)
        BY ONLY <1>5, <2>1, IerSame
    <2>3. mode' = mode /\ ier' = ier /\ ~halted'
        BY <1>1
    <2> QED BY ONLY <1>0, ~halted, <2>2, <2>3, ZenonT(30) DEF IerTruthful
<1> QED BY <1>6, <1>7, <1>8, <1>9, Whole, ZenonT(30)

\* A step that changes nothing but the state of one reader, or the flag that an
\* assertion failed.
LEMMA ReaderAside ==
    ASSUME IndInv, ~halted, NEW r \in Reader, pc[r] = "idle" \/ pc[r] = "lock",
           pc' = pc \/ pc' = [pc EXCEPT ![r] = "lock"], failed' \in BOOLEAN,
           UNCHANGED <<txvars, rxvars, ier, thre, rbr, arrived, halted>>
    PROVE  IndInv'
<1>0. TypeOK /\ TxInv /\ RxInv /\ IerTruthful
    BY Parts, ZenonT(30)
<1>1. /\ mode' = mode /\ txq' = txq /\ out' = out /\ console' = console /\ sent' = sent
      /\ buffer' = buffer /\ lock' = lock /\ entered' = entered /\ got' = got
      /\ ier' = ier /\ thre' = thre /\ rbr' = rbr /\ arrived' = arrived /\ halted' = halted
    BY DEF txvars, rxvars
<1>2. r \in Thread /\ r \notin Writer
    BY ThreadKinds, ZenonT(30)
<1>3. /\ pc' \in [Thread -> {"idle", "putc", "wait", "woken", "lock"}]
      /\ \A u \in Thread : u # r => pc'[u] = pc[u]
      /\ pc'[r] \in {"idle", "lock"}
    BY <1>0, <1>2, PcStep, ZenonT(30) DEF TypeOK
<1>4. TypeOK'
    BY <1>0, <1>1, <1>3, ZenonT(30) DEF TypeOK
<1>5. TxInv'
    BY <1>0, <1>1, <1>2, <1>3, ThreadKinds, TxQuiet, ZenonT(30)
<1>6. RxInv'
    <2>1. \A u \in Reader : /\ pc'[u] # "putc"
                            /\ pc'[u] \in {"wait", "woken"} => pc'[u] = pc[u]
        BY <1>0, <1>3, ThreadKinds, ZenonT(30) DEF RxInv
    <2>2. \A u \in Reader : pc[u] = "wait" => pc'[u] = "wait"
        BY <1>3, ThreadKinds, ZenonT(30)
    <2> QED BY <1>0, <1>1, <2>1, <2>2, ZenonT(30) DEF RxInv, RxOrder
<1>7. IerTruthful' /\ ~halted'
    BY ONLY <1>0, <1>1, ~halted, ZenonT(30) DEF IerTruthful
<1> QED BY <1>4, <1>5, <1>6, <1>7, Whole, ZenonT(30)

\* A step of a reader.
LEMMA ReaderInv ==
    ASSUME IndInv, ~halted, NEW r \in Reader, input_getc(r) \/ ReaderStep(r)
    PROVE  IndInv'
<1>1. CASE input_getc(r)
    <2>0. /\ pc[r] = "idle"
          /\ UNCHANGED <<mode, out, console, sent, entered, thre, rbr, arrived, failed, halted>>
        BY <1>1, ZenonT(30) DEF input_getc
    <2>1. CASE take_key(r) /\ UNCHANGED lock
        BY <2>0, <2>1, KeyTaken, ZenonT(30)
    <2>2. CASE lock = NULL /\ wait_not_empty(r) /\ UNCHANGED <<ier, txq, got>>
        <3>1. UNCHANGED <<txvars, entered, got, ier, thre, rbr, arrived, failed, halted>>
            BY <2>0, <2>2 DEF txvars
        <3> QED BY <2>0, <2>2, <3>1, KeyWait, ZenonT(30)
    <2>3. CASE pc' = [pc EXCEPT ![r] = "lock"] /\ UNCHANGED <<lock, buffer, ier, txq, got>>
        <3>1. UNCHANGED <<txvars, rxvars, ier, thre, rbr, arrived, halted>>
            BY <2>0, <2>3 DEF txvars, rxvars
        <3>2. failed' \in BOOLEAN
            BY <2>0, Parts, ZenonT(30) DEF TypeOK
        <3> QED BY <2>0, <2>3, <3>1, <3>2, ReaderAside, ZenonT(30)
    <2> QED BY <1>1, <2>1, <2>2, <2>3, ZenonT(30) DEF input_getc
<1>2. CASE lock_resume(r)
    <2>0. /\ pc[r] = "lock" /\ lock = NULL
          /\ UNCHANGED <<txvars, entered, got, ier, thre, rbr, arrived, halted>>
        BY <1>2, ZenonT(30) DEF lock_resume
    <2>1. CASE wait_not_empty(r) /\ UNCHANGED failed
        <3>1. UNCHANGED <<txvars, entered, got, ier, thre, rbr, arrived, failed, halted>>
            BY <2>0, <2>1
        <3> QED BY <2>0, <2>1, <3>1, KeyWait, ZenonT(30)
    <2>2. CASE failed' = TRUE /\ UNCHANGED <<lock, buffer, pc>>
        <3>1. UNCHANGED <<txvars, rxvars, ier, thre, rbr, arrived, halted>>
            BY <2>0, <2>2 DEF rxvars
        <3>2. pc' = pc /\ failed' \in BOOLEAN
            BY <2>2
        <3> QED BY <2>0, <3>1, <3>2, ReaderAside, ZenonT(30)
    <2> QED BY <1>2, <2>1, <2>2, ZenonT(30) DEF lock_resume
<1>3. CASE getc_resume(r)
    <2>0. /\ pc[r] = "woken"
          /\ UNCHANGED <<mode, out, console, sent, entered, thre, rbr, arrived, failed, halted>>
        BY <1>3, ZenonT(30) DEF getc_resume
    <2>1. CASE lock' = NULL /\ take_key(r)
        BY <2>0, <2>1, KeyTaken, ZenonT(30)
    <2>2. CASE wait_not_empty(r) /\ UNCHANGED <<ier, txq, got>>
        <3>1. UNCHANGED <<txvars, entered, got, ier, thre, rbr, arrived, failed, halted>>
            BY <2>0, <2>2 DEF txvars
        <3>2. lock = r
            BY <2>0, Parts, ZenonT(30) DEF RxInv
        <3> QED BY <2>0, <2>2, <3>1, <3>2, KeyWait, ZenonT(30)
    <2> QED BY <1>3, <2>1, <2>2, ZenonT(30) DEF getc_resume
<1> QED BY <1>1, <1>2, <1>3 DEF ReaderStep

\* A byte enters the input buffer and its waiter is woken.
LEMMA ByteArrives ==
    ASSUME TypeOK, RxInv, NEW b \in 1 .. MaxRx, ~intq_full(buffer),
           buffer' = put(buffer, b), entered' = Append(entered, b), got' = got, lock' = lock,
           \A r \in Reader : pc'[r] = IF r = buffer.not_empty THEN "woken" ELSE pc[r]
    PROVE  /\ RxInv' /\ buffer' \in Queue(MaxRx) /\ entered' \in Seq(1 .. MaxRx)
<1>1. /\ MaxRx \in Nat /\ buffer \in Queue(MaxRx) /\ entered \in Seq(1 .. MaxRx)
      /\ got \in Seq(1 .. MaxRx)
    BY ThreadKinds, ZenonT(30) DEF TypeOK
<1>2. b \in 0 .. MaxRx /\ entered' \in Seq(1 .. MaxRx) /\ got \in Seq(0 .. MaxRx)
    BY <1>1
<1>3. /\ put(buffer, b) \in Queue(MaxRx)
      /\ Contents(put(buffer, b)) = Append(Contents(buffer), b)
      /\ put(buffer, b).not_empty = NULL
      /\ Contents(buffer) \in Seq(0 .. MaxRx)
    BY <1>1, <1>2, PutFacts, ContentsFacts, ZenonT(30)
<1>4. /\ buffer' \in Queue(MaxRx) /\ buffer'.not_empty = NULL
      /\ Contents(buffer') = Append(Contents(buffer), b)
    BY ONLY <1>3, buffer' = put(buffer, b), ZenonT(30)
<1>5. RxOrder'
    <2>1. got \o Append(Contents(buffer), b) = Append(got \o Contents(buffer), b)
        BY ONLY <1>2, <1>3, AddByte
    <2>2. entered = got \o Contents(buffer)
        BY ZenonT(30) DEF RxInv, RxOrder
    <2> QED BY ONLY <1>4, <2>1, <2>2, entered' = Append(entered, b), got' = got, ZenonT(30)
            DEF RxOrder
<1>6. ASSUME NEW r \in Reader
      PROVE  /\ pc'[r] # "putc" /\ pc'[r] # "wait"
             /\ pc'[r] = "woken" => lock' = r
    <2>1. CASE r = buffer.not_empty
        <3>1. pc'[r] = "woken" /\ pc[r] = "wait" /\ lock = r
            BY <2>1, ThreadKinds, ZenonT(30) DEF RxInv
        <3> QED BY <3>1
    <2>2. CASE r # buffer.not_empty
        <3>1. pc'[r] = pc[r]
            BY <2>2, ZenonT(30)
        <3> QED BY <2>2, <3>1, ZenonT(30) DEF RxInv
    <2> QED BY <2>1, <2>2
<1>7. RxInv'
    BY <1>4, <1>5, <1>6, ZenonT(30) DEF RxInv
<1> QED BY <1>2, <1>4, <1>7

\* The first byte of the transmit queue leaves and its waiter is woken.
LEMMA ByteSent ==
    ASSUME TypeOK, TxInv, mode # "POLL", ~intq_empty(txq),
           txq' = get(txq), out' = Append(out, front(txq)),
           mode' = mode, console' = console, sent' = sent,
           \A w \in Writer : pc'[w] = IF w = txq.not_full THEN "woken" ELSE pc[w]
    PROVE  TxInv' /\ txq' \in Queue(MaxTx) /\ out' \in Seq(1 .. MaxTx)
<1> DEFINE C == Contents(txq)
<1>1. /\ MaxTx \in Nat /\ txq \in Queue(MaxTx) /\ out \in Seq(1 .. MaxTx)
    BY ThreadKinds, ZenonT(30) DEF TypeOK
<1>2. /\ get(txq) \in Queue(MaxTx) /\ C # <<>> /\ front(txq) = Head(C)
      /\ Contents(get(txq)) = Tail(C) /\ get(txq).not_full = NULL
      /\ C \in Seq(0 .. MaxTx)
    BY <1>1, GetFacts, ContentsFacts, ZenonT(30)
<1>3. Ordered(out \o C, Accepted)
    BY ZenonT(30) DEF TxInv, TxOrder
<1> HIDE DEF C
<1>4. Head(C) \in 1 .. MaxTx
    BY <1>1, <1>2, <1>3, OrderedHead, ZenonT(30)
<1>5. out' = Append(out, Head(C)) /\ out' \in Seq(1 .. MaxTx)
    BY ONLY <1>1, <1>2, <1>4, out' = Append(out, front(txq))
<1>6. /\ txq' \in Queue(MaxTx) /\ txq'.not_full = NULL /\ Contents(txq') = Tail(C)
    BY ONLY <1>2, txq' = get(txq), ZenonT(30)
<1>7. TxOrder'
    <2>1. out \in Seq(0 .. MaxTx)
        BY ONLY <1>1
    <2>2. Append(out, Head(C)) \o Tail(C) = out \o C
        BY ONLY <1>2, <2>1, MoveByte
    <2>3. Accepted' = Accepted
        BY DEF Accepted
    <2> QED BY ONLY <1>3, <1>5, <1>6, <2>2, <2>3, ZenonT(30) DEF TxOrder
<1>8. ASSUME NEW w \in Writer
      PROVE  /\ pc'[w] # "idle" <=> console' = w
             /\ pc'[w] # "lock" /\ pc'[w] # "wait"
    <2>1. CASE w = txq.not_full
        <3>1. pc'[w] = "woken" /\ pc[w] = "wait" /\ console = w
            BY <2>1, ThreadKinds, ZenonT(30) DEF TxInv
        <3> QED BY <3>1
    <2>2. CASE w # txq.not_full
        <3>1. pc'[w] = pc[w] /\ console' = console
            BY <2>2, ZenonT(30)
        <3> QED BY ONLY <2>2, <3>1, TxInv, w \in Writer, ZenonT(30) DEF TxInv
    <2> QED BY <2>1, <2>2
<1>9. mode' # "POLL" /\ (console' # NULL => sent' > 0)
    BY ZenonT(30) DEF TxInv
<1>10. TxInv'
    BY ONLY <1>6, <1>7, <1>8, <1>9, ZenonT(30) DEF TxInv
<1> QED BY <1>5, <1>6, <1>10

\* The handler of the port.
LEMMA InterruptInv ==
    ASSUME IndInv, ~halted, serial_interrupt
    PROVE  IndInv'
<1>0. TypeOK /\ TxInv /\ RxInv /\ IerTruthful
    BY Parts, ZenonT(30)
<1>1. /\ mode = "QUEUE" /\ buffer' = rx_after
      /\ entered' = IF rx_after = buffer THEN entered ELSE Append(entered, rbr)
      /\ rbr' = IF rx_after = buffer THEN rbr ELSE 0
      /\ txq' = tx_after
      /\ out' = IF tx_after = txq THEN out ELSE Append(out, front(txq))
      /\ thre' = (thre /\ intq_empty(txq))
      /\ ier' = ier_of(tx_after, rx_after)
      /\ mode' = mode /\ console' = console /\ sent' = sent /\ lock' = lock /\ got' = got
      /\ arrived' = arrived /\ failed' = failed /\ halted' = halted
    BY DEF serial_interrupt, write_ier
<1>2. pc' = [t \in Thread |->
                IF \/ t = txq.not_full /\ tx_after.not_full = NULL
                   \/ t = buffer.not_empty /\ rx_after.not_empty = NULL
                THEN "woken" ELSE pc[t]]
    BY ZenonT(30) DEF serial_interrupt
<1>3. /\ txq \in Queue(MaxTx) /\ buffer \in Queue(MaxRx) /\ rbr \in 0 .. MaxRx
      /\ MaxTx \in Nat /\ MaxRx \in Nat
    BY <1>0, ThreadKinds, ZenonT(30) DEF TypeOK
<1>4. RxInv' /\ buffer' \in Queue(MaxRx) /\ entered' \in Seq(1 .. MaxRx)
      /\ rbr' \in 0 .. MaxRx
    <2>1. \A r \in Reader : r \in Thread /\ r # NULL /\ r # txq.not_full
        BY <1>0, ThreadKinds, ZenonT(30) DEF TxInv
    <2>2. CASE rbr # 0 /\ ~intq_full(buffer)
        <3>1. rx_after = put(buffer, rbr)
            BY <2>2, ZenonT(30) DEF rx_after
        <3>2. rx_after # buffer /\ rx_after.not_empty = NULL
            BY ONLY <1>3, <2>2, <3>1, PutFacts, ZenonT(30)
        <3>3. rbr \in 1 .. MaxRx /\ 0 \in 0 .. MaxRx
            BY <1>3, <2>2
        <3>4. \A r \in Reader : pc'[r] = IF r = buffer.not_empty THEN "woken" ELSE pc[r]
            BY ONLY <1>2, <2>1, <3>2, ZenonT(30)
        <3>5. /\ buffer' = put(buffer, rbr) /\ entered' = Append(entered, rbr)
              /\ rbr' = 0
            BY ONLY <1>1, <3>1, <3>2, ZenonT(30)
        <3>6. got' = got /\ lock' = lock
            BY <1>1
        <3> QED BY ONLY <1>0, <2>2, <3>3, <3>4, <3>5, <3>6, ByteArrives, ZenonT(30)
    <2>3. CASE ~(rbr # 0 /\ ~intq_full(buffer))
        <3>1. rx_after = buffer
            BY <2>3, ZenonT(30) DEF rx_after
        <3>2. \A r \in Reader : pc'[r] = pc[r]
            BY ONLY <1>2, <2>1, <3>1, ZenonT(30)
        <3>3. /\ buffer' = buffer /\ entered' = entered /\ rbr' = rbr /\ got' = got
              /\ lock' = lock
            BY ONLY <1>1, <3>1, ZenonT(30)
        <3>4. entered \in Seq(1 .. MaxRx)
            BY <1>0, ZenonT(30) DEF TypeOK
        <3> QED BY ONLY <1>0, <1>3, <3>2, <3>3, <3>4, RxQuiet, ZenonT(30)
    <2> QED BY <2>2, <2>3
<1>5. TxInv' /\ txq' \in Queue(MaxTx) /\ out' \in Seq(1 .. MaxTx)
    <2>1. \A w \in Writer : w \in Thread /\ w # NULL /\ w # buffer.not_empty
        BY <1>0, ThreadKinds, ZenonT(30) DEF RxInv
    <2>2. CASE thre /\ ~intq_empty(txq)
        <3>1. tx_after = get(txq)
            BY <2>2, ZenonT(30) DEF tx_after
        <3>2. tx_after # txq /\ tx_after.not_full = NULL
            BY ONLY <1>3, <2>2, <3>1, GetFacts, ZenonT(30)
        <3>3. \A w \in Writer : pc'[w] = IF w = txq.not_full THEN "woken" ELSE pc[w]
            BY ONLY <1>2, <2>1, <3>2, ZenonT(30)
        <3>4. /\ txq' = get(txq) /\ out' = Append(out, front(txq))
            BY ONLY <1>1, <3>1, <3>2, ZenonT(30)
        <3>5. mode # "POLL" /\ mode' = mode /\ console' = console /\ sent' = sent
            BY <1>1
        <3> QED BY ONLY <1>0, <2>2, <3>3, <3>4, <3>5, ByteSent, ZenonT(30)
    <2>3. CASE ~(thre /\ ~intq_empty(txq))
        <3>1. tx_after = txq
            BY <2>3, ZenonT(30) DEF tx_after
        <3>2. \A w \in Writer : pc'[w] = pc[w]
            BY ONLY <1>2, <2>1, <3>1, ZenonT(30)
        <3>3. /\ txq' = txq /\ out' = out /\ mode' = mode /\ console' = console
              /\ sent' = sent
            BY ONLY <1>1, <3>1, ZenonT(30)
        <3>4. out \in Seq(1 .. MaxTx)
            BY <1>0, ZenonT(30) DEF TypeOK
        <3> QED BY ONLY <1>0, <1>3, <3>2, <3>3, <3>4, TxQuiet, ZenonT(30)
    <2> QED BY <2>2, <2>3
<1>6. /\ pc' \in [Thread -> {"idle", "putc", "wait", "woken", "lock"}]
      /\ thre' \in BOOLEAN /\ ier' \subseteq {"XMIT", "RECV"}
    <2>1. pc \in [Thread -> {"idle", "putc", "wait", "woken", "lock"}]
        BY <1>0, ZenonT(30) DEF TypeOK
    <2>2. pc' \in [Thread -> {"idle", "putc", "wait", "woken", "lock"}]
        BY ONLY <1>2, <2>1, ZenonT(30)
    <2>3. thre' \in BOOLEAN
        BY ONLY <1>1
    <2> QED BY <1>1, <2>2, <2>3, IerType, ZenonT(30)
<1>7. TypeOK'
    BY ONLY <1>0, <1>1, <1>4, <1>5, <1>6, ZenonT(30) DEF TypeOK
<1>8. IerTruthful' /\ ~halted'
    <2>1. ier' = ier_of(txq', buffer') /\ ~halted'
        BY ONLY <1>1, ~halted
    <2> QED BY ONLY <2>1, ZenonT(30) DEF IerTruthful
<1> QED BY <1>4, <1>5, <1>7, <1>8, Whole, ZenonT(30)

\* The handler of the keyboard.
LEMMA KeyboardInv ==
    ASSUME IndInv, ~halted, keyboard_interrupt
    PROVE  IndInv'
<1>0. TypeOK /\ TxInv /\ RxInv /\ IerTruthful
    BY Parts, ZenonT(30)
<1>1. /\ arrived < MaxRx /\ arrived' = arrived + 1
      /\ mode' = mode /\ out' = out /\ console' = console /\ sent' = sent
      /\ lock' = lock /\ got' = got /\ thre' = thre /\ rbr' = rbr
      /\ failed' = failed /\ halted' = halted
    BY DEF keyboard_interrupt
<1>2. arrived' \in 0 .. MaxRx /\ arrived + 1 \in 1 .. MaxRx
    <2>1. arrived \in 0 .. MaxRx /\ MaxRx \in Nat
        BY <1>0, ThreadKinds, ZenonT(30) DEF TypeOK
    <2> QED BY ONLY <1>1, <2>1
<1>3. CASE intq_full(buffer)
    <2>1. buffer' = buffer /\ entered' = entered /\ pc' = pc /\ ier' = ier /\ txq' = txq
        BY <1>3 DEF keyboard_interrupt
    <2>2. TypeOK'
        BY ONLY <1>0, <1>1, <1>2, <2>1, ZenonT(30) DEF TypeOK
    <2>3. TxInv' /\ RxInv'
        BY ONLY <1>0, <1>1, <2>1, TxQuiet, RxQuiet, ZenonT(30)
    <2>4. IerTruthful' /\ ~halted'
        BY ONLY <1>0, <1>1, <2>1, ~halted, ZenonT(30) DEF IerTruthful
    <2> QED BY <2>2, <2>3, <2>4, Whole, ZenonT(30)
<1>4. CASE ~intq_full(buffer)
    <2>1. /\ buffer' = put(buffer, arrived + 1) /\ entered' = Append(entered, arrived + 1)
          /\ pc' = Unblock(buffer.not_empty) /\ txq' = txq /\ serial_notify(buffer')
        BY <1>4, ZenonT(30) DEF keyboard_interrupt
    <2>2. pc \in [Thread -> {"idle", "putc", "wait", "woken", "lock"}]
        BY <1>0, ZenonT(30) DEF TypeOK
    <2>3. /\ \A t \in Thread : pc'[t] = IF t = buffer.not_empty THEN "woken" ELSE pc[t]
          /\ pc' \in [Thread -> {"idle", "putc", "wait", "woken", "lock"}]
        BY ONLY <2>1, <2>2, ZenonT(30) DEF Unblock
    <2>4. \A r \in Reader : pc'[r] = IF r = buffer.not_empty THEN "woken" ELSE pc[r]
        BY ONLY <2>3, ThreadKinds, ZenonT(30)
    <2>5. /\ RxInv' /\ buffer' \in Queue(MaxRx) /\ entered' \in Seq(1 .. MaxRx)
        BY ONLY <1>0, <1>1, <1>2, <1>4, <2>1, <2>4, ByteArrives, ZenonT(30)
    <2>6. TxInv'
        <3>1. \A w \in Writer : pc'[w] = pc[w]
            BY <1>0, <2>3, ThreadKinds, ZenonT(30) DEF RxInv
        <3> QED BY ONLY <1>0, <1>1, <2>1, <3>1, TxQuiet, ZenonT(30)
    <2>7. IerTruthful' /\ ~halted' /\ ier' \subseteq {"XMIT", "RECV"}
        BY ONLY <1>0, <1>1, <2>1, ~halted, NotifyTruthful, ZenonT(30)
    <2>8. TypeOK'
        BY ONLY <1>0, <1>1, <1>2, <2>1, <2>3, <2>5, <2>7, ZenonT(30) DEF TypeOK
    <2> QED BY <2>5, <2>6, <2>7, <2>8, Whole, ZenonT(30)
<1> QED BY <1>3, <1>4

\* The numbered bytes of the two parts of a sequence.
LEMMA OrderedType ==
    ASSUME NEW m \in Nat, NEW o \in Seq(1 .. m), NEW c \in Seq(0 .. m), NEW n,
           Ordered(o \o c, n)
    PROVE  o \o c \in Seq(1 .. m)
<1> DEFINE a == o \o c
<1>1. a \in Seq(0 .. m)
    OBVIOUS
<1>2. \A i \in DOMAIN a : a[i] = i
    BY ZenonT(30) DEF Ordered
<1> HIDE DEF a
<1>3. \A i \in 1 .. Len(a) : a[i] \in 1 .. m
    BY <1>1, <1>2
<1>4. Len(a) \in Nat /\ a \in [1 .. Len(a) -> 0 .. m]
    BY <1>1
<1>5. a \in [1 .. Len(a) -> 1 .. m]
    BY <1>3, <1>4, ZenonT(30)
<1>6. a \in Seq(1 .. m)
    BY ONLY <1>4, <1>5, FunctionIsSeq, ZenonT(30)
<1> QED BY <1>6 DEF a

\* The flush at power off.
LEMMA ShutdownInv ==
    ASSUME IndInv, ~halted, shutdown_power_off
    PROVE  IndInv'
<1>0. TypeOK /\ HoldersExact /\ TxInv /\ RxInv
    BY Parts, ZenonT(30) DEF IndInv, NoLostInterrupt
<1> DEFINE C == Contents(txq)
<1>1. /\ out' = out \o C /\ txq' = [txq EXCEPT !.tail = txq.head, !.not_full = NULL]
      /\ halted' = TRUE
      /\ mode' = mode /\ console' = console /\ sent' = sent
      /\ buffer' = buffer /\ lock' = lock /\ entered' = entered /\ got' = got
      /\ ier' = ier /\ thre' = thre /\ rbr' = rbr /\ pc' = pc /\ arrived' = arrived
      /\ failed' = failed
    BY DEF shutdown_power_off, serial_flush, rxvars
<1>2. MaxTx \in Nat /\ txq \in Queue(MaxTx) /\ out \in Seq(1 .. MaxTx)
    BY <1>0, ThreadKinds, ZenonT(30) DEF TypeOK
<1>3. txq.head \in Position /\ txq.buf \in [Position -> 0 .. MaxTx]
    BY <1>2, QueueFields, ZenonT(30)
<1>4. txq' \in Queue(MaxTx)
    <2>1. [txq EXCEPT !.tail = txq.head, !.not_full = NULL] \in Queue(MaxTx)
        BY ONLY <1>2, <1>3, ThreadKinds, QueueAssigned, ZenonT(30)
    <2> QED BY <1>1, <2>1, ZenonT(30)
<1>5. intq_empty(txq') /\ txq'.not_full = NULL
    BY <1>1, <1>2 DEF Queue, intq_empty
<1>6. Contents(txq') = <<>>
    BY ONLY <1>2, <1>4, <1>5, ContentsFacts, ZenonT(30)
<1>7. C \in Seq(0 .. MaxTx) /\ Ordered(out \o C, Accepted)
    BY <1>0, <1>2, ContentsFacts, ZenonT(30) DEF TxInv, TxOrder
<1> HIDE DEF C
<1>8. out' \in Seq(1 .. MaxTx)
    <2>1. out \o C \in Seq(1 .. MaxTx)
        BY ONLY <1>2, <1>7, OrderedType, ZenonT(30)
    <2> QED BY ONLY <1>1, <2>1, ZenonT(30)
<1>9. out' \o Contents(txq') = out \o C
    <2>1. out' \o <<>> = out'
        BY ONLY <1>8, EmptyEnd
    <2> QED BY ONLY <1>1, <1>6, <2>1, ZenonT(30)
<1>10. TypeOK'
    <2>1. halted' \in BOOLEAN
        BY <1>1
    <2> QED BY ONLY <1>0, <1>1, <1>4, <1>8, <2>1, ZenonT(30) DEF TypeOK
<1>11. HoldersExact'
    BY ONLY <1>0, <1>1, <1>5, ZenonT(30) DEF HoldersExact
<1>12. WaitersJustified' /\ IerTruthful'
    BY <1>1 DEF WaitersJustified, IerTruthful
<1>13. BytesInOrder'
    <2>1. Accepted' = Accepted
        BY <1>1 DEF Accepted
    <2>2. Ordered(out' \o Contents(txq'), Accepted')
        BY ONLY <1>7, <1>9, <2>1, ZenonT(30)
    <2>3. entered' = got' \o Contents(buffer')
        BY ONLY <1>0, <1>1, ZenonT(30) DEF RxInv, RxOrder
    <2> QED BY ONLY <1>5, <2>2, <2>3, ZenonT(30) DEF BytesInOrder, Ordered, Accepted
<1> QED BY <1>10, <1>11, <1>12, <1>13, ZenonT(30) DEF IndInv, NoLostInterrupt

\* Every step keeps the invariant.
LEMMA NextInv ==
    ASSUME IndInv, [Next]_vars
    PROVE  IndInv'
<1>1. CASE UNCHANGED vars
    <2>1. /\ mode' = mode /\ txq' = txq /\ buffer' = buffer /\ ier' = ier /\ thre' = thre
          /\ rbr' = rbr /\ out' = out /\ console' = console /\ sent' = sent /\ lock' = lock
          /\ pc' = pc /\ arrived' = arrived /\ entered' = entered /\ got' = got
          /\ failed' = failed /\ halted' = halted
        BY <1>1 DEF vars
    <2>2. TypeOK' /\ HoldersExact' /\ WaitersJustified' /\ IerTruthful'
        BY ONLY IndInv, <2>1, ZenonT(30)
        DEF IndInv, NoLostInterrupt, TypeOK, HoldersExact, WaitersJustified, IerTruthful
    <2>3. BytesInOrder'
        BY ONLY IndInv, <2>1, ZenonT(30) DEF IndInv, BytesInOrder
    <2> QED BY <2>2, <2>3, ZenonT(30) DEF IndInv, NoLostInterrupt
<1>2. CASE Next
    <2>0. ~halted
        BY <1>2, ZenonT(30) DEF Next, Running
    <2>1. CASE serial_init_queue BY <2>0, <2>1, InitQueueStep, ZenonT(30)
    <2>2. CASE serial_interrupt BY <2>0, <2>2, InterruptInv, ZenonT(30)
    <2>3. CASE keyboard_interrupt BY <2>0, <2>3, KeyboardInv, ZenonT(30)
    <2>4. CASE shutdown_power_off BY <2>0, <2>4, ShutdownInv, ZenonT(30)
    <2>5. CASE uart_ready \/ uart_receive BY <2>0, <2>5, UartStep, ZenonT(30)
    <2>6. CASE \E w \in Writer : acquire_console(w) \/ WriterStep(w)
        BY <2>0, <2>6, WriterInv, ZenonT(30)
    <2>7. CASE \E r \in Reader : input_getc(r) \/ ReaderStep(r)
        BY <2>0, <2>7, ReaderInv, ZenonT(30)
    <2> QED BY <1>2, <2>1, <2>2, <2>3, <2>4, <2>5, <2>6, <2>7, ZenonT(30) DEF Next
<1> QED BY <1>1, <1>2

\* The inductive invariant holds in every state.
LEMMA AlwaysIndInv == Spec => []IndInv
BY InitInv, NextInv, PTL DEF Spec

\* No interrupt and no wakeup is ever lost (serial.c, intq.c, input.c), for every
\* queue size and any number of threads: a thread sleeps only while it is the
\* registered waiter of a condition that is false, and in queue mode the port's
\* interrupts are enabled exactly when there is a byte to send or room for one, so
\* that write_ier() is called wherever a queue changes.
THEOREM InterruptsNeverLost == Spec => []NoLostInterrupt
<1>1. IndInv => NoLostInterrupt
    BY DEF IndInv
<1> QED BY <1>1, AlwaysIndInv, PTL

\* The bytes that serial_putc() accepted have left the port or are in the queue, in
\* the order in which they were printed, none lost and none twice, through the
\* switch from polling to queueing, a full queue with interrupts off, and the flush
\* at power off; the bytes that input_getc() returned are those that came in.
THEOREM BytesNeverReordered == Spec => []BytesInOrder
<1>1. IndInv => BytesInOrder
    BY DEF IndInv
<1> QED BY <1>1, AlwaysIndInv, PTL
=============================================================================
