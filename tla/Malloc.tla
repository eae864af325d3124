------------------------------- MODULE Malloc -------------------------------
(***************************************************************************)
(* The block allocator, threads/malloc.c: descriptors of fixed block       *)
(* sizes, arenas of one page each cut into blocks, and big blocks of whole *)
(* pages.  Addresses are byte numbers, so that overlap and size are those  *)
(* of the code's own address arithmetic, and sizes wrap at 2^32 there and  *)
(* at SizeLimit here.                                                      *)
(*                                                                         *)
(* What malloc and free do under a descriptor's lock is one step (the lock *)
(* is Synch's); page allocation is the first-fit scan of module Palloc.    *)
(* realloc is two steps, since other threads run between its malloc and    *)
(* its free.                                                               *)
(***************************************************************************)
EXTENDS Integers, FiniteSets, Sequences, SequencesExt, FiniteSetsExt

CONSTANTS PageCnt,     \* pages in the kernel pool
          PGSIZE,      \* bytes in a page
          Header,      \* sizeof (struct arena)
          MinBlock,    \* the smallest block size (16 in the code)
          SizeLimit,   \* one more than the largest size_t
          Sizes,       \* the sizes callers of malloc and realloc ask for
          CallocArgs,  \* the argument pairs callers of calloc pass
          MaxLive      \* bound: blocks outstanding at a time

ASSUME MallocAssumption ==
    /\ PageCnt \in Nat /\ PGSIZE \in Nat \ {0} /\ MinBlock \in Nat \ {0}
    /\ Header \in 0 .. PGSIZE - MinBlock
    /\ Sizes \subseteq 0 .. SizeLimit - 1
    /\ CallocArgs \subseteq (0 .. SizeLimit - 1) \X (0 .. SizeLimit - 1)

VARIABLES
    pool,       \* the pages palloc still has
    arena,      \* the arena header at the start of each page, or NoArena
    free_list,  \* desc->free_list, one per descriptor
    live,       \* history: what callers hold, [addr, want in bytes]
    moving      \* reallocs between their malloc and their free

vars == <<pool, arena, free_list, live, moving>>

Page == 0 .. PageCnt - 1

\* malloc_init: block sizes double while they are below half a page.
BlockSize[d \in 1 .. 10] == IF d = 1 THEN MinBlock ELSE 2 * BlockSize[d - 1]

Descs == {d \in 1 .. 10 : 2 * BlockSize[d] < PGSIZE}

blocks_per_arena(d) == (PGSIZE - Header) \div BlockSize[d]

NoArena == [desc |-> -1, free_cnt |-> 0]

\* a->desc = NULL: the arena of a big block.
NullDesc == 0

pg_ofs(a) == a % PGSIZE

block_to_arena(a) == a \div PGSIZE

\* The address of the i-th block of the arena on page p of descriptor d.
arena_to_block(p, d, i) == p * PGSIZE + Header + i * BlockSize[d]

ArenaBlocks(p, d) ==
    [i \in 1 .. blocks_per_arena(d) |-> arena_to_block(p, d, i - 1)]

\* The bytes allocated for a block, as realloc computes them.
block_size(a) ==
    LET ar == arena[block_to_arena(a)]
    IN  IF ar.desc # NullDesc THEN BlockSize[ar.desc]
        ELSE PGSIZE * ar.free_cnt - pg_ofs(a)

\* The header is not counted.
Mut_PagesFor(size) == ((size + PGSIZE - 1) % SizeLimit) \div PGSIZE

\* size + sizeof *a in size_t arithmetic, rounded up to pages.
PagesFor(size) == ((size + Header + PGSIZE - 1) % SizeLimit) \div PGSIZE

Init ==
    /\ pool = Page
    /\ arena = [p \in Page |-> NoArena]
    /\ free_list = [d \in Descs |-> <<>>]
    /\ live = {}
    /\ moving = {}

\* palloc_get_multiple: the first free group of n pages, or none.
Groups(n) == {p \in Page : n > 0 /\ p .. p + n - 1 \subseteq pool}

\* malloc of a size no descriptor serves.
malloc_big(size, n) ==
    /\ Groups(n) # {}
    /\ LET p == Min(Groups(n))
       IN  /\ pool' = pool \ (p .. p + n - 1)
           /\ arena' = [arena EXCEPT ![p] = [desc |-> NullDesc, free_cnt |-> n]]
    /\ UNCHANGED free_list

\* malloc from descriptor d, after a new arena if the free list is empty.
malloc_small(d) ==
    \/ /\ free_list[d] # <<>>
       /\ free_list' = [free_list EXCEPT ![d] = Tail(@)]
       /\ arena' = [arena EXCEPT ![block_to_arena(Head(free_list[d]))].free_cnt = @ - 1]
       /\ UNCHANGED pool
    \/ /\ free_list[d] = <<>>
       /\ pool # {}
       /\ LET p == Min(pool)
          IN  /\ pool' = pool \ {p}
              /\ free_list' = [free_list EXCEPT ![d] = Tail(ArenaBlocks(p, d))]
              /\ arena' = [arena EXCEPT ![p] =
                             [desc |-> d, free_cnt |-> blocks_per_arena(d) - 1]]

Serving(size) == {d \in Descs : BlockSize[d] >= size}

\* The pointer malloc(size) returns, given that it succeeds.
result(size) ==
    IF Serving(size) = {}
    THEN Min(Groups(PagesFor(size))) * PGSIZE + Header
    ELSE LET d == Min(Serving(size))
         IN  IF free_list[d] # <<>> THEN Head(free_list[d])
             ELSE arena_to_block(Min(pool), d, 0)

\* The whole of malloc for size > 0, when it does not return NULL.
malloc_ok(size) ==
    /\ size > 0
    /\ IF Serving(size) = {} THEN malloc_big(size, PagesFor(size))
       ELSE malloc_small(Min(Serving(size)))

malloc(size) ==
    /\ Cardinality(live) < MaxLive
    /\ malloc_ok(size)
    /\ live' = live \cup {[addr |-> result(size), want |-> size]}
    /\ UNCHANGED moving

\* The multiplication wraps; the test that it did not is the code's own.
calloc(a, b) ==
    LET size == (a * b) % SizeLimit
    IN  /\ Cardinality(live) < MaxLive
        /\ ~(size < a \/ size < b)
        /\ malloc_ok(size)
        /\ live' = live \cup {[addr |-> result(size), want |-> a * b]}
        /\ UNCHANGED moving

\* free of a normal block: it joins the free list, and an arena that is free
\* again goes back to palloc with all its blocks off the list.
free_small(x) ==
    LET p == block_to_arena(x)
        d == arena[p].desc
    IN  IF arena[p].free_cnt + 1 >= blocks_per_arena(d)
        THEN /\ free_list' = [free_list EXCEPT ![d] =
                   SelectSeq(@, LAMBDA y : block_to_arena(y) # p)]
             /\ pool' = pool \cup {p}
             /\ arena' = [arena EXCEPT ![p] = NoArena]
        ELSE /\ free_list' = [free_list EXCEPT ![d] = <<x>> \o @]
             /\ arena' = [arena EXCEPT ![p].free_cnt = @ + 1]
             /\ UNCHANGED pool

\* Only the first page of a big block is returned.
Mut_free_big(x) ==
    LET p == block_to_arena(x)
    IN  /\ pool' = pool \cup {p}
        /\ arena' = [arena EXCEPT ![p] = NoArena]
        /\ UNCHANGED free_list

\* free of a big block: all its pages.
free_big(x) ==
    LET p == block_to_arena(x)
    IN  /\ pool' = pool \cup (p .. p + arena[p].free_cnt - 1)
        /\ arena' = [arena EXCEPT ![p] = NoArena]
        /\ UNCHANGED free_list

free_addr(x) ==
    \/ /\ arena[block_to_arena(x)].desc # NullDesc
       /\ free_small(x)
    \/ /\ arena[block_to_arena(x)].desc = NullDesc
       /\ free_big(x)

\* A block some realloc is about to free belongs to that realloc.
Settled(b) == \A m \in moving : b \notin {m.old, m.new}

\* free (p), and realloc (p, 0), which is the same.
free(b) ==
    /\ Settled(b)
    /\ free_addr(b.addr)
    /\ live' = live \ {b}
    /\ UNCHANGED moving

\* realloc (b, size) up to the return of its malloc; with no memory it
\* returns NULL and the old block stays.
realloc_malloc(b, size) ==
    /\ Settled(b)
    /\ Cardinality(live) < MaxLive
    /\ malloc_ok(size)
    /\ LET new == [addr |-> result(size), want |-> size]
       IN  /\ live' = live \cup {new}
           /\ moving' = moving \cup {[old |-> b, new |-> new]}

\* How many bytes realloc copies.
min_size(m) == Min({m.new.want, block_size(m.old.addr)})

\* ... and from there to its return: copy min_size bytes, free the old block.
realloc_free(m) ==
    /\ free_addr(m.old.addr)
    /\ live' = live \ {m.old}
    /\ moving' = moving \ {m}

Next ==
    \/ \E size \in Sizes : malloc(size)
    \/ \E ab \in CallocArgs : calloc(ab[1], ab[2])
    \/ \E b \in live : free(b)
    \/ \E b \in live, size \in Sizes : realloc_malloc(b, size)
    \/ \E m \in moving : realloc_free(m)

Spec == Init /\ [][Next]_vars

-----------------------------------------------------------------------------

TypeOK ==
    /\ pool \subseteq Page
    /\ arena \in [Page -> [desc : Descs \cup {NullDesc, -1}, free_cnt : 0 .. PGSIZE]]
    /\ free_list \in [Descs -> Seq(0 .. PageCnt * PGSIZE - 1)]
    /\ \A b \in live : b.addr \in 0 .. PageCnt * PGSIZE - 1
    /\ moving \subseteq [old : live, new : live]

\* The bytes of the block at x, and those of the arena header on page p.
Bytes(x) == x .. x + block_size(x) - 1

HeaderBytes(p) == p * PGSIZE .. p * PGSIZE + Header - 1

Unallocated == UNION {ToSet(free_list[d]) : d \in Descs}

\* No two blocks, in use or on a free list, share a byte, and none covers an
\* arena header or a page that palloc may hand to somebody else.
BlocksDisjoint ==
    LET all == {b.addr : b \in live} \cup Unallocated
    IN  /\ Cardinality({b.addr : b \in live}) = Cardinality(live)
        /\ \A x, y \in all : x # y => Bytes(x) \cap Bytes(y) = {}
        /\ \A x \in all, p \in Page :
               arena[p] # NoArena => Bytes(x) \cap HeaderBytes(p) = {}
        /\ \A x \in all : \A i \in Bytes(x) : i \div PGSIZE \in Page \ pool

\* free_cnt counts the blocks of its arena that are on the free list, each
\* there once, and no arena is kept that has no block in use.
FreeCntExact ==
    \A p \in Page : arena[p].desc \in Descs =>
        LET d == arena[p].desc
            mine == SelectSeq(free_list[d], LAMBDA y : block_to_arena(y) = p)
        IN  /\ arena[p].free_cnt = Len(mine)
            /\ IsInjective(mine)
            /\ arena[p].free_cnt < blocks_per_arena(d)

\* A page is with palloc, or a block in use is on it: when everything has been
\* freed every page is back, and a free list never points into a returned page.
NoPageLeaks ==
    /\ \A p \in Page \ pool : \E b \in live : \E i \in Bytes(b.addr) : i \div PGSIZE = p
    /\ \A x \in Unallocated : block_to_arena(x) \notin pool

\* The byte count a caller asks for fits a size_t, and so does what malloc makes
\* of it when it adds the header and rounds up to pages.
Representable(size) == size + Header + PGSIZE - 1 < SizeLimit

\* A block has at least the bytes its caller asked for ("a new block of at least
\* SIZE bytes", malloc.c:87; "A times B bytes", malloc.c:156) for as long as it is
\* held, whatever others allocate, move and free around it, and realloc and free
\* read that size from its arena.  The requests are the representable ones: the
\* test of calloc lets some products through that no size_t holds ("make sure it
\* fits in size_t", malloc.c:163), and malloc does not look at its own sum.
SizeHonoured ==
    \A b \in live : Representable(b.want) => block_size(b.addr) >= b.want

\* realloc copies no byte outside the old or the new block, whatever other
\* threads allocated and freed since its malloc.
CopyFits ==
    \A m \in moving : /\ min_size(m) <= block_size(m.old.addr)
                      /\ Representable(m.new.want) => min_size(m) <= block_size(m.new.addr)
                      /\ Bytes(m.old.addr) \cap Bytes(m.new.addr) = {}

\* Arenas, free lists and blocks in use agree after every sequence of calls,
\* reallocs in progress included, and no page is lost.
Inv == TypeOK /\ BlocksDisjoint /\ FreeCntExact /\ CopyFits /\ NoPageLeaks
=============================================================================
