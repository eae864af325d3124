------------------------------- MODULE Palloc -------------------------------
(***************************************************************************)
(* The page allocator, threads/palloc.c, over the bitmap primitives of     *)
(* lib/kernel/bitmap.c.  One pool is modelled: the kernel and the user     *)
(* pool share no state.  A "client" is one allocation lifetime: a call of  *)
(* palloc_get_multiple, the use of the pages, and the palloc_free_multiple *)
(* that gives them back.                                                   *)
(*                                                                         *)
(* The allocator scans and marks under the pool's lock, but frees WITHOUT  *)
(* it (palloc_free_multiple is called from the scheduler with interrupts   *)
(* off and may not block), so the scan tests bits that others are clearing *)
(* at the same time.  Every test, mark and reset of one bit is therefore a *)
(* step of its own; each is one machine instruction on a uniprocessor.     *)
(***************************************************************************)
EXTENDS Integers, FiniteSets, TLC

CONSTANTS Client,    \* allocation lifetimes
          PageCnt,   \* pages in the pool
          MaxCnt,    \* the largest page_cnt a client asks for
          None       \* "no client holds the lock"

ASSUME PallocAssumption ==
    /\ PageCnt \in Nat \ {0}
    /\ MaxCnt \in Nat \ {0}
    /\ None \notin Client

Page == 0 .. PageCnt - 1

\* What a page holds: leftovers, zeros, the 0xcc debugging fill, or the data
\* of the client that wrote it last.
Fill == {"junk", "zero", "cc"}

VARIABLES
    used_map,  \* pool->used_map
    lock,      \* the holder of pool->lock, or None
    pc,        \* where each client is
    req,       \* its arguments: page_cnt, PAL_ZERO, PAL_ASSERT
    idx,       \* the start of the group it scans, has, or frees
    k,         \* the loop counter inside that group
    mem,       \* what each page holds
    room,      \* history: was a fitting group free when the scan began?
    panicked   \* PANIC ("palloc_get: out of pages") was reached

vars == <<used_map, lock, pc, req, idx, k, mem, room, panicked>>

PC == {"idle", "acquire", "scan", "flip", "release", "fail", "zero",
       "held", "written", "fill", "reset"}

Request == [cnt : 1 .. MaxCnt, zero : BOOLEAN, must : BOOLEAN]

NoRequest == [cnt |-> 1, zero |-> FALSE, must |-> FALSE]

\* The page numbers of the group of n pages that starts at i.
Group(i, n) == i .. i + n - 1

\* bitmap_none over a whole group, used only to say what a scan should find.
Fits(n) == \E i \in Page : /\ i + n <= PageCnt
                           /\ \A p \in Group(i, n) : ~used_map[p]

Init ==
    /\ used_map = [p \in Page |-> FALSE]
    /\ lock = None
    /\ pc = [c \in Client |-> "idle"]
    /\ req = [c \in Client |-> NoRequest]
    /\ idx = [c \in Client |-> 0]
    /\ k = [c \in Client |-> 0]
    /\ mem = [p \in Page |-> "junk"]
    /\ room = [c \in Client |-> FALSE]
    /\ panicked = FALSE

Goto(c, l) == pc' = [pc EXCEPT ![c] = l]

\* The next round of a loop over the group, or the counter of the next loop.
Advance(c) == k' = [k EXCEPT ![c] = IF k[c] + 1 < req[c].cnt THEN k[c] + 1 ELSE 0]

\* The call; page_cnt = 0 returns NULL at once and changes nothing.
palloc_get_multiple(c) ==
    /\ pc[c] = "idle"
    /\ \E r \in Request : req' = [req EXCEPT ![c] = r]
    /\ Goto(c, "acquire")
    /\ UNCHANGED <<used_map, lock, idx, k, mem, room, panicked>>

\* Scanning without the pool's lock.
Mut_acquire_nolock(c) ==
    /\ pc[c] = "acquire"
    /\ idx' = [idx EXCEPT ![c] = 0]
    /\ k' = [k EXCEPT ![c] = 0]
    /\ room' = [room EXCEPT ![c] = Fits(req[c].cnt)]
    /\ Goto(c, IF req[c].cnt <= PageCnt THEN "scan" ELSE "fail")
    /\ UNCHANGED <<used_map, lock, req, mem, panicked>>

\* lock_acquire, and the test of bitmap_scan that the request fits at all.
lock_acquire(c) ==
    /\ pc[c] = "acquire"
    /\ lock = None
    /\ lock' = c
    /\ idx' = [idx EXCEPT ![c] = 0]
    /\ k' = [k EXCEPT ![c] = 0]
    /\ room' = [room EXCEPT ![c] = Fits(req[c].cnt)]
    /\ Goto(c, IF req[c].cnt <= PageCnt THEN "scan" ELSE "fail")
    /\ UNCHANGED <<used_map, req, mem, panicked>>

\* The last start is left out: i < last.
Mut_scan_short(c) ==
    /\ pc[c] = "scan"
    /\ IF used_map[idx[c] + k[c]]
       THEN /\ idx' = [idx EXCEPT ![c] = @ + 1]
            /\ k' = [k EXCEPT ![c] = 0]
            /\ Goto(c, IF idx[c] + 1 < PageCnt - req[c].cnt
                       THEN "scan" ELSE "fail")
       ELSE /\ idx' = idx
            /\ Advance(c)
            /\ Goto(c, IF k[c] + 1 < req[c].cnt THEN "scan" ELSE "flip")
    /\ UNCHANGED <<used_map, lock, req, mem, room, panicked>>

\* One bitmap_test of bitmap_contains inside bitmap_scan: a used page moves
\* the scan to the next start, a free one to the next page of the group.
bitmap_scan(c) ==
    /\ pc[c] = "scan"
    /\ IF used_map[idx[c] + k[c]]
       THEN /\ idx' = [idx EXCEPT ![c] = @ + 1]
            /\ k' = [k EXCEPT ![c] = 0]
            /\ Goto(c, IF idx[c] + 1 <= PageCnt - req[c].cnt
                       THEN "scan" ELSE "fail")
       ELSE /\ idx' = idx
            /\ Advance(c)
            /\ Goto(c, IF k[c] + 1 < req[c].cnt THEN "scan" ELSE "flip")
    /\ UNCHANGED <<used_map, lock, req, mem, room, panicked>>

\* One bitmap_mark of bitmap_set_multiple.
bitmap_mark(c) ==
    /\ pc[c] = "flip"
    /\ used_map' = [used_map EXCEPT ![idx[c] + k[c]] = TRUE]
    /\ Advance(c)
    /\ Goto(c, IF k[c] + 1 < req[c].cnt THEN "flip" ELSE "release")
    /\ UNCHANGED <<lock, req, idx, mem, room, panicked>>

\* lock_release and what the result decides: the zero fill, the return, the
\* null pointer, or the panic.
lock_release(c) ==
    /\ pc[c] \in {"release", "fail"}
    /\ lock' = None
    /\ room' = [room EXCEPT ![c] = FALSE]
    /\ \/ /\ pc[c] = "release"
          /\ Goto(c, IF req[c].zero THEN "zero" ELSE "held")
          /\ UNCHANGED <<req, idx, panicked>>
       \/ /\ pc[c] = "fail"
          /\ Goto(c, "idle")
          /\ panicked' = req[c].must
          /\ req' = [req EXCEPT ![c] = NoRequest]
          /\ idx' = [idx EXCEPT ![c] = 0]
    /\ UNCHANGED <<used_map, k, mem>>

\* A fill that runs one page past the group.
Mut_zero_long(c) ==
    /\ pc[c] = "zero"
    /\ mem' = [p \in Page |-> IF p \in {idx[c] + k[c], idx[c] + k[c] + 1}
                              THEN "zero" ELSE mem[p]]
    /\ Advance(c)
    /\ Goto(c, IF k[c] + 1 < req[c].cnt THEN "zero" ELSE "held")
    /\ UNCHANGED <<used_map, lock, req, idx, room, panicked>>

\* memset (pages, 0, ...), page by page and outside the lock.
memset_zero(c) ==
    /\ pc[c] = "zero"
    /\ mem' = [mem EXCEPT ![idx[c] + k[c]] = "zero"]
    /\ Advance(c)
    /\ Goto(c, IF k[c] + 1 < req[c].cnt THEN "zero" ELSE "held")
    /\ UNCHANGED <<used_map, lock, req, idx, room, panicked>>

\* The caller writes its pages; from then on they hold its data.
use_pages(c) ==
    /\ pc[c] = "held"
    /\ mem' = [p \in Page |-> IF p \in Group(idx[c], req[c].cnt)
                              THEN c ELSE mem[p]]
    /\ Goto(c, "written")
    /\ UNCHANGED <<used_map, lock, req, idx, k, room, panicked>>

\* The call of palloc_free_multiple with the group this client was given.
palloc_free_multiple(c) ==
    /\ pc[c] \in {"held", "written"}
    /\ Goto(c, "fill")
    /\ UNCHANGED <<used_map, lock, req, idx, k, mem, room, panicked>>

\* memset (pages, 0xcc, ...), before any bit is cleared.
memset_cc(c) ==
    /\ pc[c] = "fill"
    /\ mem' = [mem EXCEPT ![idx[c] + k[c]] = "cc"]
    /\ Advance(c)
    /\ Goto(c, IF k[c] + 1 < req[c].cnt THEN "fill" ELSE "reset")
    /\ UNCHANGED <<used_map, lock, req, idx, room, panicked>>

\* One bitmap_reset of bitmap_set_multiple; the pool's lock is not held.
bitmap_reset(c) ==
    /\ pc[c] = "reset"
    /\ used_map' = [used_map EXCEPT ![idx[c] + k[c]] = FALSE]
    /\ Advance(c)
    /\ IF k[c] + 1 < req[c].cnt
       THEN UNCHANGED <<pc, req, idx>>
       ELSE /\ Goto(c, "idle")
            /\ req' = [req EXCEPT ![c] = NoRequest]
            /\ idx' = [idx EXCEPT ![c] = 0]
    /\ UNCHANGED <<lock, mem, room, panicked>>

Step(c) ==
    \/ lock_acquire(c) \/ bitmap_scan(c) \/ bitmap_mark(c) \/ lock_release(c)
    \/ memset_zero(c) \/ memset_cc(c) \/ bitmap_reset(c)

Next ==
    /\ ~panicked
    /\ \E c \in Client :
          \/ Step(c)
          \/ palloc_get_multiple(c) \/ use_pages(c) \/ palloc_free_multiple(c)

Spec == Init /\ [][Next]_vars

-----------------------------------------------------------------------------

TypeOK ==
    /\ used_map \in [Page -> BOOLEAN]
    /\ lock \in Client \cup {None}
    /\ pc \in [Client -> PC]
    /\ req \in [Client -> Request]
    /\ idx \in [Client -> 0 .. PageCnt]
    /\ k \in [Client -> 0 .. MaxCnt - 1]
    /\ mem \in [Page -> Fill \cup Client]
    /\ room \in [Client -> BOOLEAN]
    /\ panicked \in BOOLEAN

\* The pages a client has marked and not yet given back.
Marked(c) ==
    CASE pc[c] = "flip" -> Group(idx[c], k[c])
      [] pc[c] \in {"release", "zero", "held", "written", "fill"} ->
           Group(idx[c], req[c].cnt)
      [] pc[c] = "reset" -> Group(idx[c] + k[c], req[c].cnt - k[c])
      [] OTHER -> {}

\* No page is ever handed to two clients, although bits are cleared without
\* the lock that protects the scan.
NoSharedPage ==
    \A c, d \in Client : c # d => Marked(c) \cap Marked(d) = {}

\* The used map says exactly which pages somebody has: no page leaks and none is
\* free while in use.  It implies the assertion of palloc_free_multiple that
\* all bits of the freed group are set (palloc.c:140).
UsedMapExact ==
    \A p \in Page : used_map[p] <=> \E c \in Client : p \in Marked(c)

\* What a client stored is still there, and what PAL_ZERO promised is zero until
\* the client writes: nobody's zeroing or 0xcc fill reaches a page of another.
ContentsKept ==
    \A c \in Client : \A p \in Group(idx[c], req[c].cnt) :
        /\ (pc[c] = "held" /\ req[c].zero) => mem[p] = "zero"
        /\ pc[c] = "written" => mem[p] = c

\* Out of pages is only reported when no fitting group was free when the scan
\* began: clearing bits during the scan cannot hide one.
FailureIsReal ==
    \A c \in Client : pc[c] = "fail" => ~room[c]

\* Counters stay in their group and groups in the pool.
RangeInv ==
    \A c \in Client :
        /\ k[c] < req[c].cnt
        /\ pc[c] \in {"idle", "acquire", "release", "fail", "held", "written"} => k[c] = 0
        /\ pc[c] \notin {"idle", "acquire", "fail"} => idx[c] + req[c].cnt <= PageCnt

\* Who scans and marks has the lock.
LockInv ==
    \A c \in Client : pc[c] \in {"scan", "flip", "release", "fail"} <=> lock = c

\* What the scan found free stays free until it is marked, and the group that
\* was free when the scan began has not been passed.
ScanInv ==
    \A c \in Client :
        /\ pc[c] = "scan" => \A p \in Group(idx[c], k[c]) : ~used_map[p]
        /\ pc[c] = "flip" => \A p \in Group(idx[c] + k[c], req[c].cnt - k[c]) : ~used_map[p]
        /\ room[c] => pc[c] \in {"scan", "flip", "release"}
        /\ room[c] /\ pc[c] = "scan" =>
             \E i \in Page : /\ idx[c] <= i /\ i + req[c].cnt <= PageCnt
                            /\ \A p \in Group(i, req[c].cnt) : ~used_map[p]

\* The pages zeroed so far are zero.
ZeroInv ==
    \A c \in Client : pc[c] = "zero" => \A p \in Group(idx[c], k[c]) : mem[p] = "zero"

\* The used map and the clients agree on who has which page, at every step of
\* the unlocked frees and of the scan, and the loops of the allocator are where
\* they should be.
IndInv ==
    /\ TypeOK /\ RangeInv /\ LockInv /\ ScanInv /\ ZeroInv
    /\ NoSharedPage /\ UsedMapExact /\ ContentsKept

\* The clients are interchangeable.
Symmetric == Permutations(Client)
=============================================================================
