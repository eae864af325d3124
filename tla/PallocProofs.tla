---------------------------- MODULE PallocProofs ----------------------------
(***************************************************************************)
(* The page allocator's invariant, for pools of any size, groups of any    *)
(* size and any number of clients.                                         *)
(***************************************************************************)
EXTENDS Palloc, TLAPS

USE DEF Group

\* A step of one client leaves the pages of the others alone.
LEMMA OthersMarks ==
  ASSUME NEW c \in Client, NEW d \in Client, d # c,
         pc'[d] = pc[d], req'[d] = req[d], idx'[d] = idx[d], k'[d] = k[d]
  PROVE  Marked(d)' = Marked(d)
BY ZenonT(30) DEF Marked

\* What the type invariant says of one client.
LEMMA ClientTypes ==
  ASSUME TypeOK, NEW c \in Client
  PROVE  /\ pc[c] \in PC /\ idx[c] \in 0 .. PageCnt /\ k[c] \in 0 .. MaxCnt - 1
         /\ req[c] \in Request /\ req[c].cnt \in 1 .. MaxCnt
         /\ idx[c] \in Int /\ k[c] \in Int /\ req[c].cnt \in Int
BY PallocAssumption DEF TypeOK, Request

\* The pages a client has are those of its group.
LEMMA MarkedInGroup ==
  ASSUME TypeOK, RangeInv, NEW c \in Client
  PROVE  /\ Marked(c) \subseteq Group(idx[c], req[c].cnt)
         /\ Marked(c) \subseteq Page
<1>1. Marked(c) \subseteq Group(idx[c], req[c].cnt)
  BY ClientTypes DEF Marked, RangeInv
<1>2. ASSUME NEW p \in Marked(c) PROVE p \in Page
  <2>1. pc[c] \notin {"idle", "acquire", "fail"}
    BY <1>2, ZenonT(30) DEF Marked
  <2> QED BY <1>1, <1>2, <2>1, ClientTypes, PallocAssumption DEF RangeInv, Page
<1> QED BY <1>1, <1>2, ZenonT(30)

\* The initial state.
LEMMA InitInv == Init => IndInv
<1> SUFFICES ASSUME Init PROVE IndInv
  OBVIOUS
<1>1. TypeOK
  <2>1. /\ used_map \in [Page -> BOOLEAN] /\ room \in [Client -> BOOLEAN]
        /\ panicked \in BOOLEAN
    BY Zenon DEF Init
  <2>2. req \in [Client -> Request]
    BY PallocAssumption DEF Init, Request, NoRequest
  <2>3. /\ lock \in Client \cup {None} /\ pc \in [Client -> PC] /\ idx \in [Client -> 0 .. PageCnt]
        /\ k \in [Client -> 0 .. MaxCnt - 1] /\ mem \in [Page -> Fill \cup Client]
    BY PallocAssumption DEF Init, PC, Fill
  <2> QED BY <2>1, <2>2, <2>3, ZenonT(30) DEF TypeOK
<1>2. RangeInv /\ LockInv /\ ScanInv /\ ZeroInv /\ ContentsKept
  BY PallocAssumption DEF Init, RangeInv, LockInv, ScanInv, ZeroInv, ContentsKept, NoRequest
<1>3. \A c \in Client : Marked(c) = {}
  BY ZenonT(30) DEF Init, Marked
<1>4. NoSharedPage /\ UsedMapExact
  BY <1>3, ZenonT(30) DEF NoSharedPage, UsedMapExact, Init
<1> QED BY <1>1, <1>2, <1>4, ZenonT(30) DEF IndInv

-----------------------------------------------------------------------------
(* Facts that several actions share *)

\* As long as nobody's pages and no bit change, the map stays exact.
LEMMA MarksKept ==
  ASSUME NoSharedPage, UsedMapExact, used_map' = used_map,
         \A d \in Client : Marked(d)' = Marked(d)
  PROVE  NoSharedPage' /\ UsedMapExact'
BY DEF NoSharedPage, UsedMapExact

\* What client c's step may not change of the others.
Frame(c) ==
  \A d \in Client \ {c} : /\ pc'[d] = pc[d] /\ req'[d] = req[d] /\ idx'[d] = idx[d]
                          /\ k'[d] = k[d] /\ room'[d] = room[d]

\* The conjuncts of the invariant that are about counters and the lock hold of
\* the others after any step of c that leaves the lock to its holder.
LEMMA OthersKept ==
  ASSUME TypeOK, RangeInv, LockInv, NEW c \in Client, Frame(c),
         NEW d \in Client \ {c},
         lock' = lock \/ (lock = None /\ lock' = c) \/ (lock = c /\ lock' = None)
  PROVE  /\ k'[d] < req'[d].cnt
         /\ pc'[d] \in {"idle", "acquire", "release", "fail", "held", "written"} => k'[d] = 0
         /\ pc'[d] \notin {"idle", "acquire", "fail"} => idx'[d] + req'[d].cnt <= PageCnt
         /\ pc'[d] \in {"scan", "flip", "release", "fail"} <=> lock' = d
<1>1. /\ pc'[d] = pc[d] /\ req'[d] = req[d] /\ idx'[d] = idx[d] /\ k'[d] = k[d]
  BY ZenonT(30) DEF Frame
<1>2. lock' = d <=> lock = d
  BY PallocAssumption
<1> QED BY <1>1, <1>2, ZenonT(30) DEF RangeInv, LockInv

\* Bits that stay clear keep the scans of the others right.
LEMMA OthersScan ==
  ASSUME TypeOK, ScanInv, RangeInv, NEW c \in Client, Frame(c), NEW d \in Client \ {c},
         pc[d] \in {"scan", "flip"} => \A p \in Page : used_map'[p] => used_map[p]
  PROVE  /\ pc'[d] = "scan" => \A p \in Group(idx'[d], k'[d]) : ~used_map'[p]
         /\ pc'[d] = "flip" =>
              \A p \in Group(idx'[d] + k'[d], req'[d].cnt - k'[d]) : ~used_map'[p]
         /\ room'[d] => pc'[d] \in {"scan", "flip", "release"}
         /\ room'[d] /\ pc'[d] = "scan" =>
              \E i \in Page : /\ idx'[d] <= i /\ i + req'[d].cnt <= PageCnt
                              /\ \A p \in Group(i, req'[d].cnt) : ~used_map'[p]
<1>1. /\ pc'[d] = pc[d] /\ req'[d] = req[d] /\ idx'[d] = idx[d] /\ k'[d] = k[d]
      /\ room'[d] = room[d]
  BY ZenonT(30) DEF Frame
<1>2. /\ idx[d] \in Int /\ 0 <= idx[d] /\ k[d] \in Int /\ 0 <= k[d] /\ req[d].cnt \in Int
      /\ k[d] < req[d].cnt /\ PageCnt \in Int
      /\ pc[d] \in {"scan", "flip"} => idx[d] + req[d].cnt <= PageCnt
  BY ClientTypes, PallocAssumption DEF RangeInv
<1>3. ASSUME pc[d] = "scan"
      PROVE  \A p \in Group(idx[d], k[d]) : ~used_map'[p]
  <2>1. \A p \in Group(idx[d], k[d]) : p \in Page /\ ~used_map[p]
    BY <1>2, <1>3 DEF ScanInv, Page
  <2> QED BY <2>1, <1>3, ZenonT(30)
<1>4. ASSUME pc[d] = "flip"
      PROVE  \A p \in Group(idx[d] + k[d], req[d].cnt - k[d]) : ~used_map'[p]
  <2>1. \A p \in Group(idx[d] + k[d], req[d].cnt - k[d]) : p \in Page /\ ~used_map[p]
    BY <1>2, <1>4 DEF ScanInv, Page
  <2> QED BY <2>1, <1>4, ZenonT(30)
<1>5. ASSUME room[d], pc[d] = "scan"
      PROVE  \E i \in Page : /\ idx[d] <= i /\ i + req[d].cnt <= PageCnt
                             /\ \A p \in Group(i, req[d].cnt) : ~used_map'[p]
  <2>1. PICK i \in Page : /\ idx[d] <= i /\ i + req[d].cnt <= PageCnt
                          /\ \A p \in Group(i, req[d].cnt) : ~used_map[p]
    BY <1>5, ZenonT(30) DEF ScanInv
  <2>2. \A p \in Group(i, req[d].cnt) : p \in Page
    BY <1>2, <2>1 DEF Page
  <2> QED BY <2>1, <2>2, <1>5, ZenonT(30)
<1>6. room[d] => pc[d] \in {"scan", "flip", "release"}
  BY ZenonT(30) DEF ScanInv
<1> QED BY <1>1, <1>3, <1>4, <1>5, <1>6, ZenonT(30)

\* Memory that is not written keeps the contents of the others.
LEMMA OthersContents ==
  ASSUME TypeOK, RangeInv, ZeroInv, ContentsKept, NEW c \in Client, Frame(c), NEW d \in Client \ {c},
         \A p \in Marked(d) : mem'[p] = mem[p]
  PROVE  /\ pc'[d] = "zero" => \A p \in Group(idx'[d], k'[d]) : mem'[p] = "zero"
         /\ \A p \in Group(idx'[d], req'[d].cnt) :
              /\ (pc'[d] = "held" /\ req'[d].zero) => mem'[p] = "zero"
              /\ pc'[d] = "written" => mem'[p] = d
<1>1. /\ pc'[d] = pc[d] /\ req'[d] = req[d] /\ idx'[d] = idx[d] /\ k'[d] = k[d]
  BY ZenonT(30) DEF Frame
<1>2. pc[d] \in {"zero", "held", "written"} => Marked(d) = Group(idx[d], req[d].cnt)
  BY ZenonT(30) DEF Marked
<1>3. Group(idx[d], k[d]) \subseteq Group(idx[d], req[d].cnt)
  BY ClientTypes DEF RangeInv
<1>4. pc[d] = "zero" => \A p \in Group(idx[d], k[d]) : mem'[p] = "zero"
  BY <1>2, <1>3, ZenonT(30) DEF ZeroInv
<1>5. \A p \in Group(idx[d], req[d].cnt) :
              /\ (pc[d] = "held" /\ req[d].zero) => mem'[p] = "zero"
              /\ pc[d] = "written" => mem'[p] = d
  BY <1>2, ZenonT(30) DEF ContentsKept
<1> QED BY <1>1, <1>4, <1>5, ZenonT(30)

\* What the invariant says of one client.
Local(c) ==
  /\ k[c] < req[c].cnt
  /\ pc[c] \in {"idle", "acquire", "release", "fail", "held", "written"} => k[c] = 0
  /\ pc[c] \notin {"idle", "acquire", "fail"} => idx[c] + req[c].cnt <= PageCnt
  /\ pc[c] \in {"scan", "flip", "release", "fail"} <=> lock = c
  /\ pc[c] = "scan" => \A p \in Group(idx[c], k[c]) : ~used_map[p]
  /\ pc[c] = "flip" => \A p \in Group(idx[c] + k[c], req[c].cnt - k[c]) : ~used_map[p]
  /\ room[c] => pc[c] \in {"scan", "flip", "release"}
  /\ room[c] /\ pc[c] = "scan" =>
       \E i \in Page : /\ idx[c] <= i /\ i + req[c].cnt <= PageCnt
                       /\ \A p \in Group(i, req[c].cnt) : ~used_map[p]
  /\ pc[c] = "zero" => \A p \in Group(idx[c], k[c]) : mem[p] = "zero"
  /\ \A p \in Group(idx[c], req[c].cnt) :
       /\ (pc[c] = "held" /\ req[c].zero) => mem[p] = "zero"
       /\ pc[c] = "written" => mem[p] = c

\* A step of c keeps the invariant if it keeps the types, the map and c's part,
\* sets no bit that another client found clear and writes no page of another.
LEMMA StepOfOne ==
  ASSUME IndInv, NEW c \in Client, Frame(c), TypeOK', NoSharedPage', UsedMapExact', Local(c)',
         lock' = lock \/ (lock = None /\ lock' = c) \/ (lock = c /\ lock' = None),
         lock = c \/ \A p \in Page : used_map'[p] => used_map[p],
         \A d \in Client \ {c} : \A p \in Marked(d) : mem'[p] = mem[p]
  PROVE  IndInv'
<1>1. ASSUME NEW d \in Client \ {c} PROVE Local(d)'
  <2>1. pc[d] \in {"scan", "flip"} => \A p \in Page : used_map'[p] => used_map[p]
    BY ZenonT(30) DEF IndInv, LockInv
  <2> QED BY <2>1, OthersKept, OthersScan, OthersContents DEF IndInv, Local
<1>2. \A d \in Client : Local(d)'
  BY <1>1, ZenonT(30)
<1>3. RangeInv' /\ LockInv' /\ ZeroInv' /\ ContentsKept'
  BY <1>2, ZenonT(30) DEF Local, RangeInv, LockInv, ZeroInv, ContentsKept
<1>4. ScanInv'
  BY <1>2 DEF Local, ScanInv
<1> QED BY <1>3, <1>4, ZenonT(30) DEF IndInv

\* The invariant gives each client its part.
LEMMA LocalHolds ==
  ASSUME IndInv, NEW c \in Client PROVE Local(c)
<1>1. RangeInv /\ LockInv /\ ZeroInv /\ ContentsKept /\ ScanInv
  BY ZenonT(30) DEF IndInv
<1> QED BY <1>1, ZenonT(30) DEF Local, RangeInv, LockInv, ZeroInv, ContentsKept, ScanInv

\* What a step does to the pages of all clients when it changes only c's place.
LEMMA MarksFollow ==
  ASSUME IndInv, NEW c \in Client, Frame(c), Marked(c)' = Marked(c), used_map' = used_map
  PROVE  NoSharedPage' /\ UsedMapExact'
<1>1. \A d \in Client : Marked(d)' = Marked(d)
  BY OthersMarks, ZenonT(30) DEF Frame
<1> QED BY <1>1, MarksKept, ZenonT(30) DEF IndInv

\* A step of c that changes no bit and nobody's pages.
LEMMA QuietStep ==
  ASSUME IndInv, NEW c \in Client, Frame(c), TypeOK', Local(c)',
         Marked(c)' = Marked(c), used_map' = used_map,
         lock' = lock \/ (lock = None /\ lock' = c) \/ (lock = c /\ lock' = None),
         \A d \in Client \ {c} : \A p \in Marked(d) : mem'[p] = mem[p]
  PROVE  IndInv'
<1>1. NoSharedPage' /\ UsedMapExact'
  BY MarksFollow, ZenonT(30)
<1>2. \A p \in Page : used_map'[p] => used_map[p]
  OBVIOUS
<1> QED BY <1>1, <1>2, StepOfOne, ZenonT(30)

-----------------------------------------------------------------------------
(* The actions *)

\* A call, and its lock_acquire.
LEMMA CallInv ==
  ASSUME IndInv, NEW c \in Client, palloc_get_multiple(c) PROVE IndInv'
<1> USE DEF palloc_get_multiple, Goto
<1>0. TypeOK
  BY ZenonT(30) DEF IndInv
<1>1. PICK r \in Request : req' = [req EXCEPT ![c] = r]
  BY ZenonT(30)
<1>2. /\ Frame(c) /\ pc'[c] = "acquire" /\ req'[c] = r
      /\ pc' \in [Client -> PC] /\ req' \in [Client -> Request]
  BY <1>0, <1>1, ZenonT(30) DEF Frame, TypeOK, PC
<1>3. TypeOK'
  BY <1>0, <1>2, ZenonT(30) DEF TypeOK
<1>4. Marked(c)' = Marked(c)
  BY <1>2, ZenonT(30) DEF Marked
<1>5. Local(c)'
  BY <1>1, <1>2, LocalHolds, PallocAssumption DEF Local, Request
<1>6. used_map' = used_map /\ mem' = mem /\ lock' = lock
  OBVIOUS
<1> QED BY ONLY IndInv, <1>2, <1>3, <1>4, <1>5, <1>6, QuietStep

LEMMA AcquireInv ==
  ASSUME IndInv, NEW c \in Client, lock_acquire(c) PROVE IndInv'
<1> USE DEF lock_acquire, Goto
<1>0. TypeOK
  BY ZenonT(30) DEF IndInv
<1> DEFINE l == IF req[c].cnt <= PageCnt THEN "scan" ELSE "fail"
<1>1. /\ Frame(c) /\ pc'[c] = l /\ idx'[c] = 0 /\ k'[c] = 0 /\ room'[c] = Fits(req[c].cnt)
      /\ pc' \in [Client -> PC]
  BY <1>0, ZenonT(30) DEF Frame, TypeOK, PC
<1>2. room' \in [Client -> BOOLEAN]
  BY <1>0, Zenon DEF TypeOK, Fits
<1>3. TypeOK'
  <2>1. /\ lock' \in Client \cup {None} /\ idx' \in [Client -> 0 .. PageCnt]
        /\ k' \in [Client -> 0 .. MaxCnt - 1]
    BY <1>0, PallocAssumption DEF TypeOK
  <2> QED BY <1>0, <1>1, <1>2, <2>1, ZenonT(30) DEF TypeOK
<1>4. Marked(c)' = Marked(c)
  BY <1>1, ZenonT(30) DEF Marked
<1>5. req[c].cnt \in Int /\ 1 <= req[c].cnt /\ PageCnt \in Int
  BY <1>0, ClientTypes, PallocAssumption
<1>6. ASSUME room'[c]
      PROVE  \E i \in Page : /\ 0 <= i /\ i + req[c].cnt <= PageCnt
                             /\ \A p \in Group(i, req[c].cnt) : ~used_map[p]
  <2>1. Fits(req[c].cnt)
    BY ONLY <1>1, <1>6, Zenon
  <2>2. \A i \in Page : 0 <= i
    BY <1>5 DEF Page
  <2> QED BY <2>1, <2>2, ZenonT(30) DEF Fits
<1>7. room'[c] => l = "scan"
  BY <1>5, <1>6, SMTT(60) DEF Page
<1>8. Local(c)'
  BY <1>1, <1>5, <1>6, <1>7, SMTT(60) DEF Local
<1>9. used_map' = used_map /\ mem' = mem /\ lock = None /\ lock' = c
  OBVIOUS
<1> QED BY ONLY IndInv, <1>1, <1>3, <1>4, <1>8, <1>9, QuietStep

\* A test of one bit.
LEMMA ScanStepInv ==
  ASSUME IndInv, NEW c \in Client, bitmap_scan(c) PROVE IndInv'
<1> USE DEF bitmap_scan, Goto, Advance
<1>0. TypeOK /\ Local(c)
  BY LocalHolds, ZenonT(30) DEF IndInv
<1>1. /\ idx[c] \in Int /\ 0 <= idx[c] /\ k[c] \in Int /\ 0 <= k[c] /\ k[c] < req[c].cnt
      /\ req[c].cnt \in Int /\ req[c].cnt <= MaxCnt /\ PageCnt \in Int /\ MaxCnt \in Int
      /\ idx[c] + req[c].cnt <= PageCnt
  BY <1>0, ClientTypes, PallocAssumption, SMTT(60) DEF Local
<1>2. CASE used_map[idx[c] + k[c]]
  <2> DEFINE l == IF idx[c] + 1 <= PageCnt - req[c].cnt THEN "scan" ELSE "fail"
  <2>1. /\ Frame(c) /\ pc'[c] = l /\ idx'[c] = idx[c] + 1 /\ k'[c] = 0 /\ l \in PC
    BY <1>0, <1>2, ZenonT(30) DEF Frame, TypeOK, PC
  <2>2. TypeOK'
    BY <1>0, <1>1, <1>2, <2>1 DEF TypeOK
  <2>3. Marked(c)' = Marked(c)
    BY <2>1, ZenonT(30) DEF Marked
  <2>4. ASSUME room[c]
        PROVE  /\ l = "scan"
               /\ \E i \in Page : /\ idx[c] + 1 <= i /\ i + req[c].cnt <= PageCnt
                                  /\ \A p \in Group(i, req[c].cnt) : ~used_map[p]
    <3>1. PICK i \in Page : /\ idx[c] <= i /\ i + req[c].cnt <= PageCnt
                            /\ \A p \in Group(i, req[c].cnt) : ~used_map[p]
      BY <1>0, <2>4, ZenonT(30) DEF Local
    <3>2. i # idx[c]
      BY <1>1, <1>2, <3>1, SMTT(60)
    <3> QED BY <1>1, <3>1, <3>2 DEF Page
  <2>5. Local(c)'
    BY <1>0, <1>1, <2>1, <2>4, SMTT(60) DEF Local
  <2>6. used_map' = used_map /\ mem' = mem /\ lock' = lock
    OBVIOUS
  <2> QED BY ONLY IndInv, <2>1, <2>2, <2>3, <2>5, <2>6, QuietStep
<1>3. CASE ~used_map[idx[c] + k[c]]
  <2> DEFINE l == IF k[c] + 1 < req[c].cnt THEN "scan" ELSE "flip"
             n == IF k[c] + 1 < req[c].cnt THEN k[c] + 1 ELSE 0
  <2>1. /\ Frame(c) /\ pc'[c] = l /\ idx'[c] = idx[c] /\ k'[c] = n /\ l \in PC
    BY <1>0, <1>3, ZenonT(30) DEF Frame, TypeOK, PC
  <2>2. TypeOK'
    BY <1>0, <1>1, <1>3, <2>1 DEF TypeOK
  <2>3. Marked(c)' = Marked(c)
    BY <1>1, <2>1, SMTT(60) DEF Marked
  <2>4. \A p \in Group(idx[c], k[c] + 1) : ~used_map[p]
    BY <1>0, <1>1, <1>3, SMTT(60) DEF Local
  <2>5. Local(c)'
    BY <1>0, <1>1, <2>1, <2>4, SMTT(60) DEF Local
  <2>6. used_map' = used_map /\ mem' = mem /\ lock' = lock
    OBVIOUS
  <2> QED BY ONLY IndInv, <2>1, <2>2, <2>3, <2>5, <2>6, QuietStep
<1> QED BY <1>2, <1>3, ZenonT(30)

\* A bit marked: it was clear, so nobody had the page.
LEMMA MarkInv ==
  ASSUME IndInv, NEW c \in Client, bitmap_mark(c) PROVE IndInv'
<1> USE DEF bitmap_mark, Goto, Advance
<1>0. TypeOK /\ RangeInv /\ Local(c) /\ NoSharedPage /\ UsedMapExact
  BY LocalHolds, ZenonT(30) DEF IndInv
<1> DEFINE page == idx[c] + k[c]
           l == IF k[c] + 1 < req[c].cnt THEN "flip" ELSE "release"
           n == IF k[c] + 1 < req[c].cnt THEN k[c] + 1 ELSE 0
<1>1. /\ idx[c] \in Int /\ 0 <= idx[c] /\ k[c] \in Int /\ 0 <= k[c] /\ k[c] < req[c].cnt
      /\ req[c].cnt \in Int /\ req[c].cnt <= MaxCnt /\ PageCnt \in Int /\ MaxCnt \in Int
      /\ idx[c] + req[c].cnt <= PageCnt
  BY <1>0, ClientTypes, PallocAssumption DEF Local
<1>2. page \in Page /\ ~used_map[page] /\ lock = c
  BY <1>0, <1>1 DEF Local, Page
<1>3. /\ Frame(c) /\ pc'[c] = l /\ k'[c] = n /\ idx'[c] = idx[c] /\ req'[c] = req[c]
      /\ room'[c] = room[c]
  BY <1>0, ZenonT(30) DEF Frame, TypeOK
<1>4. TypeOK'
  <2>1. pc' \in [Client -> PC] /\ k' \in [Client -> 0 .. MaxCnt - 1]
    BY <1>0, <1>1 DEF TypeOK, PC
  <2>2. used_map' \in [Page -> BOOLEAN]
    BY <1>0, Zenon DEF TypeOK
  <2> QED BY <1>0, <2>1, <2>2, ZenonT(30) DEF TypeOK
<1>5. Marked(c)' = Marked(c) \cup {page}
  BY <1>1, <1>3, SMTT(60) DEF Marked
<1>6. \A d \in Client \ {c} : Marked(d)' = Marked(d) /\ page \notin Marked(d)
  BY <1>0, <1>2, <1>3, OthersMarks, ZenonT(30) DEF Frame, UsedMapExact
<1>7. NoSharedPage'
  BY <1>0, <1>5, <1>6 DEF NoSharedPage
<1>8. UsedMapExact'
  <2>1. ASSUME NEW p \in Page PROVE used_map'[p] <=> \E d \in Client : p \in Marked(d)'
    <3>1. used_map'[p] <=> (p = page \/ used_map[p])
      BY <1>0, <1>2, ZenonT(30) DEF TypeOK
    <3> QED BY <1>0, <1>5, <1>6, <3>1, ZenonT(30) DEF UsedMapExact
  <2> QED BY <2>1, ZenonT(30) DEF UsedMapExact
<1>9. Local(c)'
  <2>1. \A p \in Group(idx[c] + k[c] + 1, req[c].cnt - (k[c] + 1)) : ~used_map'[p]
    <3>1. \A p \in Group(idx[c] + k[c] + 1, req[c].cnt - (k[c] + 1)) :
            p \in Page /\ p # page /\ ~used_map[p]
      BY <1>0, <1>1 DEF Local, Page
    <3> QED BY <1>0, <1>2, <3>1, ZenonT(30) DEF TypeOK
  <2> QED BY <1>0, <1>1, <1>2, <1>3, <2>1, SMTT(60) DEF Local
<1>10. lock' = lock /\ mem' = mem
  OBVIOUS
<1> QED BY ONLY IndInv, <1>2, <1>3, <1>4, <1>7, <1>8, <1>9, <1>10, StepOfOne

\* The lock released, with or without pages.
LEMMA ReleaseInv ==
  ASSUME IndInv, NEW c \in Client, lock_release(c) PROVE IndInv'
<1> USE DEF lock_release, Goto
<1>0. TypeOK /\ Local(c)
  BY LocalHolds, ZenonT(30) DEF IndInv
<1>1. /\ idx[c] \in Int /\ req[c].cnt \in Int /\ 1 <= req[c].cnt /\ k[c] = 0
      /\ PageCnt \in Int /\ MaxCnt \in Int /\ 1 <= MaxCnt /\ 0 <= PageCnt
      /\ lock = c /\ req[c].must \in BOOLEAN
  BY <1>0, ClientTypes, PallocAssumption DEF Local, Request
<1>2. room' \in [Client -> BOOLEAN]
  BY <1>0, ZenonT(60) DEF TypeOK
<1>3. CASE pc[c] = "release"
  <2>1. /\ Frame(c) /\ pc'[c] = (IF req[c].zero THEN "zero" ELSE "held") /\ pc' \in [Client -> PC]
        /\ ~room'[c] /\ lock' = None
        /\ UNCHANGED <<req, idx, panicked, used_map, k, mem>>
    BY <1>0, <1>3, ZenonT(30) DEF Frame, TypeOK, PC
  <2>2. TypeOK'
    BY <1>0, <1>2, <2>1 DEF TypeOK
  <2>3. Marked(c)' = Marked(c)
    BY <1>3, <2>1, ZenonT(30) DEF Marked
  <2>4. Local(c)'
    BY <1>0, <1>1, <1>3, <2>1, PallocAssumption, SMTT(60) DEF Local
  <2> QED BY ONLY IndInv, <1>1, <2>1, <2>2, <2>3, <2>4, QuietStep
<1>4. CASE pc[c] = "fail"
  <2>1. /\ Frame(c) /\ pc'[c] = "idle" /\ pc' \in [Client -> PC] /\ req'[c] = NoRequest
        /\ ~room'[c] /\ lock' = None /\ panicked' = req[c].must
        /\ idx' \in [Client -> 0 .. PageCnt] /\ UNCHANGED <<used_map, k, mem>>
    BY <1>0, <1>1, <1>4 DEF Frame, TypeOK, PC
  <2>2. req' \in [Client -> Request]
    <3>1. NoRequest \in Request
      BY <1>1 DEF Request, NoRequest
    <3> QED BY <1>0, <1>4, <3>1 DEF TypeOK
  <2>3. TypeOK'
    BY <1>0, <1>1, <1>2, <2>1, <2>2, ZenonT(30) DEF TypeOK
  <2>4. Marked(c)' = Marked(c)
    BY <1>4, <2>1, ZenonT(30) DEF Marked
  <2>5. Local(c)'
    BY <1>1, <2>1, PallocAssumption DEF Local, NoRequest
  <2> QED BY ONLY IndInv, <1>1, <2>1, <2>3, <2>4, <2>5, QuietStep
<1> QED BY <1>3, <1>4, ZenonT(30)

\* Writes to c's own pages reach nobody else's.
LEMMA OwnPages ==
  ASSUME IndInv, NEW c \in Client, pc[c] \in {"zero", "held", "fill"}
  PROVE  /\ Marked(c) = Group(idx[c], req[c].cnt)
         /\ \A d \in Client \ {c} : \A p \in Marked(d) : p \in Page /\ p \notin Marked(c)
<1>1. Marked(c) = Group(idx[c], req[c].cnt)
  BY ZenonT(30) DEF Marked
<1>2. \A d \in Client : Marked(d) \subseteq Page
  BY MarkedInGroup, ZenonT(30) DEF IndInv
<1> QED BY <1>1, <1>2, ZenonT(30) DEF IndInv, NoSharedPage

\* A page zeroed.
LEMMA ZeroStepInv ==
  ASSUME IndInv, NEW c \in Client, memset_zero(c) PROVE IndInv'
<1> USE DEF memset_zero, Goto, Advance
<1>0. TypeOK /\ Local(c)
  BY LocalHolds, ZenonT(30) DEF IndInv
<1> DEFINE page == idx[c] + k[c]
           l == IF k[c] + 1 < req[c].cnt THEN "zero" ELSE "held"
           n == IF k[c] + 1 < req[c].cnt THEN k[c] + 1 ELSE 0
<1>1. /\ idx[c] \in Int /\ 0 <= idx[c] /\ k[c] \in Int /\ 0 <= k[c] /\ k[c] < req[c].cnt
      /\ req[c].cnt \in Int /\ req[c].cnt <= MaxCnt /\ PageCnt \in Int /\ MaxCnt \in Int
      /\ idx[c] + req[c].cnt <= PageCnt /\ lock # c
  BY <1>0, ClientTypes, PallocAssumption DEF Local
<1>2. page \in Page /\ page \in Group(idx[c], req[c].cnt)
  BY <1>1 DEF Page
<1>3. /\ Frame(c) /\ pc'[c] = l /\ k'[c] = n /\ idx'[c] = idx[c] /\ req'[c] = req[c]
      /\ room'[c] = room[c]
  BY <1>0, ZenonT(30) DEF Frame, TypeOK
<1>4. TypeOK'
  <2>1. pc' \in [Client -> PC] /\ k' \in [Client -> 0 .. MaxCnt - 1]
    BY <1>0, <1>1 DEF TypeOK, PC
  <2>2. mem' \in [Page -> Fill \cup Client]
    BY <1>0, ZenonT(60) DEF TypeOK, Fill
  <2> QED BY <1>0, <2>1, <2>2, ZenonT(30) DEF TypeOK
<1>5. Marked(c)' = Marked(c)
  BY <1>3 DEF Marked
<1>6. \A d \in Client \ {c} : \A p \in Marked(d) : mem'[p] = mem[p]
  BY <1>0, <1>2, OwnPages, ZenonT(60) DEF TypeOK
<1>7. \A p \in Group(idx[c], k[c] + 1) : mem'[p] = "zero"
  <2>1. \A p \in Group(idx[c], k[c] + 1) : p \in Page /\ (p = page \/ mem[p] = "zero")
    BY <1>0, <1>1, SMTT(60) DEF Local, Page
  <2> QED BY <1>0, <2>1, ZenonT(30) DEF TypeOK
<1>8. Local(c)'
  BY <1>0, <1>1, <1>3, <1>7, SMTT(60) DEF Local
<1>9. used_map' = used_map /\ lock' = lock
  BY Zenon
<1> QED BY ONLY IndInv, <1>3, <1>4, <1>5, <1>6, <1>8, <1>9, QuietStep

\* A page overwritten with 0xcc.
LEMMA FillStepInv ==
  ASSUME IndInv, NEW c \in Client, memset_cc(c) PROVE IndInv'
<1> USE DEF memset_cc, Goto, Advance
<1>0. TypeOK /\ Local(c)
  BY LocalHolds, ZenonT(30) DEF IndInv
<1> DEFINE page == idx[c] + k[c]
           l == IF k[c] + 1 < req[c].cnt THEN "fill" ELSE "reset"
           n == IF k[c] + 1 < req[c].cnt THEN k[c] + 1 ELSE 0
<1>1. /\ idx[c] \in Int /\ 0 <= idx[c] /\ k[c] \in Int /\ 0 <= k[c] /\ k[c] < req[c].cnt
      /\ req[c].cnt \in Int /\ req[c].cnt <= MaxCnt /\ PageCnt \in Int /\ MaxCnt \in Int
      /\ idx[c] + req[c].cnt <= PageCnt /\ lock # c
  BY <1>0, ClientTypes, PallocAssumption, SMTT(60) DEF Local
<1>2. page \in Page /\ page \in Group(idx[c], req[c].cnt)
  BY <1>1 DEF Page
<1>3. /\ Frame(c) /\ pc'[c] = l /\ k'[c] = n /\ idx'[c] = idx[c] /\ req'[c] = req[c]
      /\ room'[c] = room[c]
  BY <1>0, ZenonT(30) DEF Frame, TypeOK
<1>4. TypeOK'
  <2>1. pc' \in [Client -> PC] /\ k' \in [Client -> 0 .. MaxCnt - 1]
    BY <1>0, <1>1 DEF TypeOK, PC
  <2>2. mem' \in [Page -> Fill \cup Client]
    BY <1>0, ZenonT(30) DEF TypeOK, Fill
  <2> QED BY <1>0, <2>1, <2>2, ZenonT(30) DEF TypeOK
<1>5. Marked(c)' = Marked(c)
  BY <1>1, <1>3 DEF Marked
<1>6. \A d \in Client \ {c} : \A p \in Marked(d) : mem'[p] = mem[p]
  BY <1>0, <1>2, OwnPages, ZenonT(60) DEF TypeOK
<1>7. Local(c)'
  BY <1>0, <1>1, <1>3 DEF Local
<1>8. used_map' = used_map /\ lock' = lock
  OBVIOUS
<1> QED BY ONLY IndInv, <1>3, <1>4, <1>5, <1>6, <1>7, <1>8, QuietStep

\* The client writes its pages, or starts to give them back.
LEMMA UseInv ==
  ASSUME IndInv, NEW c \in Client, use_pages(c) \/ palloc_free_multiple(c) PROVE IndInv'
<1> USE DEF Goto
<1>0. TypeOK /\ Local(c)
  BY LocalHolds, ZenonT(30) DEF IndInv
<1>1. CASE use_pages(c)
  <2> USE <1>1 DEF use_pages
  <2>1. Frame(c) /\ pc'[c] = "written" /\ pc' \in [Client -> PC]
    BY <1>0, ZenonT(30) DEF Frame, TypeOK, PC
  <2>2. mem' \in [Page -> Fill \cup Client]
    BY <1>0, ZenonT(30) DEF TypeOK
  <2>3. TypeOK'
    BY <1>0, <2>1, <2>2, ZenonT(30) DEF TypeOK
  <2>4. Marked(c)' = Marked(c)
    BY <2>1, ZenonT(30) DEF Marked
  <2>5. \A d \in Client \ {c} : \A p \in Marked(d) : mem'[p] = mem[p]
    BY OwnPages, ZenonT(30)
  <2>6. \A p \in Group(idx[c], req[c].cnt) : mem'[p] = c
    <3>1. \A p \in Group(idx[c], req[c].cnt) : p \in Page
      BY <1>0, ClientTypes, PallocAssumption, SMTT(60) DEF Local, Page
    <3> QED BY <3>1, ZenonT(30)
  <2>7. Local(c)'
    BY <1>0, <2>1, <2>6, ZenonT(30) DEF Local
  <2>8. used_map' = used_map /\ lock' = lock
    OBVIOUS
  <2> QED BY ONLY IndInv, <2>1, <2>3, <2>4, <2>5, <2>7, <2>8, QuietStep
<1>2. CASE palloc_free_multiple(c)
  <2> USE <1>2 DEF palloc_free_multiple
  <2>1. Frame(c) /\ pc'[c] = "fill" /\ pc' \in [Client -> PC]
    BY <1>0, ZenonT(30) DEF Frame, TypeOK, PC
  <2>2. TypeOK'
    BY <1>0, <2>1, ZenonT(30) DEF TypeOK
  <2>3. Marked(c)' = Marked(c)
    BY <2>1, ZenonT(30) DEF Marked
  <2>4. Local(c)'
    BY <1>0, <2>1, ZenonT(30) DEF Local
  <2>5. used_map' = used_map /\ mem' = mem /\ lock' = lock
    BY Zenon
  <2> QED BY ONLY IndInv, <2>1, <2>2, <2>3, <2>4, <2>5, QuietStep
<1> QED BY <1>1, <1>2, ZenonT(30)

\* A bit cleared without the lock: the page leaves its client's group in the
\* same step, and nobody's scan loses a bit it found clear.
LEMMA ResetInv ==
  ASSUME IndInv, NEW c \in Client, bitmap_reset(c) PROVE IndInv'
<1> USE DEF bitmap_reset, Goto, Advance
<1>0. TypeOK /\ RangeInv /\ Local(c) /\ NoSharedPage /\ UsedMapExact
  BY LocalHolds, ZenonT(30) DEF IndInv
<1> DEFINE page == idx[c] + k[c]
<1>1. /\ idx[c] \in Int /\ 0 <= idx[c] /\ k[c] \in Int /\ 0 <= k[c] /\ k[c] < req[c].cnt
      /\ req[c].cnt \in Int /\ req[c].cnt <= MaxCnt /\ PageCnt \in Int /\ MaxCnt \in Int
      /\ idx[c] + req[c].cnt <= PageCnt /\ lock # c
  BY <1>0, ClientTypes, PallocAssumption DEF Local
<1>2. page \in Page /\ page \in Marked(c)
  BY <1>1 DEF Page, Marked
<1>3. \A p \in Page : used_map'[p] <=> (p # page /\ used_map[p])
  BY <1>0, <1>2, ZenonT(30) DEF TypeOK
<1>4. used_map' \in [Page -> BOOLEAN]
  BY <1>0, Zenon DEF TypeOK
<1>5. Frame(c)
  BY <1>0 DEF Frame, TypeOK
<1>6. TypeOK' /\ Local(c)' /\ Marked(c)' = Marked(c) \ {page}
  <2>1. CASE k[c] + 1 < req[c].cnt
    <3>1. /\ k'[c] = k[c] + 1 /\ k' \in [Client -> 0 .. MaxCnt - 1]
          /\ UNCHANGED <<pc, req, idx, lock, mem, room, panicked>>
      BY <1>0, <1>1, <2>1, SMTT(60) DEF TypeOK
    <3>2. TypeOK'
      BY <1>0, <1>4, <3>1, ZenonT(30) DEF TypeOK
    <3>3. Local(c)'
      BY <1>0, <2>1, <3>1, ZenonT(30) DEF Local
    <3>4. Marked(c)' = Marked(c) \ {page}
      BY <1>1, <2>1, <3>1, SMTT(60) DEF Marked
    <3> QED BY <3>2, <3>3, <3>4, ZenonT(30)
  <2>2. CASE ~(k[c] + 1 < req[c].cnt)
    <3>1. /\ k'[c] = 0 /\ k' \in [Client -> 0 .. MaxCnt - 1]
          /\ pc'[c] = "idle" /\ pc' \in [Client -> PC]
          /\ req'[c] = NoRequest
          /\ idx'[c] = 0 /\ idx' \in [Client -> 0 .. PageCnt]
          /\ UNCHANGED <<lock, mem, room, panicked>>
      BY <1>0, <1>1, <2>2 DEF TypeOK, PC
    <3>2. req' \in [Client -> Request]
      <4>1. NoRequest \in Request
        BY <1>1 DEF Request, NoRequest
      <4> QED BY <1>0, <2>2, <4>1, ZenonT(30) DEF TypeOK
    <3>3. TypeOK'
      BY <1>0, <1>4, <3>1, <3>2, ZenonT(30) DEF TypeOK
    <3>4. Local(c)'
      BY <1>0, <1>1, <3>1 DEF Local, NoRequest
    <3>5. Marked(c)' = Marked(c) \ {page}
      BY <1>1, <2>2, <3>1, SMTT(60) DEF Marked
    <3> QED BY <3>3, <3>4, <3>5, ZenonT(30)
  <2> QED BY <2>1, <2>2, ZenonT(30)
<1>7. \A d \in Client \ {c} : Marked(d)' = Marked(d) /\ page \notin Marked(d)
  BY <1>0, <1>2, <1>5, OthersMarks, ZenonT(30) DEF Frame, NoSharedPage
<1>8. NoSharedPage'
  BY <1>0, <1>6, <1>7 DEF NoSharedPage
<1>9. UsedMapExact'
  <2>1. ASSUME NEW p \in Page PROVE used_map'[p] <=> \E d \in Client : p \in Marked(d)'
    BY <1>0, <1>3, <1>6, <1>7 DEF UsedMapExact
  <2> QED BY <2>1, ZenonT(30) DEF UsedMapExact
<1>10. lock' = lock /\ mem' = mem
  OBVIOUS
<1> QED BY ONLY IndInv, <1>3, <1>5, <1>6, <1>8, <1>9, <1>10, StepOfOne

\* Every step of every client keeps the invariant.
LEMMA NextInv == IndInv /\ [Next]_vars => IndInv'
<1> SUFFICES ASSUME IndInv, [Next]_vars PROVE IndInv'
  OBVIOUS
<1>1. ASSUME NEW c \in Client, Step(c) PROVE IndInv'
  BY <1>1, AcquireInv, ScanStepInv, MarkInv, ReleaseInv, ZeroStepInv, FillStepInv, ResetInv, ZenonT(30)
     DEF Step
<1>2. ASSUME NEW c \in Client, palloc_get_multiple(c) \/ use_pages(c) \/ palloc_free_multiple(c)
      PROVE  IndInv'
  BY <1>2, CallInv, UseInv, ZenonT(30)
<1>3. CASE UNCHANGED vars
  <2>1. \A d \in Client : Marked(d)' = Marked(d)
    BY <1>3, ZenonT(30) DEF Marked, vars
  <2>2. NoSharedPage' /\ UsedMapExact'
    BY <1>3, <2>1, MarksKept, ZenonT(30) DEF IndInv, vars
  <2>3. (TypeOK /\ RangeInv /\ LockInv /\ ZeroInv /\ ContentsKept)'
    BY <1>3, ZenonT(30) DEF IndInv, vars, TypeOK, RangeInv, LockInv, ZeroInv, ContentsKept
  <2>4. ScanInv'
    BY <1>3, ZenonT(30) DEF IndInv, vars, ScanInv
  <2> QED BY <2>2, <2>3, <2>4, ZenonT(30) DEF IndInv
<1> QED BY <1>1, <1>2, <1>3, ZenonT(30) DEF Next

-----------------------------------------------------------------------------

\* palloc_get_multiple and palloc_free_multiple keep the allocator's invariant,
\* whatever the size of the pool and of the requests and however many clients
\* interleave their bit tests, marks and unlocked resets.
THEOREM Invariance == Spec => []IndInv
BY InitInv, NextInv, PTL DEF Spec

\* No page is in two groups that palloc_get_multiple gave out, and pool->used_map
\* has exactly the bits of the pages somebody has, at every step of the frees.
THEOREM PagesNeverShared == Spec => [](NoSharedPage /\ UsedMapExact)
<1>1. IndInv => NoSharedPage /\ UsedMapExact
  BY ZenonT(30) DEF IndInv
<1> QED BY <1>1, Invariance, PTL

\* What a client wrote, and the zeros PAL_ZERO promised, survive the memsets of
\* every other allocation and free.
THEOREM ContentsAlwaysKept == Spec => []ContentsKept
<1>1. IndInv => ContentsKept
  BY ZenonT(30) DEF IndInv
<1> QED BY <1>1, Invariance, PTL

\* A null pointer or the out-of-pages panic means that no fitting group was free
\* when bitmap_scan began, even though others clear bits while it runs.
THEOREM FailureAlwaysReal == Spec => []FailureIsReal
<1>1. IndInv => FailureIsReal
  BY ZenonT(30) DEF IndInv, ScanInv, FailureIsReal
<1> QED BY <1>1, Invariance, PTL
=============================================================================
