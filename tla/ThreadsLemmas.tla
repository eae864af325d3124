--------------------------- MODULE ThreadsLemmas ----------------------------
(***************************************************************************)
(* What the routines of lists, of the scheduler and of the semaphores do   *)
(* to the state, for any number of threads and semaphores and any time     *)
(* slice, and that thread_create() and the boot keep the inductive         *)
(* invariant of Threads.                                                   *)
(***************************************************************************)
EXTENDS Threads, TLAPS

-----------------------------------------------------------------------------
(* Lists without duplicates. *)

\* list_push_back() of an element that is not in the list.
LEMMA AppendFacts ==
  ASSUME NEW S, NEW s \in Seq(S), NEW x \in S
  PROVE  /\ Append(s, x) \in Seq(S)
         /\ Append(s, x) # <<>> /\ Len(Append(s, x)) = Len(s) + 1
         /\ \A i \in 1 .. Len(s) : Append(s, x)[i] = s[i]
         /\ Append(s, x)[Len(s) + 1] = x
         /\ Elems(Append(s, x)) = Elems(s) \cup {x}
         /\ Injective(s) /\ x \notin Elems(s) => Injective(Append(s, x))
<1>1. /\ Append(s, x) \in Seq(S) /\ Len(Append(s, x)) = Len(s) + 1
      /\ Append(s, x) # <<>>
  <2>1. Append(s, x) \in Seq(S) /\ Len(Append(s, x)) = Len(s) + 1 /\ Len(s) \in Nat
    OBVIOUS
  <2>2. Len(<<>>) = 0
    OBVIOUS
  <2> QED BY <2>1, <2>2
<1>2. /\ DOMAIN s = 1 .. Len(s)
      /\ DOMAIN Append(s, x) = 1 .. Len(s) + 1
  BY <1>1
<1>3. \A i \in 1 .. Len(s) : Append(s, x)[i] = s[i]
  OBVIOUS
<1>4. Append(s, x)[Len(s) + 1] = x
  OBVIOUS
<1>5. Len(s) \in Nat
  OBVIOUS
<1>6. Elems(Append(s, x)) = Elems(s) \cup {x}
  BY <1>2, <1>3, <1>4, <1>5 DEF Elems
<1>7. ASSUME Injective(s), x \notin Elems(s) PROVE Injective(Append(s, x))
  BY <1>7, <1>2, <1>3, <1>4, <1>5 DEF Elems, Injective
<1> QED BY <1>1, <1>3, <1>4, <1>6, <1>7, ZenonT(30)

\* list_pop_front() of a list without duplicates.
LEMMA TailFacts ==
  ASSUME NEW S, NEW s \in Seq(S), s # <<>>
  PROVE  /\ Tail(s) \in Seq(S)
         /\ Head(s) \in S
         /\ Head(s) \in Elems(s)
         /\ Injective(s) => /\ Elems(Tail(s)) = Elems(s) \ {Head(s)}
                            /\ Injective(Tail(s))
<1>1. Len(s) \in Nat /\ Len(s) > 0 /\ DOMAIN s = 1 .. Len(s) /\ Head(s) = s[1]
  OBVIOUS
<1>2. /\ Tail(s) \in Seq(S)
      /\ Len(Tail(s)) = Len(s) - 1
      /\ DOMAIN Tail(s) = 1 .. Len(s) - 1
      /\ \A i \in 1 .. Len(s) - 1 : Tail(s)[i] = s[i + 1]
  BY <1>1
<1>3. Head(s) \in S /\ Head(s) \in Elems(s)
  BY <1>1 DEF Elems
<1>4. ASSUME Injective(s) PROVE Injective(Tail(s))
  BY <1>4, <1>1, <1>2 DEF Injective
<1>5. ASSUME Injective(s) PROVE Elems(Tail(s)) = Elems(s) \ {Head(s)}
  <2>1. Elems(Tail(s)) \subseteq Elems(s) \ {Head(s)}
    BY <1>5, <1>1, <1>2 DEF Elems, Injective
  <2>2. ASSUME NEW i \in DOMAIN s, s[i] # Head(s) PROVE s[i] \in Elems(Tail(s))
    <3>1. i - 1 \in 1 .. Len(s) - 1 /\ Tail(s)[i - 1] = s[i]
      BY <2>2, <1>1, <1>2
    <3> QED BY <3>1, <1>2, ZenonT(30) DEF Elems
  <2> QED BY <2>1, <2>2, ZenonT(30) DEF Elems
<1> QED BY <1>2, <1>3, <1>4, <1>5, ZenonT(30)

\* list_remove() of an element of a list without duplicates.
LEMMA RemoveFacts ==
  ASSUME NEW S, NEW s \in Seq(S), NEW x \in Elems(s), Injective(s)
  PROVE  /\ list_remove(s, x) \in Seq(S)
         /\ Elems(list_remove(s, x)) = Elems(s) \ {x}
         /\ Injective(list_remove(s, x))
<1> DEFINE k == CHOOSE i \in DOMAIN s : s[i] = x
           r == [i \in 1 .. Len(s) - 1 |-> IF i < k THEN s[i] ELSE s[i + 1]]
<1>1. k \in DOMAIN s /\ s[k] = x
  BY ZenonT(30) DEF Elems
<1>2. Len(s) \in Nat /\ DOMAIN s = 1 .. Len(s)
  OBVIOUS
<1> HIDE DEF k
<1>3. Len(s) > 0 /\ k \in 1 .. Len(s)
  BY <1>1, <1>2
<1>4. \A i \in 1 .. Len(s) - 1 : r[i] \in S
  BY <1>2, <1>3
<1>5. r \in Seq(S) /\ DOMAIN r = 1 .. Len(s) - 1
  BY <1>2, <1>3, <1>4
<1>6. Injective(r)
  BY <1>1, <1>2, <1>3, <1>5, SMTT(60) DEF Injective
<1>7. ASSUME NEW i \in DOMAIN r PROVE r[i] \in Elems(s) \ {x}
  BY <1>1, <1>2, <1>3, <1>5 DEF Elems, Injective
<1>8. ASSUME NEW i \in DOMAIN s, s[i] # x PROVE s[i] \in Elems(r)
  <2>1. CASE i < k
    BY <2>1, <1>2, <1>3, <1>5 DEF Elems
  <2>2. CASE i > k
    <3>1. i - 1 \in DOMAIN r /\ r[i - 1] = s[i]
      BY <2>2, <1>2, <1>3, <1>5
    <3> QED BY <3>1, ZenonT(30) DEF Elems
  <2> QED BY <2>1, <2>2, <1>8, <1>1, <1>2
<1>9. Elems(r) = Elems(s) \ {x}
  BY <1>7, <1>8, SMTT(60) DEF Elems
<1>10. list_remove(s, x) = r
  BY ZenonT(30) DEF list_remove, k
<1> QED BY <1>5, <1>6, <1>9, <1>10, ZenonT(30)

-----------------------------------------------------------------------------
(* all_list. *)

\* A step that neither links nor removes a thread, and moves nobody into or out
\* of the first part of list_push_back(), leaves all_list exact.
LEMMA ListKept ==
  ASSUME AllListExact, UNCHANGED <<all_list, torn, child>>,
         \A t \in Thread : status'[t] \in {"NONE", "DYING"}
                            <=> status[t] \in {"NONE", "DYING"},
         \A u \in Thread : pc'[u] \in {"push", "link"} <=> pc[u] \in {"push", "link"}
  PROVE  AllListExact'
<1>1. Unlinked' = Unlinked
  BY ZenonT(30) DEF Unlinked
<1>2. {t \in Thread : status'[t] \notin {"NONE", "DYING"}}
        = {t \in Thread : status[t] \notin {"NONE", "DYING"}}
  BY ZenonT(30)
<1> QED BY <1>1, <1>2, ZenonT(30) DEF AllListExact

-----------------------------------------------------------------------------
(* The scheduler and the semaphores. *)

\* schedule() leaves exactly one thread running and the run queue exact.  Its
\* caller must have taken the running thread out of RUNNING, and there must be
\* an idle thread to fall back on if the queue is empty.
LEMMA ScheduleFacts ==
  ASSUME NEW st \in [Thread -> Status], NEW rq \in Seq(Thread),
         idle_thread \in {NoThread, Idle},
         Injective(rq),
         Elems(rq) = {t \in Thread : st[t] = "READY" /\ t # idle_thread},
         \A t \in Thread : st[t] # "RUNNING",
         rq = <<>> => idle_thread = Idle,
         schedule(st, rq),
         idle_thread' = idle_thread
  PROVE  /\ current' \in Thread
         /\ status' = [st EXCEPT ![current'] = "RUNNING"]
         /\ status' \in [Thread -> Status]
         /\ ready_list' \in Seq(Thread)
         /\ thread_ticks' = 0
         /\ OneRunning'
         /\ ReadyListExact'
         /\ current' = idle_thread \/ st[current'] = "READY"
<1>1. /\ current' \in Thread
      /\ status' = [st EXCEPT ![current'] = "RUNNING"]
      /\ status' \in [Thread -> Status]
      /\ ready_list' \in Seq(Thread)
      /\ thread_ticks' = 0
      /\ current' = idle_thread \/ st[current'] = "READY"
  BY TailFacts, ThreadAssumption, ZenonT(30) DEF schedule, next_thread_to_run, Status
<1>2. OneRunning'
  BY <1>1, ZenonT(30) DEF OneRunning
<1>3. ReadyListExact'
  <2>1. CASE rq = <<>>
    <3>1. current' = idle_thread /\ ready_list' = rq
      BY <2>1, ZenonT(30) DEF schedule, next_thread_to_run
    <3> QED BY <3>1, <1>1, ZenonT(30) DEF ReadyListExact
  <2>2. CASE rq # <<>>
    <3>1. current' = Head(rq) /\ ready_list' = Tail(rq)
      BY <2>2, ZenonT(30) DEF schedule, next_thread_to_run
    <3>2. Injective(Tail(rq)) /\ Elems(Tail(rq)) = Elems(rq) \ {Head(rq)}
      BY <2>2, TailFacts, ZenonT(30)
    <3> QED BY <3>1, <3>2, <1>1, ZenonT(30) DEF ReadyListExact
  <2> QED BY <2>1, <2>2, ZenonT(30)
<1> QED BY <1>1, <1>2, <1>3, ZenonT(30)

\* A thread that blocks has somewhere to switch to: until idle() has set
\* idle_thread, the idle thread is in the run queue or running.
LEMMA IdleAvailable ==
  ASSUME TypeOK, OneRunning, ReadyListExact, BootInv,
         pc[current] \notin {"start", "init"}
  PROVE  ready_list = <<>> => idle_thread = Idle
<1> SUFFICES ASSUME ready_list = <<>>, idle_thread # Idle PROVE FALSE
  OBVIOUS
<1>1. Elems(ready_list) = {}
  BY DEF Elems
<1>2. pc[Idle] = "init"
  BY ThreadAssumption, ZenonT(30) DEF BootInv, IdlePC
<1>3. status[Idle] = "READY"
  BY <1>2, ThreadAssumption, ZenonT(30) DEF BootInv, OneRunning
<1> QED BY <1>1, <1>3, ThreadAssumption, ZenonT(30) DEF ReadyListExact, TypeOK

\* thread_block() by a thread that is past boot.
LEMMA BlockFacts ==
  ASSUME TypeOK, OneRunning, ReadyListExact, BootInv,
         pc[current] \notin {"start", "init"},
         thread_block, idle_thread' = idle_thread
  PROVE  /\ current' \in Thread
         /\ status' = [status EXCEPT ![current] = "BLOCKED", ![current'] = "RUNNING"]
         /\ status' \in [Thread -> Status]
         /\ ready_list' \in Seq(Thread)
         /\ thread_ticks' = 0
         /\ OneRunning'
         /\ ReadyListExact'
         /\ \/ current' = idle_thread /\ idle_thread = Idle
            \/ status[current'] = "READY" /\ current' # current
<1> DEFINE st == [status EXCEPT ![current] = "BLOCKED"]
<1>1. /\ st \in [Thread -> Status]
      /\ \A t \in Thread : st[t] # "RUNNING"
      /\ \A t \in Thread : st[t] = "READY" <=> status[t] = "READY"
  BY ZenonT(30) DEF TypeOK, OneRunning, Status
<1>2. /\ Injective(ready_list)
      /\ Elems(ready_list) = {t \in Thread : st[t] = "READY" /\ t # idle_thread}
  BY <1>1, ZenonT(30) DEF ReadyListExact
<1>3. ready_list = <<>> => idle_thread = Idle
  BY IdleAvailable, ZenonT(30)
<1>4. schedule(st, ready_list)
  BY ZenonT(30) DEF thread_block
<1>5. ready_list \in Seq(Thread) /\ idle_thread \in {NoThread, Idle}
  BY ZenonT(30) DEF TypeOK
<1> HIDE DEF st
<1>6. /\ current' \in Thread
      /\ status' = [st EXCEPT ![current'] = "RUNNING"]
      /\ status' \in [Thread -> Status]
      /\ ready_list' \in Seq(Thread)
      /\ thread_ticks' = 0
      /\ OneRunning'
      /\ ReadyListExact'
      /\ current' = idle_thread \/ st[current'] = "READY"
  BY <1>1, <1>2, <1>3, <1>4, <1>5, ScheduleFacts, ZenonT(30)
<1>7. st[current] = "BLOCKED"
  BY ZenonT(30) DEF st, TypeOK
<1> QED BY <1>1, <1>5, <1>6, <1>7, ThreadAssumption, ZenonT(30) DEF st

\* thread_yield() by any thread.
LEMMA YieldFacts ==
  ASSUME TypeOK, OneRunning, ReadyListExact,
         do_yield, idle_thread' = idle_thread
  PROVE  /\ current' \in Thread
         /\ status' = [status EXCEPT ![current] = "READY", ![current'] = "RUNNING"]
         /\ status' \in [Thread -> Status]
         /\ ready_list' \in Seq(Thread)
         /\ thread_ticks' = 0
         /\ OneRunning'
         /\ ReadyListExact'
         /\ current' = idle_thread \/ status[current'] = "READY" \/ current' = current
<1> DEFINE st == [status EXCEPT ![current] = "READY"]
           rq == IF current = idle_thread THEN ready_list
                                          ELSE Append(ready_list, current)
<1>1. /\ st \in [Thread -> Status]
      /\ \A t \in Thread : st[t] # "RUNNING"
      /\ \A t \in Thread : st[t] = "READY" <=> status[t] = "READY" \/ t = current
  BY ZenonT(30) DEF TypeOK, OneRunning, Status
<1>2. /\ current \in Thread /\ current \notin Elems(ready_list)
      /\ ready_list \in Seq(Thread) /\ idle_thread \in {NoThread, Idle}
  BY ZenonT(30) DEF TypeOK, OneRunning, ReadyListExact
<1>3. /\ rq \in Seq(Thread)
      /\ Injective(rq)
      /\ Elems(rq) = {t \in Thread : st[t] = "READY" /\ t # idle_thread}
  <2>1. CASE current = idle_thread
    BY <2>1, <1>1, <1>2, ZenonT(30) DEF ReadyListExact
  <2>2. CASE current # idle_thread
    <3>1. /\ rq \in Seq(Thread) /\ Injective(rq)
          /\ Elems(rq) = Elems(ready_list) \cup {current}
      BY <2>2, <1>2, AppendFacts, SMTT(60) DEF ReadyListExact
    <3> HIDE DEF st, rq
    <3> QED BY <3>1, <2>2, <1>1, <1>2, ZenonT(30) DEF ReadyListExact
  <2> QED BY <2>1, <2>2, ZenonT(30)
<1>4. rq = <<>> => idle_thread = Idle
  BY <1>2, AppendFacts, ThreadAssumption, SMTT(60)
<1>5. schedule(st, rq)
  BY ZenonT(30) DEF do_yield
<1> HIDE DEF st, rq
<1>6. /\ current' \in Thread
      /\ status' = [st EXCEPT ![current'] = "RUNNING"]
      /\ status' \in [Thread -> Status]
      /\ ready_list' \in Seq(Thread)
      /\ thread_ticks' = 0
      /\ OneRunning'
      /\ ReadyListExact'
      /\ current' = idle_thread \/ st[current'] = "READY"
  BY <1>1, <1>2, <1>3, <1>4, <1>5, ScheduleFacts, ZenonT(30)
<1> QED BY <1>1, <1>6, ZenonT(60) DEF st

\* thread_unblock() of a blocked thread other than the parked idle thread.
LEMMA UnblockFacts ==
  ASSUME TypeOK, OneRunning, ReadyListExact,
         NEW t \in Thread, status[t] = "BLOCKED", t # idle_thread,
         thread_unblock(t), idle_thread' = idle_thread, current' = current
  PROVE  /\ status' = [status EXCEPT ![t] = "READY"]
         /\ status' \in [Thread -> Status]
         /\ ready_list' \in Seq(Thread)
         /\ OneRunning'
         /\ ReadyListExact'
<1>1. status' = [status EXCEPT ![t] = "READY"] /\ status' \in [Thread -> Status]
  BY ZenonT(30) DEF thread_unblock, TypeOK, Status
<1>2. OneRunning'
  BY <1>1, ZenonT(30) DEF OneRunning, TypeOK
<1>3. t \notin Elems(ready_list)
  BY ZenonT(30) DEF ReadyListExact
<1>4. /\ ready_list' \in Seq(Thread)
      /\ Injective(ready_list')
      /\ Elems(ready_list') = Elems(ready_list) \cup {t}
  BY <1>3, AppendFacts, SMTT(60) DEF thread_unblock, TypeOK, ReadyListExact
<1>5. ReadyListExact'
  BY <1>1, <1>4, SMTT(60) DEF ReadyListExact, TypeOK
<1> QED BY <1>1, <1>2, <1>4, <1>5, ZenonT(30)

\* sema_down() from each of its callers keeps the invariant.
LEMMA SemaDownFacts ==
  ASSUME IndInv, NEW s \in Sema, foreach = 0,
         pc[current] \in {"run", "boot", "acquire", "down"},
         pc[current] = "down" => waits_for[current] = s,
         s = tid_lock <=> child[current] # NoThread,
         do_sema_down(s),
         UNCHANGED <<listVars, idle_thread, foreach, timeVars, tidVars>>
  PROVE  IndInv'
<1>i. /\ TypeOK /\ OneRunning /\ ReadyListExact /\ AllListExact /\ BootInv
      /\ WaitInv /\ SleepInv /\ ChildInv /\ ClockInv /\ TidLockExclusive
  BY ZenonT(30) DEF IndInv
<1> USE <1>i DEF listVars, timeVars, tidVars
<1>0. /\ current \in Thread /\ status[current] = "RUNNING" /\ current # Idle
      /\ pc[current] # "start" /\ pc[current] # "init"
      /\ ~ Sleeping(current) /\ ~ InMaking(current)
      /\ current \notin Elems(waiters[s])
      /\ s # NoSema
  <2>1. current \in Thread /\ status[current] = "RUNNING"
    BY ZenonT(30) DEF TypeOK, OneRunning
  <2>2. current # Idle /\ pc[current] # "start" /\ pc[current] # "init"
    <3>1. pc[current] \notin IdlePC
      BY ONLY pc[current] \in {"run", "boot", "acquire", "down"}, ZenonT(30) DEF IdlePC
    <3>2. pc[Idle] \in IdlePC \cup {"run"} /\ (pc[Idle] = "run" => status[Idle] = "NONE")
      BY ZenonT(30) DEF BootInv
    <3>3. pc[current] # "start" /\ pc[current] # "init"
      BY ONLY pc[current] \in {"run", "boot", "acquire", "down"}
    <3> QED BY ONLY <2>1, <3>1, <3>2, <3>3, ZenonT(30)
  <2>3. ~ Sleeping(current)
    BY ONLY <2>1, IndInv, ZenonT(30) DEF IndInv, SleepInv
  <2>4. ~ InMaking(current)
    <3>1. \A u \in Thread : child[u] # NoThread => status[child[u]] = "BLOCKED"
      BY ONLY IndInv DEF IndInv, ChildInv
    <3> QED BY ONLY <2>1, <3>1, ThreadAssumption, ZenonT(30) DEF InMaking
  <2>5. current \notin Elems(waiters[s])
    BY ONLY <2>1, s \in Sema, IndInv, ZenonT(30) DEF IndInv, WaitInv
  <2>6. s # NoSema
    BY ONLY s \in Sema, SemaAssumption, ZenonT(30)
  <2> QED BY ONLY <2>1, <2>2, <2>3, <2>4, <2>5, <2>6, ZenonT(30)
<1>1. CASE value[s] > 0
  <2>1. /\ value' = [value EXCEPT ![s] = @ - 1]
        /\ waits_for' = [waits_for EXCEPT ![current] = NoSema]
        /\ pc' = [pc EXCEPT ![current] = After(s)]
        /\ UNCHANGED <<waiters, status, current, ready_list, thread_ticks>>
    BY <1>1 DEF do_sema_down, Goto, schedVars
  <2>2. After(s) \in {"read", "run"} /\ (After(s) = "read" <=> s = tid_lock)
    BY ZenonT(30) DEF After
  <2>3. TypeOK'
    BY <1>0, <1>1, <2>1, <2>2, SMTT(60) DEF TypeOK, PC
  <2>4. OneRunning' /\ ReadyListExact' /\ AllListExact'
    <3>1. \A u \in Thread : pc'[u] \in {"push", "link"} <=> pc[u] \in {"push", "link"}
      BY <2>1, <2>2, ZenonT(30) DEF TypeOK
    <3>2. AllListExact'
      BY <2>1, <3>1, ListKept, ZenonT(30)
    <3> QED BY <2>1, <3>2, ZenonT(30) DEF OneRunning, ReadyListExact
  <2>5. BootInv'
    BY <1>0, <2>1, <2>2, SMTT(60) DEF BootInv, IdlePC, TypeOK
  <2>6. WaitInv'
    BY <1>0, <2>1, <2>2, SMTT(60) DEF WaitInv, TypeOK
  <2>7. SleepInv' /\ ClockInv'
    BY <1>0, <2>1, <2>2, ZenonT(30) DEF SleepInv, ClockInv, Sleeping, TypeOK
  <2>8. ChildInv'
    BY <1>0, <2>1, <2>2, SemaAssumption, SMTT(60)
       DEF ChildInv, CreatePC, Sleeping, InMaking, TypeOK
  <2>9. TidLockExclusive'
    <3>1. CASE s = tid_lock
      <4>1. value[tid_lock] = 1 /\ value'[tid_lock] = 0
        BY <3>1, <1>1, <2>1, SemaAssumption, SMTT(60) DEF TidLockExclusive, TypeOK
      <4>2. \A t \in Thread : HoldsTidLock(t)' <=> t = current
        BY <3>1, <4>1, <1>0, <2>1, <2>2, ZenonT(30) DEF TidLockExclusive, HoldsTidLock, TypeOK
      <4> QED BY <4>1, <4>2, <1>0, SMTT(60) DEF TidLockExclusive
    <3>2. CASE s # tid_lock
      <4>1. value'[tid_lock] = value[tid_lock]
        BY <3>2, <2>1, SemaAssumption, ZenonT(30) DEF TypeOK
      <4>2. \A t \in Thread : HoldsTidLock(t)' <=> HoldsTidLock(t)
        BY <3>2, <1>0, <2>1, <2>2, ZenonT(30) DEF HoldsTidLock, TypeOK
      <4> QED BY <4>1, <4>2, ZenonT(30) DEF TidLockExclusive
    <3> QED BY <3>1, <3>2, ZenonT(30)
  <2> QED BY <2>3, <2>4, <2>5, <2>6, <2>7, <2>8, <2>9, ZenonT(30) DEF IndInv
<1>2. CASE value[s] = 0
  <2>1. /\ waiters' = [waiters EXCEPT ![s] = Append(@, current)]
        /\ waits_for' = [waits_for EXCEPT ![current] = s]
        /\ pc' = [pc EXCEPT ![current] = "down"]
        /\ thread_block
        /\ value' = value
    BY <1>2, SMTT(60) DEF do_sema_down, Goto
  <2>2. /\ current' \in Thread
        /\ status' = [status EXCEPT ![current] = "BLOCKED", ![current'] = "RUNNING"]
        /\ status' \in [Thread -> Status]
        /\ ready_list' \in Seq(Thread)
        /\ thread_ticks' = 0
        /\ OneRunning'
        /\ ReadyListExact'
        /\ \/ current' = idle_thread /\ idle_thread = Idle
           \/ status[current'] = "READY" /\ current' # current
    BY <1>0, <2>1, BlockFacts, ZenonT(30)
  <2>3. /\ current' # current /\ status'[current] = "BLOCKED"
        /\ status'[current'] = "RUNNING"
        /\ \A t \in Thread \ {current, current'} : status'[t] = status[t]
        /\ current' = Idle => pc[Idle] # "run"
        /\ status[current'] # "NONE" /\ status[current'] # "DYING"
    BY <1>0, <2>2, ThreadAssumption, ZenonT(30) DEF TypeOK, BootInv
  <2>4. /\ waiters'[s] \in Seq(Thread)
        /\ Elems(waiters'[s]) = Elems(waiters[s]) \cup {current}
        /\ Injective(waiters'[s])
        /\ \A r \in Sema \ {s} : waiters'[r] = waiters[r]
    BY <1>0, <2>1, AppendFacts, SMTT(60) DEF TypeOK, WaitInv
  <2>5. TypeOK'
    BY <1>0, <2>1, <2>2, <2>4, ZenonT(60) DEF TypeOK, PC
  <2>6. AllListExact'
    <3>1. \A u \in Thread : pc'[u] \in {"push", "link"} <=> pc[u] \in {"push", "link"}
      BY <2>1, ZenonT(30) DEF TypeOK
    <3>2. \A t \in Thread : status'[t] \in {"NONE", "DYING"}
                             <=> status[t] \in {"NONE", "DYING"}
      BY <1>0, <2>3, ZenonT(30)
    <3> QED BY <3>1, <3>2, ListKept, ZenonT(30)
  <2>7. BootInv'
    BY <1>0, <2>1, <2>2, <2>3, ThreadAssumption, SMTT(60) DEF BootInv, IdlePC, TypeOK
  <2>8. /\ ~ Sleeping(current')
        /\ ~ InMaking(current')
        /\ \A r \in Sema : current' \notin Elems(waiters[r])
    <3>1. status[current'] = "BLOCKED" => current' = Idle /\ pc[current'] = "hlt"
      BY <2>2, <2>3, ZenonT(30) DEF BootInv
    <3>2. ~ Sleeping(current')
      BY <3>1, <2>2, ZenonT(30) DEF SleepInv
    <3>3. ~ InMaking(current')
      BY <3>1, <2>2, ThreadAssumption, ZenonT(30) DEF ChildInv, InMaking
    <3>4. \A r \in Sema : current' \notin Elems(waiters[r])
      BY <3>1, <2>2, SemaAssumption, SMTT(60) DEF WaitInv
    <3> QED BY <3>2, <3>3, <3>4, ZenonT(30)
  <2>9. WaitInv'
    <3>1. \A t \in Thread : pc'[t] = "down" <=> waits_for'[t] # NoSema
      BY <1>0, <2>1, SMTT(60) DEF WaitInv, TypeOK
    <3>2. ASSUME NEW r \in Sema, NEW t \in Thread
          PROVE  t \in Elems(waiters'[r]) <=> waits_for'[t] = r /\ status'[t] = "BLOCKED"
      <4>1. CASE t = current
        BY <4>1, <1>0, <2>1, <2>3, <2>4, SMTT(60) DEF WaitInv, TypeOK
      <4>2. CASE t = current'
        <5>1. status'[t] # "BLOCKED" /\ t # current
          BY ONLY <4>2, <2>3, ZenonT(30)
        <5>2. t \notin Elems(waiters[r]) /\ t \notin Elems(waiters[s])
          BY ONLY <4>2, <2>8, r \in Sema, s \in Sema, ZenonT(30)
        <5>3. \/ Elems(waiters'[r]) = Elems(waiters[r])
              \/ Elems(waiters'[r]) = Elems(waiters[s]) \cup {current}
          BY ONLY <2>4, r \in Sema, ZenonT(30)
        <5> QED BY ONLY <5>1, <5>2, <5>3, ZenonT(30)
      <4>3. CASE t \notin {current, current'}
        BY <4>3, <1>0, <2>1, <2>3, <2>4, SMTT(60) DEF WaitInv, TypeOK
      <4> QED BY <4>1, <4>2, <4>3, ZenonT(30)
    <3>3. \A r \in Sema : Injective(waiters'[r])
      BY <2>4, ZenonT(30) DEF WaitInv
    <3> QED BY <3>1, <3>2, <3>3, ZenonT(30) DEF WaitInv
  <2>10. SleepInv' /\ ClockInv'
    BY <1>0, <2>1, <2>3, <2>8, ZenonT(30) DEF SleepInv, ClockInv, Sleeping, TypeOK
  <2>11. ChildInv'
    BY <1>0, <2>1, <2>2, <2>3, <2>8, SemaAssumption, SMTT(60)
       DEF ChildInv, CreatePC, Sleeping, InMaking, TypeOK
  <2>12. TidLockExclusive'
    BY <1>0, <2>1, ZenonT(30) DEF TidLockExclusive, HoldsTidLock, TypeOK
  <2> QED BY <2>2, <2>5, <2>6, <2>7, <2>9, <2>10, <2>11, <2>12, ZenonT(30) DEF IndInv
<1> QED BY <1>1, <1>2, ZenonT(30) DEF do_sema_down

\* sema_up() makes at most the first waiter ready and changes nothing else.
LEMMA SemaUpFacts ==
  ASSUME IndInv, NEW s \in Sema, do_sema_up(s),
         UNCHANGED <<current, idle_thread, waits_for>>
  PROVE  /\ value' = [value EXCEPT ![s] = @ + 1]
         /\ status' \in [Thread -> Status]
         /\ ready_list' \in Seq(Thread)
         /\ waiters' \in [Sema -> Seq(Thread)]
         /\ OneRunning'
         /\ ReadyListExact'
         /\ \A t \in Thread : status'[t] # status[t] =>
              /\ status[t] = "BLOCKED" /\ status'[t] = "READY" /\ waits_for[t] = s
              /\ pc[t] = "down"
         /\ \A r \in Sema : \A t \in Thread :
              t \in Elems(waiters'[r]) <=> waits_for[t] = r /\ status'[t] = "BLOCKED"
         /\ \A r \in Sema : Injective(waiters'[r])
<1>i. /\ TypeOK /\ OneRunning /\ ReadyListExact /\ AllListExact /\ BootInv
      /\ WaitInv /\ SleepInv /\ ChildInv /\ ClockInv /\ TidLockExclusive
  BY ZenonT(30) DEF IndInv
<1> USE <1>i DEF listVars
<1>1. CASE waiters[s] = <<>>
  BY <1>1, SMTT(60) DEF do_sema_up, TypeOK, OneRunning, ReadyListExact, WaitInv
<1>2. CASE waiters[s] # <<>>
  <2> DEFINE h == Head(waiters[s])
  <2>1. /\ waiters' = [waiters EXCEPT ![s] = Tail(@)]
        /\ thread_unblock(h)
        /\ value' = [value EXCEPT ![s] = @ + 1]
    BY <1>2, ZenonT(30) DEF do_sema_up
  <2>2. /\ h \in Thread /\ h \in Elems(waiters[s])
        /\ Tail(waiters[s]) \in Seq(Thread)
        /\ Elems(Tail(waiters[s])) = Elems(waiters[s]) \ {h}
        /\ Injective(Tail(waiters[s]))
    BY <1>2, TailFacts, SMTT(60) DEF TypeOK, WaitInv
  <2> HIDE DEF h
  <2>3. /\ status[h] = "BLOCKED" /\ waits_for[h] = s /\ pc[h] = "down"
        /\ h # idle_thread
    <3>1. status[h] = "BLOCKED" /\ waits_for[h] = s
      BY <2>2, ZenonT(30) DEF WaitInv
    <3>2. pc[h] = "down"
      BY <3>1, <2>2, SemaAssumption, ZenonT(30) DEF WaitInv
    <3>3. idle_thread = Idle => h # Idle
      BY <3>2, ZenonT(30) DEF BootInv
    <3> QED BY <3>1, <3>2, <3>3, <2>2, ThreadAssumption, ZenonT(30) DEF TypeOK
  <2>4. /\ status' = [status EXCEPT ![h] = "READY"]
        /\ status' \in [Thread -> Status]
        /\ ready_list' \in Seq(Thread)
        /\ OneRunning'
        /\ ReadyListExact'
    BY <2>1, <2>2, <2>3, UnblockFacts, ZenonT(30)
  <2>5. /\ waiters' \in [Sema -> Seq(Thread)]
        /\ waiters'[s] = Tail(waiters[s])
        /\ \A r \in Sema \ {s} : waiters'[r] = waiters[r]
    BY <2>1, <2>2, ZenonT(30) DEF TypeOK
  <2>6. \A r \in Sema : \A t \in Thread :
          t \in Elems(waiters'[r]) <=> waits_for[t] = r /\ status'[t] = "BLOCKED"
    <3> SUFFICES ASSUME NEW r \in Sema, NEW t \in Thread
                 PROVE  t \in Elems(waiters'[r]) <=>
                          waits_for[t] = r /\ status'[t] = "BLOCKED"
      BY ZenonT(30)
    <3>1. t \in Elems(waiters[r]) <=> waits_for[t] = r /\ status[t] = "BLOCKED"
      BY ZenonT(30) DEF WaitInv
    <3>2. status'[t] = IF t = h THEN "READY" ELSE status[t]
      BY <2>2, <2>4, ZenonT(30) DEF TypeOK
    <3>3. Elems(waiters'[r]) = IF r = s THEN Elems(waiters[s]) \ {h} ELSE Elems(waiters[r])
      BY <2>2, <2>5, ZenonT(60)
    <3> QED BY <2>3, <3>1, <3>2, <3>3, ZenonT(30)
  <2>7. \A r \in Sema : Injective(waiters'[r])
    <3>1. \A r \in Sema : Injective(waiters[r])
      BY ZenonT(30) DEF WaitInv
    <3> QED BY <3>1, <2>2, <2>5, ZenonT(60)
  <2>8. \A t \in Thread : status'[t] # status[t] =>
          /\ status[t] = "BLOCKED" /\ status'[t] = "READY" /\ waits_for[t] = s
          /\ pc[t] = "down"
    BY <2>3, <2>4, ZenonT(30) DEF TypeOK
  <2> QED BY <2>1, <2>4, <2>5, <2>6, <2>7, <2>8, ZenonT(30)
<1> QED BY <1>1, <1>2, ZenonT(30)

-----------------------------------------------------------------------------
(* sema_up() and the switch to another thread keep the invariant. *)

\* sema_up() from each of its callers, who then stand at label p, keeps the
\* invariant.
LEMMA SemaUpInv ==
  ASSUME IndInv, NEW s \in Sema, do_sema_up(s), NEW p,
         pc' = [pc EXCEPT ![current] = p],
         \/ p = pc[current] /\ s # tid_lock
         \/ pc[current] = "up" /\ p = "unblock" /\ s = tid_lock
         \/ pc[current] \in {"started", "hlt"} /\ p = "loop" /\ s # tid_lock,
         pc[current] # "down",
         UNCHANGED <<current, thread_ticks, waits_for, listVars, idle_thread,
                     foreach, timeVars, tidVars>>
  PROVE  IndInv'
<1>i. /\ TypeOK /\ OneRunning /\ ReadyListExact /\ AllListExact /\ BootInv
      /\ WaitInv /\ SleepInv /\ ChildInv /\ ClockInv /\ TidLockExclusive
  BY ZenonT(30) DEF IndInv
<1> USE <1>i DEF listVars, timeVars, tidVars
<1>1. /\ value' = [value EXCEPT ![s] = @ + 1]
      /\ status' \in [Thread -> Status]
      /\ ready_list' \in Seq(Thread)
      /\ waiters' \in [Sema -> Seq(Thread)]
      /\ OneRunning'
      /\ ReadyListExact'
      /\ \A t \in Thread : status'[t] # status[t] =>
           /\ status[t] = "BLOCKED" /\ status'[t] = "READY" /\ waits_for[t] = s
           /\ pc[t] = "down"
      /\ \A r \in Sema : \A t \in Thread :
           t \in Elems(waiters'[r]) <=> waits_for[t] = r /\ status'[t] = "BLOCKED"
      /\ \A r \in Sema : Injective(waiters'[r])
  BY SemaUpFacts, ZenonT(30)
<1>2. /\ current \in Thread /\ status[current] = "RUNNING"
      /\ p \in PC /\ p # "down" /\ waits_for[current] = NoSema
  BY SMTT(60) DEF TypeOK, OneRunning, PC, WaitInv
<1>3. TypeOK'
  <2>1. value' \in [Sema -> Nat]
    BY <1>1, SMTT(60) DEF TypeOK
  <2>2. pc' \in [Thread -> PC]
    BY <1>2, ZenonT(30) DEF TypeOK
  <2> QED BY <1>1, <2>1, <2>2, ZenonT(30) DEF TypeOK
<1>4. AllListExact'
  <2>1. \A u \in Thread : pc'[u] \in {"push", "link"} <=> pc[u] \in {"push", "link"}
    BY ZenonT(30) DEF TypeOK
  <2>2. \A t \in Thread : status'[t] \in {"NONE", "DYING"}
                           <=> status[t] \in {"NONE", "DYING"}
    BY <1>1, ZenonT(30)
  <2> QED BY <2>1, <2>2, ListKept, ZenonT(30)
<1>5. BootInv'
  <2>1. \A t \in Thread : /\ status'[t] = "BLOCKED" => status[t] = "BLOCKED"
                          /\ status'[t] \in {"NONE", "DYING"} <=> status[t] \in {"NONE", "DYING"}
                          /\ status'[t] = "NONE" <=> status[t] = "NONE"
                          /\ status'[t] = "DYING" <=> status[t] = "DYING"
    BY <1>1, ZenonT(30)
  <2>2. status'[Idle] = status[Idle]
    BY <1>1, ThreadAssumption, ZenonT(30) DEF BootInv, IdlePC
  <2>3. \A t \in Thread : pc'[t] = IF t = current THEN p ELSE pc[t]
    BY ZenonT(30) DEF TypeOK
  <2>4. \/ p = pc[current]
        \/ pc[current] = "up" /\ p = "unblock"
        \/ pc[current] \in {"started", "hlt"} /\ p = "loop"
    BY ZenonT(30)
  <2>5. \A t \in Thread :
          /\ pc'[t] \in IdlePC <=> pc[t] \in IdlePC
          /\ pc'[t] \in {"start", "boot"} <=> pc[t] \in {"start", "boot"}
          /\ pc'[t] \in {"started", "loop", "hlt"} <=> pc[t] \in {"started", "loop", "hlt"}
          /\ pc'[t] = "run" <=> pc[t] = "run"
          /\ pc'[t] = "start" <=> pc[t] = "start"
          /\ pc'[t] = "init" <=> pc[t] = "init"
          /\ t # current => (pc'[t] = "down" <=> pc[t] = "down")
          /\ t # current => (pc'[t] = "hlt" <=> pc[t] = "hlt")
    BY ONLY <2>3, <2>4, ZenonT(30) DEF IdlePC
  <2>6. status[current] = "RUNNING" /\ Idle \in Thread /\ initial_thread \in Thread
    BY <1>2, ThreadAssumption, ZenonT(30)
  <2>7. current' = current /\ foreach' = foreach /\ idle_thread' = idle_thread
    BY ZenonT(30)
  <2> QED BY ONLY BootInv, <2>1, <2>2, <2>5, <2>6, <2>7, ZenonT(30) DEF BootInv
<1>6. WaitInv'
  BY <1>1, <1>2, SMTT(60) DEF WaitInv, TypeOK
<1>7. SleepInv' /\ ClockInv'
  BY <1>1, <1>2, SMTT(60) DEF SleepInv, ClockInv, Sleeping, TypeOK
<1>8. ChildInv'
  <2>1. \A u \in Thread : child'[u] # NoThread <=>
          \/ pc'[u] \in CreatePC
          \/ waits_for'[u] = tid_lock
    BY <1>2, ZenonT(30) DEF ChildInv, CreatePC, TypeOK
  <2>2. \A t \in Thread : pc[t] = "run" => status'[t] = status[t]
    BY <1>1, ZenonT(30)
  <2>3. \A t \in Thread : pc[t] = "run" <=> pc'[t] = "run"
    BY <1>2, ZenonT(30) DEF TypeOK
  <2> QED BY <2>1, <2>2, <2>3, SMTT(60) DEF ChildInv, Sleeping, InMaking, TypeOK
<1>9. TidLockExclusive'
  <2>1. CASE s = tid_lock
    <3>1. value[tid_lock] = 0 /\ value'[tid_lock] = 1
      BY <2>1, <1>1, <1>2, SMTT(60) DEF TidLockExclusive, HoldsTidLock, TypeOK
    <3>2. \A t \in Thread : ~ HoldsTidLock(t)'
      BY <2>1, <1>2, ZenonT(30) DEF TidLockExclusive, HoldsTidLock, TypeOK
    <3> QED BY ONLY <3>1, <3>2, SMTT(60) DEF TidLockExclusive
  <2>2. CASE s # tid_lock
    <3>1. value'[tid_lock] = value[tid_lock]
      BY <2>2, <1>1, SemaAssumption, SMTT(60) DEF TypeOK
    <3>2. \A t \in Thread : HoldsTidLock(t)' <=> HoldsTidLock(t)
      BY <2>2, <1>2, ZenonT(30) DEF HoldsTidLock, TypeOK
    <3> QED BY <3>1, <3>2, ZenonT(30) DEF TidLockExclusive
  <2> QED BY <2>1, <2>2, ZenonT(30)
<1> QED BY <1>1, <1>3, <1>4, <1>5, <1>6, <1>7, <1>8, <1>9, ZenonT(30) DEF IndInv

\* What a switch to another thread leaves of the invariant: the thread switched
\* to was ready or is the idle thread, so it slept nowhere and waited nowhere.
LEMMA SwitchedTo ==
  ASSUME IndInv, NEW n \in Thread,
         \/ n = idle_thread
         \/ status[n] = "READY"
         \/ n = current
  PROVE  /\ ~ Sleeping(n)
         /\ ~ InMaking(n)
         /\ \A s \in Sema : n \notin Elems(waiters[s])
         /\ status[n] \notin {"NONE", "DYING"}
<1>i. /\ TypeOK /\ OneRunning /\ ReadyListExact /\ AllListExact /\ BootInv
      /\ WaitInv /\ SleepInv /\ ChildInv /\ ClockInv /\ TidLockExclusive
  BY ZenonT(30) DEF IndInv
<1> USE <1>i DEF listVars
<1>1. n = idle_thread => n = Idle /\ pc[n] \in {"started", "loop", "hlt"}
  BY ThreadAssumption, ZenonT(30) DEF BootInv, TypeOK
<1>2. status[n] = "BLOCKED" => n = Idle /\ pc[n] # "run" /\ pc[n] # "down"
  BY <1>1, ZenonT(30) DEF OneRunning
<1>3. ~ Sleeping(n)
  BY <1>2, ZenonT(30) DEF SleepInv
<1>4. ~ InMaking(n)
  BY <1>2, ThreadAssumption, ZenonT(30) DEF ChildInv, InMaking
<1>5. \A s \in Sema : n \notin Elems(waiters[s])
  BY <1>2, SemaAssumption, SMTT(60) DEF WaitInv
<1>6. status[n] \notin {"NONE", "DYING"}
  BY <1>1, ThreadAssumption, ZenonT(30) DEF BootInv, OneRunning
<1> QED BY <1>3, <1>4, <1>5, <1>6, ZenonT(30)

\* A yield, from thread_yield() or at the end of an interrupt, keeps the
\* invariant.  The interrupt may also have ended idle()'s hlt.
LEMMA YieldInv ==
  ASSUME IndInv, do_yield, foreach' = 0, pc[current] # "start",
         \A t \in Thread : t # current => pc'[t] = pc[t],
         pc' \in [Thread -> PC],
         \/ pc'[current] = pc[current] /\ pc[current] # "hlt"
         \/ pc[current] = "hlt" /\ pc'[current] = "loop",
         ~ torn => \A t \in Thread : Sleeping(t) => wakeup_time[t] > ticks,
         UNCHANGED <<listVars, idle_thread, timeVars, semaVars, tidVars>>
  PROVE  IndInv'
<1>i. /\ TypeOK /\ OneRunning /\ ReadyListExact /\ AllListExact /\ BootInv
      /\ WaitInv /\ SleepInv /\ ChildInv /\ ClockInv /\ TidLockExclusive
  BY ZenonT(30) DEF IndInv
<1> USE <1>i DEF listVars, timeVars, tidVars, semaVars
<1>0. current \in Thread /\ status[current] = "RUNNING"
  BY ZenonT(30) DEF TypeOK, OneRunning
<1>1. /\ current' \in Thread
      /\ status' = [status EXCEPT ![current] = "READY", ![current'] = "RUNNING"]
      /\ status' \in [Thread -> Status]
      /\ ready_list' \in Seq(Thread)
      /\ thread_ticks' = 0
      /\ OneRunning'
      /\ ReadyListExact'
      /\ current' = idle_thread \/ status[current'] = "READY" \/ current' = current
  BY YieldFacts, ZenonT(30)
<1>2. /\ ~ Sleeping(current') /\ ~ InMaking(current')
      /\ \A s \in Sema : current' \notin Elems(waiters[s])
      /\ status[current'] \notin {"NONE", "DYING"}
  BY <1>1, SwitchedTo, ZenonT(30)
<1>3. \A t \in Thread : status'[t] = IF t = current' THEN "RUNNING"
                                     ELSE IF t = current THEN "READY" ELSE status[t]
  BY <1>1, ZenonT(30) DEF TypeOK
<1>4. \A t \in Thread : \A p \in PC \ {"hlt", "loop"} : pc'[t] = p <=> pc[t] = p
  BY ZenonT(30) DEF TypeOK
<1>5. TypeOK'
  BY <1>1, ZenonT(60) DEF TypeOK
<1>6. AllListExact'
  <2>1. \A u \in Thread : pc'[u] \in {"push", "link"} <=> pc[u] \in {"push", "link"}
    BY <1>4, ZenonT(30) DEF PC
  <2>2. \A t \in Thread : status'[t] \in {"NONE", "DYING"}
                           <=> status[t] \in {"NONE", "DYING"}
    BY <1>0, <1>2, <1>3, ZenonT(30)
  <2> QED BY <2>1, <2>2, ListKept, ZenonT(30)
<1>7. BootInv'
  BY <1>0, <1>1, <1>2, <1>3, ThreadAssumption, ZenonT(60) DEF BootInv, IdlePC, TypeOK
<1>8. WaitInv'
  <2>1. \A t \in Thread : pc'[t] = "down" <=> pc[t] = "down"
    BY <1>4, ZenonT(30) DEF PC
  <2> QED BY <1>0, <1>2, <1>3, <2>1 DEF WaitInv
<1>9. SleepInv'
  <2>1. \A t \in Thread : pc'[t] = "run" <=> pc[t] = "run"
    BY <1>4, ZenonT(30) DEF PC
  <2> QED BY <1>0, <1>2, <1>3, <2>1, ZenonT(30) DEF SleepInv, Sleeping
<1>10. ClockInv'
  BY SMTT(60) DEF ClockInv, Sleeping, TypeOK
<1>11. ChildInv'
  <2>1. \A t \in Thread : pc'[t] = "run" <=> pc[t] = "run"
    BY <1>4, ZenonT(30) DEF PC
  <2>2. \A u \in Thread : pc'[u] \in CreatePC
                            <=> pc[u] \in CreatePC
    BY <1>4, ZenonT(30) DEF PC, CreatePC
  <2>3. \A t \in Thread : status'[t] = "BLOCKED" <=> status[t] = "BLOCKED" /\ t # current'
    BY <1>0, <1>3, ZenonT(30)
  <2> QED BY <1>2, <2>1, <2>2, <2>3, SMTT(60) DEF ChildInv, InMaking, Sleeping, TypeOK
<1>12. TidLockExclusive'
  <2>1. \A t \in Thread : HoldsTidLock(t)' <=> HoldsTidLock(t)
    BY <1>4, ZenonT(30) DEF HoldsTidLock, PC
  <2> QED BY <2>1, ZenonT(30) DEF TidLockExclusive
<1> QED BY <1>1, <1>5, <1>6, <1>7, <1>8, <1>9, <1>10, <1>11, <1>12, ZenonT(30) DEF IndInv

-----------------------------------------------------------------------------
(* thread_create(). *)

\* A step inside thread_create() that only moves on, perhaps linking the new
\* thread or storing a tid, keeps the invariant if it leaves all_list exact.
LEMMA CreateMove ==
  ASSUME IndInv, NEW q, pc[current] \in CreatePC, q \in CreatePC, foreach = 0,
         pc[current] \in {"read", "write", "up"} <=> q \in {"read", "write", "up"},
         pc' = [pc EXCEPT ![current] = q],
         UNCHANGED <<status, current, ready_list, thread_ticks, idle_thread,
                     foreach, ticks, wakeup_time, value, waiters, waits_for, child>>,
         all_list' \in Seq(Thread), torn' \in BOOLEAN, torn => torn',
         next_tid' \in Nat, tid' \in [Thread -> Nat], AllListExact'
  PROVE  IndInv'
<1>i. /\ TypeOK /\ OneRunning /\ ReadyListExact /\ AllListExact /\ BootInv
      /\ WaitInv /\ SleepInv /\ ChildInv /\ ClockInv /\ TidLockExclusive
  BY ZenonT(30) DEF IndInv
<1>0. current \in Thread /\ status[current] = "RUNNING" /\ current # Idle
  BY <1>i, ThreadAssumption, ZenonT(30) DEF TypeOK, OneRunning, BootInv, IdlePC, CreatePC
<1>1. q \in PC
  BY ZenonT(30) DEF CreatePC, PC
<1>2. /\ \A t \in Thread : t # current => pc'[t] = pc[t]
      /\ pc'[current] = q
      /\ pc' \in [Thread -> PC]
  BY <1>i, <1>0, <1>1, ZenonT(30) DEF TypeOK
<1>3. \A t \in Thread :
        /\ pc'[t] \in CreatePC <=> pc[t] \in CreatePC
        /\ \A r \in {"start", "boot", "run", "down", "init", "started", "loop", "hlt"} :
             pc'[t] = r <=> pc[t] = r
  BY <1>2, ZenonT(30) DEF CreatePC
<1>4. TypeOK'
  BY <1>i, <1>2, ZenonT(30) DEF TypeOK
<1>5. OneRunning' /\ ReadyListExact'
  BY <1>i, ZenonT(30) DEF OneRunning, ReadyListExact
<1>6. \A t \in Thread :
        /\ pc'[t] \in IdlePC <=> pc[t] \in IdlePC
        /\ pc'[t] \in {"start", "boot"} <=> pc[t] \in {"start", "boot"}
        /\ pc'[t] \in {"started", "loop", "hlt"} <=> pc[t] \in {"started", "loop", "hlt"}
        /\ pc'[t] \in {"run", "down", "hlt"} <=> pc[t] \in {"run", "down", "hlt"}
        /\ pc'[t] = "run" <=> pc[t] = "run"
        /\ pc'[t] = "down" <=> pc[t] = "down"
        /\ pc'[t] = "start" <=> pc[t] = "start"
        /\ pc'[t] = "init" <=> pc[t] = "init"
        /\ pc'[t] = "hlt" <=> pc[t] = "hlt"
  BY <1>3, ZenonT(30) DEF IdlePC
<1>7. BootInv'
  <2>1. pc'[Idle] = pc[Idle] /\ Idle \in Thread /\ initial_thread \in Thread
    BY <1>0, <1>2, ThreadAssumption, ZenonT(30)
  <2> QED BY <1>i, <1>6, <2>1, ZenonT(30) DEF BootInv
<1>8. WaitInv' /\ SleepInv'
  <2>1. WaitInv'
    BY ONLY <1>i, <1>6, UNCHANGED <<status, waiters, waits_for>>, SMTT(60) DEF WaitInv
  <2>2. SleepInv'
    BY ONLY <1>i, <1>6, UNCHANGED <<status, wakeup_time>>, ZenonT(30) DEF SleepInv, Sleeping
  <2> QED BY <2>1, <2>2, ZenonT(30)
<1>9. ChildInv'
  BY ONLY <1>i, <1>3, <1>6, UNCHANGED <<status, child, waits_for, wakeup_time>>, SMTT(60)
     DEF ChildInv, InMaking, Sleeping, TypeOK
<1>10. ClockInv'
  <2>1. 0 <= Len(all_list') + 1
    OBVIOUS
  <2> QED BY <1>i, <2>1, ZenonT(30) DEF ClockInv, Sleeping
<1>11. TidLockExclusive'
  <2>1. \A t \in Thread : HoldsTidLock(t)' <=> HoldsTidLock(t)
    BY <1>2, ZenonT(30) DEF HoldsTidLock
  <2> QED BY <1>i, <2>1, ZenonT(30) DEF TidLockExclusive
<1> QED BY <1>4, <1>5, <1>7, <1>8, <1>9, <1>10, <1>11, ZenonT(30) DEF IndInv

\* thread_create() keeps the invariant.
LEMMA CreateStep == IndInv /\ Create => IndInv'
<1> SUFFICES ASSUME IndInv, Create PROVE IndInv'
  OBVIOUS
<1>i. /\ TypeOK /\ OneRunning /\ ReadyListExact /\ AllListExact /\ BootInv
      /\ WaitInv /\ SleepInv /\ ChildInv /\ ClockInv /\ TidLockExclusive
  BY ZenonT(30) DEF IndInv
<1> USE <1>i DEF listVars, timeVars, tidVars, semaVars, schedVars
<1>0. current \in Thread /\ status[current] = "RUNNING"
  BY ZenonT(30) DEF TypeOK, OneRunning
<1>1. ASSUME NEW c \in Thread \ {Idle}, thread_create(c) PROVE IndInv'
  <2>1. /\ foreach = 0 /\ pc[current] = "run" /\ status[c] = "NONE"
        /\ status' = [status EXCEPT ![c] = "BLOCKED"]
        /\ child' = [child EXCEPT ![current] = c]
        /\ pc' = [pc EXCEPT ![current] = "push"]
        /\ UNCHANGED <<current, ready_list, thread_ticks, all_list, torn,
                       idle_thread, foreach, ticks, wakeup_time, value, waiters,
                       waits_for, next_tid, tid>>
    BY <1>1, ZenonT(30) DEF thread_create, At, Goto
  <2>2. /\ c \in Thread /\ c # Idle /\ c # current /\ c # initial_thread /\ pc[c] = "run"
        /\ ~ Sleeping(c) /\ waits_for[c] = NoSema /\ waits_for[current] = NoSema
        /\ current # Idle /\ c # NoThread
    BY <1>0, <1>1, <2>1, ThreadAssumption, SMTT(60) DEF BootInv, SleepInv, WaitInv
  <2>4. /\ \A t \in Thread : status'[t] = IF t = c THEN "BLOCKED" ELSE status[t]
        /\ \A t \in Thread : pc'[t] = IF t = current THEN "push" ELSE pc[t]
        /\ \A t \in Thread : child'[t] = IF t = current THEN c ELSE child[t]
    BY <2>1, ZenonT(30) DEF TypeOK
  <2>5. TypeOK'
    BY <2>1, <2>2, ZenonT(30) DEF TypeOK, PC, Status
  <2>6. OneRunning' /\ ReadyListExact' /\ AllListExact'
    <3>1. Unlinked' = Unlinked \cup {c}
      BY <1>0, <2>1, <2>2, <2>4, ZenonT(60) DEF Unlinked
    <3>2. {t \in Thread : status'[t] \notin {"NONE", "DYING"}}
            = {t \in Thread : status[t] \notin {"NONE", "DYING"}} \cup {c}
      BY ONLY <2>2, <2>4, SMTT(60)
    <3>3. c \notin {t \in Thread : status[t] \notin {"NONE", "DYING"}}
      BY <2>1, ZenonT(30)
    <3>4. AllListExact'
      BY <2>1, <3>1, <3>2, <3>3, ZenonT(30) DEF AllListExact
    <3> QED BY <2>1, <2>2, <2>4, <3>4, SMTT(60) DEF OneRunning, ReadyListExact
  <2>7. BootInv'
    BY <1>0, <2>1, <2>2, <2>4, ThreadAssumption, SMTT(60) DEF BootInv, IdlePC
  <2>8. WaitInv'
    BY <2>1, <2>2, <2>4, SemaAssumption, SMTT(60) DEF WaitInv
  <2>9. SleepInv'
    BY <1>0, <2>1, <2>2, <2>4, SMTT(60) DEF SleepInv, Sleeping
  <2>10. child[current] = NoThread /\ ~ InMaking(c)
    BY <1>0, <2>1, <2>2, SemaAssumption, SMTT(60) DEF ChildInv, CreatePC, InMaking
  <2>11. ChildInv'
    <3>1. \A u \in Thread : child'[u] # NoThread <=>
            \/ pc'[u] \in CreatePC
            \/ waits_for'[u] = tid_lock
      BY <2>1, <2>2, <2>4, ThreadAssumption, SMTT(60) DEF ChildInv, CreatePC
    <3>2. \A u \in Thread : child'[u] # NoThread =>
            /\ status'[child'[u]] = "BLOCKED"
            /\ pc'[child'[u]] = "run"
            /\ ~ Sleeping(child[u])'
            /\ child'[u] # Idle
      BY <1>0, <2>1, <2>2, <2>4, SMTT(60) DEF ChildInv, Sleeping, TypeOK
    <3>3. \A u, v \in Thread : child'[u] = child'[v] /\ child'[u] # NoThread => u = v
      BY <2>4, <2>10, SMTT(60) DEF ChildInv, InMaking
    <3>4. \A t \in Thread : (status'[t] = "BLOCKED" /\ pc'[t] = "run" /\ ~ Sleeping(t)')
                              => InMaking(t)'
      <4> SUFFICES ASSUME NEW t \in Thread,
                          status'[t] = "BLOCKED" /\ pc'[t] = "run" /\ ~ Sleeping(t)'
                   PROVE  InMaking(t)'
        BY ZenonT(30)
      <4>1. t = c \/ InMaking(t)
        BY <2>1, <2>4, SMTT(60) DEF ChildInv, Sleeping
      <4> QED BY <1>0, <2>4, <2>10, <4>1, <2>2, ThreadAssumption, ZenonT(30) DEF InMaking
    <3> QED BY <3>1, <3>2, <3>3, <3>4, ZenonT(30) DEF ChildInv
  <2>12. ClockInv'
    BY <2>1, ZenonT(30) DEF ClockInv, Sleeping
  <2>13. TidLockExclusive'
    BY <2>1, <2>2, <2>4, SMTT(60) DEF TidLockExclusive, HoldsTidLock
  <2> QED BY <2>5, <2>6, <2>7, <2>8, <2>9, <2>11, <2>12, <2>13, ZenonT(30) DEF IndInv
<1>2. CASE tid_acquire
  <2>1. child[current] # NoThread
    BY <1>2, <1>0, ZenonT(30) DEF tid_acquire, At, ChildInv, CreatePC
  <2> QED BY <1>2, <2>1, SemaDownFacts, SemaAssumption, ZenonT(30) DEF tid_acquire, At
<1>3. ASSUME tid_read \/ tid_write PROVE IndInv'
  <2>1. /\ foreach = 0
        /\ \/ pc[current] = "read" /\ pc' = [pc EXCEPT ![current] = "write"]
           \/ pc[current] = "write" /\ pc' = [pc EXCEPT ![current] = "up"]
        /\ UNCHANGED <<status, current, ready_list, thread_ticks, all_list, torn,
                       idle_thread, foreach, ticks, wakeup_time, value, waiters,
                       waits_for, child>>
    BY <1>3, ZenonT(30) DEF tid_read, tid_write, At, Goto
  <2>2. child[current] \in Thread
    BY <1>0, <2>1, ZenonT(30) DEF ChildInv, CreatePC, TypeOK
  <2>3. next_tid' \in Nat
    BY <1>3, <2>2, SMTT(60) DEF tid_read, tid_write, TypeOK
  <2>4. tid' \in [Thread -> Nat]
    BY <1>3, <2>2, ZenonT(60) DEF tid_read, tid_write, TypeOK
  <2>5. \A u \in Thread : pc'[u] \in {"push", "link"} <=> pc[u] \in {"push", "link"}
    BY <2>1, ZenonT(30) DEF TypeOK
  <2>6. AllListExact'
    BY <2>1, <2>5, ListKept, ZenonT(30)
  <2> QED BY <2>1, <2>3, <2>4, <2>6, CreateMove, ZenonT(60) DEF CreatePC, TypeOK
<1>4. CASE tid_release
  BY <1>4, SemaUpInv, SemaAssumption, ZenonT(60) DEF tid_release, At, Goto
<1>5. CASE create_unblock
  <2> DEFINE c == child[current]
  <2>1. /\ foreach = 0 /\ pc[current] = "unblock"
        /\ thread_unblock(c)
        /\ child' = [child EXCEPT ![current] = NoThread]
        /\ pc' = [pc EXCEPT ![current] = "run", ![c] = "run"]
        /\ UNCHANGED <<current, thread_ticks, all_list, torn, idle_thread, foreach,
                       ticks, wakeup_time, value, waiters, waits_for, next_tid, tid>>
    BY <1>5, ZenonT(30) DEF create_unblock, At
  <2>2. /\ c \in Thread /\ status[c] = "BLOCKED" /\ pc[c] = "run" /\ c # Idle
        /\ ~ Sleeping(c) /\ c # current /\ waits_for[c] = NoSema
        /\ waits_for[current] = NoSema /\ current # Idle
    BY <1>0, <2>1, SMTT(60) DEF ChildInv, CreatePC, TypeOK, WaitInv, BootInv, IdlePC
  <2> HIDE DEF c
  <2>3. /\ status' = [status EXCEPT ![c] = "READY"]
        /\ status' \in [Thread -> Status]
        /\ ready_list' \in Seq(Thread)
        /\ OneRunning'
        /\ ReadyListExact'
    <3>1. c # idle_thread
      BY <2>2, ThreadAssumption, ZenonT(30) DEF TypeOK
    <3> QED BY <2>1, <2>2, <3>1, UnblockFacts, ZenonT(30)
  <2>4. /\ \A t \in Thread : status'[t] = IF t = c THEN "READY" ELSE status[t]
        /\ \A t \in Thread : pc'[t] = IF t = current THEN "run" ELSE pc[t]
        /\ \A t \in Thread : child'[t] = IF t = current THEN NoThread ELSE child[t]
    BY <2>1, <2>2, <2>3, ZenonT(30) DEF TypeOK
  <2> DEFINE Same == /\ current' = current /\ waits_for' = waits_for
                     /\ idle_thread' = idle_thread /\ foreach' = foreach
                     /\ waiters' = waiters /\ value' = value
                     /\ wakeup_time' = wakeup_time /\ foreach = 0
                     /\ pc[current] = "unblock"
  <2>s. Same
    BY <2>1, ZenonT(30)
  <2>5. TypeOK'
    BY <2>1, <2>2, <2>3, ZenonT(60) DEF TypeOK, PC
  <2>6. AllListExact'
    <3>1. Unlinked' = Unlinked
      BY ONLY <1>0, <2>s, <2>4, SMTT(60) DEF Unlinked
    <3>2. {t \in Thread : status'[t] \notin {"NONE", "DYING"}}
            = {t \in Thread : status[t] \notin {"NONE", "DYING"}}
      BY ONLY <2>2, <2>4, SMTT(60)
    <3> QED BY <2>1, <3>1, <3>2, ZenonT(30) DEF AllListExact
  <2>7. BootInv'
    BY <1>0, <2>s, <2>2, <2>4, ThreadAssumption, SMTT(60) DEF BootInv, IdlePC
  <2>8. WaitInv'
    <3>1. \A t \in Thread : pc'[t] = "down" <=> waits_for'[t] # NoSema
      BY <2>s, <2>2, <2>4, SMTT(60) DEF WaitInv
    <3>2. \A s \in Sema : \A t \in Thread :
            t \in Elems(waiters'[s]) <=> waits_for'[t] = s /\ status'[t] = "BLOCKED"
      BY <2>s, <2>2, <2>4, SemaAssumption, SMTT(60) DEF WaitInv
    <3>3. \A s \in Sema : Injective(waiters'[s])
      BY <2>s, ZenonT(30) DEF WaitInv
    <3> QED BY <3>1, <3>2, <3>3, ZenonT(30) DEF WaitInv
  <2>9. SleepInv'
    BY <2>s, <2>2, <2>4, ZenonT(30) DEF SleepInv, Sleeping
  <2>10. ChildInv'
    <3>1. \A u \in Thread : child[u] = c => u = current
      BY <1>0, <2>2, ThreadAssumption, ZenonT(30) DEF ChildInv, c
    <3>2. \A u \in Thread : child'[u] # NoThread <=>
            \/ pc'[u] \in CreatePC
            \/ waits_for'[u] = tid_lock
      BY <1>0, <2>s, <2>2, <2>4, SemaAssumption, SMTT(60) DEF ChildInv, CreatePC
    <3>3. \A u \in Thread : child'[u] # NoThread =>
            /\ status'[child'[u]] = "BLOCKED"
            /\ pc'[child'[u]] = "run"
            /\ ~ Sleeping(child[u])'
            /\ child'[u] # Idle
      BY <1>0, <2>1, <2>2, <2>4, <3>1, SMTT(60) DEF ChildInv, Sleeping, TypeOK
    <3>4. \A u, v \in Thread : child'[u] = child'[v] /\ child'[u] # NoThread => u = v
      BY <2>4, SMTT(60) DEF ChildInv
    <3>5. \A t \in Thread : (status'[t] = "BLOCKED" /\ pc'[t] = "run" /\ ~ Sleeping(t)')
                              => InMaking(t)'
      <4> SUFFICES ASSUME NEW t \in Thread,
                          status'[t] = "BLOCKED" /\ pc'[t] = "run" /\ ~ Sleeping(t)'
                   PROVE  InMaking(t)'
        BY ZenonT(30)
      <4>1. t # c /\ t # current /\ InMaking(t)
        <5>1. t # c
          BY <2>4, ZenonT(30)
        <5>2. status[t] = "BLOCKED"
          BY <2>4, <5>1, ZenonT(30)
        <5>3. t # current /\ pc[t] = "run" /\ ~ Sleeping(t)
          BY <1>0, <2>s, <2>4, <5>2, ZenonT(30) DEF Sleeping
        <5> QED BY <5>1, <5>2, <5>3, ZenonT(30) DEF ChildInv
      <4>2. child[current] = c
        BY ZenonT(30) DEF c
      <4> QED BY <2>4, <4>1, <4>2, ZenonT(30) DEF InMaking
    <3> QED BY <3>2, <3>3, <3>4, <3>5, ZenonT(30) DEF ChildInv
  <2>11. ClockInv'
    BY <2>1, ZenonT(30) DEF ClockInv, Sleeping
  <2>12. TidLockExclusive'
    <3>1. \A t \in Thread : HoldsTidLock(t)' <=> HoldsTidLock(t)
      BY ONLY <2>s, <2>4, ZenonT(30) DEF HoldsTidLock
    <3> QED BY <2>s, <3>1, ZenonT(30) DEF TidLockExclusive
  <2> QED BY <2>3, <2>5, <2>6, <2>7, <2>8, <2>9, <2>10, <2>11, <2>12, ZenonT(30) DEF IndInv
<1>6. CASE push_prev
  <2>1. /\ foreach = 0 /\ pc[current] = "push" /\ pc' = [pc EXCEPT ![current] = "link"]
        /\ torn' = (torn \/ Inserting # {})
        /\ all_list' = IF torn' THEN <<>> ELSE all_list
        /\ UNCHANGED <<status, current, ready_list, thread_ticks, idle_thread,
                       foreach, ticks, wakeup_time, value, waiters, waits_for,
                       child, next_tid, tid>>
    BY <1>6, ZenonT(30) DEF push_prev, Links, At, Goto
  <2>2. all_list' \in Seq(Thread)
    BY <2>1 DEF TypeOK
  <2>3. Unlinked' = Unlinked
    BY <2>1, ZenonT(30) DEF Unlinked, TypeOK
  <2>4. AllListExact'
    BY <2>1, <2>3, ZenonT(30) DEF AllListExact
  <2> QED BY <2>1, <2>2, <2>4, CreateMove, ZenonT(60) DEF CreatePC, TypeOK
<1>7. CASE push_link
  <2> DEFINE c == child[current]
  <2>1. /\ foreach = 0 /\ pc[current] = "link" /\ pc' = [pc EXCEPT ![current] = "last"]
        /\ torn' = torn
        /\ all_list' = IF torn THEN <<>> ELSE Append(all_list, c)
        /\ UNCHANGED <<status, current, ready_list, thread_ticks, idle_thread,
                       foreach, ticks, wakeup_time, value, waiters, waits_for,
                       child, next_tid, tid>>
    BY <1>7, ZenonT(30) DEF push_link, Links, At, Goto, TypeOK
  <2>2. /\ c \in Thread /\ status[c] = "BLOCKED"
        /\ \A u \in Thread : child[u] = c => u = current
    BY <1>0, <2>1, ThreadAssumption, ZenonT(30) DEF ChildInv, CreatePC, TypeOK
  <2>3. c \in Unlinked
    BY <1>0, <2>1, <2>2, ZenonT(30) DEF Unlinked
  <2>4. Unlinked' = Unlinked \ {c}
    <3>1. \A u \in Thread : pc'[u] = IF u = current THEN "last" ELSE pc[u]
      BY <2>1, ZenonT(30) DEF TypeOK
    <3>2. child' = child /\ child[current] = c
      BY <2>1, ZenonT(30)
    <3> HIDE DEF c
    <3> QED BY ONLY <1>0, <2>2, <3>1, <3>2, SMTT(60) DEF Unlinked
  <2> HIDE DEF c
  <2>5. all_list' \in Seq(Thread)
    BY <2>1, <2>2 DEF TypeOK
  <2>6. ASSUME ~ torn PROVE Injective(all_list') /\ Elems(all_list') = Elems(all_list) \cup {c}
    <3>1. c \notin Elems(all_list) /\ Injective(all_list)
      BY <2>3, <2>6, ZenonT(30) DEF AllListExact
    <3>2. all_list' = Append(all_list, c) /\ all_list \in Seq(Thread)
      BY <2>1, <2>6, ZenonT(30) DEF TypeOK
    <3> QED BY ONLY <2>2, <3>1, <3>2, AppendFacts, SMTT(60)
  <2>7. AllListExact'
    <3>1. c \in {t \in Thread : status[t] \notin {"NONE", "DYING"}}
      BY <2>2, ZenonT(30)
    <3> QED BY <2>1, <2>4, <2>6, <3>1, ZenonT(30) DEF AllListExact
  <2> QED BY <2>1, <2>5, <2>7, CreateMove, ZenonT(60) DEF CreatePC, TypeOK
<1>8. CASE push_last
  <2>1. /\ foreach = 0 /\ pc[current] = "last" /\ pc' = [pc EXCEPT ![current] = "acquire"]
        /\ UNCHANGED <<status, current, ready_list, thread_ticks, all_list, torn,
                       idle_thread, foreach, ticks, wakeup_time, value, waiters,
                       waits_for, child, next_tid, tid>>
    BY <1>8, ZenonT(30) DEF push_last, At, Goto
  <2>2. \A u \in Thread : pc'[u] \in {"push", "link"} <=> pc[u] \in {"push", "link"}
    BY <2>1, ZenonT(30) DEF TypeOK
  <2>3. AllListExact'
    BY <2>1, <2>2, ListKept, ZenonT(30)
  <2> QED BY <2>1, <2>3, CreateMove, ZenonT(60) DEF CreatePC, TypeOK
<1> QED BY <1>1, <1>2, <1>3, <1>4, <1>5, <1>6, <1>7, <1>8, ZenonT(30) DEF Create

-----------------------------------------------------------------------------
(* The boot. *)

\* thread_init() establishes the invariant.
LEMMA InitInv == Init => IndInv
<1> SUFFICES ASSUME Init PROVE IndInv
  BY ZenonT(30)
<1> USE ThreadAssumption, SemaAssumption DEF Init, thread_init
<1>1. TypeOK
  <2>1. /\ status \in [Thread -> Status] /\ pc \in [Thread -> PC]
        /\ current \in Thread /\ torn \in BOOLEAN /\ idle_thread \in {NoThread, Idle}
        /\ waits_for \in [Thread -> Sema \cup {NoSema}]
        /\ child \in [Thread -> Thread \cup {NoThread}]
    BY ZenonT(30) DEF Status, PC
  <2>2. /\ ready_list \in Seq(Thread) /\ all_list \in Seq(Thread)
        /\ waiters \in [Sema -> Seq(Thread)]
        /\ thread_ticks \in Nat /\ ticks \in Nat /\ foreach \in Nat /\ next_tid \in Nat
        /\ wakeup_time \in [Thread -> Nat] /\ value \in [Sema -> Nat]
        /\ tid \in [Thread -> Nat]
    BY SMTT(60)
  <2> QED BY <2>1, <2>2, ZenonT(30) DEF TypeOK
<1>2. OneRunning
  BY ZenonT(30) DEF OneRunning
<1>3. \A s \in Sema : Elems(waiters[s]) = {} /\ Injective(waiters[s])
  BY SMTT(60) DEF Elems, Injective
<1>4. ReadyListExact
  BY SMTT(60) DEF ReadyListExact, Elems, Injective
<1>5. AllListExact
  <2>1. Unlinked = {}
    BY SMTT(60) DEF Unlinked
  <2> QED BY <2>1, SMTT(60) DEF AllListExact, Elems, Injective
<1>6. BootInv
  BY ZenonT(30) DEF BootInv, IdlePC
<1>7. WaitInv
  BY <1>3, ZenonT(30) DEF WaitInv
<1>8. SleepInv /\ ChildInv /\ ClockInv
  BY SMTT(60) DEF SleepInv, ChildInv, CreatePC, ClockInv, Sleeping, InMaking
<1>9. TidLockExclusive
  BY SMTT(60) DEF TidLockExclusive, HoldsTidLock
<1> QED BY <1>1, <1>2, <1>4, <1>5, <1>6, <1>7, <1>8, <1>9, ZenonT(30) DEF IndInv

\* Boot and the idle loop keep the invariant.
LEMMA BootStep == IndInv /\ Boot => IndInv'
<1> SUFFICES ASSUME IndInv, Boot PROVE IndInv'
  BY ZenonT(30)
<1>i. /\ TypeOK /\ OneRunning /\ ReadyListExact /\ AllListExact /\ BootInv
      /\ WaitInv /\ SleepInv /\ ChildInv /\ ClockInv /\ TidLockExclusive
  BY ZenonT(30) DEF IndInv
<1> USE <1>i DEF listVars, timeVars, tidVars, semaVars, schedVars
<1>0. current \in Thread /\ status[current] = "RUNNING"
  BY ZenonT(30) DEF TypeOK, OneRunning
<1>1. CASE thread_start
  <2>1. /\ foreach = 0 /\ pc[current] = "start" /\ current = initial_thread
        /\ status[Idle] = "NONE" /\ pc[Idle] = "run" /\ idle_thread = NoThread
    BY <1>1, <1>0, ThreadAssumption, ZenonT(30) DEF thread_start, At, BootInv, TypeOK, IdlePC
  <2>2. /\ status' = [status EXCEPT ![Idle] = "READY"]
        /\ pc' = [pc EXCEPT ![initial_thread] = "boot", ![Idle] = "init"]
        /\ torn' = torn
        /\ all_list' = IF torn THEN <<>> ELSE Append(all_list, Idle)
        /\ ready_list' = Append(ready_list, Idle)
        /\ tid' = [tid EXCEPT ![Idle] = next_tid]
        /\ next_tid' = next_tid + 1
        /\ UNCHANGED <<current, thread_ticks, idle_thread, foreach, ticks,
                       wakeup_time, value, waiters, waits_for, child>>
    BY <1>1, <2>1, ZenonT(30) DEF thread_start, Links, TypeOK
  <2>3. /\ all_list' \in Seq(Thread) /\ ready_list' \in Seq(Thread)
        /\ Elems(ready_list') = Elems(ready_list) \cup {Idle}
        /\ Injective(ready_list')
    BY <2>1, <2>2, AppendFacts, ThreadAssumption, SMTT(60) DEF TypeOK, ReadyListExact
  <2>4. TypeOK'
    <3>1. status' \in [Thread -> Status] /\ pc' \in [Thread -> PC]
      BY <2>2, ZenonT(60) DEF TypeOK, PC, Status
    <3>2. next_tid \in Nat /\ tid \in [Thread -> Nat]
      BY ZenonT(30) DEF TypeOK
    <3>3. next_tid' \in Nat /\ tid' \in [Thread -> Nat]
      <4>1. next_tid' \in Nat
        BY <2>2, <3>2, SMTT(60)
      <4>2. tid' \in [Thread -> Nat]
        BY <2>2, <3>2, ZenonT(60)
      <4> QED BY <4>1, <4>2, ZenonT(30)
    <3> QED BY <2>2, <2>3, <3>1, <3>3, ZenonT(60) DEF TypeOK
  <2>5. OneRunning' /\ ReadyListExact'
    BY <2>1, <2>2, <2>3, ThreadAssumption, SMTT(60) DEF OneRunning, ReadyListExact, TypeOK
  <2>11. AllListExact'
    <3>1. Unlinked' = Unlinked /\ Idle \notin Unlinked
      <4>1. child' = child /\ \A u \in Thread : child[u] # Idle
        BY <2>2, ThreadAssumption, ZenonT(30) DEF ChildInv
      <4>2. \A u \in Thread : pc'[u] \in {"push", "link"} <=> pc[u] \in {"push", "link"}
        BY <2>1, <2>2, ThreadAssumption, SMTT(60) DEF TypeOK
      <4> QED BY ONLY <4>1, <4>2, ZenonT(30) DEF Unlinked
    <3>2. {t \in Thread : status'[t] \notin {"NONE", "DYING"}}
            = {t \in Thread : status[t] \notin {"NONE", "DYING"}} \cup {Idle}
      BY <2>2, ThreadAssumption, SMTT(60) DEF TypeOK
    <3>3. ASSUME ~ torn
          PROVE  /\ Injective(all_list')
                 /\ Elems(all_list') = Elems(all_list) \cup {Idle}
      <4>1. Idle \notin Elems(all_list) /\ Injective(all_list) /\ Idle \in Thread
        BY <2>1, <3>3, ThreadAssumption, ZenonT(30) DEF AllListExact
      <4>2. all_list' = Append(all_list, Idle) /\ all_list \in Seq(Thread)
        BY <2>2, <3>3, ZenonT(30) DEF TypeOK
      <4> QED BY ONLY <4>1, <4>2, AppendFacts, SMTT(60)
    <3> QED BY ONLY AllListExact, <2>2, <3>1, <3>2, <3>3, ZenonT(30) DEF AllListExact
  <2>6. BootInv'
    BY <2>1, <2>2, ThreadAssumption, ZenonT(60) DEF BootInv, IdlePC, TypeOK
  <2>7. WaitInv'
    BY <2>1, <2>2, ThreadAssumption, SMTT(60) DEF WaitInv, TypeOK
  <2>8. SleepInv' /\ ChildInv'
    <3>1. SleepInv'
      BY <2>1, <2>2, ThreadAssumption, ZenonT(30) DEF SleepInv, Sleeping, TypeOK
    <3>2. ChildInv'
      <4>1. \A u \in Thread : pc'[u] \in CreatePC <=> pc[u] \in CreatePC
        BY <2>1, <2>2, ThreadAssumption, ZenonT(30) DEF CreatePC, TypeOK
      <4>2. /\ \A t \in Thread : status'[t] = "BLOCKED" <=> status[t] = "BLOCKED"
            /\ \A t \in Thread \ {Idle} : pc'[t] = "run" <=> pc[t] = "run"
            /\ \A t \in Thread \ {Idle} : Sleeping(t)' <=> Sleeping(t)
        BY <2>1, <2>2, ThreadAssumption, ZenonT(30) DEF Sleeping, TypeOK
      <4>3. /\ child' = child /\ waits_for' = waits_for
            /\ \A u \in Thread : child[u] # NoThread => child[u] \in Thread \ {Idle}
        BY <2>2, ZenonT(30) DEF ChildInv, TypeOK
      <4>4. status'[Idle] # "BLOCKED"
        BY <2>2, ThreadAssumption, ZenonT(30) DEF TypeOK
      <4> QED BY ONLY ChildInv, <4>1, <4>2, <4>3, <4>4, SMTT(60) DEF ChildInv, InMaking
    <3> QED BY <3>1, <3>2, ZenonT(30)
  <2>9. ClockInv'
    <3>1. 0 <= Len(all_list') + 1
      BY <2>3
    <3> QED BY <2>1, <2>2, <3>1, ZenonT(30) DEF ClockInv, Sleeping
  <2>10. TidLockExclusive'
    BY <2>1, <2>2, ThreadAssumption, ZenonT(60) DEF TidLockExclusive, HoldsTidLock, TypeOK
  <2> QED BY <2>4, <2>5, <2>6, <2>7, <2>8, <2>9, <2>10, <2>11, ZenonT(30) DEF IndInv
<1>2. CASE start_wait
  <2>1. child[current] = NoThread
    BY <1>2, <1>0, SemaAssumption, SMTT(60) DEF start_wait, At, ChildInv, CreatePC, WaitInv
  <2> QED BY <1>2, <2>1, SemaDownFacts, SemaAssumption, ZenonT(30) DEF start_wait, At
<1>3. CASE idle_init
  <2>1. /\ current = Idle /\ pc[Idle] = "init" /\ idle_thread = NoThread
        /\ idle_thread' = Idle /\ pc' = [pc EXCEPT ![Idle] = "started"]
        /\ UNCHANGED <<status, current, ready_list, thread_ticks, all_list, torn,
                       foreach, ticks, wakeup_time, value, waiters, waits_for,
                       child, next_tid, tid>>
    BY <1>3, <1>0, ThreadAssumption, ZenonT(60) DEF idle_init, At, Goto, BootInv, IdlePC, TypeOK
  <2>2. TypeOK' /\ OneRunning' /\ AllListExact' /\ ReadyListExact'
    <3>1. TypeOK'
      BY <2>1, ZenonT(30) DEF TypeOK, PC
    <3>2. {t \in Thread : status[t] = "READY" /\ t # Idle}
            = {t \in Thread : status[t] = "READY" /\ t # NoThread}
      BY <2>1, <1>0, ThreadAssumption, ZenonT(30)
    <3>3. ReadyListExact'
      BY <2>1, <3>2, ZenonT(30) DEF ReadyListExact
    <3>4. AllListExact'
      <4>1. \A u \in Thread : pc'[u] \in {"push", "link"} <=> pc[u] \in {"push", "link"}
        BY <2>1, ZenonT(30) DEF TypeOK
      <4> QED BY <2>1, <4>1, ListKept, ZenonT(30)
    <3> QED BY <2>1, <3>1, <3>3, <3>4, ZenonT(30) DEF OneRunning
  <2>3. BootInv' /\ WaitInv' /\ SleepInv' /\ ChildInv' /\ ClockInv'
    <3>1. /\ pc'[Idle] = "started" /\ Idle \in Thread /\ Idle # initial_thread
          /\ \A t \in Thread : t # Idle => pc'[t] = pc[t]
      BY <2>1, ThreadAssumption, ZenonT(30) DEF TypeOK
    <3>2. BootInv'
      BY ONLY BootInv, <2>1, <3>1, SMTT(60) DEF BootInv, IdlePC
    <3>3. WaitInv'
      <4>1. \A t \in Thread : pc'[t] = "down" <=> pc[t] = "down"
        BY ONLY <2>1, <3>1, ZenonT(30)
      <4> QED BY ONLY WaitInv, <2>1, <4>1, ZenonT(30) DEF WaitInv
    <3>4. SleepInv' /\ ClockInv'
      BY ONLY SleepInv, ClockInv, <2>1, <3>1, ZenonT(30) DEF SleepInv, ClockInv, Sleeping
    <3>5. ChildInv'
      <4>1. /\ \A t \in Thread : pc'[t] = "run" <=> pc[t] = "run"
            /\ \A t \in Thread : pc'[t] \in CreatePC
                                 <=> pc[t] \in CreatePC
        BY ONLY <2>1, <3>1, ZenonT(30) DEF CreatePC
      <4> QED BY ONLY ChildInv, TypeOK, <2>1, <4>1, ThreadAssumption, SMTT(60)
              DEF ChildInv, Sleeping, InMaking, TypeOK
    <3> QED BY <3>2, <3>3, <3>4, <3>5, ZenonT(30)
  <2>4. TidLockExclusive'
    BY <2>1, ZenonT(30) DEF TidLockExclusive, HoldsTidLock, TypeOK
  <2> QED BY <2>2, <2>3, <2>4, ZenonT(30) DEF IndInv
<1>4. CASE idle_up
  BY <1>4, SemaUpInv, SemaAssumption, ZenonT(60) DEF idle_up, At, Goto
<1>5. CASE idle_block
  <2>1. /\ current = Idle /\ pc[Idle] = "loop" /\ idle_thread = Idle
        /\ thread_block /\ pc' = [pc EXCEPT ![Idle] = "hlt"]
        /\ UNCHANGED <<all_list, torn, idle_thread, foreach, ticks, wakeup_time,
                       value, waiters, waits_for, child, next_tid, tid>>
    BY <1>5, <1>0, ZenonT(60) DEF idle_block, At, Goto, BootInv, IdlePC, TypeOK
  <2>2. /\ current' \in Thread
        /\ status' = [status EXCEPT ![current] = "BLOCKED", ![current'] = "RUNNING"]
        /\ status' \in [Thread -> Status]
        /\ ready_list' \in Seq(Thread)
        /\ thread_ticks' = 0
        /\ OneRunning'
        /\ ReadyListExact'
        /\ \/ current' = idle_thread /\ idle_thread = Idle
           \/ status[current'] = "READY" /\ current' # current
    BY <2>1, BlockFacts, ZenonT(30)
  <2>3. \A t \in Thread : t # Idle =>
          (status'[t] = status[t] \/ (status[t] = "READY" /\ status'[t] = "RUNNING"))
    <3> SUFFICES ASSUME NEW t \in Thread, t # Idle
                 PROVE  status'[t] = status[t] \/ (status[t] = "READY" /\ status'[t] = "RUNNING")
      BY ZenonT(30)
    <3>1. status'[t] = IF t = current' THEN "RUNNING" ELSE status[t]
      BY <2>1, <2>2, ZenonT(30) DEF TypeOK
    <3>2. CASE t = current'
      BY <3>1, <3>2, <2>1, <2>2, ZenonT(30)
    <3>3. CASE t # current'
      BY <3>1, <3>3, ZenonT(30)
    <3> QED BY <3>2, <3>3, ZenonT(30)
  <2>4. status'[Idle] = IF current' = Idle THEN "RUNNING" ELSE "BLOCKED"
    BY <2>1, <2>2, ZenonT(30) DEF TypeOK
  <2>5. TypeOK' /\ AllListExact'
    <3>1. \A u \in Thread : pc'[u] \in {"push", "link"} <=> pc[u] \in {"push", "link"}
      BY <2>1, ZenonT(30) DEF TypeOK
    <3>2. \A t \in Thread : status'[t] \in {"NONE", "DYING"}
                             <=> status[t] \in {"NONE", "DYING"}
      BY <1>0, <2>1, <2>3, <2>4, ZenonT(30)
    <3>3. AllListExact'
      BY <2>1, <3>1, <3>2, ListKept, ZenonT(30)
    <3> QED BY <1>0, <2>1, <2>2, <3>3, ZenonT(60) DEF TypeOK, PC
  <2>6. BootInv'
    <3>1. /\ pc'[Idle] = "hlt" /\ Idle \in Thread /\ Idle # initial_thread
          /\ initial_thread \in Thread
          /\ \A t \in Thread : t # Idle => pc'[t] = pc[t]
      BY <2>1, ThreadAssumption, ZenonT(30) DEF TypeOK
    <3> QED BY ONLY BootInv, <2>1, <2>3, <2>4, <3>1, ZenonT(60) DEF BootInv, IdlePC
  <2>7. WaitInv'
    <3>1. waits_for[Idle] = NoSema
      BY <2>1, ThreadAssumption, ZenonT(30) DEF WaitInv
    <3>2. ASSUME NEW s \in Sema, NEW t \in Thread
          PROVE  (t \in Elems(waiters[s]))' <=> (waits_for[t] = s /\ status[t] = "BLOCKED")'
      <4>1. t \in Elems(waiters[s]) <=> waits_for[t] = s /\ status[t] = "BLOCKED"
        BY ZenonT(30) DEF WaitInv
      <4> QED BY <4>1, <3>1, <2>1, <2>3, SemaAssumption, ZenonT(30)
    <3>3. \A t \in Thread : pc'[t] = "down" <=> pc[t] = "down"
      BY <2>1, ZenonT(30) DEF TypeOK
    <3> QED BY <3>2, <3>3, <2>1, ZenonT(30) DEF WaitInv
  <2>8. SleepInv' /\ ChildInv' /\ ClockInv'
    BY <1>0, <2>1, <2>3, <2>4, ThreadAssumption, SMTT(60)
       DEF SleepInv, ChildInv, CreatePC, ClockInv, Sleeping, InMaking, TypeOK
  <2>9. TidLockExclusive'
    BY <2>1, ZenonT(30) DEF TidLockExclusive, HoldsTidLock, TypeOK
  <2> QED BY <2>2, <2>5, <2>6, <2>7, <2>8, <2>9, ZenonT(30) DEF IndInv
<1> QED BY <1>1, <1>2, <1>3, <1>4, <1>5, ZenonT(30) DEF Boot
=============================================================================
