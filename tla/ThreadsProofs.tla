--------------------------- MODULE ThreadsProofs ----------------------------
(***************************************************************************)
(* Theorems about Threads, for any number of threads and semaphores and    *)
(* any time slice: the interrupts and the operations of a running thread   *)
(* keep the inductive invariant, and what follows from it about the        *)
(* scheduler, the alarm clock and the semaphores.                          *)
(***************************************************************************)
EXTENDS ThreadsLemmas, FiniteSetTheorems

-----------------------------------------------------------------------------
(* The interrupts. *)

\* The timer's and the devices' interrupts keep the invariant.
LEMMA InterruptStep == IndInv /\ Interrupt => IndInv'
<1> SUFFICES ASSUME IndInv, Interrupt PROVE IndInv'
  BY ZenonT(30)
<1>i. /\ TypeOK /\ OneRunning /\ ReadyListExact /\ AllListExact /\ BootInv
      /\ WaitInv /\ SleepInv /\ ChildInv /\ ClockInv /\ TidLockExclusive
  BY ZenonT(30) DEF IndInv
<1> USE <1>i DEF listVars, timeVars, tidVars, semaVars, schedVars
<1>0. current \in Thread /\ status[current] = "RUNNING"
  BY ZenonT(30) DEF TypeOK, OneRunning
<1>1. CASE timer_interrupt
  <2>1. /\ foreach = 0 /\ pc[current] # "start" /\ foreach' = 1
        /\ ticks' = IF ticks < MaxTicks THEN ticks + 1 ELSE ticks
        /\ thread_ticks' = thread_ticks + 1
        /\ UNCHANGED <<status, pc, current, ready_list, all_list, torn, idle_thread,
                       wakeup_time, value, waiters, waits_for, child, next_tid, tid>>
    BY <1>1, ZenonT(30) DEF timer_interrupt, InterruptsOn
  <2>2. ticks' \in Nat /\ ticks' <= ticks + 1 /\ ticks' >= ticks
    BY <2>1, BoundAssumption, SMTT(60) DEF TypeOK
  <2>3. TypeOK'
    BY <2>1, <2>2, SMTT(60) DEF TypeOK
  <2>4. OneRunning' /\ ReadyListExact' /\ AllListExact'
    BY <2>1, ListKept, ZenonT(30) DEF OneRunning, ReadyListExact
  <2>5. BootInv'
    BY <1>0, <2>1, ZenonT(30) DEF BootInv
  <2>6. WaitInv' /\ SleepInv' /\ ChildInv'
    BY <2>1, SMTT(60) DEF WaitInv, SleepInv, ChildInv, Sleeping, InMaking
  <2>7. ClockInv'
    <3>1. foreach' <= Len(all_list') + 1
      BY <2>1, SMTT(60) DEF TypeOK
    <3>2. ASSUME ~ torn, NEW t \in Thread, Sleeping(t)
          PROVE  \E i \in DOMAIN all_list : i >= 1 /\ all_list[i] = t
      <4>1. t \notin Unlinked
        BY <3>2, ThreadAssumption, ZenonT(30) DEF Unlinked, ChildInv
      <4>2. t \in Elems(all_list)
        BY <3>2, <4>1, ZenonT(30) DEF SleepInv, AllListExact
      <4> QED BY <4>2, SMTT(60) DEF Elems, TypeOK
    <3> QED BY <2>1, <3>1, <3>2, SMTT(60) DEF ClockInv, Sleeping
  <2>8. TidLockExclusive'
    BY <2>1, ZenonT(30) DEF TidLockExclusive, HoldsTidLock
  <2> QED BY <2>3, <2>4, <2>5, <2>6, <2>7, <2>8, ZenonT(30) DEF IndInv
<1>2. CASE thread_foreach
  <2>1. /\ foreach' \in {foreach, foreach + 1} /\ foreach # 0
        /\ UNCHANGED <<pc, current, thread_ticks, all_list, torn, idle_thread, ticks,
                       value, waiters, waits_for, child, next_tid, tid>>
        /\ ~ torn => /\ foreach \in DOMAIN all_list /\ foreach' = foreach + 1
                     /\ update_sleeping_threads(all_list[foreach])
        /\ \E t \in Thread : update_sleeping_threads(t)
    BY <1>2, SMTT(60) DEF thread_foreach, TypeOK
  <2>2. PICK t \in Thread : /\ update_sleeping_threads(t)
                            /\ ~ torn => t = all_list[foreach]
    BY <2>1, SMTT(60) DEF TypeOK
  <2>3. /\ pc[initial_thread] # "start"
        /\ Len(all_list) \in Nat /\ DOMAIN all_list = 1 .. Len(all_list)
        /\ foreach' \in Nat /\ foreach \in Nat /\ foreach' # 0
    BY <2>1, SMTT(60) DEF BootInv, TypeOK
  <2>4. CASE due(t)
    <3>1. /\ wakeup_time' = [wakeup_time EXCEPT ![t] = 0]
          /\ thread_unblock(t)
      BY <2>2, <2>4, ZenonT(30) DEF update_sleeping_threads
    <3>2. /\ status[t] = "BLOCKED" /\ Sleeping(t) /\ pc[t] = "run" /\ t # Idle
          /\ t # idle_thread /\ waits_for[t] = NoSema
      BY <2>2, <2>3, <2>4, ThreadAssumption, SMTT(60)
         DEF due, Sleeping, SleepInv, BootInv, TypeOK, WaitInv
    <3>3. /\ status' = [status EXCEPT ![t] = "READY"]
          /\ status' \in [Thread -> Status]
          /\ ready_list' \in Seq(Thread)
          /\ OneRunning'
          /\ ReadyListExact'
      BY <2>1, <2>2, <3>1, <3>2, UnblockFacts, ZenonT(30)
    <3>4. /\ \A u \in Thread : status'[u] = IF u = t THEN "READY" ELSE status[u]
          /\ \A u \in Thread : wakeup_time'[u] = IF u = t THEN 0 ELSE wakeup_time[u]
          /\ wakeup_time' \in [Thread -> Nat]
      BY <3>1, <3>3, ZenonT(30) DEF TypeOK
    <3> DEFINE Same == /\ current' = current /\ waits_for' = waits_for /\ pc' = pc
                       /\ idle_thread' = idle_thread /\ all_list' = all_list
                       /\ waiters' = waiters /\ value' = value /\ child' = child
                       /\ ticks' = ticks /\ torn' = torn
    <3>5. Same
      BY <2>1, ZenonT(30)
    <3>6. TypeOK'
      BY <2>1, <2>3, <3>3, <3>4, ZenonT(60) DEF TypeOK
    <3>7. AllListExact'
      <4>1. \A u \in Thread : status'[u] \in {"NONE", "DYING"}
                               <=> status[u] \in {"NONE", "DYING"}
        BY <3>2, <3>4, ZenonT(30)
      <4> QED BY <3>5, <4>1, ListKept, ZenonT(30)
    <3>8. BootInv'
      BY <1>0, <2>1, <2>2, <2>3, <3>2, <3>4, <3>5, ThreadAssumption, SMTT(60)
         DEF BootInv, IdlePC
    <3>9. WaitInv'
      BY <3>2, <3>4, <3>5, SemaAssumption, SMTT(60) DEF WaitInv
    <3>10. SleepInv'
      BY <2>2, <3>4, <3>5, SMTT(60) DEF SleepInv, Sleeping
    <3>11. ChildInv'
      <4>1. \A u \in Thread : child[u] # t
        BY <3>2, <2>2, ThreadAssumption, ZenonT(30) DEF ChildInv
      <4>2. \A u \in Thread : child[u] # NoThread =>
              /\ status'[child[u]] = status[child[u]]
              /\ wakeup_time'[child[u]] = wakeup_time[child[u]]
        BY <3>4, <4>1, ZenonT(30) DEF TypeOK
      <4>3. \A u \in Thread : (status'[u] = "BLOCKED" /\ ~ Sleeping(u)')
                                => (status[u] = "BLOCKED" /\ ~ Sleeping(u))
        BY <3>4, ZenonT(30) DEF Sleeping
      <4> QED BY <3>5, <4>2, <4>3, SMTT(60) DEF ChildInv, InMaking, Sleeping
    <3>12. ClockInv'
      <4>1. ASSUME ~ torn, NEW u \in Thread, Sleeping(u)', ~ (wakeup_time'[u] > ticks')
            PROVE  \E i \in DOMAIN all_list' : /\ foreach' # 0
                                               /\ i >= foreach'
                                               /\ all_list'[i] = u
        <5>1. u # t /\ Sleeping(u) /\ ~ (wakeup_time[u] > ticks)
          BY <2>2, <3>4, <3>5, <4>1, SMTT(60) DEF Sleeping
        <5>2. PICK i \in DOMAIN all_list : i >= foreach /\ all_list[i] = u
          BY <4>1, <5>1, ZenonT(30) DEF ClockInv
        <5>3. i # foreach
          BY <2>2, <4>1, <5>1, <5>2, ZenonT(30)
        <5> QED BY <4>1, <5>2, <5>3, <2>1, <2>3, SMTT(60)
      <4> QED BY <2>1, <2>3, <4>1, SMTT(60) DEF ClockInv
    <3>13. TidLockExclusive'
      BY <3>5, ZenonT(30) DEF TidLockExclusive, HoldsTidLock
    <3> QED BY <3>3, <3>6, <3>7, <3>8, <3>9, <3>10, <3>11, <3>12, <3>13, ZenonT(30) DEF IndInv
  <2>5. CASE ~ due(t)
    <3>1. UNCHANGED <<wakeup_time, ready_list, status>>
      BY <2>2, <2>5, ZenonT(30) DEF update_sleeping_threads
    <3>2. ~ Sleeping(t) \/ wakeup_time[t] > ticks
      BY <2>2, <2>5, SMTT(60) DEF due, SleepInv, Sleeping, TypeOK
    <3>3. TypeOK'
      BY <2>1, <2>3, <3>1, ZenonT(30) DEF TypeOK
    <3>4. OneRunning' /\ ReadyListExact' /\ AllListExact'
      BY <2>1, <3>1, ListKept, ZenonT(30) DEF OneRunning, ReadyListExact
    <3>5. BootInv'
      BY <2>1, <2>3, <3>1, ZenonT(30) DEF BootInv
    <3>6. WaitInv' /\ SleepInv' /\ ChildInv'
      <4>1. WaitInv'
        BY <2>1, <3>1, ZenonT(30) DEF WaitInv
      <4>2. SleepInv'
        BY <2>1, <3>1, ZenonT(30) DEF SleepInv, Sleeping
      <4>3. ChildInv'
        BY <2>1, <3>1, ZenonT(30) DEF ChildInv, Sleeping, InMaking
      <4> QED BY <4>1, <4>2, <4>3, ZenonT(30)
    <3>7. ClockInv'
      <4>1. ASSUME ~ torn, NEW u \in Thread, Sleeping(u), ~ (wakeup_time[u] > ticks)
            PROVE  \E i \in DOMAIN all_list : i >= foreach + 1 /\ all_list[i] = u
        <5>1. PICK i \in DOMAIN all_list : i >= foreach /\ all_list[i] = u
          BY <4>1, ZenonT(30) DEF ClockInv
        <5>2. i # foreach
          BY <2>2, <3>2, <4>1, <5>1, ZenonT(30)
        <5> QED BY <5>1, <5>2, <2>3, SMTT(60)
      <4> QED BY <2>1, <2>3, <3>1, <4>1, SMTT(60) DEF ClockInv, Sleeping
    <3>8. TidLockExclusive'
      BY <2>1, <3>1, ZenonT(30) DEF TidLockExclusive, HoldsTidLock
    <3> QED BY <3>3, <3>4, <3>5, <3>6, <3>7, <3>8, ZenonT(30) DEF IndInv
  <2> QED BY <2>4, <2>5, ZenonT(30)
<1>3. CASE intr_return
  <2>1. /\ foreach = Len(all_list) + 1 /\ foreach' = 0
        /\ pc' = [pc EXCEPT ![current] = IF @ = "hlt" THEN "loop" ELSE @]
        /\ UNCHANGED <<all_list, torn, idle_thread, ticks, wakeup_time, value, waiters,
                       waits_for, child, next_tid, tid>>
        /\ foreach # 0
    BY <1>3, SMTT(60) DEF intr_return, LeaveHlt, TypeOK
  <2>2. ~ torn => \A t \in Thread : Sleeping(t) => wakeup_time[t] > ticks
    BY <2>1, SMTT(60) DEF ClockInv, TypeOK
  <2>3. /\ \A t \in Thread : t # current => pc'[t] = pc[t]
        /\ pc' \in [Thread -> PC]
        /\ \/ pc'[current] = pc[current] /\ pc[current] # "hlt"
           \/ pc[current] = "hlt" /\ pc'[current] = "loop"
    BY <1>0, <2>1, ZenonT(30) DEF TypeOK, PC
  <2>4. pc[current] # "start"
    BY <1>0, <2>1, ZenonT(30) DEF BootInv
  <2>5. CASE thread_ticks >= TIME_SLICE
    <3>1. do_yield
      BY <1>3, <2>5, ZenonT(30) DEF intr_return
    <3> QED BY <2>1, <2>2, <2>3, <2>4, <3>1, YieldInv, ZenonT(30)
  <2>6. CASE ~ (thread_ticks >= TIME_SLICE)
    <3>1. UNCHANGED <<status, current, ready_list, thread_ticks>>
      BY <1>3, <2>6, ZenonT(30) DEF intr_return
    <3>2. \A t \in Thread : \A p \in PC \ {"hlt", "loop"} : pc'[t] = p <=> pc[t] = p
      BY <2>3, ZenonT(30)
    <3>3. TypeOK' /\ OneRunning' /\ ReadyListExact' /\ AllListExact'
      <4>1. \A u \in Thread : pc'[u] \in {"push", "link"} <=> pc[u] \in {"push", "link"}
        BY <3>2, ZenonT(30) DEF PC
      <4>2. AllListExact'
        BY <2>1, <3>1, <4>1, ListKept, ZenonT(30)
      <4> QED BY <2>1, <2>3, <3>1, <4>2, ZenonT(30) DEF TypeOK, OneRunning, ReadyListExact
    <3>4. BootInv'
      BY <1>0, <2>1, <2>3, <2>4, <3>1, ThreadAssumption, ZenonT(30) DEF BootInv, IdlePC, TypeOK
    <3>5. \A t \in Thread : /\ pc'[t] = "down" <=> pc[t] = "down"
                            /\ pc'[t] = "run" <=> pc[t] = "run"
      BY <3>2, ZenonT(30) DEF PC
    <3>6. WaitInv' /\ SleepInv'
      BY <2>1, <3>1, <3>5, SMTT(60) DEF WaitInv, SleepInv, Sleeping
    <3>7. ChildInv'
      <4>1. \A u \in Thread : pc'[u] \in CreatePC
                                <=> pc[u] \in CreatePC
        BY <3>2, ZenonT(30) DEF PC, CreatePC
      <4> QED BY <2>1, <3>1, <3>5, <4>1, SMTT(60) DEF ChildInv, InMaking, Sleeping, TypeOK
    <3>8. ClockInv'
      BY <2>1, <2>2, SMTT(60) DEF ClockInv, Sleeping, TypeOK
    <3>9. TidLockExclusive'
      <4>1. \A t \in Thread : HoldsTidLock(t)' <=> HoldsTidLock(t)
        BY <3>2, ZenonT(30) DEF HoldsTidLock, PC
      <4> QED BY <2>1, <4>1, ZenonT(30) DEF TidLockExclusive
    <3> QED BY <3>3, <3>4, <3>6, <3>7, <3>8, <3>9, ZenonT(30) DEF IndInv
  <2> QED BY <2>5, <2>6, ZenonT(30)
<1>4. ASSUME NEW s \in ClientSema, device_interrupt(s) PROVE IndInv'
  <2> DEFINE p == IF pc[current] = "hlt" THEN "loop" ELSE pc[current]
  <2>1. /\ s \in Sema /\ s # tid_lock /\ do_sema_up(s) /\ pc[current] # "down"
        /\ UNCHANGED <<current, thread_ticks, waits_for, listVars, idle_thread,
                       foreach, timeVars, tidVars>>
    BY <1>4, ZenonT(30) DEF device_interrupt, InterruptsOn, ClientSema
  <2>2. pc' = [pc EXCEPT ![current] = p]
    BY <1>4, ZenonT(30) DEF device_interrupt, LeaveHlt, TypeOK
  <2>3. \/ p = pc[current] /\ s # tid_lock
        \/ pc[current] \in {"started", "hlt"} /\ p = "loop" /\ s # tid_lock
    BY <2>1, ZenonT(30)
  <2> HIDE DEF p
  <2> QED BY <2>1, <2>2, <2>3, SemaUpInv, ZenonT(60)
<1> QED BY <1>1, <1>2, <1>3, <1>4, ZenonT(30) DEF Interrupt

-----------------------------------------------------------------------------
(* The steps of a running thread. *)

\* The client's operations keep the invariant.
LEMMA ClientStep == IndInv /\ Client => IndInv'
<1> SUFFICES ASSUME IndInv, Client PROVE IndInv'
  BY ZenonT(30)
<1>i. /\ TypeOK /\ OneRunning /\ ReadyListExact /\ AllListExact /\ BootInv
      /\ WaitInv /\ SleepInv /\ ChildInv /\ ClockInv /\ TidLockExclusive
  BY ZenonT(30) DEF IndInv
<1> USE <1>i DEF listVars, timeVars, tidVars, semaVars, schedVars
<1>0. current \in Thread /\ status[current] = "RUNNING"
  BY ZenonT(30) DEF TypeOK, OneRunning
<1>a. At("run") => current # Idle /\ waits_for[current] = NoSema /\ child[current] = NoThread
  BY <1>0, SemaAssumption, ThreadAssumption, SMTT(60) DEF At, BootInv, WaitInv, ChildInv, CreatePC
<1>1. CASE thread_yield
  <2>1. /\ At("run") /\ do_yield
        /\ UNCHANGED <<pc, all_list, torn, idle_thread, foreach, ticks, wakeup_time,
                       value, waiters, waits_for, child, next_tid, tid>>
    BY <1>1, ZenonT(30) DEF thread_yield
  <2>2. ~ torn => \A t \in Thread : Sleeping(t) => wakeup_time[t] > ticks
    BY <2>1, ZenonT(30) DEF At, ClockInv
  <2> QED BY <2>1, <2>2, YieldInv, ZenonT(30) DEF At, TypeOK
<1>2. CASE thread_exit
  <2> DEFINE st == [status EXCEPT ![current] =
                      IF current = initial_thread THEN "DYING" ELSE "NONE"]
  <2>1. /\ At("run") /\ pc[current] = "run" /\ foreach = 0
        /\ torn' \in BOOLEAN /\ (torn => torn')
        /\ all_list' = IF torn' THEN <<>> ELSE list_remove(all_list, current)
        /\ schedule(st, ready_list)
        /\ tid' = [tid EXCEPT ![current] = 0]
        /\ UNCHANGED <<pc, idle_thread, foreach, ticks, wakeup_time, value,
                       waiters, waits_for, child, next_tid>>
    BY <1>2, ZenonT(30) DEF thread_exit, At, Links
  <2>2. /\ st \in [Thread -> Status]
        /\ \A t \in Thread : t # current => st[t] = status[t]
        /\ st[current] = IF current = initial_thread THEN "DYING" ELSE "NONE"
    BY <1>0, ZenonT(30) DEF TypeOK, Status
  <2> HIDE DEF st
  <2>3. /\ current' \in Thread
        /\ status' = [st EXCEPT ![current'] = "RUNNING"]
        /\ status' \in [Thread -> Status]
        /\ ready_list' \in Seq(Thread)
        /\ thread_ticks' = 0
        /\ OneRunning'
        /\ ReadyListExact'
        /\ current' = idle_thread \/ st[current'] = "READY"
    <3>1. /\ Injective(ready_list)
          /\ Elems(ready_list) = {t \in Thread : st[t] = "READY" /\ t # idle_thread}
      BY <1>0, <2>2, ZenonT(30) DEF ReadyListExact
    <3>2. \A t \in Thread : st[t] # "RUNNING"
      BY <2>2, ZenonT(30) DEF OneRunning
    <3>3. ready_list = <<>> => idle_thread = Idle
      BY <2>1, IdleAvailable, ZenonT(30)
    <3> QED BY <2>1, <2>2, <3>1, <3>2, <3>3, ScheduleFacts, ZenonT(60) DEF TypeOK
  <2>4. /\ current' # current
        /\ current' = idle_thread \/ status[current'] = "READY"
    BY <1>0, <1>a, <2>1, <2>2, <2>3, ThreadAssumption, ZenonT(30) DEF TypeOK
  <2>5. /\ ~ Sleeping(current') /\ ~ InMaking(current')
        /\ \A s \in Sema : current' \notin Elems(waiters[s])
        /\ status[current'] \notin {"NONE", "DYING"}
    BY <2>3, <2>4, SwitchedTo, ZenonT(30)
  <2>6. \A t \in Thread : status'[t] =
          IF t = current' THEN "RUNNING"
          ELSE IF t = current THEN IF current = initial_thread THEN "DYING" ELSE "NONE"
          ELSE status[t]
    BY <2>2, <2>3, ZenonT(30)
  <2>7. /\ all_list' \in Seq(Thread)
        /\ ~ torn' => /\ Injective(all_list')
                      /\ Elems(all_list') = Elems(all_list) \ {current}
    <3>1. CASE torn'
      <4>1. all_list' = <<>>
        BY <2>1, <3>1, ZenonT(30)
      <4> QED BY ONLY <3>1, <4>1
    <3>2. CASE ~ torn'
      <4>1. current \notin Unlinked
        BY <1>0, ThreadAssumption, ZenonT(30) DEF Unlinked, ChildInv
      <4>2. current \in Elems(all_list) /\ Injective(all_list) /\ all_list \in Seq(Thread)
        BY <1>0, <2>1, <3>2, <4>1, ZenonT(30) DEF AllListExact, TypeOK
      <4> QED BY <2>1, <3>2, <4>2, RemoveFacts, ZenonT(60)
    <3> QED BY <3>1, <3>2, ZenonT(30)
  <2> DEFINE Same == /\ pc' = pc /\ waits_for' = waits_for
                     /\ idle_thread' = idle_thread /\ foreach' = foreach
                     /\ waiters' = waiters /\ value' = value /\ child' = child
                     /\ wakeup_time' = wakeup_time /\ ticks' = ticks /\ foreach = 0
                     /\ pc[current] = "run"
  <2>8. Same
    BY <2>1, ZenonT(30)
  <2>9. TypeOK'
    <3>1. tid' \in [Thread -> Nat]
      BY <2>1, ZenonT(30) DEF TypeOK
    <3> QED BY <2>1, <2>3, <2>7, <3>1, ZenonT(30) DEF TypeOK
  <2>10. AllListExact'
    <3>1. Unlinked' = Unlinked
      BY <2>8, ZenonT(30) DEF Unlinked
    <3>2. {t \in Thread : status'[t] \notin {"NONE", "DYING"}}
            = {t \in Thread : status[t] \notin {"NONE", "DYING"}} \ {current}
      BY <1>0, <2>3, <2>4, <2>5, <2>6, ZenonT(30)
    <3> QED BY <2>1, <2>7, <3>1, <3>2, ZenonT(30) DEF AllListExact
  <2>11. BootInv'
    BY <1>0, <1>a, <2>1, <2>3, <2>4, <2>5, <2>6, <2>8, ThreadAssumption, SMTT(60)
       DEF BootInv, IdlePC, TypeOK
  <2>12. WaitInv'
    <3>1. \A t \in Thread : pc'[t] = "down" <=> waits_for'[t] # NoSema
      BY <2>8, ZenonT(30) DEF WaitInv
    <3>2. \A s \in Sema : \A t \in Thread :
            t \in Elems(waiters'[s]) <=> waits_for'[t] = s /\ status'[t] = "BLOCKED"
      <4>1. \A s \in Sema : current \notin Elems(waiters[s])
        BY <1>0, ZenonT(30) DEF WaitInv
      <4> QED BY ONLY WaitInv, <2>5, <2>6, <2>8, <4>1, SMTT(60) DEF WaitInv
    <3>3. \A s \in Sema : Injective(waiters'[s])
      BY <2>8, ZenonT(30) DEF WaitInv
    <3> QED BY <3>1, <3>2, <3>3, ZenonT(30) DEF WaitInv
  <2>13. SleepInv'
    BY <1>0, <2>5, <2>6, <2>8, ZenonT(30) DEF SleepInv, Sleeping
  <2>14. ClockInv'
    <3>1. Len(all_list') \in Nat
      BY <2>7, SMTT(60)
    <3> QED BY <2>1, <2>8, <3>1, SMTT(60) DEF ClockInv, Sleeping
  <2>15. ChildInv'
    <3>1. ~ InMaking(current)
      BY <1>0, ThreadAssumption, ZenonT(30) DEF ChildInv, InMaking
    <3>2. \A u \in Thread : child[u] # NoThread => child[u] \in Thread \ {current, current'}
      BY <2>5, <3>1, ZenonT(30) DEF InMaking, TypeOK
    <3>3. \A u \in Thread : child[u] # NoThread => status'[child[u]] = "BLOCKED"
      BY <2>6, <3>2, ZenonT(30) DEF ChildInv
    <3>4. \A t \in Thread : status'[t] = "BLOCKED" => status[t] = "BLOCKED"
      BY <2>6, ZenonT(30)
    <3> QED BY <2>8, <3>3, <3>4, ZenonT(30) DEF ChildInv, InMaking, Sleeping
  <2>16. TidLockExclusive'
    BY <2>8, ZenonT(30) DEF TidLockExclusive, HoldsTidLock
  <2> QED BY <2>3, <2>9, <2>10, <2>11, <2>12, <2>13, <2>14, <2>15, <2>16, ZenonT(30) DEF IndInv
<1>3. ASSUME NEW n \in 1 .. MaxSleep, timer_sleep(n) PROVE IndInv'
  <2>1. /\ At("run") /\ pc[current] = "run" /\ foreach = 0 /\ n > 0 /\ n \in Nat
        /\ wakeup_time' = [wakeup_time EXCEPT ![current] = ticks + n]
        /\ thread_block
        /\ UNCHANGED <<pc, ticks, all_list, torn, idle_thread, foreach, value,
                       waiters, waits_for, child, next_tid, tid>>
    BY <1>3, BoundAssumption, SMTT(60) DEF timer_sleep, At
  <2>2. /\ current' \in Thread
        /\ status' = [status EXCEPT ![current] = "BLOCKED", ![current'] = "RUNNING"]
        /\ status' \in [Thread -> Status]
        /\ ready_list' \in Seq(Thread)
        /\ thread_ticks' = 0
        /\ OneRunning'
        /\ ReadyListExact'
        /\ \/ current' = idle_thread /\ idle_thread = Idle
           \/ status[current'] = "READY" /\ current' # current
    BY <2>1, BlockFacts, ZenonT(30)
  <2>3. current' # current /\ (current' = idle_thread \/ status[current'] = "READY")
    BY <1>a, <2>1, <2>2, ZenonT(30)
  <2>4. /\ ~ Sleeping(current') /\ ~ InMaking(current')
        /\ \A s \in Sema : current' \notin Elems(waiters[s])
        /\ status[current'] \notin {"NONE", "DYING"}
    BY <2>2, <2>3, SwitchedTo, ZenonT(30)
  <2>5. /\ \A t \in Thread : status'[t] = IF t = current' THEN "RUNNING"
                                          ELSE IF t = current THEN "BLOCKED" ELSE status[t]
        /\ \A t \in Thread : wakeup_time'[t] = IF t = current THEN ticks + n
                                               ELSE wakeup_time[t]
    BY <2>1, <2>2, ZenonT(30) DEF TypeOK
  <2> DEFINE Same == /\ pc' = pc /\ waits_for' = waits_for
                     /\ all_list' = all_list /\ torn' = torn
                     /\ idle_thread' = idle_thread /\ foreach' = foreach
                     /\ waiters' = waiters /\ value' = value /\ child' = child
                     /\ ticks' = ticks /\ foreach = 0
                     /\ pc[current] = "run"
  <2>6. Same /\ ticks \in Nat /\ ticks + n > ticks /\ ticks + n > 0 /\ ticks + n \in Nat
    BY <2>1, SMTT(60) DEF TypeOK
  <2>7. TypeOK'
    <3>1. wakeup_time' \in [Thread -> Nat]
      BY <2>1, <2>6, ZenonT(30) DEF TypeOK
    <3> QED BY <2>1, <2>2, <3>1, ZenonT(60) DEF TypeOK
  <2>8. AllListExact'
    <3>1. \A t \in Thread : status'[t] \in {"NONE", "DYING"}
                             <=> status[t] \in {"NONE", "DYING"}
      BY <1>0, <2>4, <2>5, ZenonT(30)
    <3> QED BY <2>6, <3>1, ListKept, ZenonT(30)
  <2>9. BootInv'
    <3>1. current # Idle /\ Idle \in Thread /\ initial_thread \in Thread
          /\ current' \in Thread
      BY <1>a, <2>1, <2>2, ThreadAssumption, ZenonT(30)
    <3> QED BY ONLY BootInv, <1>0, <2>3, <2>4, <2>5, <2>6, <3>1, SMTT(60) DEF BootInv, IdlePC
  <2>10. WaitInv'
    <3>1. waits_for[current] = NoSema
      BY <1>a, <2>1, ZenonT(60)
    <3> QED BY <2>4, <2>5, <2>6, <3>1, SemaAssumption, SMTT(60) DEF WaitInv
  <2>11. SleepInv'
    BY <1>0, <2>3, <2>4, <2>5, <2>6, ZenonT(30) DEF SleepInv, Sleeping
  <2>12. ClockInv'
    BY <1>0, <2>5, <2>6, ZenonT(30) DEF ClockInv, Sleeping
  <2>13. ~ InMaking(current)
    BY <1>0, ThreadAssumption, ZenonT(30) DEF ChildInv, InMaking
  <2>14. ChildInv'
    <3>1. \A u \in Thread : child[u] # NoThread => child[u] \in Thread \ {current, current'}
      BY <2>4, <2>13, ZenonT(30) DEF InMaking, TypeOK
    <3>2. \A u \in Thread : child[u] # NoThread =>
            /\ status'[child[u]] = "BLOCKED" /\ wakeup_time'[child[u]] = wakeup_time[child[u]]
      BY <2>5, <3>1, ZenonT(30) DEF ChildInv
    <3>3. \A t \in Thread : (status'[t] = "BLOCKED" /\ pc[t] = "run" /\ ~ Sleeping(t)')
                              => InMaking(t)
      BY <2>5, <2>6, ZenonT(30) DEF ChildInv, Sleeping
    <3> QED BY <2>6, <3>2, <3>3, ZenonT(30) DEF ChildInv, InMaking, Sleeping
  <2>15. TidLockExclusive'
    BY <2>6, ZenonT(30) DEF TidLockExclusive, HoldsTidLock
  <2> QED BY <2>2, <2>7, <2>8, <2>9, <2>10, <2>11, <2>12, <2>14, <2>15, ZenonT(30) DEF IndInv
<1>4. ASSUME NEW s \in ClientSema, sema_down(s) PROVE IndInv'
  BY <1>4, <1>a, SemaDownFacts, ZenonT(30) DEF sema_down, At, ClientSema
<1>5. ASSUME NEW s \in ClientSema, sema_try_down(s) PROVE IndInv'
  <2>1. /\ s \in Sema /\ s # tid_lock /\ value[s] > 0
        /\ value' = [value EXCEPT ![s] = @ - 1]
        /\ UNCHANGED <<pc, status, current, ready_list, thread_ticks, all_list, torn,
                       idle_thread, foreach, ticks, wakeup_time, waiters,
                       waits_for, child, next_tid, tid>>
    BY <1>5, ZenonT(30) DEF sema_try_down, ClientSema
  <2>2. value' \in [Sema -> Nat]
    BY <2>1, SMTT(60) DEF TypeOK
  <2>3. value'[tid_lock] = value[tid_lock]
    BY <2>1, SemaAssumption, ZenonT(30) DEF TypeOK
  <2>4. TypeOK'
    BY <2>1, <2>2, ZenonT(30) DEF TypeOK
  <2>5. OneRunning' /\ ReadyListExact' /\ AllListExact'
    BY <2>1, ListKept, ZenonT(30) DEF OneRunning, ReadyListExact
  <2>6. BootInv' /\ WaitInv'
    BY <2>1, SMTT(60) DEF BootInv, WaitInv
  <2>7. SleepInv' /\ ChildInv' /\ ClockInv'
    BY <2>1, SMTT(60) DEF SleepInv, ChildInv, ClockInv, Sleeping, InMaking
  <2>8. TidLockExclusive'
    BY <2>1, <2>3, ZenonT(30) DEF TidLockExclusive, HoldsTidLock
  <2> QED BY <2>4, <2>5, <2>6, <2>7, <2>8, ZenonT(30) DEF IndInv
<1>6. ASSUME NEW s \in ClientSema, sema_up(s) PROVE IndInv'
  <2>1. pc' = [pc EXCEPT ![current] = pc[current]]
    BY <1>6, ZenonT(30) DEF sema_up, TypeOK
  <2> QED BY <1>6, <2>1, SemaUpInv, ZenonT(60) DEF sema_up, At, ClientSema
<1> QED BY <1>1, <1>2, <1>3, <1>4, <1>5, <1>6, ZenonT(30) DEF Client

\* Every step of the kernel keeps the invariant.
LEMMA NextInv == IndInv /\ [Next]_vars => IndInv'
<1> SUFFICES ASSUME IndInv, [Next]_vars PROVE IndInv'
  BY ZenonT(30)
<1>1. CASE sema_down_resume
  <2>1. /\ waits_for[current] \in Sema
        /\ waits_for[current] = tid_lock <=> child[current] # NoThread
    <3>1. current \in Thread /\ pc[current] = "down"
      BY <1>1, ZenonT(30) DEF sema_down_resume, At, IndInv, TypeOK
    <3>2. waits_for[current] \in Sema
      BY <3>1, SMTT(60) DEF IndInv, TypeOK, WaitInv
    <3>3. waits_for[current] = tid_lock <=> child[current] # NoThread
      BY <3>1, ZenonT(30) DEF IndInv, ChildInv, CreatePC
    <3> QED BY <3>2, <3>3, ZenonT(30)
  <2> QED BY <1>1, <2>1, SemaDownFacts, ZenonT(30) DEF sema_down_resume, At
<1>2. CASE UNCHANGED vars
  <2> USE <1>2 DEF IndInv, vars
  <2>1. TypeOK' /\ OneRunning' /\ ReadyListExact' /\ AllListExact'
    <3>1. AllListExact'
      BY ListKept, ZenonT(30)
    <3> QED BY <3>1, ZenonT(30) DEF TypeOK, OneRunning, ReadyListExact
  <2>2. BootInv' /\ SleepInv'
    BY ZenonT(30) DEF BootInv, SleepInv, Sleeping
  <2>4. WaitInv'
    BY ZenonT(30) DEF WaitInv
  <2>3. ChildInv' /\ ClockInv' /\ TidLockExclusive'
    BY DEF ChildInv, ClockInv, TidLockExclusive, Sleeping, InMaking, HoldsTidLock
  <2> QED BY <2>1, <2>2, <2>3, <2>4, ZenonT(30)
<1> QED BY <1>1, <1>2, BootStep, CreateStep, ClientStep, InterruptStep, ZenonT(30) DEF Next

-----------------------------------------------------------------------------
(* What follows. *)

\* The inductive invariant holds of every reachable state of the kernel: what
\* it says of the scheduler, the wait lists, the sleepers, the threads in the
\* making and tid_lock even after all_list was torn, what it says of all_list
\* and of the alarm clock's walk until then.
THEOREM Invariance == Spec => []IndInv
BY InitInv, NextInv, PTL DEF Spec

\* Exactly the running thread has status RUNNING.
THEOREM OneRunningAlways == Spec => []OneRunning
BY Invariance, PTL DEF IndInv

\* The run queue is exact, and the idle thread is never in it once it has
\* started.
THEOREM ReadyListAlwaysExact == Spec => []ReadyListExact
BY Invariance, PTL DEF IndInv

\* allocate_tid()'s critical section excludes.
THEOREM TidLockAlwaysExclusive == Spec => []TidLockExclusive
BY Invariance, PTL DEF IndInv

\* The alarm clock is never late while no two updates of all_list have
\* overlapped: between interrupts no sleeper is overdue, although threads are
\* linked with interrupts on.
THEOREM AlarmNeverLate == Spec => []NoOverdueSleeper
<1>1. IndInv => NoOverdueSleeper
  BY ZenonT(60) DEF IndInv, ClockInv, NoOverdueSleeper
<1> QED BY <1>1, Invariance, PTL

\* Every blocked thread has exactly one waker.
THEOREM BlockedAlwaysHasOneWaker == Spec => []BlockedHasOneWaker
<1>1. IndInv => BlockedHasOneWaker
  <2> SUFFICES ASSUME IndInv PROVE BlockedHasOneWaker
    BY ZenonT(60)
  <2>i. /\ TypeOK /\ OneRunning /\ ReadyListExact /\ AllListExact /\ BootInv
        /\ WaitInv /\ SleepInv /\ ChildInv /\ ClockInv /\ TidLockExclusive
    BY ZenonT(30) DEF IndInv
  <2> USE <2>i
  <2>1. \A t \in Thread : Queued(t) =>
          /\ status[t] = "BLOCKED" /\ pc[t] = "down"
    BY SemaAssumption, SMTT(60) DEF Queued, WaitInv
  <2>2. \A t \in Thread : InMaking(t) =>
          /\ status[t] = "BLOCKED" /\ pc[t] = "run" /\ ~ Sleeping(t) /\ t # Idle
    BY ThreadAssumption, SMTT(60) DEF InMaking, ChildInv
  <2>3. \A t \in Thread : Sleeping(t) => status[t] = "BLOCKED" /\ pc[t] = "run" /\ t # Idle
    BY ZenonT(30) DEF SleepInv, BootInv
  <2>4. \A t \in Thread : IdleParked(t) /\ t # current => status[t] = "BLOCKED"
    BY ZenonT(30) DEF IdleParked, BootInv
  <2>5. ASSUME NEW t \in Thread, status[t] = "BLOCKED"
        PROVE  Sleeping(t) \/ Queued(t) \/ InMaking(t) \/ (IdleParked(t) /\ t # current)
    <3>1. CASE t = Idle
      BY <2>5, <3>1, ZenonT(30) DEF IdleParked, BootInv
    <3>2. CASE t # Idle /\ waits_for[t] # NoSema
      <4>1. waits_for[t] \in Sema
        BY <3>2, ZenonT(30) DEF TypeOK
      <4> QED BY <2>5, <4>1, ZenonT(30) DEF WaitInv, Queued
    <3>3. CASE t # Idle /\ waits_for[t] = NoSema
      <4>1. pc[t] = "run"
        BY <2>5, <3>3, ZenonT(30) DEF BootInv, IdlePC, WaitInv
      <4> QED BY <2>5, <4>1, ZenonT(30) DEF ChildInv
    <3> QED BY <3>1, <3>2, <3>3, ZenonT(30)
  <2>6. \A r, s \in Sema : r # s => Elems(waiters[r]) \cap Elems(waiters[s]) = {}
    <3> SUFFICES ASSUME NEW r \in Sema, NEW s \in Sema, r # s,
                        NEW x \in Elems(waiters[r]) \cap Elems(waiters[s])
                 PROVE  FALSE
      BY ZenonT(30)
    <3>1. x \in Thread
      BY SMTT(60) DEF Elems, TypeOK
    <3> QED BY <3>1, SMTT(60) DEF WaitInv
  <2>7. \A s \in Sema : Injective(waiters[s])
    BY ZenonT(30) DEF WaitInv
  <2> QED BY <2>1, <2>2, <2>3, <2>4, <2>5, <2>6, <2>7, ThreadAssumption, ZenonT(30)
             DEF BlockedHasOneWaker, BootInv, IdlePC
<1> QED BY <1>1, Invariance, PTL

\* ... and never early, even when the walk is led astray by torn links: the
\* steps that release a sleeper are those of update_sleeping_threads() that find
\* it due.
THEOREM AlarmNeverEarly == Spec => NeverWokenEarly
<1>1. ASSUME IndInv, IndInv', [Next]_vars, NEW t \in Thread, Sleeping(t), status'[t] # "BLOCKED"
      PROVE  ticks >= wakeup_time[t]
  <2>1. wakeup_time'[t] # wakeup_time[t]
    BY <1>1, ZenonT(30) DEF IndInv, SleepInv, Sleeping
  <2>2. CASE thread_foreach
    <3>1. wakeup_time \in [Thread -> Nat] /\ ticks \in Nat
      BY <1>1, ZenonT(30) DEF IndInv, TypeOK
    <3>2. PICK u : update_sleeping_threads(u)
      BY <2>2, ZenonT(30) DEF thread_foreach
    <3>3. CASE due(u)
      <4>1. wakeup_time' = [wakeup_time EXCEPT ![u] = 0]
        BY <3>2, <3>3, ZenonT(30) DEF update_sleeping_threads
      <4>2. t = u
        BY <2>1, <3>1, <4>1, ZenonT(30)
      <4> QED BY <3>1, <3>3, <4>2, ZenonT(30) DEF due
    <3>4. CASE ~ due(u)
      BY <2>1, <3>2, <3>4, ZenonT(30) DEF update_sleeping_threads
    <3> QED BY <3>3, <3>4, ZenonT(30)
  <2>3. ASSUME NEW n \in 1 .. MaxSleep, timer_sleep(n) PROVE FALSE
    <3>1. wakeup_time' = [wakeup_time EXCEPT ![current] = ticks + n]
      BY <2>3, ZenonT(30) DEF timer_sleep
    <3>2. t = current
      BY <1>1, <2>1, <3>1, ZenonT(30) DEF IndInv, TypeOK
    <3> QED BY <1>1, <3>2, ZenonT(30) DEF IndInv, SleepInv, OneRunning
  <2>4. UNCHANGED wakeup_time \/ thread_foreach \/ \E n \in 1 .. MaxSleep : timer_sleep(n)
    <3>1. Boot \/ Create \/ sema_down_resume \/ UNCHANGED vars => UNCHANGED wakeup_time
      BY ZenonT(30) DEF Boot, thread_start, start_wait, idle_init, idle_up, idle_block,
         Create, thread_create, push_prev, push_link, push_last, tid_acquire,
         tid_read, tid_write, tid_release, create_unblock, sema_down_resume, timeVars, vars
    <3>2. Client => UNCHANGED wakeup_time \/ \E n \in 1 .. MaxSleep : timer_sleep(n)
      BY ZenonT(30) DEF Client, thread_yield, thread_exit, sema_down, sema_try_down, sema_up,
         timeVars
    <3>3. Interrupt => UNCHANGED wakeup_time \/ thread_foreach
      BY ZenonT(30) DEF Interrupt, timer_interrupt, intr_return, device_interrupt, timeVars
    <3> QED BY <1>1, <3>1, <3>2, <3>3, ZenonT(30) DEF Next
  <2> QED BY <2>1, <2>2, <2>3, <2>4, ZenonT(30)
<1>2. IndInv /\ IndInv' /\ [Next]_vars
        => [\A t \in Thread : Sleeping(t) /\ status'[t] # "BLOCKED"
                                => ticks >= wakeup_time[t]]_vars
  BY <1>1, ZenonT(30)
<1> QED BY <1>2, Invariance, PTL DEF Spec, NeverWokenEarly

-----------------------------------------------------------------------------
(* Wakeups. *)

\* The threads inside sema_down() of s.
Inside(s) == {t \in Thread : waits_for[t] = s}

\* The released threads are those inside sema_down() that are off its wait list.
LEMMA ReleasedFacts ==
  ASSUME NEW s \in Sema
  PROVE  /\ WaitInv => Released(s) = Inside(s) \ Elems(waiters[s])
         /\ WaitInv' => Released(s)' = Inside(s)' \ Elems(waiters'[s])
         /\ IsFiniteSet(Released(s)) /\ Cardinality(Released(s)) \in Nat
         /\ IsFiniteSet(Released(s)') /\ Cardinality(Released(s)') \in Nat
<1>1. WaitInv => Released(s) = Inside(s) \ Elems(waiters[s])
  BY SemaAssumption, SMTT(60) DEF WaitInv, Released, Inside
<1>2. WaitInv' => Released(s)' = Inside(s)' \ Elems(waiters'[s])
  BY SemaAssumption, SMTT(60) DEF WaitInv, Released, Inside
<1>3. Released(s) \subseteq Thread /\ Released(s)' \subseteq Thread
  BY Zenon DEF Released
<1>4. IsFiniteSet(Released(s)) /\ IsFiniteSet(Released(s)')
  BY <1>3, PagesAssumption, FS_Subset, Zenon
<1> QED BY <1>1, <1>2, <1>4, FS_CardinalityType, Zenon

\* What a step does to the semaphores: nothing, one sema_down(), one
\* sema_try_down() or one sema_up().
LEMMA SemaSteps ==
  ASSUME IndInv, [Next]_vars
  PROVE  \/ UNCHANGED <<value, waiters, waits_for>>
         \/ \E s \in Sema : /\ do_sema_down(s)
                            /\ pc[current] = "down" => waits_for[current] = s
         \/ \E s \in Sema : /\ value[s] > 0 /\ value' = [value EXCEPT ![s] = @ - 1]
                            /\ UNCHANGED <<waiters, waits_for>>
         \/ \E s \in Sema : do_sema_up(s) /\ UNCHANGED waits_for
<1>1. ASSUME sema_down_resume PROVE waits_for[current] \in Sema
  BY <1>1, SMTT(60) DEF IndInv, TypeOK, WaitInv, sema_down_resume, At
<1>2. ClientSema \subseteq Sema /\ tid_lock \in Sema /\ idle_started \in Sema
  BY SemaAssumption, ZenonT(30) DEF ClientSema
<1>3. CASE Boot
  BY <1>2, <1>3, ZenonT(30) DEF Boot, thread_start, start_wait, idle_init, idle_up, idle_block,
     semaVars, At
<1>4. CASE Create
  BY <1>2, <1>4, ZenonT(30) DEF Create, thread_create, push_prev, push_link, push_last, tid_acquire,
     tid_read, tid_write, tid_release, create_unblock, semaVars, At
<1>5. CASE Client
  <2>1. ASSUME NEW s \in ClientSema, sema_try_down(s)
        PROVE  /\ s \in Sema /\ value[s] > 0 /\ value' = [value EXCEPT ![s] = @ - 1]
               /\ UNCHANGED <<waiters, waits_for>>
    BY <1>2, <2>1, ZenonT(30) DEF sema_try_down
  <2>2. ASSUME NEW s \in ClientSema, sema_down(s) \/ sema_up(s)
        PROVE  /\ s \in Sema
               /\ \/ do_sema_down(s) /\ pc[current] # "down"
                  \/ do_sema_up(s) /\ UNCHANGED waits_for
    BY <1>2, <2>2, ZenonT(30) DEF sema_down, sema_up, At
  <2>3. ASSUME thread_yield \/ thread_exit \/ \E n \in 1 .. MaxSleep : timer_sleep(n)
        PROVE  UNCHANGED <<value, waiters, waits_for>>
    BY <2>3, ZenonT(30) DEF thread_yield, thread_exit, timer_sleep, semaVars
  <2> QED BY <1>5, <2>1, <2>2, <2>3, ZenonT(30) DEF Client
<1>6. CASE Interrupt
  BY <1>2, <1>6, ZenonT(30) DEF Interrupt, timer_interrupt, thread_foreach, intr_return,
     device_interrupt, semaVars
<1>7. CASE sema_down_resume
  BY <1>1, <1>7, ZenonT(30) DEF sema_down_resume
<1>8. CASE UNCHANGED vars
  BY <1>8, ZenonT(30) DEF vars
<1> QED BY <1>3, <1>4, <1>5, <1>6, <1>7, <1>8, ZenonT(30) DEF Next

\* One sema_up(): the unit it adds is matched by the waiter it releases.
LEMMA UpMatched ==
  ASSUME WaitInv, WaitInv', value \in [Sema -> Nat], waiters \in [Sema -> Seq(Thread)],
         NoLostWakeup, NEW s \in Sema, do_sema_up(s), UNCHANGED waits_for
  PROVE  NoLostWakeup'
<1>1. SUFFICES ASSUME NEW u \in Sema, waiters'[u] # <<>>
               PROVE  value'[u] <= Cardinality(Released(u)')
  BY Zenon DEF NoLostWakeup
<1>2. /\ Released(u) = Inside(u) \ Elems(waiters[u])
      /\ Released(u)' = Inside(u)' \ Elems(waiters'[u])
      /\ IsFiniteSet(Released(u)) /\ Cardinality(Released(u)) \in Nat
  BY ReleasedFacts, Zenon
<1>3. Inside(u)' = Inside(u)
  BY Zenon DEF Inside
<1>4. CASE u # s
  <2>1. value'[u] = value[u] /\ waiters'[u] = waiters[u]
    BY <1>4, ZenonT(30) DEF do_sema_up
  <2> QED BY <1>1, <1>2, <1>3, <2>1, Zenon DEF NoLostWakeup
<1>5. CASE u = s
  <2>1. waiters[s] # <<>> /\ waiters'[s] = Tail(waiters[s]) /\ value'[s] = value[s] + 1
    BY <1>1, <1>5, ZenonT(30) DEF do_sema_up
  <2> DEFINE h == Head(waiters[s])
  <2>2. waiters[s] \in Seq(Thread) /\ Injective(waiters[s])
    BY ZenonT(30) DEF WaitInv
  <2>3. /\ h \in Thread /\ h \in Elems(waiters[s])
        /\ Elems(Tail(waiters[s])) = Elems(waiters[s]) \ {h}
    BY <2>1, <2>2, TailFacts, ZenonT(30)
  <2>4. h \in Inside(s)
    BY <2>3, ZenonT(30) DEF WaitInv, Inside
  <2>5. Released(s)' = Released(s) \union {h} /\ h \notin Released(s)
    BY <1>2, <1>3, <1>5, <2>1, <2>3, <2>4, ZenonT(60)
  <2>6. Cardinality(Released(s)') = Cardinality(Released(s)) + 1
    BY <1>2, <1>5, <2>5, FS_AddElement, ZenonT(60)
  <2>7. value[s] <= Cardinality(Released(s))
    BY <2>1, Zenon DEF NoLostWakeup
  <2>8. value[s] \in Nat /\ Cardinality(Released(s)) \in Nat
    BY <1>2, <1>5, Zenon
  <2>9. value'[s] <= Cardinality(Released(s)')
    BY ONLY <2>1, <2>6, <2>7, <2>8, SMTT(60)
  <2> QED BY <1>5, <2>9, Zenon
<1> QED BY <1>4, <1>5, ZenonT(30)

\* One round of sema_down(): the unit it takes was matched by the thread that
\* takes it, or by one that keeps waiting for another.
LEMMA DownMatched ==
  ASSUME WaitInv, WaitInv', value \in [Sema -> Nat], waiters \in [Sema -> Seq(Thread)],
         current \in Thread, waits_for \in [Thread -> Sema \union {NoSema}],
         NoLostWakeup, NEW s \in Sema, do_sema_down(s),
         pc[current] = "down" => waits_for[current] = s
  PROVE  NoLostWakeup'
<1>1. SUFFICES ASSUME NEW u \in Sema, waiters'[u] # <<>>
               PROVE  value'[u] <= Cardinality(Released(u)')
  BY Zenon DEF NoLostWakeup
<1>2. /\ Released(u) = Inside(u) \ Elems(waiters[u])
      /\ Released(u)' = Inside(u)' \ Elems(waiters'[u])
      /\ IsFiniteSet(Released(u)) /\ Cardinality(Released(u)) \in Nat
      /\ Cardinality(Released(u)') \in Nat
  BY ReleasedFacts, Zenon
<1>3. waits_for[current] \in {NoSema, s}
  BY Zenon DEF WaitInv
<1>4. CASE u # s
  <2>1. value'[u] = value[u] /\ waiters'[u] = waiters[u]
    BY <1>4, ZenonT(30) DEF do_sema_down
  <2>2. Inside(u)' = Inside(u)
    BY <1>3, <1>4, SemaAssumption, SMTT(60) DEF do_sema_down, Inside
  <2> QED BY <1>1, <1>2, <2>1, <2>2, Zenon DEF NoLostWakeup
<1>5. CASE u = s /\ value[s] > 0
  <2>1. value'[s] = value[s] - 1 /\ waiters'[s] = waiters[s]
    BY <1>5, SMTT(60) DEF do_sema_down
  <2>2. Inside(s)' = Inside(s) \ {current}
    BY <1>5, SemaAssumption, SMTT(60) DEF do_sema_down, Inside
  <2>3. Released(s)' = Released(s) \ {current}
    BY <1>2, <1>5, <2>1, <2>2, ZenonT(30)
  <2>4. Cardinality(Released(s)') = IF current \in Released(s)
                                    THEN Cardinality(Released(s)) - 1
                                    ELSE Cardinality(Released(s))
    <3>1. IsFiniteSet(Released(s))
      BY <1>2, <1>5, Zenon
    <3> QED BY ONLY <2>3, <3>1, FS_RemoveElement, ZenonT(30)
  <2>5. value[s] <= Cardinality(Released(s))
    BY <1>1, <1>5, <2>1, Zenon DEF NoLostWakeup
  <2>6. value[s] \in Nat /\ Cardinality(Released(s)) \in Nat
    BY <1>2, <1>5, Zenon
  <2>7. value'[s] <= Cardinality(Released(s)')
    BY ONLY <2>1, <2>4, <2>5, <2>6, SMTT(60)
  <2> QED BY <1>5, <2>7, Zenon
<1>6. CASE u = s /\ value[s] = 0
  <2>1. value'[s] = 0
    BY <1>6, SMTT(60) DEF do_sema_down
  <2> QED BY <1>2, <1>6, <2>1, SMTT(60)
<1> QED BY <1>4, <1>5, <1>6, SMTT(60)

\* sema_try_down() takes a unit and releases nobody; other steps do neither.
LEMMA RestMatched ==
  ASSUME WaitInv, WaitInv', value \in [Sema -> Nat], NoLostWakeup,
         UNCHANGED <<waiters, waits_for>>,
         \/ UNCHANGED value
         \/ \E s \in Sema : value[s] > 0 /\ value' = [value EXCEPT ![s] = @ - 1]
  PROVE  NoLostWakeup'
<1>1. SUFFICES ASSUME NEW u \in Sema, waiters'[u] # <<>>
               PROVE  value'[u] <= Cardinality(Released(u)')
  BY Zenon DEF NoLostWakeup
<1>2. Released(u)' = Released(u) /\ Cardinality(Released(u)) \in Nat
  <2>1. Inside(u)' = Inside(u) /\ waiters'[u] = waiters[u]
    BY Zenon DEF Inside
  <2> QED BY <2>1, ReleasedFacts, Zenon
<1>3. value[u] <= Cardinality(Released(u))
  BY <1>1, Zenon DEF NoLostWakeup
<1>4. value'[u] \in Nat /\ value'[u] <= value[u]
  BY SMTT(60)
<1> QED BY <1>2, <1>3, <1>4, SMTT(60)

\* No thread stays queued behind a unit that nobody is on the way to take,
\* whatever other threads take in between.
THEOREM WakeupsNeverLost == Spec => []NoLostWakeup
<1>1. Init => NoLostWakeup
  BY SMTT(60) DEF Init, thread_init, NoLostWakeup
<1>2. ASSUME IndInv, IndInv', [Next]_vars, NoLostWakeup PROVE NoLostWakeup'
  <2>1. /\ WaitInv /\ value \in [Sema -> Nat] /\ waiters \in [Sema -> Seq(Thread)]
        /\ current \in Thread /\ waits_for \in [Thread -> Sema \union {NoSema}]
    BY ONLY IndInv, Zenon DEF IndInv, TypeOK
  <2>2. WaitInv'
    BY ONLY IndInv', Zenon DEF IndInv
  <2> QED BY <1>2, <2>1, <2>2, SemaSteps, UpMatched, DownMatched, RestMatched, ZenonT(60)
<1> QED BY <1>1, <1>2, Invariance, PTL DEF Spec
=============================================================================
