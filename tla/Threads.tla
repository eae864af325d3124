------------------------------ MODULE Threads ------------------------------
(***************************************************************************)
(* The Pintos kernel threads of threads/thread.c with the semaphores of    *)
(* threads/synch.c and the alarm clock of devices/timer.c, from boot on.   *)
(*                                                                         *)
(* One CPU: only `current' takes steps.  A section the code runs with      *)
(* interrupts off is one action; everything else can be interrupted, and   *)
(* a thread may lose the CPU to the timer between any two actions.  The    *)
(* timer handler itself runs with interrupts off but walks all_list one    *)
(* thread per action, as thread_foreach does.                              *)
(*                                                                         *)
(* thread_create() puts the new thread on all_list with interrupts on.     *)
(* The stores of that list_push_back() are actions of their own; another   *)
(* insertion, or the exit of the last thread, can come between them and    *)
(* leave links that are no longer those of a list (`torn').                *)
(*                                                                         *)
(* A thread that runs kernel code of its own is the most general client:   *)
(* at pc "run" it may call any operation of the interface.                 *)
(***************************************************************************)
EXTENDS Queues, FiniteSets

CONSTANTS
  Thread,          \* the pages a struct thread may occupy
  initial_thread,  \* the thread that runs init.c:main()
  Idle,            \* the page of the thread that runs idle()
  NoThread,        \* a null struct thread pointer
  Sema,            \* the semaphores
  idle_started,    \* the semaphore of thread_start()
  tid_lock,        \* the semaphore inside tid_lock
  NoSema,          \* no semaphore
  TIME_SLICE,      \* ticks a thread may run before it is preempted
  MaxTicks,        \* bound: the clock stops counting here
  MaxSleep,        \* bound: longest argument of timer_sleep()
  MaxTid,          \* bound: no thread is created past this tid
  MaxValue         \* bound: clients do not raise a semaphore past this

ASSUME ThreadAssumption ==
  /\ initial_thread \in Thread
  /\ Idle \in Thread
  /\ initial_thread # Idle
  /\ NoThread \notin Thread

\* The pool has finitely many pages.
ASSUME PagesAssumption == IsFiniteSet(Thread)

ASSUME SemaAssumption ==
  /\ idle_started \in Sema
  /\ tid_lock \in Sema
  /\ idle_started # tid_lock
  /\ NoSema \notin Sema

ASSUME BoundAssumption ==
  /\ TIME_SLICE \in Nat \ {0}
  /\ MaxTicks \in Nat
  /\ MaxSleep \in Nat
  /\ MaxTid \in Nat
  /\ MaxValue \in Nat

VARIABLES
  status,        \* struct thread.status; "NONE" is a page that holds no thread
  pc,            \* where a thread is in the operation it called
  current,       \* running_thread()
  ready_list,    \* the run queue
  all_list,      \* every thread, in creation order
  torn,          \* the links of all_list were updated by two threads at once
  idle_thread,   \* NoThread until idle() has run
  thread_ticks,  \* timer ticks since the last switch
  ticks,         \* timer ticks since boot
  wakeup_time,   \* struct thread.wakeup_time; 0 when not sleeping
  foreach,       \* 0, or the position of thread_foreach() in the timer handler
  value,         \* struct semaphore.value
  waiters,       \* struct semaphore.waiters
  waits_for,     \* the semaphore a thread is inside sema_down() of
  child,         \* the thread a thread_create() in progress is making
  next_tid,      \* the static variable of allocate_tid()
  tid            \* struct thread.tid; 0 until allocate_tid() returned

listVars  == <<all_list, torn>>
schedVars == <<status, current, ready_list, thread_ticks>>
semaVars  == <<value, waiters, waits_for>>
timeVars  == <<ticks, wakeup_time>>
tidVars   == <<child, next_tid, tid>>
vars == <<status, pc, current, ready_list, all_list, torn, idle_thread,
          thread_ticks, ticks, wakeup_time, foreach, value, waiters, waits_for, child,
          next_tid, tid>>

Status == {"NONE", "RUNNING", "READY", "BLOCKED", "DYING"}

PC == {"start", "boot",                              \* thread_start()
       "run",                                        \* a client's own code
       "down",                                       \* blocked in sema_down()
       "push", "link", "last",                       \* thread_create():
       "acquire", "read", "write", "up", "unblock",  \*   list, tid, run queue
       "init", "started", "loop", "hlt"}             \* idle()

(***************************************************************************)
(* Interrupts are off inside the timer handler, before thread_start() has  *)
(* enabled them, and when a thread has just been switched to inside the    *)
(* loop of sema_down().                                                    *)
(***************************************************************************)
InterruptsOn == foreach = 0 /\ pc[current] \notin {"start", "down"}

\* The running thread executes the code at label p, outside any interrupt.
At(p) == foreach = 0 /\ pc[current] = p

Goto(p) == pc' = [pc EXCEPT ![current] = p]

(***************************************************************************)
(* Scheduling.  These operators take the statuses and the run queue as     *)
(* the caller has left them, because one interrupts-off section unblocks,  *)
(* enqueues and switches in sequence.                                      *)
(***************************************************************************)
next_thread_to_run(rq) == IF rq = <<>> THEN idle_thread ELSE Head(rq)

\* schedule() and thread_schedule_tail().  The caller has already taken the
\* running thread out of RUNNING; a dying thread's page is free (see
\* thread_exit), unless it is the initial thread's.
schedule(st, rq) ==
  LET next == next_thread_to_run(rq) IN
  /\ current' = next
  /\ status' = [st EXCEPT ![next] = "RUNNING"]
  /\ ready_list' = IF rq = <<>> THEN rq ELSE Tail(rq)
  /\ thread_ticks' = 0

thread_block == schedule([status EXCEPT ![current] = "BLOCKED"], ready_list)

thread_unblock(t) ==
  /\ ready_list' = Append(ready_list, t)
  /\ status' = [status EXCEPT ![t] = "READY"]

Mut_yield_front ==
  schedule([status EXCEPT ![current] = "READY"],
           IF current = idle_thread THEN ready_list
                                    ELSE <<current>> \o ready_list)

do_yield ==
  schedule([status EXCEPT ![current] = "READY"],
           IF current = idle_thread THEN ready_list
                                    ELSE Append(ready_list, current))

thread_yield ==
  /\ At("run")
  /\ do_yield
  /\ UNCHANGED <<pc, listVars, idle_thread, foreach, timeVars, semaVars, tidVars>>

(***************************************************************************)
(* Semaphores.  `after' is where the caller goes on once it has the        *)
(* semaphore.  A thread that finds the value 0 queues itself and blocks    *)
(* inside the loop; switched to again, it tests the value once more.       *)
(***************************************************************************)
After(s) == IF s = tid_lock THEN "read" ELSE "run"

do_sema_down(s) ==
  \/ /\ value[s] > 0
     /\ value' = [value EXCEPT ![s] = @ - 1]
     /\ waits_for' = [waits_for EXCEPT ![current] = NoSema]
     /\ Goto(After(s))
     /\ UNCHANGED <<waiters, schedVars>>
  \/ /\ value[s] = 0
     /\ waiters' = [waiters EXCEPT ![s] = Append(@, current)]
     /\ waits_for' = [waits_for EXCEPT ![current] = s]
     /\ Goto("down")
     /\ thread_block
     /\ UNCHANGED value

\* The rest of sema_down()'s loop when the thread has been switched to.
sema_down_resume ==
  /\ At("down")
  /\ do_sema_down(waits_for[current])
  /\ UNCHANGED <<listVars, idle_thread, foreach, timeVars, tidVars>>

\* Variants of sema_up() that leave the released thread on the wait list, and
\* that release one only when the value was 0.
Mut_up_keeps_waiter(s) ==
  /\ value' = [value EXCEPT ![s] = @ + 1]
  /\ UNCHANGED waiters
  /\ IF waiters[s] = <<>> THEN UNCHANGED <<ready_list, status>>
                          ELSE thread_unblock(Head(waiters[s]))

Mut_up_from_zero(s) ==
  /\ value' = [value EXCEPT ![s] = @ + 1]
  /\ IF waiters[s] = <<>> \/ value[s] > 0
     THEN UNCHANGED <<waiters, ready_list, status>>
     ELSE /\ waiters' = [waiters EXCEPT ![s] = Tail(@)]
          /\ thread_unblock(Head(waiters[s]))

do_sema_up(s) ==
  /\ value' = [value EXCEPT ![s] = @ + 1]
  /\ IF waiters[s] = <<>>
     THEN UNCHANGED <<waiters, ready_list, status>>
     ELSE /\ waiters' = [waiters EXCEPT ![s] = Tail(@)]
          /\ thread_unblock(Head(waiters[s]))

\* The semaphores that belong to no particular piece of kernel code.
ClientSema == Sema \ {idle_started, tid_lock}

sema_down(s) ==
  /\ At("run")
  /\ do_sema_down(s)
  /\ UNCHANGED <<listVars, idle_thread, foreach, timeVars, tidVars>>

sema_try_down(s) ==
  /\ At("run")
  /\ value[s] > 0
  /\ value' = [value EXCEPT ![s] = @ - 1]
  /\ UNCHANGED <<pc, waiters, waits_for, schedVars, listVars, idle_thread,
                 foreach, timeVars, tidVars>>

sema_up(s) ==
  /\ At("run")
  /\ value[s] < MaxValue
  /\ do_sema_up(s)
  /\ UNCHANGED <<pc, current, thread_ticks, waits_for, listVars, idle_thread,
                 foreach, timeVars, tidVars>>

(***************************************************************************)
(* The alarm clock.                                                        *)
(***************************************************************************)
timer_sleep(n) ==
  /\ At("run")
  /\ n > 0
  /\ ticks + n <= MaxTicks
  /\ wakeup_time' = [wakeup_time EXCEPT ![current] = ticks + n]
  /\ thread_block
  /\ UNCHANGED <<pc, ticks, listVars, idle_thread, foreach, semaVars, tidVars>>

\* intr_handler() and the first half of timer_interrupt(): count the tick.
timer_interrupt ==
  /\ InterruptsOn
  /\ ticks' = IF ticks < MaxTicks THEN ticks + 1 ELSE ticks
  /\ thread_ticks' = thread_ticks + 1
  /\ foreach' = 1
  /\ UNCHANGED <<status, pc, current, ready_list, listVars, idle_thread,
                 wakeup_time, semaVars, tidVars>>

\* Variants: the comparison is strict; the comparison is missing.
Mut_due_late(t) ==
  status[t] = "BLOCKED" /\ wakeup_time[t] > 0 /\ wakeup_time[t] < ticks

Mut_due_any(t) == status[t] = "BLOCKED" /\ wakeup_time[t] > 0

due(t) ==
  status[t] = "BLOCKED" /\ wakeup_time[t] > 0 /\ wakeup_time[t] <= ticks

\* Variant: the wake-up time is cleared, but the thread is not unblocked.
Mut_clear_only(t) ==
  /\ wakeup_time' = [wakeup_time EXCEPT ![t] = IF due(t) THEN 0 ELSE @]
  /\ UNCHANGED <<ready_list, status>>

update_sleeping_threads(t) ==
  IF due(t)
  THEN /\ wakeup_time' = [wakeup_time EXCEPT ![t] = 0]
       /\ thread_unblock(t)
  ELSE UNCHANGED <<wakeup_time, ready_list, status>>

\* One round of thread_foreach()'s loop in the timer handler.  On a torn list
\* it may come to any thread, the same one again included, and it ends
\* anywhere (intr_return) or never.
thread_foreach ==
  /\ \/ /\ ~ torn
        /\ foreach \in DOMAIN all_list
        /\ update_sleeping_threads(all_list[foreach])
        /\ foreach' = foreach + 1
     \/ /\ torn
        /\ foreach # 0
        /\ \E t \in Thread : update_sleeping_threads(t)
        /\ UNCHANGED foreach
  /\ UNCHANGED <<pc, current, thread_ticks, listVars, idle_thread, ticks,
                 semaVars, tidVars>>

\* An interrupt ends the hlt instruction idle() waits in.
LeaveHlt == pc' = [pc EXCEPT ![current] = IF @ = "hlt" THEN "loop" ELSE @]

\* The end of intr_handler(): yield if thread_tick() asked for it.
intr_return ==
  /\ foreach = Len(all_list) + 1
  /\ foreach' = 0
  /\ LeaveHlt
  /\ IF thread_ticks >= TIME_SLICE THEN do_yield ELSE UNCHANGED schedVars
  /\ UNCHANGED <<listVars, idle_thread, timeVars, semaVars, tidVars>>

\* An interrupt handler of a device that ups a semaphore, as ide.c's does.
device_interrupt(s) ==
  /\ InterruptsOn
  /\ value[s] < MaxValue
  /\ do_sema_up(s)
  /\ LeaveHlt
  /\ UNCHANGED <<current, thread_ticks, waits_for, listVars, idle_thread,
                 foreach, timeVars, tidVars>>

(***************************************************************************)
(* Making and ending threads.                                              *)
(***************************************************************************)

\* thread_create() up to the last line of init_thread(): the new thread is
\* BLOCKED and nothing refers to it yet.  The page is zeroed.  With no free
\* page thread_create() returns TID_ERROR and changes nothing.
thread_create(c) ==
  /\ At("run")
  /\ status[c] = "NONE"
  /\ next_tid <= MaxTid
  /\ status' = [status EXCEPT ![c] = "BLOCKED"]
  /\ child' = [child EXCEPT ![current] = c]
  /\ Goto("push")
  /\ UNCHANGED <<current, ready_list, thread_ticks, listVars, idle_thread,
                 foreach, timeVars, semaVars, next_tid, tid>>

\* The links of all_list become those of l, unless they are torn: then they
\* lead anywhere, and the sequence means nothing.
Links(l, race) ==
  /\ torn' = (torn \/ race)
  /\ all_list' = IF torn' THEN <<>> ELSE l

\* The threads between the first and the last store of list_push_back().
Inserting == {u \in Thread : pc[u] \in {"link", "last"}}

\* list_insert() before the tail.  Its first two stores are in the new element:
\* elem->prev is the last thread.  If another insertion is under way, one of
\* the two elements ends with links that skip the other.
push_prev ==
  /\ At("push")
  /\ Links(all_list, Inserting # {})
  /\ Goto("link")
  /\ UNCHANGED <<schedVars, idle_thread, foreach, timeVars, semaVars, tidVars>>

\* The third store, before->prev->next: a walk now finds the new thread.
push_link ==
  /\ At("link")
  /\ Links(Append(all_list, child[current]), FALSE)
  /\ Goto("last")
  /\ UNCHANGED <<schedVars, idle_thread, foreach, timeVars, semaVars, tidVars>>

\* The fourth store, before->prev.
push_last ==
  /\ At("last")
  /\ Goto("acquire")
  /\ UNCHANGED <<schedVars, listVars, idle_thread, foreach, timeVars, semaVars,
                 tidVars>>

\* allocate_tid(): take tid_lock, read next_tid, store its successor, release.
tid_acquire ==
  /\ At("acquire")
  /\ do_sema_down(tid_lock)
  /\ UNCHANGED <<listVars, idle_thread, foreach, timeVars, tidVars>>

tid_read ==
  /\ At("read")
  /\ tid' = [tid EXCEPT ![child[current]] = next_tid]
  /\ Goto("write")
  /\ UNCHANGED <<schedVars, listVars, idle_thread, foreach, timeVars,
                 semaVars, child, next_tid>>

tid_write ==
  /\ At("write")
  /\ next_tid' = tid[child[current]] + 1
  /\ Goto("up")
  /\ UNCHANGED <<schedVars, listVars, idle_thread, foreach, timeVars,
                 semaVars, child, tid>>

tid_release ==
  /\ At("up")
  /\ do_sema_up(tid_lock)
  /\ Goto("unblock")
  /\ UNCHANGED <<current, thread_ticks, waits_for, listVars, idle_thread,
                 foreach, timeVars, tidVars>>

\* The end of thread_create(): the stack frames are ready, the thread may run.
create_unblock ==
  /\ At("unblock")
  /\ thread_unblock(child[current])
  /\ child' = [child EXCEPT ![current] = NoThread]
  /\ pc' = [pc EXCEPT ![current] = "run", ![child[current]] = "run"]
  /\ UNCHANGED <<current, thread_ticks, listVars, idle_thread, foreach,
                 timeVars, semaVars, next_tid, tid>>

\* thread_exit().  The thread switched to frees the page of the dying one in
\* thread_schedule_tail(), before interrupts are on again.  If the thread is
\* the last one on all_list and an insertion has taken it for the element to
\* go after, that insertion goes on with a link to the freed page; later, once
\* the new element is linked behind it, list_remove() finds every link.
thread_exit ==
  /\ At("run")
  /\ Links(list_remove(all_list, current),
           /\ \E u \in Thread : pc[u] = "link"
           /\ all_list # <<>> /\ all_list[Len(all_list)] = current)
  /\ schedule([status EXCEPT ![current] =
                 IF current = initial_thread THEN "DYING" ELSE "NONE"],
              ready_list)
  /\ tid' = [tid EXCEPT ![current] = 0]
  /\ UNCHANGED <<pc, idle_thread, foreach, timeVars, semaVars, child, next_tid>>

(***************************************************************************)
(* Boot and the idle thread.                                               *)
(***************************************************************************)

\* thread_start() up to intr_enable(): all of thread_create() runs with
\* interrupts still off.
thread_start ==
  /\ At("start")
  /\ status' = [status EXCEPT ![Idle] = "READY"]
  /\ Links(Append(all_list, Idle), FALSE)
  /\ ready_list' = Append(ready_list, Idle)
  /\ tid' = [tid EXCEPT ![Idle] = next_tid]
  /\ next_tid' = next_tid + 1
  /\ pc' = [pc EXCEPT ![current] = "boot", ![Idle] = "init"]
  /\ UNCHANGED <<current, thread_ticks, idle_thread, foreach, timeVars,
                 semaVars, child>>

start_wait ==
  /\ At("boot")
  /\ do_sema_down(idle_started)
  /\ UNCHANGED <<listVars, idle_thread, foreach, timeVars, tidVars>>

idle_init ==
  /\ At("init")
  /\ idle_thread' = current
  /\ Goto("started")
  /\ UNCHANGED <<schedVars, listVars, foreach, timeVars, semaVars, tidVars>>

idle_up ==
  /\ At("started")
  /\ do_sema_up(idle_started)
  /\ Goto("loop")
  /\ UNCHANGED <<current, thread_ticks, waits_for, listVars, idle_thread,
                 foreach, timeVars, tidVars>>

\* The idle loop: block; switched to again, wait for an interrupt in hlt.
idle_block ==
  /\ At("loop")
  /\ thread_block
  /\ Goto("hlt")
  /\ UNCHANGED <<listVars, idle_thread, foreach, timeVars, semaVars, tidVars>>

-----------------------------------------------------------------------------
\* After thread_init(): one thread, interrupts off.
thread_init ==
  /\ status = [t \in Thread |-> IF t = initial_thread THEN "RUNNING" ELSE "NONE"]
  /\ pc = [t \in Thread |-> IF t = initial_thread THEN "start" ELSE "run"]
  /\ current = initial_thread
  /\ ready_list = <<>>
  /\ all_list = <<initial_thread>>
  /\ torn = FALSE
  /\ idle_thread = NoThread
  /\ thread_ticks = 0
  /\ ticks = 0
  /\ wakeup_time = [t \in Thread |-> 0]
  /\ foreach = 0
  /\ value = [s \in Sema |-> IF s = tid_lock THEN 1 ELSE 0]
  /\ waiters = [s \in Sema |-> <<>>]
  /\ waits_for = [t \in Thread |-> NoSema]
  /\ child = [t \in Thread |-> NoThread]
  /\ next_tid = 2
  /\ tid = [t \in Thread |-> IF t = initial_thread THEN 1 ELSE 0]

Init == thread_init

Boot == thread_start \/ start_wait \/ idle_init \/ idle_up \/ idle_block

Create ==
  \/ \E c \in Thread \ {Idle} : thread_create(c)
  \/ push_prev \/ push_link \/ push_last
  \/ tid_acquire \/ tid_read \/ tid_write \/ tid_release \/ create_unblock

Client ==
  \/ thread_yield
  \/ thread_exit
  \/ \E n \in 1 .. MaxSleep : timer_sleep(n)
  \/ \E s \in ClientSema : sema_down(s) \/ sema_try_down(s) \/ sema_up(s)

Interrupt ==
  \/ timer_interrupt
  \/ thread_foreach
  \/ intr_return
  \/ \E s \in ClientSema : device_interrupt(s)

Next == Boot \/ Create \/ Client \/ sema_down_resume \/ Interrupt

(***************************************************************************)
(* The timer keeps ticking; a tick that comes while interrupts are off is  *)
(* latched by the interrupt controller and delivered when they are on      *)
(* again, hence strong fairness.  A handler that has started returns if    *)
(* its walk does, and a thread switched to inside sema_down() runs on with *)
(* interrupts off.  Nothing is assumed of a walk over torn links.          *)
(* The CPU executes instructions between two interrupts, so boot and idle  *)
(* code goes on if the CPU comes back to it again and again.  A client at  *)
(* "run" owes nobody a step.                                               *)
(***************************************************************************)
Fairness ==
  /\ SF_vars(timer_interrupt)
  /\ WF_vars(~ torn /\ thread_foreach)
  /\ WF_vars(~ torn /\ intr_return)
  /\ WF_vars(sema_down_resume)
  /\ SF_vars(Boot)

Spec == Init /\ [][Next]_vars
FairSpec == Spec /\ Fairness

-----------------------------------------------------------------------------
\* The variables range over the values of their C types, and the scheduler
\* never switches to the null thread (the assertions of schedule()).
TypeOK ==
  /\ status \in [Thread -> Status]
  /\ pc \in [Thread -> PC]
  /\ current \in Thread
  /\ ready_list \in Seq(Thread)
  /\ all_list \in Seq(Thread)
  /\ torn \in BOOLEAN
  /\ idle_thread \in {NoThread, Idle}
  /\ thread_ticks \in Nat
  /\ ticks \in Nat
  /\ wakeup_time \in [Thread -> Nat]
  /\ foreach \in Nat
  /\ value \in [Sema -> Nat]
  /\ waiters \in [Sema -> Seq(Thread)]
  /\ waits_for \in [Thread -> Sema \cup {NoSema}]
  /\ child \in [Thread -> Thread \cup {NoThread}]
  /\ next_tid \in Nat
  /\ tid \in [Thread -> Nat]

\* thread_current() asserts that the running thread has status RUNNING; no
\* other thread has it.
OneRunning == \A t \in Thread : status[t] = "RUNNING" <=> t = current

\* The run queue holds every READY thread once and nothing else; once
\* idle_thread is set the idle thread never appears in it (comment of idle()).
ReadyListExact ==
  /\ Injective(ready_list)
  /\ Elems(ready_list) = {t \in Thread : status[t] = "READY" /\ t # idle_thread}

Sleeping(t)  == wakeup_time[t] > 0
Queued(t)    == \E s \in Sema : t \in Elems(waiters[s])
InMaking(t)  == \E u \in Thread : child[u] = t
IdleParked(t) == t = Idle /\ pc[t] = "hlt"

\* A BLOCKED thread is the business of exactly one waker: the alarm clock, a
\* semaphore's wait list, the thread_create() that is making it, or, for the
\* idle thread, next_thread_to_run().  A thread that is not BLOCKED is nobody's
\* (thread.h: `elem' is in the run queue or in one wait list, never in both).
BlockedHasOneWaker ==
  /\ \A t \in Thread : status[t] = "BLOCKED" <=>
       (Sleeping(t) \/ Queued(t) \/ InMaking(t) \/ (IdleParked(t) /\ t # current))
  /\ \A t \in Thread :
       /\ Sleeping(t) => ~ Queued(t) /\ ~ InMaking(t)
       /\ Queued(t) => ~ InMaking(t)
       /\ t = Idle => ~ Sleeping(t) /\ ~ Queued(t) /\ ~ InMaking(t)
  /\ \A r, s \in Sema : r # s => Elems(waiters[r]) \cap Elems(waiters[s]) = {}
  /\ \A s \in Sema : Injective(waiters[s])

\* Outside the timer handler no sleeper is overdue: timer_interrupt() wakes a
\* thread on the very tick it asked for, also while thread_create() is between
\* the stores of its insertion, for as long as no two updates of all_list have
\* overlapped.
NoOverdueSleeper ==
  foreach = 0 /\ ~ torn => \A t \in Thread : Sleeping(t) => wakeup_time[t] > ticks

\* ... and a sleeper is released no earlier than that, whatever the walk meets.
NeverWokenEarly ==
  [][\A t \in Thread : Sleeping(t) /\ status'[t] # "BLOCKED"
                         => ticks >= wakeup_time[t]]_vars

\* Threads that sema_up() released from s and that have not yet tested its
\* value again.
Released(s) == {t \in Thread : /\ pc[t] = "down"
                               /\ waits_for[t] = s
                               /\ status[t] # "BLOCKED"}

\* While threads are queued on a semaphore, every unit of its value has a
\* released thread on its way to take it: no thread is left queued behind a
\* positive value, even if other threads took units in between.
NoLostWakeup ==
  \A s \in Sema : waiters[s] # <<>> => value[s] <= Cardinality(Released(s))

HoldsTidLock(t) == pc[t] \in {"read", "write", "up"}

\* tid_lock lets one thread at a time into allocate_tid()'s critical section.
TidLockExclusive ==
  /\ value[tid_lock] <= 1
  /\ \A t, u \in Thread : HoldsTidLock(t) /\ HoldsTidLock(u) => t = u
  /\ value[tid_lock] = 1 <=> \A t \in Thread : ~ HoldsTidLock(t)

\* The threads that thread_create() has yet to link.
Unlinked == {t \in Thread : \E u \in Thread : /\ child[u] = t
                                              /\ pc[u] \in {"push", "link"}}

\* all_list, which the alarm clock walks, holds exactly the threads there are,
\* until two updates overlap: a single insertion, however it is interrupted,
\* and a removal during one leave it right.
AllListExact ==
  ~ torn => /\ Injective(all_list)
            /\ Elems(all_list) =
                 {t \in Thread : status[t] \notin {"NONE", "DYING"}} \ Unlinked

\* Round robin starves nobody: a thread in the run queue gets the CPU, unless
\* the timer handler is caught in torn links.
ReadyRuns ==
  \A t \in Thread \ {Idle} : status[t] = "READY" ~> status[t] = "RUNNING" \/ torn

\* A thread that called timer_sleep() runs again, unless all_list is torn.
SleeperRuns == \A t \in Thread : Sleeping(t) ~> current = t \/ torn

-----------------------------------------------------------------------------
(***************************************************************************)
(* The parts of the inductive invariant that the properties above leave    *)
(* unsaid.                                                                 *)
(***************************************************************************)
IdlePC == {"init", "started", "loop", "hlt"}

\* Which code runs in which thread, and how far boot has come.
BootInv ==
  /\ \A t \in Thread : pc[t] \in IdlePC => t = Idle
  /\ \A t \in Thread : pc[t] \in {"start", "boot"} => t = initial_thread
  /\ \A t \in Thread : status[t] \in {"NONE", "DYING"} => pc[t] = "run"
  /\ \A t \in Thread : status[t] = "BLOCKED" => pc[t] \in {"run", "down", "hlt"}
  /\ status[initial_thread] # "NONE"
  /\ \A t \in Thread : status[t] = "DYING" => t = initial_thread
  /\ pc[Idle] \in IdlePC \cup {"run"}
  /\ pc[Idle] = "run" <=> status[Idle] = "NONE"
  /\ pc[Idle] = "run" <=> pc[initial_thread] = "start"
  /\ pc[initial_thread] = "start" => current = initial_thread /\ foreach = 0
  /\ pc[Idle] = "init" => status[Idle] \in {"READY", "RUNNING"}
  /\ idle_thread = Idle <=> pc[Idle] \in {"started", "loop", "hlt"}
  /\ pc[Idle] = "hlt" /\ current # Idle <=> status[Idle] = "BLOCKED"

\* A thread on a wait list is blocked inside sema_down() of that semaphore,
\* and a thread blocked there is on its wait list.
WaitInv ==
  /\ \A t \in Thread : pc[t] = "down" <=> waits_for[t] # NoSema
  /\ \A s \in Sema : \A t \in Thread :
       t \in Elems(waiters[s])
         <=> waits_for[t] = s /\ status[t] = "BLOCKED"
  /\ \A s \in Sema : Injective(waiters[s])

\* A sleeper is blocked in timer_sleep().
SleepInv ==
  \A t \in Thread : Sleeping(t) => status[t] = "BLOCKED" /\ pc[t] = "run"

CreatePC == {"push", "link", "last", "acquire", "read", "write", "up", "unblock"}

\* A thread in the making is blocked, and one thread_create() makes it.
ChildInv ==
  /\ \A u \in Thread : child[u] # NoThread <=>
       \/ pc[u] \in CreatePC
       \/ waits_for[u] = tid_lock
  /\ \A u \in Thread : child[u] # NoThread =>
       /\ status[child[u]] = "BLOCKED"
       /\ pc[child[u]] = "run"
       /\ ~ Sleeping(child[u])
       /\ child[u] # Idle
  /\ \A u, v \in Thread : child[u] = child[v] /\ child[u] # NoThread => u = v
  /\ \A t \in Thread : status[t] = "BLOCKED" /\ pc[t] = "run" /\ ~ Sleeping(t)
       => InMaking(t)

\* The timer handler has woken every due sleeper before its position.
ClockInv ==
  ~ torn =>
    /\ foreach <= Len(all_list) + 1
    /\ \A t \in Thread : Sleeping(t) =>
         \/ wakeup_time[t] > ticks
         \/ \E i \in DOMAIN all_list : /\ foreach # 0
                                       /\ i >= foreach
                                       /\ all_list[i] = t

\* Together they are inductive: every step of the kernel preserves them.
IndInv ==
  /\ TypeOK
  /\ OneRunning
  /\ ReadyListExact
  /\ AllListExact
  /\ BootInv
  /\ WaitInv
  /\ SleepInv
  /\ ChildInv
  /\ ClockInv
  /\ TidLockExclusive

=============================================================================
