------------------------------- MODULE Synch -------------------------------
(***************************************************************************)
(* The locks and condition variables of threads/synch.c: one lock, one     *)
(* condition variable, and threads that use them in any order.             *)
(*                                                                         *)
(* The scheduler is left out: any thread that is not blocked may take the  *)
(* next step.  Threads (the module) shows what the scheduler does; here    *)
(* only that a blocked thread does not run and that an interrupts-off      *)
(* section is one step.                                                    *)
(***************************************************************************)
EXTENDS Queues

CONSTANTS Thread, NoThread

ASSUME NoThreadAssumption == NoThread \notin Thread

VARIABLES
  pc,       \* where each thread is in synch.c
  value,    \* lock.semaphore.value
  waiters,  \* lock.semaphore.waiters
  holder,   \* lock.holder
  cond,     \* cond.waiters: the threads whose semaphore_elem is queued
  wvalue    \* the value of the semaphore in a thread's semaphore_elem

vars == <<pc, value, waiters, holder, cond, wvalue>>

PC == {"out",                       \* neither holds nor wants the lock
       "acquire",                   \* at the test of sema_down(&lock->semaphore)
       "blocked",                   \* blocked there, on lock.semaphore.waiters
       "holder",                    \* has the semaphore, lock->holder not yet set
       "in",                        \* holds the lock
       "up",                        \* lock_release(): before sema_up()
       "wait_release", "wait_up",   \* cond_wait(): in lock_release()
       "wait_down",                 \* cond_wait(): at the test of sema_down()
       "wait_blocked",              \* cond_wait(): blocked there
       "broadcast"}                 \* cond_broadcast()'s loop

Goto(t, p) == pc' = [pc EXCEPT ![t] = p]

-----------------------------------------------------------------------------
(* lock_acquire(), lock_try_acquire(), lock_release() *)

lock_acquire(t) ==
  /\ pc[t] = "out"
  /\ Goto(t, "acquire")
  /\ UNCHANGED <<value, waiters, holder, cond, wvalue>>

\* Variant: sema_down() lets its caller through at value 0.
Mut_down_through(t) ==
  /\ pc[t] = "acquire"
  /\ value' = value - 1
  /\ Goto(t, "holder")
  /\ UNCHANGED <<waiters, holder, cond, wvalue>>

\* The loop of sema_down() on the lock's semaphore.  thread_unblock() sends a
\* blocked thread back to the test.
sema_down(t) ==
  /\ pc[t] = "acquire"
  /\ \/ /\ value > 0
        /\ value' = value - 1
        /\ Goto(t, "holder")
        /\ UNCHANGED waiters
     \/ /\ value = 0
        /\ waiters' = Append(waiters, t)
        /\ Goto(t, "blocked")
        /\ UNCHANGED value
  /\ UNCHANGED <<holder, cond, wvalue>>

lock_try_acquire(t) ==
  /\ pc[t] = "out"
  /\ value > 0
  /\ value' = value - 1
  /\ Goto(t, "holder")
  /\ UNCHANGED <<waiters, holder, cond, wvalue>>

set_holder(t) ==
  /\ pc[t] = "holder"
  /\ holder' = t
  /\ Goto(t, "in")
  /\ UNCHANGED <<value, waiters, cond, wvalue>>

lock_release(t) ==
  /\ \/ pc[t] = "in" /\ Goto(t, "up")
     \/ pc[t] = "wait_release" /\ Goto(t, "wait_up")
  /\ holder' = NoThread
  /\ UNCHANGED <<value, waiters, cond, wvalue>>

\* Variant: sema_up() wakes nobody.
Mut_up_silent(t) ==
  /\ pc[t] \in {"up", "wait_up"}
  /\ value' = value + 1
  /\ Goto(t, IF pc[t] = "up" THEN "out" ELSE "wait_down")
  /\ UNCHANGED <<waiters, holder, cond, wvalue>>

sema_up(t) ==
  /\ pc[t] \in {"up", "wait_up"}
  /\ value' = value + 1
  /\ LET after == IF pc[t] = "up" THEN "out" ELSE "wait_down" IN
     IF waiters = <<>>
     THEN Goto(t, after) /\ UNCHANGED waiters
     ELSE /\ waiters' = Tail(waiters)
          /\ pc' = [pc EXCEPT ![t] = after, ![Head(waiters)] = "acquire"]
  /\ UNCHANGED <<holder, cond, wvalue>>

-----------------------------------------------------------------------------
(* cond_wait(), cond_signal(), cond_broadcast() *)

\* Variant: cond_wait() releases the lock before it queues itself.
Mut_wait_unqueued(t) ==
  /\ pc[t] = "in"
  /\ wvalue' = [wvalue EXCEPT ![t] = 0]
  /\ Goto(t, "wait_release")
  /\ UNCHANGED <<value, waiters, holder, cond>>

cond_wait(t) ==
  /\ pc[t] = "in"
  /\ wvalue' = [wvalue EXCEPT ![t] = 0]
  /\ cond' = Append(cond, t)
  /\ Goto(t, "wait_release")
  /\ UNCHANGED <<value, waiters, holder>>

\* The loop of sema_down() on the waiter's own semaphore.
wait_down(t) ==
  /\ pc[t] = "wait_down"
  /\ \/ /\ wvalue[t] > 0
        /\ wvalue' = [wvalue EXCEPT ![t] = @ - 1]
        /\ Goto(t, "acquire")
     \/ /\ wvalue[t] = 0
        /\ Goto(t, "wait_blocked")
        /\ UNCHANGED wvalue
  /\ UNCHANGED <<value, waiters, holder, cond>>

Mut_signal_no_unblock ==
  /\ cond # <<>>
  /\ cond' = Tail(cond)
  /\ wvalue' = [wvalue EXCEPT ![Head(cond)] = @ + 1]
  /\ UNCHANGED <<pc, value, waiters, holder>>

\* The body of cond_signal(): sema_up() on the oldest waiter's semaphore.
signal ==
  LET w == Head(cond) IN
  /\ cond # <<>>
  /\ cond' = Tail(cond)
  /\ wvalue' = [wvalue EXCEPT ![w] = @ + 1]
  /\ pc' = [pc EXCEPT ![w] = IF @ = "wait_blocked" THEN "wait_down" ELSE @]
  /\ UNCHANGED <<value, waiters, holder>>

cond_signal(t) == pc[t] = "in" /\ signal

cond_broadcast(t) ==
  /\ pc[t] = "in"
  /\ Goto(t, "broadcast")
  /\ UNCHANGED <<value, waiters, holder, cond, wvalue>>

broadcast_loop(t) ==
  /\ pc[t] = "broadcast"
  /\ \/ signal
     \/ /\ cond = <<>>
        /\ Goto(t, "in")
        /\ UNCHANGED <<value, waiters, holder, cond, wvalue>>

-----------------------------------------------------------------------------
Init ==
  /\ pc = [t \in Thread |-> "out"]
  /\ value = 1
  /\ waiters = <<>>
  /\ holder = NoThread
  /\ cond = <<>>
  /\ wvalue = [t \in Thread |-> 0]

\* Steps a thread takes once it has called an operation, or to leave the
\* critical section.
Progress(t) ==
  \/ sema_down(t) \/ set_holder(t) \/ lock_release(t) \/ sema_up(t)
  \/ wait_down(t) \/ broadcast_loop(t)

Next ==
  \E t \in Thread :
    \/ lock_acquire(t) \/ lock_try_acquire(t)
    \/ cond_wait(t) \/ cond_signal(t) \/ cond_broadcast(t)
    \/ Progress(t)

\* Operations terminate and whoever holds the lock releases it again; no thread
\* has to call anything.  The scheduler gives every ready thread the CPU
\* (Threads!ReadyRuns).
Fairness ==
  \A t \in Thread :
    /\ WF_vars(sema_down(t)) /\ WF_vars(set_holder(t)) /\ WF_vars(sema_up(t))
    /\ WF_vars(wait_down(t)) /\ WF_vars(broadcast_loop(t))
    /\ SF_vars(lock_release(t))

Spec == Init /\ [][Next]_vars
FairSpec == Spec /\ Fairness

-----------------------------------------------------------------------------
\* The state ranges over what the C types hold; semaphore values are unsigned.
TypeOK ==
  /\ pc \in [Thread -> PC]
  /\ value \in Nat
  /\ waiters \in Seq(Thread)
  /\ holder \in Thread \cup {NoThread}
  /\ cond \in Seq(Thread)
  /\ wvalue \in [Thread -> Nat]

\* The thread has taken the lock's semaphore and not given it back.
Owns(t) == pc[t] \in {"holder", "in", "up", "wait_release", "wait_up", "broadcast"}

\* One thread at a time owns the lock, and the semaphore is 1 exactly when
\* nobody does.
MutualExclusion ==
  /\ \A t, u \in Thread : Owns(t) /\ Owns(u) => t = u
  /\ value = 1 \/ value = 0
  /\ value = 1 <=> \A t \in Thread : ~ Owns(t)

\* lock_held_by_current_thread() tells every thread the truth, although
\* lock->holder is written outside the semaphore's atomic sections.
HolderExact ==
  \A t \in Thread : holder = t <=> pc[t] \in {"in", "wait_release", "broadcast"}

\* No signal is lost: a thread blocked in cond_wait() is still queued, so a
\* signal taken from the queue has reached its thread even if it came before
\* the thread went to sleep.  And no thread is signalled twice.
SignalNotLost ==
  \A t \in Thread :
    /\ pc[t] = "wait_blocked" => t \in Elems(cond)
    /\ t \in Elems(cond) => wvalue[t] = 0
    /\ wvalue[t] <= 1

\* The lock does not stay free while somebody wants it.
LockProgress ==
  (\E t \in Thread : pc[t] \in {"acquire", "blocked"}) ~> (\E t \in Thread : Owns(t))

\* A signalled waiter leaves cond_wait()'s sleep and goes for the lock.
SignalledWakes ==
  \A t \in Thread :
    (pc[t] \in {"wait_down", "wait_blocked"} /\ wvalue[t] > 0) ~> (pc[t] = "acquire")

\* Who owns the monitor, seen from outside.
owner == IF \E t \in Thread : Owns(t) THEN CHOOSE t \in Thread : Owns(t) ELSE NoThread

M == INSTANCE Monitor WITH sleepers <- cond

\* synch.c's locks and condition variables implement Monitor.
ImplementsMonitor == M!Spec

-----------------------------------------------------------------------------
\* What the properties above rest on: a thread is on the lock's wait list
\* exactly while it is blocked there, and queued on the condition variable only
\* between its call of cond_wait() and the signal.
QueueInv ==
  /\ Injective(waiters)
  /\ \A t \in Thread : t \in Elems(waiters) <=> pc[t] = "blocked"
  /\ Injective(cond)
  /\ \A t \in Elems(cond) :
       pc[t] \in {"wait_release", "wait_up", "wait_down", "wait_blocked"}
  /\ \A t \in Thread : wvalue[t] > 0 =>
       pc[t] \in {"wait_release", "wait_up", "wait_down"}
  /\ \A t \in Thread :
       pc[t] \in {"wait_release", "wait_up", "wait_down", "wait_blocked"}
         => (t \in Elems(cond) \/ wvalue[t] = 1)

IndInv ==
  TypeOK /\ MutualExclusion /\ HolderExact /\ SignalNotLost /\ QueueInv
=============================================================================
