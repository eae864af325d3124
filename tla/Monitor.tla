------------------------------ MODULE Monitor ------------------------------
(***************************************************************************)
(* What a Pintos lock with a condition variable promises its users: one    *)
(* owner at a time; only the owner queues itself to wait or signals, so no *)
(* signal falls between a waiter's test of the shared data and its wait;   *)
(* and the waiters are signalled in the order they came.                   *)
(***************************************************************************)
EXTENDS Sequences

CONSTANTS Thread, NoThread

VARIABLES
  owner,     \* who may touch the shared data
  sleepers   \* the waiters that have not been signalled, oldest first

mvars == <<owner, sleepers>>

Init == owner = NoThread /\ sleepers = <<>>

Acquire(t) == owner = NoThread /\ owner' = t /\ UNCHANGED sleepers

Release(t) == owner = t /\ owner' = NoThread /\ UNCHANGED sleepers

\* The owner queues itself; it stays the owner until it releases.
Wait(t) == owner = t /\ sleepers' = Append(sleepers, t) /\ UNCHANGED owner

Signal(t) ==
  /\ owner = t
  /\ sleepers # <<>>
  /\ sleepers' = Tail(sleepers)
  /\ UNCHANGED owner

Next == \E t \in Thread : Acquire(t) \/ Release(t) \/ Wait(t) \/ Signal(t)

Spec == Init /\ [][Next]_mvars
=============================================================================
