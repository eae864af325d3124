---------------------------- MODULE SynchProofs ----------------------------
(***************************************************************************)
(* Proofs about Synch, for any set of threads: mutual exclusion, the truth *)
(* of lock_held_by_current_thread(), no lost signal, and that locks and    *)
(* condition variables implement Monitor.                                  *)
(***************************************************************************)
EXTENDS Synch, TLAPS

\* list_push_back() of an element that is not in the list.
LEMMA AppendFacts ==
  ASSUME NEW S, NEW s \in Seq(S), NEW x \in S
  PROVE  /\ Append(s, x) \in Seq(S)
         /\ Append(s, x) # <<>> /\ Len(Append(s, x)) = Len(s) + 1
         /\ \A i \in 1 .. Len(s) : Append(s, x)[i] = s[i]
         /\ Append(s, x)[Len(s) + 1] = x
         /\ Elems(Append(s, x)) = Elems(s) \cup {x}
         /\ Injective(s) /\ x \notin Elems(s) => Injective(Append(s, x))
<1>1. /\ Append(s, x) \in Seq(S) /\ Len(Append(s, x)) = Len(s) + 1
      /\ Append(s, x) # <<>>
  <2>1. Append(s, x) \in Seq(S) /\ Len(Append(s, x)) = Len(s) + 1 /\ Len(s) \in Nat
    OBVIOUS
  <2>2. Len(<<>>) = 0
    OBVIOUS
  <2> QED BY <2>1, <2>2
<1>2. /\ DOMAIN s = 1 .. Len(s)
      /\ DOMAIN Append(s, x) = 1 .. Len(s) + 1
  BY <1>1
<1>3. \A i \in 1 .. Len(s) : Append(s, x)[i] = s[i]
  OBVIOUS
<1>4. Append(s, x)[Len(s) + 1] = x
  OBVIOUS
<1>5. Len(s) \in Nat
  OBVIOUS
<1>6. Elems(Append(s, x)) = Elems(s) \cup {x}
  BY <1>2, <1>3, <1>4, <1>5 DEF Elems
<1>7. ASSUME Injective(s), x \notin Elems(s) PROVE Injective(Append(s, x))
  BY <1>7, <1>2, <1>3, <1>4, <1>5 DEF Elems, Injective
<1> QED BY <1>1, <1>3, <1>4, <1>6, <1>7

\* list_pop_front() of a list without duplicates.
LEMMA TailFacts ==
  ASSUME NEW S, NEW s \in Seq(S), s # <<>>
  PROVE  /\ Tail(s) \in Seq(S)
         /\ Head(s) \in S
         /\ Head(s) \in Elems(s)
         /\ Injective(s) => /\ Elems(Tail(s)) = Elems(s) \ {Head(s)}
                            /\ Injective(Tail(s))
<1>1. Len(s) \in Nat /\ Len(s) > 0 /\ DOMAIN s = 1 .. Len(s) /\ Head(s) = s[1]
  OBVIOUS
<1>2. /\ Tail(s) \in Seq(S)
      /\ Len(Tail(s)) = Len(s) - 1
      /\ DOMAIN Tail(s) = 1 .. Len(s) - 1
      /\ \A i \in 1 .. Len(s) - 1 : Tail(s)[i] = s[i + 1]
  BY <1>1
<1>3. Head(s) \in S /\ Head(s) \in Elems(s)
  BY <1>1 DEF Elems
<1>4. ASSUME Injective(s) PROVE Injective(Tail(s))
  BY <1>4, <1>1, <1>2 DEF Injective
<1>5. ASSUME Injective(s) PROVE Elems(Tail(s)) = Elems(s) \ {Head(s)}
  <2>1. Elems(Tail(s)) \subseteq Elems(s) \ {Head(s)}
    BY <1>5, <1>1, <1>2 DEF Elems, Injective
  <2>2. ASSUME NEW i \in DOMAIN s, s[i] # Head(s) PROVE s[i] \in Elems(Tail(s))
    <3>1. i - 1 \in 1 .. Len(s) - 1 /\ Tail(s)[i - 1] = s[i]
      BY <2>2, <1>1, <1>2
    <3> QED BY <3>1, <1>2 DEF Elems
  <2> QED BY <2>1, <2>2, SMTT(60) DEF Elems
<1> QED BY <1>2, <1>3, <1>4, <1>5

\* The initial state satisfies the invariant.
LEMMA InitInv == Init => IndInv
<1> SUFFICES ASSUME Init PROVE IndInv
  OBVIOUS
<1> USE DEF Init
<1>1. Elems(waiters) = {} /\ Injective(waiters) /\ Elems(cond) = {} /\ Injective(cond)
  BY DEF Elems, Injective
<1>2. TypeOK
  BY DEF TypeOK, PC
<1>3. MutualExclusion /\ HolderExact
  BY NoThreadAssumption DEF MutualExclusion, HolderExact, Owns
<1>4. SignalNotLost /\ QueueInv
  BY <1>1 DEF SignalNotLost, QueueInv
<1> QED BY <1>2, <1>3, <1>4 DEF IndInv

\* Taking, marking and giving up the lock keep the invariant.
LEMMA LockStep ==
  ASSUME IndInv, NEW t \in Thread,
         lock_acquire(t) \/ sema_down(t) \/ lock_try_acquire(t) \/ set_holder(t)
           \/ lock_release(t)
  PROVE  IndInv'
<1> USE DEF IndInv, Goto
<1>1. CASE lock_acquire(t)
  <2>1. /\ pc[t] = "out" /\ pc' = [pc EXCEPT ![t] = "acquire"]
        /\ UNCHANGED <<value, waiters, holder, cond, wvalue>>
    BY <1>1 DEF lock_acquire
  <2>2. TypeOK' /\ MutualExclusion' /\ HolderExact'
    BY <2>1 DEF TypeOK, PC, MutualExclusion, HolderExact, Owns
  <2>3. SignalNotLost' /\ QueueInv'
    BY <2>1 DEF TypeOK, SignalNotLost, QueueInv
  <2> QED BY <2>2, <2>3
<1>2. ASSUME pc[t] \in {"acquire", "out"}, value > 0, value' = value - 1,
             pc' = [pc EXCEPT ![t] = "holder"],
             UNCHANGED <<waiters, holder, cond, wvalue>>
      PROVE  IndInv'
  <2>1. value = 1 /\ value' = 0 /\ \A u \in Thread : ~ Owns(u)
    BY <1>2 DEF MutualExclusion
  <2>2. TypeOK'
    BY <1>2, <2>1 DEF TypeOK, PC
  <2>3. \A u \in Thread : Owns(u)' <=> u = t
    BY <1>2, <2>1 DEF TypeOK, Owns
  <2>4. MutualExclusion'
    BY <2>1, <2>3 DEF MutualExclusion
  <2>5. HolderExact'
    BY <1>2 DEF TypeOK, HolderExact
  <2>6. SignalNotLost' /\ QueueInv'
    BY <1>2, SMTT(60) DEF TypeOK, SignalNotLost, QueueInv
  <2> QED BY <2>2, <2>4, <2>5, <2>6
<1>3. ASSUME pc[t] = "acquire", value = 0, waiters' = Append(waiters, t),
             pc' = [pc EXCEPT ![t] = "blocked"],
             UNCHANGED <<value, holder, cond, wvalue>>
      PROVE  IndInv'
  <2>1. t \notin Elems(waiters)
    BY <1>3 DEF QueueInv
  <2>2. /\ waiters' \in Seq(Thread) /\ Injective(waiters')
        /\ Elems(waiters') = Elems(waiters) \cup {t}
    BY <1>3, <2>1, AppendFacts DEF TypeOK, QueueInv
  <2>3. TypeOK' /\ MutualExclusion' /\ HolderExact'
    BY <1>3, <2>2, SMTT(60) DEF TypeOK, PC, MutualExclusion, HolderExact, Owns
  <2>4. SignalNotLost' /\ QueueInv'
    BY <1>3, <2>2, SMTT(60) DEF TypeOK, SignalNotLost, QueueInv
  <2> QED BY <2>3, <2>4
<1>4. CASE set_holder(t)
  <2>1. /\ pc[t] = "holder" /\ holder' = t /\ pc' = [pc EXCEPT ![t] = "in"]
        /\ UNCHANGED <<value, waiters, cond, wvalue>>
    BY <1>4 DEF set_holder
  <2>2. TypeOK'
    BY <2>1 DEF TypeOK, PC
  <2>3. \A u \in Thread : Owns(u)' <=> Owns(u)
    BY <2>1 DEF TypeOK, Owns
  <2>4. MutualExclusion'
    BY <2>1, <2>3 DEF MutualExclusion
  <2>5. \A u \in Thread : Owns(u) => u = t
    BY <2>1 DEF MutualExclusion, Owns
  <2>6. HolderExact'
    BY <2>1, <2>5, SMTT(60) DEF TypeOK, HolderExact, Owns
  <2>7. SignalNotLost' /\ QueueInv'
    BY <2>1 DEF TypeOK, SignalNotLost, QueueInv
  <2> QED BY <2>2, <2>4, <2>6, <2>7
<1>5. CASE lock_release(t)
  <2>1. /\ \/ pc[t] = "in" /\ pc' = [pc EXCEPT ![t] = "up"]
           \/ pc[t] = "wait_release" /\ pc' = [pc EXCEPT ![t] = "wait_up"]
        /\ holder' = NoThread
        /\ UNCHANGED <<value, waiters, cond, wvalue>>
    BY <1>5 DEF lock_release
  <2>2. TypeOK'
    BY <2>1, ZenonT(60) DEF TypeOK, PC
  <2>3. \A u \in Thread : Owns(u)' <=> Owns(u)
    BY <2>1 DEF TypeOK, Owns
  <2>4. MutualExclusion'
    BY <2>1, <2>3 DEF MutualExclusion
  <2>5. holder = t
    BY <2>1 DEF HolderExact
  <2>6. HolderExact'
    BY <2>1, <2>5, NoThreadAssumption DEF TypeOK, HolderExact
  <2>7. \A u \in Thread : u # t => pc'[u] = pc[u]
    BY <2>1 DEF TypeOK
  <2>8. /\ pc[t] = "in" => pc'[t] = "up"
        /\ pc[t] # "in" => pc[t] = "wait_release" /\ pc'[t] = "wait_up"
    BY <2>1 DEF TypeOK
  <2>9. SignalNotLost'
    BY <2>1, <2>7, <2>8, SMTT(60) DEF SignalNotLost
  <2>10. QueueInv'
    <3>1. \A u \in Elems(cond) : u \in Thread
      BY DEF Elems, TypeOK
    <3> QED BY <2>1, <2>7, <2>8, <3>1, SMTT(60) DEF QueueInv
  <2> QED BY <2>2, <2>4, <2>6, <2>9, <2>10, SMTT(60)
<1> QED BY <1>1, <1>2, <1>3, <1>4, <1>5 DEF sema_down, lock_try_acquire

\* sema_up() of the lock's semaphore keeps the invariant.
LEMMA UpStep ==
  ASSUME IndInv, NEW t \in Thread, sema_up(t)
  PROVE  IndInv'
<1> USE DEF IndInv, Goto
<1> DEFINE after == IF pc[t] = "up" THEN "out" ELSE "wait_down"
<1>1. /\ pc[t] \in {"up", "wait_up"} /\ value' = value + 1
      /\ UNCHANGED <<holder, cond, wvalue>>
  BY DEF sema_up
<1>2. value = 0 /\ value' = 1 /\ \A u \in Thread : Owns(u) <=> u = t
  BY <1>1, SMTT(60) DEF MutualExclusion, Owns
<1>3. /\ waiters' \in Seq(Thread) /\ Injective(waiters')
      /\ pc' \in [Thread -> PC]
      /\ pc'[t] = after
      /\ \A u \in Thread \ {t} :
           \/ pc'[u] = pc[u]
           \/ pc[u] = "blocked" /\ pc'[u] = "acquire"
      /\ \A u \in Thread : u \in Elems(waiters') <=> pc'[u] = "blocked"
  <2>1. CASE waiters = <<>>
    <3>1. pc' = [pc EXCEPT ![t] = after] /\ waiters' = waiters
      BY <2>1 DEF sema_up
    <3> QED BY <1>1, <3>1 DEF TypeOK, PC, QueueInv
  <2>2. CASE waiters # <<>>
    <3> DEFINE h == Head(waiters)
    <3>1. waiters' = Tail(waiters) /\ pc' = [pc EXCEPT ![t] = after, ![h] = "acquire"]
      BY <2>2 DEF sema_up
    <3>2. /\ h \in Thread /\ h \in Elems(waiters) /\ waiters' \in Seq(Thread)
          /\ Elems(waiters') = Elems(waiters) \ {h} /\ Injective(waiters')
      BY <2>2, <3>1, TailFacts, SMTT(60) DEF TypeOK, QueueInv
    <3> HIDE DEF h
    <3>3. pc[h] = "blocked" /\ h # t
      BY <1>1, <3>2, SMTT(60) DEF QueueInv
    <3> QED BY <1>1, <3>1, <3>2, <3>3, ZenonT(60) DEF TypeOK, PC, QueueInv
  <2> QED BY <2>1, <2>2, SMTT(60)
<1>4. TypeOK'
  BY <1>1, <1>2, <1>3, SMTT(60) DEF TypeOK
<1>5. \A u \in Thread : ~ Owns(u)'
  BY <1>2, <1>3 DEF Owns
<1>6. MutualExclusion'
  BY <1>2, <1>5 DEF MutualExclusion
<1>7. HolderExact'
  BY <1>1, <1>3, SMTT(60) DEF HolderExact
<1>8. SignalNotLost'
  BY <1>1, <1>3, SMTT(60) DEF SignalNotLost
<1>9. QueueInv'
  <2>1. \A u \in Elems(cond) : u \in Thread
    BY SMTT(60) DEF Elems, TypeOK
  <2> QED BY <1>1, <1>3, <2>1, SMTT(60) DEF QueueInv
<1> QED BY <1>4, <1>6, <1>7, <1>8, <1>9, SMTT(60)

\* cond_wait(), cond_signal() and cond_broadcast() keep the invariant.
LEMMA CondStep ==
  ASSUME IndInv, NEW t \in Thread,
         cond_wait(t) \/ wait_down(t) \/ cond_signal(t) \/ cond_broadcast(t)
           \/ broadcast_loop(t)
  PROVE  IndInv'
<1> USE DEF IndInv, Goto
<1>0. \A u \in Elems(cond) : u \in Thread
  BY DEF Elems, TypeOK
<1>1. CASE cond_wait(t)
  <2>1. /\ pc[t] = "in" /\ wvalue' = [wvalue EXCEPT ![t] = 0]
        /\ cond' = Append(cond, t) /\ pc' = [pc EXCEPT ![t] = "wait_release"]
        /\ UNCHANGED <<value, waiters, holder>>
    BY <1>1, SMTT(60) DEF cond_wait
  <2>2. t \notin Elems(cond)
    BY <2>1, SMTT(60) DEF QueueInv
  <2>3. /\ cond' \in Seq(Thread) /\ Injective(cond')
        /\ Elems(cond') = Elems(cond) \cup {t}
    BY <2>1, <2>2, AppendFacts, SMTT(60) DEF TypeOK, QueueInv
  <2>4. TypeOK'
    BY <2>1, <2>3, SMTT(60) DEF TypeOK, PC
  <2>5. MutualExclusion' /\ HolderExact'
    BY <2>1 DEF TypeOK, MutualExclusion, HolderExact, Owns
  <2>6. SignalNotLost'
    BY <2>1, <2>3, SMTT(60) DEF TypeOK, SignalNotLost
  <2>7. QueueInv'
    BY <1>0, <2>1, <2>3, SMTT(60) DEF TypeOK, QueueInv
  <2> QED BY <2>4, <2>5, <2>6, <2>7
<1>2. ASSUME pc[t] = "wait_down", wvalue[t] > 0,
             wvalue' = [wvalue EXCEPT ![t] = @ - 1],
             pc' = [pc EXCEPT ![t] = "acquire"],
             UNCHANGED <<value, waiters, holder, cond>>
      PROVE  IndInv'
  <2>1. wvalue[t] = 1 /\ t \notin Elems(cond)
    BY <1>2 DEF SignalNotLost, TypeOK
  <2>2. /\ \A u \in Thread : pc'[u] = IF u = t THEN "acquire" ELSE pc[u]
        /\ \A u \in Thread : wvalue'[u] = IF u = t THEN 0 ELSE wvalue[u]
        /\ pc' \in [Thread -> PC] /\ wvalue' \in [Thread -> Nat]
    BY <1>2, <2>1, SMTT(60) DEF TypeOK, PC
  <2>3. TypeOK'
    BY <1>2, <2>2 DEF TypeOK
  <2>4. \A u \in Thread : Owns(u)' <=> Owns(u)
    BY <1>2, <2>2 DEF Owns
  <2>5. MutualExclusion'
    BY <1>2, <2>4 DEF MutualExclusion
  <2>6. HolderExact'
    BY <1>2, <2>2, SMTT(60) DEF HolderExact
  <2>7. SignalNotLost'
    BY <1>2, <2>1, <2>2, SMTT(60) DEF SignalNotLost
  <2>8. QueueInv'
    BY <1>0, <1>2, <2>1, <2>2, SMTT(60) DEF QueueInv
  <2> QED BY <2>3, <2>5, <2>6, <2>7, <2>8
<1>5. ASSUME pc[t] = "wait_down", wvalue[t] = 0,
             pc' = [pc EXCEPT ![t] = "wait_blocked"],
             UNCHANGED <<value, waiters, holder, cond, wvalue>>
      PROVE  IndInv'
  <2>1. t \in Elems(cond)
    BY <1>5 DEF QueueInv
  <2>2. /\ \A u \in Thread : pc'[u] = IF u = t THEN "wait_blocked" ELSE pc[u]
        /\ pc' \in [Thread -> PC]
    BY <1>5 DEF TypeOK, PC
  <2>3. TypeOK'
    BY <1>5, <2>2 DEF TypeOK
  <2>4. \A u \in Thread : Owns(u)' <=> Owns(u)
    BY <1>5, <2>2 DEF Owns
  <2>5. MutualExclusion'
    BY <1>5, <2>4 DEF MutualExclusion
  <2>6. HolderExact'
    BY <1>5, <2>2 DEF HolderExact
  <2>7. SignalNotLost'
    BY <1>5, <2>1, <2>2, SMTT(60) DEF SignalNotLost
  <2>8. QueueInv'
    BY <1>0, <1>5, <2>1, <2>2, SMTT(60) DEF QueueInv
  <2> QED BY <2>3, <2>5, <2>6, <2>7, <2>8
<1>3. ASSUME signal PROVE IndInv'
  <2> DEFINE w == Head(cond)
  <2>1. /\ cond # <<>> /\ cond' = Tail(cond)
        /\ wvalue' = [wvalue EXCEPT ![w] = @ + 1]
        /\ pc' = [pc EXCEPT ![w] = IF @ = "wait_blocked" THEN "wait_down" ELSE @]
        /\ UNCHANGED <<value, waiters, holder>>
    BY <1>3, SMTT(60) DEF signal
  <2>2. /\ w \in Thread /\ w \in Elems(cond) /\ cond' \in Seq(Thread)
        /\ Elems(cond') = Elems(cond) \ {w} /\ Injective(cond')
    BY <2>1, TailFacts, SMTT(60) DEF TypeOK, QueueInv
  <2> HIDE DEF w
  <2>3. /\ wvalue[w] = 0
        /\ pc[w] \in {"wait_release", "wait_up", "wait_down", "wait_blocked"}
    BY <2>2, SMTT(60) DEF SignalNotLost, QueueInv
  <2>4. /\ \A u \in Thread : wvalue'[u] = IF u = w THEN 1 ELSE wvalue[u]
        /\ \A u \in Thread : u # w => pc'[u] = pc[u]
        /\ pc'[w] = IF pc[w] = "wait_blocked" THEN "wait_down" ELSE pc[w]
    BY <2>1, <2>2, <2>3, SMTT(60) DEF TypeOK
  <2>5. TypeOK'
    BY <2>1, <2>2, <2>3, SMTT(60) DEF TypeOK, PC
  <2>6. \A u \in Thread : Owns(u)' <=> Owns(u)
    BY <2>3, <2>4, SMTT(60) DEF Owns
  <2>7. MutualExclusion'
    BY <2>1, <2>6, SMTT(60) DEF MutualExclusion
  <2>8. HolderExact'
    BY <2>1, <2>3, <2>4, SMTT(60) DEF HolderExact
  <2>9. SignalNotLost'
    BY <2>2, <2>3, <2>4, SMTT(60) DEF SignalNotLost
  <2>10. QueueInv'
    BY <1>0, <2>1, <2>2, <2>3, <2>4, SMTT(60) DEF QueueInv
  <2> QED BY <2>5, <2>7, <2>8, <2>9, <2>10
<1>4. ASSUME \/ pc[t] = "in" /\ pc' = [pc EXCEPT ![t] = "broadcast"]
             \/ pc[t] = "broadcast" /\ pc' = [pc EXCEPT ![t] = "in"],
             UNCHANGED <<value, waiters, holder, cond, wvalue>>
      PROVE  IndInv'
  <2>1. TypeOK'
    BY <1>4, ZenonT(60) DEF TypeOK, PC
  <2>2. \A u \in Thread : Owns(u)' <=> Owns(u)
    BY <1>4 DEF TypeOK, Owns
  <2>3. MutualExclusion'
    BY <1>4, <2>2 DEF MutualExclusion
  <2>4. HolderExact'
    BY <1>4 DEF TypeOK, HolderExact
  <2>5. SignalNotLost' /\ QueueInv'
    BY <1>0, <1>4, ZenonT(60) DEF TypeOK, SignalNotLost, QueueInv
  <2> QED BY <2>1, <2>3, <2>4, <2>5
<1> QED BY <1>1, <1>2, <1>3, <1>4, <1>5, SMTT(60)
           DEF cond_signal, cond_broadcast, broadcast_loop, wait_down

\* Every step keeps the invariant.
LEMMA NextInv == IndInv /\ [Next]_vars => IndInv'
<1> SUFFICES ASSUME IndInv, [Next]_vars PROVE IndInv'
  OBVIOUS
<1>1. CASE UNCHANGED vars
  BY <1>1 DEF vars, IndInv, TypeOK, MutualExclusion, HolderExact, SignalNotLost,
              QueueInv, Owns
<1>2. CASE Next
  BY <1>2, LockStep, UpStep, CondStep DEF Next, Progress
<1> QED BY <1>1, <1>2

\* The inductive invariant holds in every reachable state.
THEOREM Invariance == Spec => []IndInv
BY InitInv, NextInv, PTL DEF Spec

\* At most one thread owns a lock.
THEOREM LockExcludes == Spec => []MutualExclusion
BY Invariance, PTL DEF IndInv

\* lock_held_by_current_thread() is exact.
THEOREM HolderAlwaysExact == Spec => []HolderExact
BY Invariance, PTL DEF IndInv

\* Condition variables lose no signal.
THEOREM SignalsNeverLost == Spec => []SignalNotLost
BY Invariance, PTL DEF IndInv

-----------------------------------------------------------------------------
(* Synch implements Monitor. *)

\* The owner that Monitor sees is the thread that owns the lock, if there is one.
LEMMA OwnerFacts ==
  ASSUME IndInv
  PROVE  /\ \A t \in Thread : owner = t <=> Owns(t)
         /\ owner = NoThread <=> \A t \in Thread : ~ Owns(t)
<1>1. CASE \E t \in Thread : Owns(t)
  <2>1. PICK t \in Thread : Owns(t)
    BY <1>1
  <2>2. owner \in Thread /\ Owns(owner)
    BY <1>1 DEF owner
  <2>3. owner = t
    BY <2>1, <2>2 DEF IndInv, MutualExclusion
  <2> QED BY <2>1, <2>2, <2>3, NoThreadAssumption DEF IndInv, MutualExclusion
<1>2. CASE ~ \E t \in Thread : Owns(t)
  BY <1>2, NoThreadAssumption DEF owner
<1> QED BY <1>1, <1>2

\* A step that neither takes nor gives up the lock leaves Monitor's owner alone.
LEMMA SameOwner ==
  ASSUME IndInv, IndInv', \A t \in Thread : Owns(t)' <=> Owns(t)
  PROVE  owner' = owner
<1>1. CASE \E t \in Thread : Owns(t)
  <2>1. PICK t \in Thread : Owns(t)
    BY <1>1
  <2>2. owner = t
    BY <2>1, OwnerFacts
  <2>3. owner' = t
    <3>1. Owns(t)'
      BY <2>1
    <3>2. \A u \in Thread : Owns(u)' => u = t
      BY <2>1 DEF IndInv, MutualExclusion
    <3> QED BY <3>1, <3>2 DEF owner
  <2> QED BY <2>2, <2>3
<1>2. CASE ~ \E t \in Thread : Owns(t)
  BY <1>2 DEF owner
<1> QED BY <1>1, <1>2

\* Every step of Synch is a step of Monitor or leaves Monitor's state alone.
LEMMA MonitorStep ==
  ASSUME IndInv, IndInv', [Next]_vars
  PROVE  [M!Next]_(M!mvars)
<1> USE DEF M!mvars, Goto
<1>1. CASE UNCHANGED vars
  <2>1. cond' = cond /\ \A t \in Thread : Owns(t)' <=> Owns(t)
    BY <1>1 DEF vars, Owns
  <2> QED BY <2>1, SameOwner
<1>2. ASSUME NEW t \in Thread, pc[t] \in {"acquire", "out"}, value > 0,
             pc' = [pc EXCEPT ![t] = "holder"], cond' = cond
      PROVE  M!Next
  <2>1. \A u \in Thread : ~ Owns(u)
    BY <1>2, SMTT(60) DEF IndInv, MutualExclusion
  <2>2. Owns(t)' /\ \A u \in Thread : Owns(u)' => u = t
    BY <1>2, <2>1 DEF IndInv, TypeOK, Owns
  <2>3. owner = NoThread
    BY <2>1, OwnerFacts
  <2>4. owner' = t
    BY <2>2 DEF owner
  <2> QED BY <1>2, <2>3, <2>4, SMTT(60) DEF M!Next, M!Acquire
<1>3. ASSUME NEW t \in Thread, sema_up(t)
      PROVE  M!Next
  <2>1. pc[t] \in {"up", "wait_up"} /\ cond' = cond /\ value' = value + 1
    BY <1>3 DEF sema_up
  <2>2. owner = t
    BY <2>1, OwnerFacts, SMTT(60) DEF Owns
  <2>3. value = 0 /\ value' = 1
    BY <2>1 DEF IndInv, MutualExclusion, Owns
  <2>4. \A u \in Thread : ~ Owns(u)'
    BY <2>3 DEF IndInv, MutualExclusion
  <2>5. owner' = NoThread
    BY <2>4 DEF owner
  <2> QED BY <2>1, <2>2, <2>5, SMTT(60) DEF M!Next, M!Release
<1>4. ASSUME NEW t \in Thread, cond_wait(t)
      PROVE  M!Next
  <2>1. /\ pc[t] = "in" /\ cond' = Append(cond, t)
        /\ pc' = [pc EXCEPT ![t] = "wait_release"]
    BY <1>4, SMTT(60) DEF cond_wait
  <2>2. \A u \in Thread : Owns(u)' <=> Owns(u)
    BY <2>1, SMTT(60) DEF IndInv, TypeOK, Owns
  <2>3. owner' = owner /\ owner = t
    BY <2>1, <2>2, SameOwner, OwnerFacts, SMTT(60) DEF Owns
  <2> QED BY <2>1, <2>3 DEF M!Next, M!Wait
<1>5. ASSUME NEW t \in Thread, pc[t] \in {"in", "broadcast"}, signal
      PROVE  M!Next
  <2> DEFINE w == Head(cond)
  <2>1. /\ cond # <<>> /\ cond' = Tail(cond)
        /\ pc' = [pc EXCEPT ![w] = IF @ = "wait_blocked" THEN "wait_down" ELSE @]
    BY <1>5 DEF signal
  <2> HIDE DEF w
  <2>2. \A u \in Thread : Owns(u)' <=> Owns(u)
    BY <2>1, ZenonT(60) DEF IndInv, TypeOK, Owns
  <2>3. owner' = owner /\ owner = t
    BY <1>5, <2>2, SameOwner, OwnerFacts, SMTT(60) DEF Owns
  <2> QED BY <2>1, <2>3, SMTT(60) DEF M!Next, M!Signal
<1>6. ASSUME NEW t \in Thread,
             \/ lock_acquire(t) \/ set_holder(t) \/ lock_release(t) \/ wait_down(t)
             \/ cond_broadcast(t)
             \/ sema_down(t) /\ value = 0
             \/ pc[t] = "broadcast" /\ Goto(t, "in") /\ cond' = cond
      PROVE  owner' = owner /\ cond' = cond
  <2>1. \A u \in Thread : Owns(u)' <=> Owns(u)
    BY <1>6, SMTT(60) DEF IndInv, TypeOK, Owns, lock_acquire, set_holder, lock_release,
                wait_down, cond_broadcast, sema_down
  <2>2. cond' = cond
    BY <1>6 DEF lock_acquire, set_holder, lock_release, wait_down, cond_broadcast,
                sema_down
  <2> QED BY <2>1, <2>2, SameOwner, SMTT(60)
<1>7. CASE Next
  <2>1. PICK t \in Thread :
          \/ lock_acquire(t) \/ lock_try_acquire(t)
          \/ cond_wait(t) \/ cond_signal(t) \/ cond_broadcast(t)
          \/ Progress(t)
    BY <1>7 DEF Next
  <2>2. CASE sema_down(t) \/ lock_try_acquire(t)
    BY <2>2, <1>2, <1>6 DEF sema_down, lock_try_acquire
  <2>3. CASE cond_signal(t) \/ broadcast_loop(t)
    BY <2>3, <1>5, <1>6, SMTT(60) DEF cond_signal, broadcast_loop
  <2>4. CASE cond_wait(t) \/ sema_up(t)
    BY <2>4, <1>3, <1>4, SMTT(60)
  <2>5. CASE lock_acquire(t) \/ set_holder(t) \/ lock_release(t) \/ wait_down(t)
               \/ cond_broadcast(t)
    BY <2>5, <1>6
  <2> QED BY <2>1, <2>2, <2>3, <2>4, <2>5 DEF Progress
<1> QED BY <1>1, <1>7

\* Locks and condition variables implement Monitor: whatever threads call them
\* in whatever order, their users see one owner at a time, waits that no signal
\* can fall into and signals in the order of the waits.
THEOREM Refinement == Spec => ImplementsMonitor
<1>1. Init => M!Init
  BY NoThreadAssumption DEF Init, M!Init, owner, Owns
<1>2. IndInv /\ IndInv' /\ [Next]_vars => [M!Next]_(M!mvars)
  BY MonitorStep
<1> QED BY <1>1, <1>2, Invariance, PTL DEF Spec, ImplementsMonitor, M!Spec
=============================================================================
