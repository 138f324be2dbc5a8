-------------------------- MODULE CondQueueProofs ---------------------------
(***************************************************************************)
(* Safety of one hand-over stage, for any number of threads, any threshold *)
(* and any number of items: types, mutual exclusion, no pop_front from an  *)
(* empty deque, no lost wakeup, the refinement of WaitQueue, and from that *)
(* what becomes of the items.                                              *)
(***************************************************************************)
EXTENDS CondQueue, TLAPS

\* A bucket is empty except between the drain and the end of the work on it.
BucketInv == \A t \in Takers : pc[t] \notin {"leave", "work"} => holds[t] = <<>>

\* The bound of the model is respected when the push happens.
RoomInv == \A p \in Producers : pc[p] = "push" => made < MaxItems

\* The inductive invariant.  TypeOK needs TakeJustified (the front of an
\* empty deque has no type), and both need MutualExclusion: between the
\* test of a taker and its pop nobody else may touch the deque.
IInv == /\ TypeOK
        /\ MutualExclusion
        /\ TakeJustified
        /\ NoLostWakeup
        /\ BucketInv
        /\ RoomInv

-----------------------------------------------------------------------------
(* The deque operations.                                                   *)

\* push_front keeps the deque a sequence of items already made.
LEMMA PushType ==
    ASSUME NEW n \in Nat, NEW q \in Seq(1..n)
    PROVE  /\ <<n + 1>> \o q \in Seq(1..(n + 1))
           /\ Len(<<n + 1>> \o q) = Len(q) + 1
<1>1. <<n + 1>> \in Seq(1..(n + 1)) /\ Len(<<n + 1>>) = 1
  OBVIOUS
<1>2. q \in Seq(1..(n + 1))
  <2>1. 1..n \subseteq 1..(n + 1)
    OBVIOUS
  <2> QED BY <2>1
<1> QED BY <1>1, <1>2

\* Items stay items when more are made.
LEMMA WidenType ==
    ASSUME NEW n \in Nat, NEW q \in Seq(1..n)
    PROVE  q \in Seq(1..(n + 1))
<1>1. 1..n \subseteq 1..(n + 1)
  OBVIOUS
<1> QED BY <1>1

\* What a taker removes and what it leaves are sequences of items, and the
\* deque does not grow.
LEMMA TakeType ==
    ASSUME NEW n \in Nat, queue \in Seq(1..n), queue # <<>>, TakeAll \in BOOLEAN
    PROVE  Batch \in Seq(1..n) /\ Rest \in Seq(1..n) /\ Len(Rest) <= Len(queue)
<1>1. CASE TakeAll
  BY <1>1 DEF Batch, Rest
<1>2. CASE ~TakeAll
  <2>1. Head(queue) \in 1..n /\ Tail(queue) \in Seq(1..n)
    OBVIOUS
  <2>2. Len(Tail(queue)) = Len(queue) - 1 /\ Len(queue) \in Nat
    OBVIOUS
  <2> QED BY <1>2, <2>1, <2>2 DEF Batch, Rest
<1> QED BY <1>1, <1>2

\* A taker that may take finds a front to pop.
LEMMA ReadyNonEmpty ==
    ASSUME NEW t \in Takers, Ready(t), queue \in Seq(1..made)
    PROVE  queue # <<>>
BY StageAssumption DEF Ready, Takers

\* No thread is two kinds of thread, and each starts outside the mutex.
LEMMA StartOutside ==
    ASSUME NEW t \in Threads
    PROVE  /\ Start(t) \in {"produce", "lock", "sleep"}
           /\ t \in Takers => Start(t) \in {"lock", "sleep"}
BY StageAssumption DEF Start, Threads, Takers

-----------------------------------------------------------------------------
(* The invariant.                                                          *)

LEMMA InitIInv == Init => IInv
<1> SUFFICES ASSUME Init PROVE IInv
  OBVIOUS
<1>1. \A t \in Threads : pc[t] \in {"produce", "lock", "sleep"}
  BY StartOutside DEF Init
<1>2. TypeOK
  <2>1. holds \in [Takers -> Seq(1..made)] /\ queue \in Seq(1..made)
    BY DEF Init
  <2> QED BY <2>1, <1>1, StageAssumption DEF Init, TypeOK, Places
<1>3. MutualExclusion
  BY <1>1, StageAssumption DEF Init, MutualExclusion, InCritical, Threads, Takers
<1>4. TakeJustified /\ NoLostWakeup /\ BucketInv /\ RoomInv
  BY <1>1 DEF Init, TakeJustified, NoLostWakeup, BucketInv, RoomInv, Threads, Takers
<1> QED BY <1>2, <1>3, <1>4 DEF IInv

\* Taking the mutex disturbs only the control state: one lemma for the four
\* places where a thread locks.
LEMMA LockIInv ==
    ASSUME IInv, NEW t \in Threads, NEW from, NEW to \in {"push", "test"},
           Lock(t, from, to), from \in {"produce", "lock", "woken", "sleep"},
           to = "push" => made < MaxItems
    PROVE  IInv'
<1> USE DEF Lock, Move
<1>1. TypeOK'
  BY DEF IInv, TypeOK, Places
<1>2. MutualExclusion'
  BY StageAssumption DEF IInv, TypeOK, MutualExclusion, InCritical, Threads, Takers
<1>3. TakeJustified' /\ BucketInv' /\ RoomInv'
  BY DEF IInv, TypeOK, TakeJustified, BucketInv, RoomInv, Ready, Threads, Takers
<1>4. NoLostWakeup'
  BY DEF IInv, TypeOK, NoLostWakeup, Threads, Takers
<1> QED BY <1>1, <1>2, <1>3, <1>4 DEF IInv

\* Giving the mutex back: five places.  Blocking is the one of them that
\* could break NoLostWakeup, and does not as the deque is short.
LEMMA UnlockIInv ==
    ASSUME IInv, NEW t \in Threads, NEW from, NEW to,
           Unlock(t, from, to), from \in {"leave", "test"},
           to \in {"produce", "work", "sleep", "blocked"},
           from = "leave" => to # "sleep" /\ to # "blocked",
           t \in Takers /\ from = "leave" => to = "work",
           to = "blocked" => Len(queue) < Threshold
    PROVE  IInv'
<1> USE DEF Unlock, Move
<1>1. TypeOK'
  BY DEF IInv, TypeOK, Places
<1>2. MutualExclusion'
  BY StageAssumption DEF IInv, TypeOK, MutualExclusion, InCritical, Threads, Takers
<1>3. TakeJustified' /\ BucketInv' /\ RoomInv'
  BY DEF IInv, TypeOK, TakeJustified, BucketInv, RoomInv, Ready, Threads, Takers
<1>4. NoLostWakeup'
  <2>1. CASE to = "blocked"
    <3>1. Len(queue) \in Nat /\ Threshold \in Nat
      BY StageAssumption DEF IInv, TypeOK
    <3> QED BY <2>1, <3>1 DEF NoLostWakeup
  <2>2. CASE to # "blocked"
    BY <2>2, StageAssumption DEF IInv, TypeOK, NoLostWakeup, Threads, Takers
  <2> QED BY <2>1, <2>2
<1> QED BY <1>1, <1>2, <1>3, <1>4 DEF IInv

LEMMA PushIInv ==
    ASSUME IInv, NEW p \in Producers, Push(p)
    PROVE  IInv'
<1> USE DEF Push, Move
<1>1. p \in Threads /\ pc[p] = "push" /\ made < MaxItems /\ mutex = p
  BY DEF IInv, RoomInv, MutualExclusion, InCritical, Threads
<1>2. TypeOK'
  <2>1. queue' \in Seq(1..made') /\ made' \in 0..MaxItems
    BY <1>1, PushType, StageAssumption DEF IInv, TypeOK
  <2>2. holds' \in [Takers -> Seq(1..made')]
    <3> SUFFICES ASSUME NEW t \in Takers PROVE holds[t] \in Seq(1..(made + 1))
      BY DEF IInv, TypeOK
    <3> QED BY WidenType, StageAssumption DEF IInv, TypeOK
  <2> QED BY <2>1, <2>2, <1>1 DEF IInv, TypeOK, Places
<1>3. MutualExclusion'
  BY <1>1 DEF IInv, TypeOK, MutualExclusion, InCritical
<1>4. TakeJustified' /\ BucketInv' /\ RoomInv'
  BY <1>1, StageAssumption
     DEF IInv, TypeOK, MutualExclusion, InCritical, TakeJustified, BucketInv, RoomInv,
         Threads, Takers
<1>5. NoLostWakeup'
  BY <1>1 DEF IInv, TypeOK, NoLostWakeup
<1> QED BY <1>2, <1>3, <1>4, <1>5 DEF IInv

LEMMA BroadcastIInv ==
    ASSUME IInv, NEW p \in Producers, Broadcast(p)
    PROVE  IInv'
<1> USE DEF Broadcast, WakeAll
<1>1. p \in Threads
  BY DEF Threads
<1>2. TypeOK'
  BY <1>1 DEF IInv, TypeOK, Places
<1>3. MutualExclusion'
  BY <1>1 DEF IInv, TypeOK, MutualExclusion, InCritical
<1>4. TakeJustified' /\ BucketInv' /\ RoomInv'
  BY <1>1, StageAssumption
     DEF IInv, TypeOK, TakeJustified, BucketInv, RoomInv, Ready, Threads, Takers
<1>5. NoLostWakeup'
  BY <1>1, StageAssumption DEF IInv, TypeOK, NoLostWakeup, Threads, Takers
<1> QED BY <1>2, <1>3, <1>4, <1>5 DEF IInv

LEMMA TakeIInv ==
    ASSUME IInv, NEW t \in Takers, Take(t)
    PROVE  IInv'
<1> USE DEF Take, Move
<1>1. t \in Threads /\ pc[t] = "take" /\ mutex = t
  BY DEF IInv, MutualExclusion, InCritical, Threads
<1>2. queue # <<>>
  BY <1>1, ReadyNonEmpty DEF IInv, TypeOK, TakeJustified
<1>3. Batch \in Seq(1..made) /\ Rest \in Seq(1..made) /\ Len(Rest) <= Len(queue)
  <2>1. made \in Nat
    BY StageAssumption DEF IInv, TypeOK
  <2> QED BY <1>2, <2>1, TakeType, StageAssumption DEF IInv, TypeOK
<1>4. TypeOK'
  BY <1>1, <1>3 DEF IInv, TypeOK, Places
<1>5. MutualExclusion'
  BY <1>1 DEF IInv, TypeOK, MutualExclusion, InCritical
<1>6. TakeJustified'
  BY <1>1 DEF IInv, TypeOK, MutualExclusion, InCritical, TakeJustified, Threads
<1>7. BucketInv' /\ RoomInv'
  BY <1>1, StageAssumption DEF IInv, TypeOK, BucketInv, RoomInv, Threads, Takers
<1>8. NoLostWakeup'
  <2>1. Len(queue') >= Threshold => Len(queue) >= Threshold
    <3>1. Len(Rest) \in Nat /\ Len(queue) \in Nat /\ Threshold \in Nat
      BY <1>3, StageAssumption DEF IInv, TypeOK
    <3> QED BY <1>3, <3>1
  <2> QED BY <1>1, <2>1, StageAssumption DEF IInv, TypeOK, NoLostWakeup, Threads, Takers
<1> QED BY <1>4, <1>5, <1>6, <1>7, <1>8 DEF IInv

LEMMA LeaveLoopIInv ==
    ASSUME IInv, NEW t \in Takers, LeaveLoop(t)
    PROVE  IInv'
<1> USE DEF LeaveLoop, Move
<1>1. t \in Threads /\ pc[t] = "test"
  BY DEF Threads
<1>2. TypeOK'
  BY <1>1 DEF IInv, TypeOK, Places
<1>3. MutualExclusion'
  BY <1>1 DEF IInv, TypeOK, MutualExclusion, InCritical
<1>4. TakeJustified' /\ BucketInv' /\ RoomInv'
  BY <1>1, StageAssumption
     DEF IInv, TypeOK, TakeJustified, BucketInv, RoomInv, Ready, Threads, Takers
<1>5. NoLostWakeup'
  BY <1>1, StageAssumption DEF IInv, TypeOK, NoLostWakeup, Threads, Takers
<1> QED BY <1>2, <1>3, <1>4, <1>5 DEF IInv

LEMMA WorkIInv ==
    ASSUME IInv, NEW t \in Takers, Work(t)
    PROVE  IInv'
<1> USE DEF Work, Move
<1>1. t \in Threads /\ pc[t] = "work" /\ Start(t) \in {"lock", "sleep"}
  BY StartOutside DEF Threads
<1>2. TypeOK'
  <2>1. <<>> \in Seq(1..made)
    OBVIOUS
  <2> QED BY <1>1, <2>1 DEF IInv, TypeOK, Places
<1>3. MutualExclusion'
  BY <1>1 DEF IInv, TypeOK, MutualExclusion, InCritical
<1>4. TakeJustified' /\ BucketInv' /\ RoomInv'
  BY <1>1, StageAssumption
     DEF IInv, TypeOK, TakeJustified, BucketInv, RoomInv, Ready, Threads, Takers
<1>5. NoLostWakeup'
  BY <1>1, StageAssumption DEF IInv, TypeOK, NoLostWakeup, Threads, Takers
<1> QED BY <1>2, <1>3, <1>4, <1>5 DEF IInv

LEMMA SpuriousWakeIInv ==
    ASSUME IInv, NEW c \in Consumers, SpuriousWake(c)
    PROVE  IInv'
<1> USE DEF SpuriousWake, Move
<1>1. c \in Threads
  BY DEF Threads, Takers
<1>2. TypeOK'
  BY <1>1 DEF IInv, TypeOK, Places
<1>3. MutualExclusion'
  BY <1>1 DEF IInv, TypeOK, MutualExclusion, InCritical
<1>4. TakeJustified' /\ BucketInv' /\ RoomInv'
  BY <1>1, StageAssumption
     DEF IInv, TypeOK, TakeJustified, BucketInv, RoomInv, Ready, Threads, Takers
<1>5. NoLostWakeup'
  BY <1>1, StageAssumption DEF IInv, TypeOK, NoLostWakeup, Threads, Takers
<1> QED BY <1>2, <1>3, <1>4, <1>5 DEF IInv

\* The invariant is inductive: one case per action.
LEMMA NextIInv == IInv /\ [Next]_vars => IInv'
<1> SUFFICES ASSUME IInv, [Next]_vars PROVE IInv'
  OBVIOUS
<1> Consumers \subseteq Takers /\ Flushers \subseteq Takers
      /\ Takers \subseteq Threads /\ Producers \subseteq Threads
  BY DEF Takers, Threads
<1>1. ASSUME NEW p \in Producers, ProducerLock(p) PROVE IInv'
  BY <1>1, LockIInv DEF ProducerLock
<1>2. ASSUME NEW p \in Producers, ProducerStep(p) PROVE IInv'
  <2>1. CASE Push(p)
    BY <2>1, PushIInv
  <2>2. CASE Broadcast(p)
    BY <2>2, BroadcastIInv
  <2>3. CASE ProducerUnlock(p)
    <3>1. p \notin Takers
      BY StageAssumption DEF Takers
    <3> QED BY <2>3, <3>1, UnlockIInv DEF ProducerUnlock
  <2> QED BY <1>2, <2>1, <2>2, <2>3 DEF ProducerStep
<1>3. ASSUME NEW c \in Consumers, ConsumerLocks(c) PROVE IInv'
  BY <1>3, LockIInv DEF ConsumerLocks, ConsumerLock, Relock
<1>4. ASSUME NEW c \in Consumers, Wait(c) PROVE IInv'
  BY <1>4, UnlockIInv DEF Wait
<1>5. ASSUME NEW c \in Consumers, SpuriousWake(c) PROVE IInv'
  BY <1>5, SpuriousWakeIInv
<1>6. ASSUME NEW f \in Flushers, FlusherLock(f) PROVE IInv'
  BY <1>6, LockIInv DEF FlusherLock
<1>7. ASSUME NEW f \in Flushers, FlushNothing(f) PROVE IInv'
  BY <1>7, UnlockIInv DEF FlushNothing
<1>8. ASSUME NEW t \in Takers, TakerStep(t) PROVE IInv'
  <2>1. CASE LeaveLoop(t)
    BY <2>1, LeaveLoopIInv
  <2>2. CASE Take(t)
    BY <2>2, TakeIInv
  <2>3. CASE TakerUnlock(t)
    BY <2>3, UnlockIInv DEF TakerUnlock
  <2>4. CASE Work(t)
    BY <2>4, WorkIInv
  <2> QED BY <1>8, <2>1, <2>2, <2>3, <2>4 DEF TakerStep
<1>9. CASE UNCHANGED vars
  BY <1>9 DEF vars, IInv, TypeOK, MutualExclusion, InCritical, TakeJustified, Ready,
              NoLostWakeup, BucketInv, RoomInv
<1> QED
  BY <1>1, <1>2, <1>3, <1>4, <1>5, <1>6, <1>7, <1>8, <1>9 DEF Next

\* The inductive invariant holds in every behaviour of a stage.
THEOREM Invariance == Spec => []IInv
BY InitIInv, NextIInv, PTL DEF Spec

\* Every variable of a stage keeps its type, whatever the number of threads.
THEOREM TypeCorrect == Spec => []TypeOK
<1>1. IInv => TypeOK
  BY DEF IInv
<1> QED BY <1>1, Invariance, PTL

\* At most one thread is between lock and unlock, and it is the mutex's holder.
THEOREM Exclusion == Spec => []MutualExclusion
<1>1. IInv => MutualExclusion
  BY DEF IInv
<1> QED BY <1>1, Invariance, PTL

\* No taker ever pops an empty deque or drains fewer rows than it waited for.
THEOREM NoEmptyPop == Spec => []TakeJustified
<1>1. IInv => TakeJustified
  BY DEF IInv
<1> QED BY <1>1, Invariance, PTL

\* No consumer stays blocked over a deque that holds enough for it.
THEOREM WakeupsArrive == Spec => []NoLostWakeup
<1>1. IInv => NoLostWakeup
  BY DEF IInv
<1> QED BY <1>1, Invariance, PTL

-----------------------------------------------------------------------------
(* Refinement.  The deque, the count and the buckets are the abstract      *)
(* state as they are: only Push, Take and Work move them.                  *)

LEMMA InitRefines == Init => WQ!Init
BY DEF Init, WQ!Init, Takers, WQ!Takers

LEMMA NextRefines == IInv /\ [Next]_vars => [WQ!Next]_(WQ!abstractVars)
<1> SUFFICES ASSUME IInv, [Next]_vars PROVE [WQ!Next]_(WQ!abstractVars)
  OBVIOUS
<1> USE DEF WQ!abstractVars
<1>1. ASSUME NEW p \in Producers, Push(p) PROVE WQ!Next
  <2>1. made < MaxItems
    BY <1>1 DEF IInv, RoomInv, Push, Move
  <2> QED BY <1>1, <2>1 DEF Push, WQ!Next, WQ!Put
<1>2. ASSUME NEW t \in Takers, Take(t) PROVE WQ!Next
  <2>1. Ready(t) /\ holds[t] = <<>>
    BY <1>2 DEF IInv, TakeJustified, BucketInv, Take, Move
  <2>2. WQ!Take(t)
    BY <1>2, <2>1 DEF Take, WQ!Take, Ready, WQ!Ready, Batch, WQ!Batch, Rest, WQ!Rest
  <2> QED BY <2>2 DEF WQ!Next, Takers, WQ!Takers
<1>3. ASSUME NEW t \in Takers, Work(t) PROVE WQ!Next \/ UNCHANGED WQ!abstractVars
  <2>1. CASE holds[t] = <<>>
    <3>1. holds' = holds
      BY <1>3, <2>1 DEF Work, IInv, TypeOK
    <3> QED BY <1>3, <3>1 DEF Work
  <2>2. CASE holds[t] # <<>>
    BY <1>3, <2>2 DEF Work, WQ!Next, WQ!Finish, Takers, WQ!Takers
  <2> QED BY <2>1, <2>2
<1>4. CASE UNCHANGED <<queue, made, holds>>
  BY <1>4
<1>5. \/ \E p \in Producers : Push(p)
      \/ \E t \in Takers : Take(t) \/ Work(t)
      \/ UNCHANGED <<queue, made, holds>>
  BY DEF Next, vars, ProducerStep, TakerStep, ConsumerLocks, ProducerLock, Broadcast,
         ProducerUnlock, ConsumerLock, Relock, Wait, SpuriousWake, FlusherLock,
         FlushNothing, LeaveLoop, TakerUnlock, Lock, Unlock, WakeAll
<1> QED BY <1>1, <1>2, <1>3, <1>4, <1>5

\* A stage with its mutex and condition variable implements the queue whose
\* operations are single steps.
THEOREM Refinement == Spec => Implements
BY InitRefines, NextRefines, Invariance, PTL DEF Spec, Implements, WQ!Spec

-----------------------------------------------------------------------------
(* The items.  An item is in one place at a time, and moves from the deque *)
(* to one taker; the steps of WaitQueue are enough to see it.              *)

ItemsOf(s) == {s[i] : i \in DOMAIN s}

\* The deque has the newest item first.
NewestFirst == \A i, j \in DOMAIN queue : i < j => queue[i] > queue[j]

HeldOnce ==
    /\ \A t \in Takers : ItemsOf(queue) \cap ItemsOf(holds[t]) = {}
    /\ \A t, u \in Takers : t # u => ItemsOf(holds[t]) \cap ItemsOf(holds[u]) = {}

\* Where an item may go in a step: out of the deque to a taker only, and from
\* a taker only when it has done with all it holds.
Kept ==
    /\ \A i \in ItemsOf(queue) :
           i \in ItemsOf(queue') \/ \E t \in Takers : i \in ItemsOf(holds'[t])
    /\ \A t \in Takers : holds'[t] = holds[t] \/ holds[t] = <<>> \/ holds'[t] = <<>>

LEMMA ItemsEmpty == ItemsOf(<<>>) = {}
BY DEF ItemsOf

LEMMA PutItems ==
    ASSUME NEW n \in Nat, NEW s \in Seq(1..n)
    PROVE  /\ ItemsOf(<<n + 1>> \o s) = {n + 1} \cup ItemsOf(s)
           /\ (\A i, j \in DOMAIN s : i < j => s[i] > s[j]) =>
                  \A i, j \in DOMAIN (<<n + 1>> \o s) :
                      i < j => (<<n + 1>> \o s)[i] > (<<n + 1>> \o s)[j]
<1> DEFINE q == <<n + 1>> \o s
<1>1. /\ s \in Seq(Nat) /\ Len(s) \in Nat /\ DOMAIN s = 1..Len(s)
      /\ \A i \in DOMAIN s : s[i] \in 1..n
  OBVIOUS
<1>2. /\ DOMAIN q = 1..(Len(s) + 1)
      /\ q[1] = n + 1
      /\ \A i \in 1..Len(s) : q[i + 1] = s[i]
  BY <1>1
<1> HIDE DEF q
<1>3. \A i \in DOMAIN q : i = 1 \/ (i - 1 \in DOMAIN s /\ q[i] = s[i - 1])
  <2> SUFFICES ASSUME NEW i \in DOMAIN q, i # 1 PROVE i - 1 \in DOMAIN s /\ q[i] = s[i - 1]
    OBVIOUS
  <2>1. i - 1 \in 1..Len(s) /\ (i - 1) + 1 = i
    BY <1>1, <1>2
  <2>. QED  BY <1>1, <1>2, <2>1
<1>4. \A i \in DOMAIN s : i + 1 \in DOMAIN q /\ q[i + 1] = s[i]
  BY <1>1, <1>2
<1>5. ItemsOf(q) = {n + 1} \cup ItemsOf(s)
  <2>1. 1 \in DOMAIN q
    BY <1>1, <1>2
  <2>2. ItemsOf(q) \subseteq {n + 1} \cup ItemsOf(s)
    BY <1>2, <1>3 DEF ItemsOf
  <2>3. {n + 1} \cup ItemsOf(s) \subseteq ItemsOf(q)
    BY <1>2, <1>4, <2>1 DEF ItemsOf
  <2>. QED  BY <2>2, <2>3
<1>6. ASSUME \A i, j \in DOMAIN s : i < j => s[i] > s[j],
             NEW i \in DOMAIN q, NEW j \in DOMAIN q, i < j
      PROVE  q[i] > q[j]
  <2>1. j - 1 \in DOMAIN s /\ q[j] = s[j - 1] /\ q[j] \in 1..n
    BY <1>1, <1>2, <1>3, <1>6
  <2>2. CASE i = 1
    BY <1>2, <2>1, <2>2
  <2>3. CASE i # 1
    <3>1. i - 1 \in DOMAIN s /\ q[i] = s[i - 1] /\ i - 1 < j - 1
      BY <1>2, <1>3, <1>6, <2>3
    <3>. QED  BY <1>6, <2>1, <3>1
  <2>. QED  BY <2>2, <2>3
<1>. QED
  BY <1>5, <1>6 DEF q

LEMMA TakeItems ==
    ASSUME NEW n \in Nat, queue \in Seq(1..n), queue # <<>>, NewestFirst, TakeAll \in BOOLEAN
    PROVE  /\ ItemsOf(queue) = ItemsOf(Batch) \cup ItemsOf(Rest)
           /\ ItemsOf(Batch) \cap ItemsOf(Rest) = {}
           /\ \A i, j \in DOMAIN Rest : i < j => Rest[i] > Rest[j]
<1>1. CASE TakeAll
  BY <1>1, ItemsEmpty DEF Batch, Rest
<1>2. CASE ~TakeAll
  <2>1. /\ Len(queue) \in Nat \ {0} /\ DOMAIN queue = 1..Len(queue)
        /\ \A i \in DOMAIN queue : queue[i] \in 1..n
    OBVIOUS
  <2> DEFINE q == Tail(queue)
  <2>2. /\ DOMAIN q = 1..(Len(queue) - 1)
        /\ \A i \in DOMAIN q : q[i] = queue[i + 1]
    BY <2>1
  <2>3. \A i \in DOMAIN q : i \in Nat /\ i + 1 \in DOMAIN queue /\ 1 < i + 1
    BY <2>1, <2>2
  <2>4. \A i \in DOMAIN queue : i = 1 \/ (i - 1 \in DOMAIN q /\ q[i - 1] = queue[i])
    <3> SUFFICES ASSUME NEW i \in DOMAIN queue, i # 1
                 PROVE  i - 1 \in DOMAIN q /\ q[i - 1] = queue[i]
      OBVIOUS
    <3>1. i - 1 \in DOMAIN q /\ (i - 1) + 1 = i
      BY <2>1, <2>2
    <3>. QED  BY <2>2, <3>1
  <2>5. Batch = <<queue[1]>> /\ Rest = q
    BY <1>2 DEF Batch, Rest
  <2> HIDE DEF q
  <2>6. ItemsOf(Batch) = {queue[1]} /\ 1 \in DOMAIN queue
    BY <2>1, <2>5 DEF ItemsOf
  <2>7. ItemsOf(queue) \subseteq ItemsOf(Batch) \cup ItemsOf(Rest)
    BY <2>4, <2>5, <2>6 DEF ItemsOf
  <2>8. ItemsOf(Rest) \subseteq ItemsOf(queue) /\ queue[1] \in ItemsOf(queue)
    BY <2>2, <2>3, <2>5, <2>6 DEF ItemsOf
  <2>9. \A i \in DOMAIN q : queue[1] > q[i]
    BY <2>2, <2>3, <2>6 DEF NewestFirst
  <2>10. queue[1] \notin ItemsOf(Rest)
    BY <2>1, <2>5, <2>6, <2>9 DEF ItemsOf
  <2>11. \A i, j \in DOMAIN q : i < j => q[i] > q[j]
    BY <2>2, <2>3 DEF NewestFirst
  <2>. QED  BY <2>5, <2>6, <2>7, <2>8, <2>10, <2>11
<1>. QED
  BY <1>1, <1>2

LEMMA ItemsStep ==
    ASSUME TypeOK, NewestFirst, HeldOnce, [WQ!Next]_(WQ!abstractVars)
    PROVE  NewestFirst' /\ HeldOnce' /\ Kept
<1>0. /\ made \in Nat /\ queue \in Seq(1..made)
      /\ \A t \in Takers : holds[t] \in Seq(1..made)
      /\ WQ!Takers = Takers
  BY StageAssumption DEF TypeOK, WQ!Takers, Takers
<1>1. CASE WQ!Put
  <2>1. queue' = <<made + 1>> \o queue /\ holds' = holds
    BY <1>1 DEF WQ!Put
  <2>2. NewestFirst' /\ ItemsOf(queue') = {made + 1} \cup ItemsOf(queue)
    BY <1>0, <2>1, PutItems DEF NewestFirst
  <2>3. \A t \in Takers : made + 1 \notin ItemsOf(holds[t])
    BY <1>0 DEF ItemsOf
  <2>4. HeldOnce' /\ Kept
    BY <2>1, <2>2, <2>3 DEF HeldOnce, Kept
  <2>. QED  BY <2>2, <2>4
<1>2. ASSUME NEW t \in Takers, WQ!Take(t) PROVE NewestFirst' /\ HeldOnce' /\ Kept
  <2>1. /\ queue' = Rest /\ holds[t] = <<>>
        /\ holds' = [holds EXCEPT ![t] = Batch]
        /\ queue # <<>>
    BY <1>0, <1>2, StageAssumption DEF WQ!Take, WQ!Batch, WQ!Rest, WQ!Ready, Batch, Rest
  <2>2. /\ ItemsOf(queue) = ItemsOf(Batch) \cup ItemsOf(Rest)
        /\ ItemsOf(Batch) \cap ItemsOf(Rest) = {}
        /\ \A i, j \in DOMAIN Rest : i < j => Rest[i] > Rest[j]
    BY <1>0, <2>1, TakeItems, StageAssumption
  <2>3. holds'[t] = Batch /\ \A u \in Takers : u # t => holds'[u] = holds[u]
    BY <2>1 DEF TypeOK
  <2>4. HeldOnce' /\ Kept
    BY <2>1, <2>2, <2>3 DEF HeldOnce, Kept
  <2>. QED  BY <2>1, <2>2, <2>4 DEF NewestFirst
<1>3. ASSUME NEW t \in Takers, WQ!Finish(t) PROVE NewestFirst' /\ HeldOnce' /\ Kept
  <2>1. queue' = queue /\ holds' = [holds EXCEPT ![t] = <<>>]
    BY <1>3 DEF WQ!Finish
  <2>2. holds'[t] = <<>> /\ \A u \in Takers : u # t => holds'[u] = holds[u]
    BY <2>1 DEF TypeOK
  <2>. QED  BY <2>1, <2>2, ItemsEmpty DEF NewestFirst, HeldOnce, Kept
<1>4. CASE UNCHANGED WQ!abstractVars
  BY <1>4 DEF WQ!abstractVars, NewestFirst, HeldOnce, Kept
<1>. QED
  BY <1>0, <1>1, <1>2, <1>3, <1>4 DEF WQ!Next

LEMMA ItemsInit == Init => NewestFirst /\ HeldOnce
<1> SUFFICES ASSUME Init PROVE NewestFirst /\ HeldOnce
  OBVIOUS
<1>1. queue = <<>> /\ \A t \in Takers : holds[t] = <<>>
  BY DEF Init
<1>. QED
  BY <1>1, ItemsEmpty DEF NewestFirst, HeldOnce

LEMMA ItemsInvariance == Spec => [](NewestFirst /\ HeldOnce)
<1>1. IInv /\ NewestFirst /\ HeldOnce /\ [Next]_vars => NewestFirst' /\ HeldOnce'
  BY NextRefines, ItemsStep DEF IInv
<1>. QED
  BY <1>1, ItemsInit, Invariance, PTL DEF Spec

\* However threads are woken and scheduled, no item is in the deque and with a
\* taker, nor with two takers: no row is in two buckets.
THEOREM ItemsHeldOnce == Spec => []HeldOnce
BY ItemsInvariance, PTL

\* No item vanishes: one that leaves the deque is with a taker, and stays
\* there until the taker has done with it.
THEOREM NothingDropped == Spec => [][Kept]_vars
<1>1. IInv /\ NewestFirst /\ HeldOnce /\ [Next]_vars => [Kept]_vars
  BY NextRefines, ItemsStep DEF IInv
<1>. QED
  BY <1>1, ItemsInvariance, Invariance, PTL DEF Spec
=============================================================================
