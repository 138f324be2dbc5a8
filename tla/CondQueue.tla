------------------------------ MODULE CondQueue ------------------------------
(***************************************************************************)
(* One hand-over stage of the collector with its mutex and its condition   *)
(* variable: the code of conn_worker, read_worker, write_worker and        *)
(* sync_worker around each shared deque.  A step is one pthread call or    *)
(* one access to the deque.                                                *)
(*                                                                         *)
(* The stage is the same code three times over; the constants choose one:  *)
(*   conn_queue         main thread -> conn_worker,   Threshold 1, pop one *)
(*   read_queue         conn_worker -> read_worker,   Threshold 1, pop one *)
(*   insert_statements  read_worker -> write_worker,  SAVE_THRESHOLD,      *)
(*                      with sync_worker as a flusher, drained whole       *)
(***************************************************************************)
EXTENDS Naturals, Sequences, FiniteSets

CONSTANTS Producers,  \* threads that push_front and broadcast
          Consumers,  \* threads that pthread_cond_wait until Threshold items are there
          Flushers,   \* threads that sleep, then drain whatever is there
          NoThread,   \* the holder of a free mutex
          Threshold,
          TakeAll,    \* takers drain the deque (TRUE) or pop its front (FALSE)
          MaxItems    \* bound of the model: items pushed in a behaviour

ASSUME StageAssumption ==
    /\ Threshold \in Nat \ {0}
    /\ TakeAll \in BOOLEAN
    /\ MaxItems \in Nat
    /\ Producers \cap Consumers = {}
    /\ Producers \cap Flushers = {}
    /\ Consumers \cap Flushers = {}
    /\ NoThread \notin Producers \cup Consumers \cup Flushers

VARIABLES mutex,      \* the thread that holds the mutex, or NoThread
          pc,         \* where each thread is
          queue,      \* the deque, front first
          made,       \* number of items pushed so far; an item is its number
          holds       \* the local variable or bucket of each taker

vars == <<mutex, pc, queue, made, holds>>

Takers == Consumers \cup Flushers
Threads == Producers \cup Takers

Start(t) == CASE t \in Producers -> "produce"
              [] t \in Consumers -> "lock"
              [] t \in Flushers  -> "sleep"

Init == /\ mutex = NoThread
        /\ pc = [t \in Threads |-> Start(t)]
        /\ queue = <<>>
        /\ made = 0
        /\ holds = [t \in Takers |-> <<>>]

-----------------------------------------------------------------------------
(* The pthread calls.                                                      *)

Move(t, from, to) == /\ pc[t] = from
                     /\ pc' = [pc EXCEPT ![t] = to]

\* pthread_mutex_lock
Lock(t, from, to) == /\ Move(t, from, to)
                     /\ mutex = NoThread
                     /\ mutex' = t
                     /\ UNCHANGED <<queue, made, holds>>

\* pthread_mutex_unlock
Unlock(t, from, to) == /\ Move(t, from, to)
                       /\ mutex' = NoThread
                       /\ UNCHANGED <<queue, made, holds>>

\* Mutants: pthread_cond_signal for broadcast, and no call at all.
WakeAll_Signal(t, from, to) ==
    /\ pc[t] = from
    /\ \/ \E u \in Threads : /\ pc[u] = "blocked"
                             /\ pc' = [pc EXCEPT ![t] = to, ![u] = "woken"]
       \/ /\ \A u \in Threads : pc[u] # "blocked"
          /\ pc' = [pc EXCEPT ![t] = to]
    /\ UNCHANGED <<mutex, queue, made, holds>>
WakeAll_None(t, from, to) ==
    Move(t, from, to) /\ UNCHANGED <<mutex, queue, made, holds>>

\* pthread_cond_broadcast: every blocked thread has the mutex to take again.
WakeAll(t, from, to) ==
    /\ pc[t] = from
    /\ pc' = [u \in Threads |-> IF u = t THEN to
                                ELSE IF pc[u] = "blocked" THEN "woken" ELSE pc[u]]
    /\ UNCHANGED <<mutex, queue, made, holds>>

-----------------------------------------------------------------------------
(* Producers: handle_message, conn_worker after a read, read_worker after  *)
(* a valid parse.                                                          *)

ProducerLock(p) == made < MaxItems /\ Lock(p, "produce", "push")

\* Mutant: a read is pushed twice.
Push_Twice(p) == /\ Move(p, "push", "broadcast")
                 /\ made' = made + 1
                 /\ queue' = <<made + 2, made + 1>> \o queue
                 /\ UNCHANGED <<mutex, holds>>

Push(p) == /\ Move(p, "push", "broadcast")
           /\ made' = made + 1
           /\ queue' = <<made + 1>> \o queue
           /\ UNCHANGED <<mutex, holds>>

Broadcast(p) == WakeAll(p, "broadcast", "leave")

ProducerUnlock(p) == Unlock(p, "leave", "produce")

-----------------------------------------------------------------------------
(* Takers.                                                                 *)

ConsumerLock(c) == Lock(c, "lock", "test")

\* Mutant: if instead of while around pthread_cond_wait.
Relock_If(c) == Lock(c, "woken", "take")

\* A woken thread takes the mutex again inside pthread_cond_wait, and the
\* while loop tests the condition again.
Relock(c) == Lock(c, "woken", "test")

Wait(c) == Len(queue) < Threshold /\ Unlock(c, "test", "blocked")

\* POSIX lets pthread_cond_wait return without a broadcast.
SpuriousWake(c) == /\ Move(c, "blocked", "woken")
                   /\ UNCHANGED <<mutex, queue, made, holds>>

\* sleep(TIME_TO_SAVE) has returned.
FlusherLock(f) == Lock(f, "sleep", "test")

\* Mutants: the early continue without its unlock; the test of write_worker.
FlushNothing_KeepLock(f) == /\ queue = <<>>
                            /\ Move(f, "test", "sleep")
                            /\ UNCHANGED <<mutex, queue, made, holds>>
FlushNothing_BelowThreshold(f) == Len(queue) < Threshold /\ Unlock(f, "test", "sleep")

FlushNothing(f) == queue = <<>> /\ Unlock(f, "test", "sleep")

Ready(t) == IF t \in Consumers THEN Len(queue) >= Threshold ELSE queue # <<>>

LeaveLoop(t) == /\ Ready(t)
                /\ Move(t, "test", "take")
                /\ UNCHANGED <<mutex, queue, made, holds>>

Batch == IF TakeAll THEN queue ELSE <<Head(queue)>>
Rest == IF TakeAll THEN <<>> ELSE Tail(queue)

Take(t) == /\ Move(t, "take", "leave")
           /\ holds' = [holds EXCEPT ![t] = Batch]
           /\ queue' = Rest
           /\ UNCHANGED <<mutex, made>>

TakerUnlock(t) == Unlock(t, "leave", "work")

\* What the thread does with its batch, outside the mutex of this stage.
Work(t) == /\ Move(t, "work", Start(t))
           /\ holds' = [holds EXCEPT ![t] = <<>>]
           /\ UNCHANGED <<mutex, queue, made>>

-----------------------------------------------------------------------------
ProducerStep(p) == Push(p) \/ Broadcast(p) \/ ProducerUnlock(p)
TakerStep(t) == LeaveLoop(t) \/ Take(t) \/ TakerUnlock(t) \/ Work(t)
ConsumerLocks(c) == ConsumerLock(c) \/ Relock(c)

Next == \/ \E p \in Producers : ProducerLock(p) \/ ProducerStep(p)
        \/ \E c \in Consumers : ConsumerLocks(c) \/ Wait(c) \/ SpuriousWake(c)
        \/ \E f \in Flushers : FlusherLock(f) \/ FlushNothing(f)
        \/ \E t \in Takers : TakerStep(t)

Spec == Init /\ [][Next]_vars

\* A running thread runs on, and a thread that asks for the mutex again and
\* again gets it: it is held for a few instructions only.  Nothing makes a
\* producer produce, and nothing makes a blocked thread wake by itself.
Fairness ==
    /\ \A p \in Producers : WF_vars(ProducerStep(p))
    /\ \A c \in Consumers : SF_vars(ConsumerLocks(c)) /\ WF_vars(Wait(c))
    /\ \A f \in Flushers : SF_vars(FlusherLock(f)) /\ WF_vars(FlushNothing(f))
    /\ \A t \in Takers : WF_vars(TakerStep(t))

FairSpec == Spec /\ Fairness

-----------------------------------------------------------------------------
Places == {"produce", "push", "broadcast", "leave", "lock", "test", "blocked",
           "woken", "take", "work", "sleep"}

InCritical(t) == pc[t] \in {"push", "broadcast", "leave", "test", "take"}

\* The variables have their types: the mutex has at most one holder, every
\* thread is somewhere in its function, and deque and buckets hold items.
TypeOK == /\ mutex \in Threads \cup {NoThread}
          /\ pc \in [Threads -> Places]
          /\ queue \in Seq(1..made)
          /\ made \in 0..MaxItems
          /\ holds \in [Takers -> Seq(1..made)]

\* Two threads are never between lock and unlock of the same stage, the wait
\* loop included: waiting gives the mutex up and returning takes it back.
MutualExclusion == \A t \in Threads : InCritical(t) <=> mutex = t

\* front() and pop_front() are never called on an empty deque, and a write
\* worker never drains fewer than SAVE_THRESHOLD rows: the condition tested
\* in the loop still holds when the taker acts on it, whoever was woken and
\* ran in between (conn_worker, read_worker, write_worker, sync_worker).
TakeJustified == \A t \in Takers : pc[t] = "take" => Ready(t)

\* No lost wakeup: while the deque holds enough for a consumer, none of them
\* stays blocked in pthread_cond_wait, but for the moment between push_front
\* and the broadcast that follows it.
NoLostWakeup ==
    (Len(queue) >= Threshold /\ \A p \in Producers : pc[p] # "broadcast")
        => \A c \in Consumers : pc[c] # "blocked"

\* The stage implements its abstract specification: every put, take and
\* finish is one step of WaitQueue and every pthread call is a stutter.
WQ == INSTANCE WaitQueue
Implements == WQ!Spec

\* It implements it with its liveness: whenever some taker could take, some
\* taker does (so every wakeup that is needed is sent and arrives).
ImplementsService == WQ!FairSpec

\* Every item handed to the stage leaves it, once arrivals pause (MaxItems).
\* In the last stage this is what sync_worker is for: rows short of the
\* threshold leave with the next flush.
EverythingTaken ==
    \A i \in 1..MaxItems : (\E k \in DOMAIN queue : queue[k] = i)
                               ~> ~(\E k \in DOMAIN queue : queue[k] = i)
=============================================================================
