------------------------------ MODULE WaitQueue ------------------------------
(***************************************************************************)
(* What one hand-over stage of the collector promises.  The collector has  *)
(* three of them: conn_queue (main thread to connection workers),          *)
(* read_queue (connection workers to read workers) and insert_statements   *)
(* (read workers to write workers and the sync worker).  Each is a         *)
(* std::deque that its users reach under one mutex and that its consumers  *)
(* wait on with a condition variable.  CondQueue has the locks and the     *)
(* waiting; here an operation on the deque is one step.                    *)
(*                                                                         *)
(* An item is identified by the order in which it was put: 1, 2, 3, ...    *)
(***************************************************************************)
EXTENDS Naturals, Sequences

CONSTANTS Consumers,  \* threads that wait until the queue holds Threshold items
          Flushers,   \* threads that look at the queue from time to time
          Threshold,  \* 1 for conn_queue and read_queue, SAVE_THRESHOLD for the last
          TakeAll,    \* a taker drains the deque (TRUE) or pops one item (FALSE)
          MaxItems    \* bound of the model: items put in a behaviour

VARIABLES queue,      \* the deque, front first
          made,       \* number of items put so far
          holds       \* what each taker has taken and not yet finished with

abstractVars == <<queue, made, holds>>

Takers == Consumers \cup Flushers

\* What one taker removes from the deque, and what it leaves there.
Batch == IF TakeAll THEN queue ELSE <<Head(queue)>>
Rest == IF TakeAll THEN <<>> ELSE Tail(queue)

Ready(t) == IF t \in Consumers THEN Len(queue) >= Threshold ELSE queue # <<>>

Init == /\ queue = <<>>
        /\ made = 0
        /\ holds = [t \in Takers |-> <<>>]

\* push_front: the newest item is the first to be taken.
Put == /\ made < MaxItems
       /\ made' = made + 1
       /\ queue' = <<made + 1>> \o queue
       /\ UNCHANGED holds

Take(t) == /\ Ready(t)
           /\ holds[t] = <<>>
           /\ holds' = [holds EXCEPT ![t] = Batch]
           /\ queue' = Rest
           /\ UNCHANGED made

Finish(t) == /\ holds[t] # <<>>
             /\ holds' = [holds EXCEPT ![t] = <<>>]
             /\ UNCHANGED <<queue, made>>

Next == Put \/ \E t \in Takers : Take(t) \/ Finish(t)

Spec == Init /\ [][Next]_abstractVars

\* A stage keeps serving: when some consumer could take, some taker does.
Service == /\ WF_abstractVars(\E t \in Takers : Take(t))
           /\ \A t \in Takers : WF_abstractVars(Finish(t))

FairSpec == Spec /\ Service
=============================================================================
