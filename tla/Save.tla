-------------------------------- MODULE Save ---------------------------------
(***************************************************************************)
(* The saving half of the collector on Postgres: rows wait in              *)
(* insert_statements; a write worker drains them all when there are        *)
(* SAVE_THRESHOLD of them, the sync worker drains them every TIME_TO_SAVE  *)
(* seconds; each sends its bucket as one INSERT on a taopq connection.     *)
(* Write worker i uses db[i]; the sync worker uses db[0], with no lock.    *)
(*                                                                         *)
(* The deque is WaitQueue, which CondQueue implements with its mutex and   *)
(* condition variable.  execute() is modelled call by call, as two threads *)
(* may be inside it on the same connection.  Neither taopq nor libpq takes *)
(* a lock: what each looks at may change before it acts, and two threads   *)
(* may be inside PQsendQueryParams at once.  That is a data race on the    *)
(* buffer of the connection: statements are lost, sent twice, or answered  *)
(* to the other thread.  An exception thrown in a worker is caught         *)
(* nowhere: the process terminates, and its service manager starts it      *)
(* again.                                                                  *)
(***************************************************************************)
EXTENDS Naturals, Sequences, FiniteSets

CONSTANTS WRITE_THREADS,   \* number of write workers and of connections
          SAVE_THRESHOLD,  \* rows a write worker waits for
          Sync,            \* the sync worker
          None,            \* no transaction on a connection; no living sender
          MaxRows,         \* bound of the model: rows pushed in a behaviour
          MaxMixed         \* bound of the model: commands that leave in one flush
                           \* of a buffer which two threads have written to

ASSUME SaveAssumption ==
    /\ WRITE_THREADS \in Nat \ {0}
    /\ SAVE_THRESHOLD \in Nat \ {0}
    /\ MaxRows \in Nat
    /\ MaxMixed \in Nat
    /\ Sync \notin Nat
    /\ None \notin Nat \cup {Sync}

Writers == 0..(WRITE_THREADS - 1)
Savers == Writers \cup {Sync}

\* db[index] of a write worker, db[0] of the sync worker.
Conn(t) == IF t = Sync THEN 0 ELSE t

\* The savers with a connection of their own.
Sole == Savers \ {0, Sync}

VARIABLES insert_statements, \* rows not yet drained, front first; a row is its number
          made,              \* number of rows pushed so far
          bucket,            \* the local deque of each saver
          pc,                \* where each saver is in its loop and in execute()
          current,           \* m_current_transaction of each connection
          busy,              \* libpq: a command is in progress on the connection
          mixed,             \* savers whose commands were written at the same time
          running,           \* the INSERTs the server has received and not decided
          reply,             \* what the server has answered to each saver
          stored,            \* how often each row is in the table
          alive,             \* the process runs
          crashed,           \* history: it has terminated at least once
          misused            \* history: two threads were inside PQsendQueryParams at once

memory == <<insert_statements, made, bucket>>
client == <<pc, current, busy, mixed>>
server == <<running, reply, stored>>
process == <<alive, crashed, misused>>
vars == <<memory, client, server, process>>

Queue == INSTANCE WaitQueue
             WITH Consumers <- Writers, Flushers <- {Sync},
                  Threshold <- SAVE_THRESHOLD, TakeAll <- TRUE, MaxItems <- MaxRows,
                  queue <- insert_statements, holds <- bucket

Rows(s) == {s[i] : i \in DOMAIN s}

Init == /\ Queue!Init
        /\ pc = [t \in Savers |-> "idle"]
        /\ current = [c \in Writers |-> None]
        /\ busy = [c \in Writers |-> FALSE]
        /\ mixed = {}
        /\ running = {}
        /\ reply = [t \in Savers |-> "none"]
        /\ stored = [r \in 1..MaxRows |-> 0]
        /\ alive = TRUE
        /\ crashed = FALSE
        /\ misused = FALSE

Move(t, from, to) == /\ alive
                     /\ pc[t] = from
                     /\ pc' = [pc EXCEPT ![t] = to]

\* Mutant: rows are numbered anew after a crash.
Terminate_Renumber == /\ insert_statements' = <<>>
                      /\ bucket' = [t \in Savers |-> <<>>]
                      /\ pc' = [t \in Savers |-> "idle"]
                      /\ current' = [c \in Writers |-> None]
                      /\ busy' = [c \in Writers |-> FALSE]
                      /\ mixed' = {}
                      /\ running' = {[q EXCEPT !.by = None] : q \in running}
                      /\ reply' = [t \in Savers |-> "none"]
                      /\ alive' = FALSE
                      /\ crashed' = TRUE
                      /\ made' = 0
                      /\ UNCHANGED <<stored, misused>>

\* std::terminate: all threads stop at once and what is in memory is gone.
\* An INSERT already sent stays with the server, its sender unknown.
Terminate == /\ insert_statements' = <<>>
             /\ bucket' = [t \in Savers |-> <<>>]
             /\ pc' = [t \in Savers |-> "idle"]
             /\ current' = [c \in Writers |-> None]
             /\ busy' = [c \in Writers |-> FALSE]
             /\ mixed' = {}
             /\ running' = {[q EXCEPT !.by = None] : q \in running}
             /\ reply' = [t \in Savers |-> "none"]
             /\ alive' = FALSE
             /\ crashed' = TRUE
             /\ UNCHANGED <<made, stored, misused>>

-----------------------------------------------------------------------------
(* The deque.                                                              *)

\* A read worker has a valid row.
Push == alive /\ Queue!Put /\ UNCHANGED <<client, server, process>>

\* Mutants: the sync worker waits for the threshold; pop_front() comes before
\* front().
Drain_Threshold(t) == /\ Len(insert_statements) >= SAVE_THRESHOLD
                      /\ Move(t, "idle", "begin")
                      /\ Queue!Take(t)
                      /\ UNCHANGED <<current, busy, mixed, server, process>>
Drain_Skip(t) == /\ Move(t, "idle", "begin")
                 /\ Queue!Ready(t)
                 /\ bucket' = [bucket EXCEPT ![t] = Tail(insert_statements)]
                 /\ insert_statements' = <<>>
                 /\ UNCHANGED <<made, current, busy, mixed, server, process>>

\* A saver drains the deque: a write worker from the threshold on, the sync
\* worker whenever there is a row.
Drain(t) == /\ Move(t, "idle", "begin")
            /\ Queue!Take(t)
            /\ UNCHANGED <<current, busy, mixed, server, process>>

\* The sync worker finds no row and goes back to sleep.
SyncNothing == /\ alive
               /\ pc[Sync] = "idle"
               /\ insert_statements = <<>>
               /\ UNCHANGED vars

-----------------------------------------------------------------------------
(* execute(): direct()->execute(statement).                                *)

\* The constructor of the transaction looks whether the connection has one.
TestCurrent(t) == /\ current[Conn(t)] = None
                  /\ Move(t, "begin", "claim")
                  /\ UNCHANGED <<memory, current, busy, mixed, server, process>>

\* ... and then enters itself.
Claim(t) == /\ Move(t, "claim", "order")
            /\ current' = [current EXCEPT ![Conn(t)] = t]
            /\ UNCHANGED <<memory, busy, mixed, server, process>>

\* send_params looks whether this transaction is still the current one ...
Order(t) == /\ current[Conn(t)] = t
            /\ Move(t, "order", "send")
            /\ UNCHANGED <<memory, current, busy, mixed, server, process>>

\* ... and calls PQsendQueryParams, which looks whether a command is in
\* progress.  It is not as long as another thread is still writing one.
Others(t, labels) == {u \in Savers \ {t} : Conn(u) = Conn(t) /\ pc[u] \in labels}
Busy(c) == busy[c]
Writing(t) == Others(t, {"flush"})

Send(t) == /\ ~Busy(Conn(t))
           /\ Move(t, "send", "flush")
           /\ mixed' = IF Writing(t) = {} THEN mixed ELSE mixed \cup {t} \cup Writing(t)
           /\ misused' = (misused \/ Writing(t) # {})
           /\ UNCHANGED <<memory, current, busy, server, alive, crashed>>

\* The command is written and flushed, and is in progress from then on.  Of
\* commands written at the same time any may reach the server, once or more,
\* and be answered to either thread.
Insert(t) == [by |-> t, rows |-> bucket[t]]
Mixtures(T) == [by : T, rows : {bucket[u] : u \in T}]
Sent(t) == IF t \notin mixed THEN {{Insert(t)}}
           ELSE {Q \in SUBSET Mixtures({t} \cup Others(t, {"flush", "check", "await"})) :
                     Cardinality(Q) <= MaxMixed}

Flush(t) == /\ Move(t, "flush", "check")
            /\ busy' = [busy EXCEPT ![Conn(t)] = TRUE]
            /\ \E Q \in Sent(t) : running' = running \cup Q
            /\ UNCHANGED <<memory, current, mixed, reply, stored, process>>

\* Mutant: get_result does not look.
CheckCurrent_Blind(t) == /\ Move(t, "check", "await")
                         /\ UNCHANGED <<memory, current, busy, mixed, server, process>>

\* get_result looks at the current transaction once more, then waits.
CheckCurrent(t) == /\ current[Conn(t)] = t
                   /\ Move(t, "check", "await")
                   /\ UNCHANGED <<memory, current, busy, mixed, server, process>>

\* Mutant: the status of the result is not looked at.
Receive_Any(t) == /\ reply[t] # "none"
                  /\ Move(t, "await", "finish")
                  /\ busy' = [busy EXCEPT ![Conn(t)] = FALSE]
                  /\ reply' = [reply EXCEPT ![t] = "none"]
                  /\ UNCHANGED <<memory, current, mixed, running, stored, process>>

Receive(t) == /\ reply[t] = "ok"
              /\ Move(t, "await", "finish")
              /\ busy' = [busy EXCEPT ![Conn(t)] = FALSE]
              /\ reply' = [reply EXCEPT ![t] = "none"]
              /\ UNCHANGED <<memory, current, mixed, running, stored, process>>

\* The transaction is destroyed and "Save success" is logged.
Finish(t) == /\ Move(t, "finish", "idle")
             /\ current' = [current EXCEPT ![Conn(t)] = None]
             /\ Queue!Finish(t)
             /\ UNCHANGED <<busy, mixed, server, process>>

\* "invalid transaction order", a command already in progress, or an error
\* answer: in each case an exception.
Throws(t) == \/ pc[t] = "begin" /\ current[Conn(t)] # None
             \/ pc[t] = "order" /\ current[Conn(t)] # t
             \/ pc[t] = "send" /\ Busy(Conn(t))
             \/ pc[t] = "check" /\ current[Conn(t)] # t
             \/ pc[t] = "await" /\ reply[t] = "error"

\* Mutants: after an error answer the thread saves its bucket again, or
\* forgets it and goes on.
Throw_Retry(t) == /\ pc[t] = "await" /\ reply[t] = "error"
                  /\ Move(t, "await", "send")
                  /\ busy' = [busy EXCEPT ![Conn(t)] = FALSE]
                  /\ reply' = [reply EXCEPT ![t] = "none"]
                  /\ UNCHANGED <<memory, current, mixed, running, stored, process>>
Throw_Swallow(t) == /\ pc[t] = "await" /\ reply[t] = "error"
                    /\ Move(t, "await", "idle")
                    /\ current' = [current EXCEPT ![Conn(t)] = None]
                    /\ busy' = [busy EXCEPT ![Conn(t)] = FALSE]
                    /\ reply' = [reply EXCEPT ![t] = "none"]
                    /\ Queue!Finish(t)
                    /\ UNCHANGED <<mixed, running, stored, process>>

Throw(t) == alive /\ Throws(t) /\ Terminate

-----------------------------------------------------------------------------
(* The database server and the connection to it.                           *)

Answer(q, a) == reply' = IF q.by = None THEN reply ELSE [reply EXCEPT ![q.by] = a]

StoreRows(q) == stored' = [r \in 1..MaxRows |->
                               IF r \in Rows(q.rows) THEN stored[r] + 1 ELSE stored[r]]

\* An INSERT takes effect whole or not at all.  The answer to one that took
\* effect may be lost with the connection.
Commit(q) == /\ running' = running \ {q}
             /\ StoreRows(q)
             /\ \E a \in {"ok", "error"} : Answer(q, a)
             /\ UNCHANGED <<memory, client, process>>

\* The server refuses the INSERT, or never gets to it.
Reject(q) == /\ running' = running \ {q}
             /\ Answer(q, "error")
             /\ UNCHANGED <<memory, client, stored, process>>

\* A connection breaks before an INSERT is sent on it; or what two threads
\* have made of its buffer ends the process.
LoseConnection(t) == /\ alive
                     /\ pc[t] \in {"send", "flush"} \/ t \in mixed
                     /\ Terminate

\* The service manager starts the collector again (Restart=on-failure).
Restart == /\ ~alive
           /\ alive' = TRUE
           /\ UNCHANGED <<memory, client, server, crashed, misused>>

-----------------------------------------------------------------------------
SaverStep(t) == \/ TestCurrent(t) \/ Claim(t) \/ Order(t) \/ Send(t) \/ Flush(t)
                \/ CheckCurrent(t) \/ Receive(t) \/ Finish(t) \/ Throw(t)

Next == \/ Push
        \/ SyncNothing
        \/ \E t \in Savers : Drain(t) \/ SaverStep(t) \/ LoseConnection(t)
        \/ \E q \in running : Commit(q) \/ Reject(q)
        \/ Restart

Spec == Init /\ [][Next]_vars

\* Threads run, the sync worker wakes up, and the server decides on what it
\* has received.  Nothing makes a row arrive or a connection break.
Fairness == /\ WF_vars(Drain(Sync))
            /\ \A t \in Savers : WF_vars(SaverStep(t))
            /\ WF_vars(\E q \in running : Commit(q) \/ Reject(q))

FairSpec == Spec /\ Fairness

-----------------------------------------------------------------------------
Pcs == {"idle", "begin", "claim", "order", "send", "flush", "check", "await", "finish"}
Query == [by : Savers \cup {None}, rows : Seq(1..made)]

TypeOK == /\ made \in 0..MaxRows
          /\ insert_statements \in Seq(1..made)
          /\ bucket \in [Savers -> Seq(1..made)]
          /\ pc \in [Savers -> Pcs]
          /\ current \in [Writers -> Savers \cup {None}]
          /\ busy \in [Writers -> BOOLEAN]
          /\ mixed \subseteq Savers
          /\ running \subseteq Query
          /\ reply \in [Savers -> {"none", "ok", "error"}]
          /\ stored \in [1..MaxRows -> Nat]
          /\ alive \in BOOLEAN /\ crashed \in BOOLEAN /\ misused \in BOOLEAN

\* No row is in the table twice: nothing is sent again after a failure, and
\* a row drained by one saver is seen by no other (write_worker, sync_worker);
\* but for two threads that were inside PQsendQueryParams of db[0] at once.
AtMostOnce == misused \/ \A r \in 1..MaxRows : stored[r] <= 1

\* Without a crash and without such a race no row disappears: each is waiting,
\* in the bucket of a saver, or in the table.
Held(r) == r \in Rows(insert_statements) \/ \E t \in Savers : r \in Rows(bucket[t])
NothingLost == crashed \/ misused \/ \A r \in 1..made : Held(r) \/ stored[r] > 0

\* Held in memory, or in an INSERT the server has yet to decide on.
InFlight(r) == Held(r) \/ \E q \in running : r \in Rows(q.rows)

\* "Save success" is logged only for rows that are in the table: a saver
\* that goes back to its loop has nothing left that could be lost.  Of the two
\* that share db[0] it is true until they have been in PQsendQueryParams at once.
SuccessMeansStored ==
    [][\A t \in Savers : /\ t \in Sole \/ ~misused
                         /\ bucket'[t] # bucket[t] /\ bucket'[t] = <<>> /\ alive'
           => \A r \in Rows(bucket[t]) : stored[r] > 0]_vars

\* Two commands written at the same time never go unnoticed, although libpq does
\* not see it: one of the two threads has yet to come to taopq's second look at
\* the current transaction, in get_result, and will find that of another thread
\* or none.  It throws, and with the process the mixed stream ends.
RaceNoticed == mixed # {} =>
    \E t \in mixed : pc[t] \in {"flush", "check"} /\ current[Conn(t)] # t

\* No INSERT without rows reaches the server: it would be a syntax error,
\* and the exception would terminate the process (sync_worker, size() == 0).
NoEmptyInsert == \A q \in running : q.rows # <<>>

\* Every row leaves memory, however few rows follow it, also after crashes and
\* races: with NothingLost and SuccessMeansStored, into the table or in a crash.
EveryRowLeaves == \A r \in 1..MaxRows : Held(r) ~> ~Held(r)

\* The saving half implements Delivery: a row is stored with its whole INSERT
\* and lost only in or after a crash, or a race of two threads in libpq.
Status(r) == IF r > made THEN "new"
             ELSE IF stored[r] > 0 THEN "stored"
             ELSE IF InFlight(r) THEN "held" ELSE "lost"
D == INSTANCE Delivery WITH status <- [r \in 1..MaxRows |-> Status(r)],
                            crashed <- crashed \/ misused
Implements == D!Spec

\* What the library asserts in the constructor of every transaction: it is
\* begun on a connection that has none (taopq's connection.cpp:31-33, "invalid
\* transaction order").
TransactionOrder == \A t \in Savers : pc[t] = "begin" => current[Conn(t)] = None
=============================================================================
