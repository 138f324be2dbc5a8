---------------------------- MODULE SaveClickhouse -----------------------------
(***************************************************************************)
(* The saving half of the collector on ClickHouse.  The workers are those  *)
(* of Save; the library is not: clickhouse-cpp has no transaction, looks   *)
(* at nothing before it writes, and takes the packets from the server as   *)
(* answers to whatever it is executing.  Write worker i uses db[i]; the    *)
(* sync worker uses db[0] too, with no lock.                               *)
(*                                                                         *)
(* A statement goes out in two pieces, as the stream's buffer is flushed   *)
(* more than once for it; a packet has a type and, if it is no end, a      *)
(* rest.  Two threads inside one client are a data race: pieces are lost   *)
(* or sent twice, packets are read twice or from the middle.               *)
(***************************************************************************)
EXTENDS Naturals, Sequences, FiniteSets

CONSTANTS WRITE_THREADS,   \* number of write workers and of clients
          SAVE_THRESHOLD,  \* rows a write worker waits for
          Sync,            \* the sync worker
          None,            \* no query
          MaxRows          \* bound of the model: rows pushed in a behaviour

ASSUME SaveClickhouseAssumption ==
    /\ WRITE_THREADS \in Nat \ {0}
    /\ SAVE_THRESHOLD \in Nat \ {0}
    /\ MaxRows \in Nat
    /\ Sync \notin Nat
    /\ None \notin Nat \cup {Sync}

Writers == 0..(WRITE_THREADS - 1)
Savers == Writers \cup {Sync}

\* Mutant: every worker uses the first client.
Conn_First(t) == 0

\* db[index] of a write worker, db[0] of the sync worker.
Conn(t) == IF t = Sync THEN 0 ELSE t

VARIABLES insert_statements, \* rows not yet drained, front first; a row is its number
          made,              \* number of rows pushed so far
          bucket,            \* the local deque of each saver
          pc,                \* where each saver is in its loop and in ExecuteQuery
          events_,           \* the saver whose Query each client points to
          out,               \* the pieces each server session has yet to look at
          in,                \* the packets each client has yet to read
          orphans,           \* INSERTs of processes that have terminated
          stored,            \* how often each row is in the table
          alive,             \* the process runs
          crashed,           \* history: it has terminated at least once
          misused            \* history: two threads were inside one client

memory == <<insert_statements, made, bucket>>
client == <<pc, events_>>
wire == <<out, in>>
server == <<orphans, stored>>
process == <<alive, crashed, misused>>
vars == <<memory, client, wire, server, process>>

Queue == INSTANCE WaitQueue
             WITH Consumers <- Writers, Flushers <- {Sync},
                  Threshold <- SAVE_THRESHOLD, TakeAll <- TRUE, MaxItems <- MaxRows,
                  queue <- insert_statements, holds <- bucket

Rows(s) == {s[i] : i \in DOMAIN s}

Init == /\ Queue!Init
        /\ pc = [t \in Savers |-> "idle"]
        /\ events_ = [c \in Writers |-> None]
        /\ out = [c \in Writers |-> <<>>]
        /\ in = [c \in Writers |-> <<>>]
        /\ orphans = {}
        /\ stored = [r \in 1..MaxRows |-> 0]
        /\ alive = TRUE
        /\ crashed = FALSE
        /\ misused = FALSE

Move(t, from, to) == /\ alive
                     /\ pc[t] = from
                     /\ pc' = [pc EXCEPT ![t] = to]

Piece(t, part) == [part |-> part, rows |-> bucket[t]]

\* A whole statement at the start of what the server has received.
Whole(s) == /\ Len(s) >= 2
            /\ s[1].part = "head" /\ s[2].part = "tail" /\ s[1].rows = s[2].rows

\* An exception is caught nowhere: the process terminates.  The server may
\* still carry out what it has received.
Terminate == /\ insert_statements' = <<>>
             /\ bucket' = [t \in Savers |-> <<>>]
             /\ pc' = [t \in Savers |-> "idle"]
             /\ events_' = [c \in Writers |-> None]
             /\ out' = [c \in Writers |-> <<>>]
             /\ in' = [c \in Writers |-> <<>>]
             /\ orphans' = orphans \cup {out[c][1].rows : c \in {d \in Writers : Whole(out[d])}}
             /\ alive' = FALSE
             /\ crashed' = TRUE
             /\ UNCHANGED <<made, stored, misused>>

-----------------------------------------------------------------------------
(* write_worker and sync_worker.                                           *)

\* A read worker has a valid row.
Push == alive /\ Queue!Put /\ UNCHANGED <<client, wire, server, process>>

\* Mutant: the sync worker waits for the threshold.
Drain_Threshold(t) == /\ Len(insert_statements) >= SAVE_THRESHOLD
                      /\ Move(t, "idle", "enter")
                      /\ Queue!Take(t)
                      /\ UNCHANGED <<events_, wire, server, process>>

Drain(t) == /\ Move(t, "idle", "enter")
            /\ Queue!Take(t)
            /\ UNCHANGED <<events_, wire, server, process>>

SyncNothing == /\ alive
               /\ pc[Sync] = "idle"
               /\ insert_statements = <<>>
               /\ UNCHANGED vars

-----------------------------------------------------------------------------
(* Client::Impl::ExecuteQuery.                                             *)

Inside == {"head", "tail", "await", "rest", "leave"}
Others(t, labels) == {u \in Savers \ {t} : Conn(u) = Conn(t) /\ pc[u] \in labels}

\* EnsureNull: the client points to this query.
Enter(t) == /\ Move(t, "enter", "head")
            /\ events_' = [events_ EXCEPT ![Conn(t)] = t]
            /\ misused' = (misused \/ Others(t, Inside) # {})
            /\ UNCHANGED <<memory, wire, server, alive, crashed>>

\* SendQuery writes to the buffer of the stream and flushes it.  When another
\* thread does so too, what is in the buffer may be lost or flushed twice.
SendQuery(t, from, to, piece, again) ==
    /\ Move(t, from, to)
    /\ \E s \in {<<piece>>} \cup
                (IF Others(t, {"head", "tail"}) = {} THEN {} ELSE {<<>>, again}) :
           out' = [out EXCEPT ![Conn(t)] = @ \o s]
    /\ UNCHANGED <<memory, events_, in, server, process>>

SendHead(t) == SendQuery(t, "head", "tail", Piece(t, "head"), <<Piece(t, "head")>>)
SendTail(t) == SendQuery(t, "tail", "await", Piece(t, "tail"),
                         <<Piece(t, "tail"), Piece(t, "head"), Piece(t, "tail")>>)

\* The next packet of the stream leaves it, unless another thread reads the
\* same bytes.
Consume(t) == \E s \in {Tail(in[Conn(t)])} \cup
                       (IF Others(t, {"await", "rest"}) = {} THEN {} ELSE {in[Conn(t)]}) :
                  in' = [in EXCEPT ![Conn(t)] = s]

NextPacket(t) == Head(in[Conn(t)])
Available(t) == in[Conn(t)] # <<>>

\* ReceivePacket reads the type of a packet.  The middle of one may look like
\* any type, or like none, which ends the loop as the end of the stream does.
ReceivePacket(t) == /\ Available(t)
                    /\ \/ NextPacket(t) \in {"progress", "rest"} /\ Move(t, "await", "rest")
                       \/ NextPacket(t) \in {"end", "rest"} /\ Move(t, "await", "leave")
                    /\ Consume(t)
                    /\ UNCHANGED <<memory, events_, out, server, process>>

\* ... and then what comes after the type, whatever it is.
ReadRest(t) == /\ Available(t)
               /\ Move(t, "rest", "await")
               /\ Consume(t)
               /\ UNCHANGED <<memory, events_, out, server, process>>

\* Mutant: the exception is caught, and the bucket dropped.
Throw_Swallow(t) == /\ Available(t) /\ NextPacket(t) \in {"exception", "rest"}
                    /\ Move(t, "await", "idle")
                    /\ events_' = [events_ EXCEPT ![Conn(t)] = None]
                    /\ Queue!Finish(t)
                    /\ Consume(t)
                    /\ UNCHANGED <<out, server, process>>

\* ServerError, or UnimplementedError for a type that does not exist.
Throw(t) == /\ alive
            /\ pc[t] = "await" /\ Available(t) /\ NextPacket(t) \in {"exception", "rest"}
            /\ Terminate

\* Mutant: the client goes on pointing to the query.
Leave_Dangling(t) == /\ Move(t, "leave", "idle")
                     /\ Queue!Finish(t)
                     /\ UNCHANGED <<events_, wire, server, process>>

\* ~EnsureNull, and "Save success" is logged.
Leave(t) == /\ Move(t, "leave", "idle")
            /\ events_' = [events_ EXCEPT ![Conn(t)] = None]
            /\ Queue!Finish(t)
            /\ UNCHANGED <<wire, server, process>>

-----------------------------------------------------------------------------
(* The server, one session for each client, and the network.               *)

StoreRows(rows) == stored' = [r \in 1..MaxRows |->
                                  IF r \in Rows(rows) THEN stored[r] + 1 ELSE stored[r]]

Received(c, n) == out' = [out EXCEPT ![c] = SubSeq(@, n + 1, Len(@))]
Answer(c, packets) == in' = [in EXCEPT ![c] = @ \o packets]

\* A statement is carried out: progress may be reported before its end.
Commit(c) == /\ Whole(out[c])
             /\ StoreRows(out[c][1].rows)
             /\ Received(c, 2)
             /\ \E p \in {<<>>, <<"progress", "rest">>} : Answer(c, p \o <<"end">>)
             /\ UNCHANGED <<memory, client, orphans, process>>

\* It is refused; or what has been received is no statement.
Refuse(c) == /\ Len(out[c]) >= 2 \/ (out[c] # <<>> /\ out[c][1].part = "tail")
             /\ Received(c, IF Whole(out[c]) THEN 2 ELSE Len(out[c]))
             /\ Answer(c, <<"exception">>)
             /\ UNCHANGED <<memory, client, server, process>>

\* The statement of a process that is gone is carried out, or is not.
FinishOrphan(rows) == /\ orphans' = orphans \ {rows}
                      /\ StoreRows(rows) \/ UNCHANGED stored
                      /\ UNCHANGED <<memory, client, wire, process>>

\* Mutant: the statement is sent again on a new connection.
LoseConnection_Retry(t) ==
    /\ Move(t, "await", "enter")
    /\ out' = [out EXCEPT ![Conn(t)] = <<>>]
    /\ in' = [in EXCEPT ![Conn(t)] = <<>>]
    /\ events_' = [events_ EXCEPT ![Conn(t)] = None]
    /\ orphans' = IF Whole(out[Conn(t)]) THEN orphans \cup {out[Conn(t)][1].rows} ELSE orphans
    /\ UNCHANGED <<memory, stored, process>>

\* The connection breaks under a saver: recv or send fails, and throws.
LoseConnection(t) == alive /\ pc[t] \in Inside /\ Terminate

\* The service manager starts the collector again (Restart=on-failure).
Restart == /\ ~alive
           /\ alive' = TRUE
           /\ UNCHANGED <<memory, client, wire, server, crashed, misused>>

-----------------------------------------------------------------------------
SaverStep(t) == \/ Enter(t) \/ SendHead(t) \/ SendTail(t) \/ ReceivePacket(t)
                \/ ReadRest(t) \/ Throw(t) \/ Leave(t)
ServerStep(c) == Commit(c) \/ Refuse(c)

Next == \/ Push
        \/ SyncNothing
        \/ \E t \in Savers : Drain(t) \/ SaverStep(t) \/ LoseConnection(t)
        \/ \E c \in Writers : ServerStep(c)
        \/ \E rows \in orphans : FinishOrphan(rows)
        \/ Restart

Spec == Init /\ [][Next]_vars

\* As in Save: threads run, the sync worker wakes up, the server decides.
Fairness == /\ WF_vars(Drain(Sync))
            /\ \A t \in Savers : WF_vars(SaverStep(t))
            /\ \A c \in Writers : WF_vars(ServerStep(c))

FairSpec == Spec /\ Fairness

-----------------------------------------------------------------------------
Pieces == [part : {"head", "tail"}, rows : Seq(1..made)]

TypeOK == /\ made \in 0..MaxRows
          /\ insert_statements \in Seq(1..made)
          /\ bucket \in [Savers -> Seq(1..made)]
          /\ pc \in [Savers -> {"idle", "enter"} \cup Inside]
          /\ events_ \in [Writers -> Savers \cup {None}]
          /\ out \in [Writers -> Seq(Pieces)]
          /\ in \in [Writers -> Seq({"progress", "rest", "end", "exception"})]
          /\ orphans \subseteq Seq(1..made)
          /\ stored \in [1..MaxRows -> Nat]
          /\ alive \in BOOLEAN /\ crashed \in BOOLEAN /\ misused \in BOOLEAN

\* What a client points to is the Query of a thread that is inside it, also
\* when two are: the pointer never outlives the stack it leads to (EnsureNull).
EventsAlive == \A c \in Writers :
    events_[c] # None => Conn(events_[c]) = c /\ pc[events_[c]] \in Inside

\* The savers that share no client.
Sole == Savers \ {0, Sync}

\* "Save success" is logged only for rows that are in the table: always by a
\* worker with a client of its own, whatever happens on the shared one, and
\* by the other two as long as they have not been inside it at once.
SuccessUnlessShared ==
    [][\A t \in Savers : (t \in Sole \/ ~misused) /\ bucket[t] # <<>> /\ bucket'[t] = <<>> /\ alive'
           => \A r \in Rows(bucket[t]) : stored[r] > 0]_vars

\* No row is in the table twice, through lost answers, crashes and restarts,
\* unless the shared client was used by two at once.
AtMostOnceUnlessShared == misused \/ \A r \in 1..MaxRows : stored[r] <= 1

\* Nobody waits for ever for a packet that another thread has taken, but for
\* such a use of the shared client.
Held(r) == r \in Rows(insert_statements) \/ \E t \in Savers : r \in Rows(bucket[t])
EveryRowLeaves == \A r \in 1..MaxRows : Held(r) ~> (~Held(r) \/ misused)

InFlight(r) == \/ Held(r)
               \/ \E c \in Writers : \E i \in DOMAIN out[c] : r \in Rows(out[c][i].rows)
               \/ \E rows \in orphans : r \in Rows(rows)
Status(r) == IF r > made THEN "new"
             ELSE IF stored[r] > 0 THEN "stored"
             ELSE IF InFlight(r) THEN "held" ELSE "lost"
D == INSTANCE Delivery WITH status <- [r \in 1..MaxRows |-> Status(r)],
                            crashed <- crashed \/ misused

\* The ClickHouse half promises what the Postgres half does (Delivery), with
\* one more reason for a loss: two threads inside one client.
Implements == D!Spec
===============================================================================
