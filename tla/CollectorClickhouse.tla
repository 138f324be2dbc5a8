-------------------------- MODULE CollectorClickhouse --------------------------
(***************************************************************************)
(* The whole collector on ClickHouse: as Collector, with SaveClickhouse.   *)
(* A row, and with it a message, may also be lost when two threads are     *)
(* inside one client; the process then goes on.  The constants are those   *)
(* of Collector, with what it assumes of them.                             *)
(***************************************************************************)
EXTENDS Naturals, Sequences, FiniteSets

CONSTANTS Clients, CONN_THREADS, READ_THREADS, MAXIMUM_CONNECTIONS, MaxFds,
          BUFFER_SIZE, Sizes, MaxMessages, Paced, None,
          WRITE_THREADS, SAVE_THRESHOLD, Sync, MaxRows

VARIABLES backlog, fds, conn_queue, serving, stream, closed, sent, copying, buf,
          reads, read_queue, parsing, got, rows, dropped,
          insert_statements, made, bucket, pc, events_, out, in, orphans, stored,
          alive, crashed, misused

S == INSTANCE SaveClickhouse
R == INSTANCE Relay WITH status <- [r \in 1..MaxRows |-> S!Status(r)],
                         crashed <- crashed \/ misused

ingestVars == <<backlog, fds, conn_queue, serving, stream, closed, sent, copying, buf,
                reads, read_queue, parsing, got, rows, dropped>>
saveVars == <<insert_statements, made, bucket, pc, events_, out, in, orphans, stored,
              alive, crashed, misused>>
vars == <<ingestVars, saveVars>>

Init == R!Init /\ S!Init

Receive == alive /\ R!Receive /\ UNCHANGED saveVars

\* read_worker pushes a row: the history of Ingest and the deque of Save.
PushRow(r) == R!PushRow(r) /\ S!Push

\* A saver goes on, but for those steps that end the process.
SaverStep(t) == \/ S!Enter(t) \/ S!SendHead(t) \/ S!SendTail(t)
                \/ S!ReceivePacket(t) \/ S!ReadRest(t) \/ S!Leave(t)

SaveOn == /\ \/ S!SyncNothing
             \/ \E t \in S!Savers : S!Drain(t) \/ SaverStep(t)
             \/ \E c \in S!Writers : S!ServerStep(c)
             \/ \E q \in orphans : S!FinishOrphan(q)
          /\ UNCHANGED ingestVars

Crash == /\ \E t \in S!Savers : S!Throw(t) \/ S!LoseConnection(t)
         /\ R!LoseMemory

Restart == S!Restart /\ UNCHANGED ingestVars

Next == \/ Receive
        \/ \E r \in READ_THREADS : PushRow(r)
        \/ SaveOn
        \/ Crash
        \/ Restart

Spec == Init /\ [][Next]_vars

-----------------------------------------------------------------------------
Copies(m) == UNION {{k} \X (1..stored[k]) : k \in R!CarriedBy(m)}

\* A message of a paced client is in the table at most once, unless two threads
\* have been inside the shared client.
StoredOnceUnlessShared ==
    misused \/ \A m \in DOMAIN sent : Cardinality(Copies(m)) <= 1

\* The collector on ClickHouse, too, implements what Relay says of one on any
\* database: a misuse of the shared client loses or stores rows, and reaches
\* nothing of the receiving half.
ImplementsRelay == R!RelaySpec

\* ... and hence Delivery, of messages of paced clients.
EndToEnd == R!EndToEnd
================================================================================
