------------------------------ MODULE Collector ------------------------------
(***************************************************************************)
(* The whole collector: Ingest and Save joined where a read worker pushes  *)
(* a row to insert_statements.  Row number k of Save is rows[k] of Ingest. *)
(* A crash, which only the saving half causes, takes the receiving half    *)
(* with it: the sockets are closed and what they held is gone; clients     *)
(* that were not connected connect after the restart.  Until it crashes, a *)
(* process in which two threads have been inside libpq at once may lose or *)
(* double rows (misused).                                                  *)
(***************************************************************************)
EXTENDS Naturals, Sequences, FiniteSets, SequencesExt

CONSTANTS Clients, CONN_THREADS, READ_THREADS, MAXIMUM_CONNECTIONS, MaxFds,
          BUFFER_SIZE, Sizes, MaxMessages, Paced, None,
          WRITE_THREADS, SAVE_THRESHOLD, Sync, MaxRows, MaxMixed

VARIABLES backlog, fds, conn_queue, serving, stream, closed, sent, copying, buf,
          reads, read_queue, parsing, got, rows, dropped,
          insert_statements, made, bucket, pc, current, busy, mixed, running, reply,
          stored, alive, crashed, misused

S == INSTANCE Save
R == INSTANCE Relay WITH status <- [r \in 1..MaxRows |-> S!Status(r)],
                         crashed <- crashed \/ misused

\* What the two halves assume, of the same constants.
ASSUME CollectorAssumption ==
    /\ IsFiniteSet(CONN_THREADS) /\ IsFiniteSet(READ_THREADS)
    /\ MAXIMUM_CONNECTIONS \in Nat \ {0}
    /\ MaxFds \in Nat
    /\ BUFFER_SIZE \in Nat \ {0}
    /\ Sizes \subseteq Nat \ {0}
    /\ MaxMessages \in Nat
    /\ Paced \in BOOLEAN
    /\ WRITE_THREADS \in Nat \ {0}
    /\ SAVE_THRESHOLD \in Nat \ {0}
    /\ MaxRows \in Nat
    /\ MaxMixed \in Nat
    /\ Sync \notin Nat
    /\ None \notin Clients \cup CONN_THREADS \cup Nat \cup {Sync}

ingestVars == <<backlog, fds, conn_queue, serving, stream, closed, sent, copying, buf,
                reads, read_queue, parsing, got, rows, dropped>>
saveVars == <<insert_statements, made, bucket, pc, current, busy, mixed, running, reply,
              stored, alive, crashed, misused>>
vars == <<ingestVars, saveVars>>

Init == R!Init /\ S!Init

\* The receiving half works on while the process runs.  (A client that wants
\* to connect to a dead process is refused.)
Receive == alive /\ R!Receive /\ UNCHANGED saveVars

\* Mutant: a valid row is not pushed.
PushRow_Lost(r) == R!PushRow(r) /\ alive /\ UNCHANGED saveVars

\* read_worker pushes a row: the history of Ingest and the deque of Save.
PushRow(r) == R!PushRow(r) /\ S!Push

\* A saver goes on, but for those steps that end the process.
SaverStep(t) == \/ S!TestCurrent(t) \/ S!Claim(t) \/ S!Order(t) \/ S!Send(t)
                \/ S!Flush(t) \/ S!CheckCurrent(t) \/ S!Receive(t) \/ S!Finish(t)

\* The saving half works; the receiving half does not notice.
SaveOn == /\ \/ S!SyncNothing
             \/ \E t \in S!Savers : S!Drain(t) \/ SaverStep(t)
             \/ \E q \in running : S!Commit(q) \/ S!Reject(q)
          /\ UNCHANGED ingestVars

\* The process terminates.
Crash == /\ \E t \in S!Savers : S!Throw(t) \/ S!LoseConnection(t)
         /\ R!LoseMemory

Restart == S!Restart /\ UNCHANGED ingestVars

Next == \/ Receive
        \/ \E r \in READ_THREADS : PushRow(r)
        \/ SaveOn
        \/ Crash
        \/ Restart

Spec == Init /\ [][Next]_vars

\* As in the two halves.  Clients close in the end, the server decides.
Fairness ==
    /\ WF_vars(alive /\ R!Accept /\ UNCHANGED saveVars)
    /\ \A w \in CONN_THREADS : WF_vars(alive /\ R!ConnStep(w) /\ UNCHANGED saveVars)
    /\ \A r \in READ_THREADS :
           WF_vars(PushRow(r) \/ (alive /\ R!ReadStep(r) /\ UNCHANGED saveVars))
    /\ \A c \in Clients : WF_vars(alive /\ R!Close(c) /\ UNCHANGED saveVars)
    /\ WF_vars(S!Drain(Sync) /\ UNCHANGED ingestVars)
    /\ \A t \in S!Savers :
           /\ WF_vars(SaverStep(t) /\ UNCHANGED ingestVars)
           /\ WF_vars(S!Throw(t) /\ R!LoseMemory)
    /\ WF_vars((\E q \in running : S!Commit(q) \/ S!Reject(q)) /\ UNCHANGED ingestVars)

FairSpec == Spec /\ Fairness

-----------------------------------------------------------------------------
\* What there is of a message in the table.
Copies(m) == UNION {{k} \X (1..stored[k]) : k \in R!CarriedBy(m)}

\* A message of a paced client is in the table at most once, whatever is
\* overwritten, drained together, half answered or crashed on the way; but for
\* two threads that were inside PQsendQueryParams of db[0] at once.
StoredOnce == misused \/ \A m \in DOMAIN sent : Cardinality(Copies(m)) <= 1

\* The collector on Postgres implements what Relay says of one on any database:
\* what happens to rows is what Save promises, and only a crash reaches both
\* halves.
ImplementsRelay == R!RelaySpec

\* The collector as a whole implements Delivery, of messages of paced clients:
\* held from the moment they are sent, then stored or lost, and lost only in or
\* after a crash or such a race.
EndToEnd == R!EndToEnd

\* Every message of a paced client reaches the table, unless the process
\* terminates or has had such a race.
EveryMessageStored ==
    \A m \in 1..MaxMessages : (m \in DOMAIN sent /\ ~(crashed \/ misused))
        ~> (crashed \/ misused \/ \E k \in R!CarriedBy(m) : stored[k] > 0)
=============================================================================
