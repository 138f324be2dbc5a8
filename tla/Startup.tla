------------------------------- MODULE Startup --------------------------------
(***************************************************************************)
(* From main() to the accept loop: the configuration, the socket file, the *)
(* threads and the database connections, in the order the code has them;   *)
(* and, after an error or a crash, the start by the service manager.       *)
(*                                                                         *)
(* Several processes may run at once, one by hand and one as a service:    *)
(* they share the socket file, whose name is fixed, and nothing else.      *)
(***************************************************************************)
EXTENDS Naturals

CONSTANTS Processes,      \* processes of the collector
          Services,       \* those the service manager keeps running
          None,
          Files,          \* contents of ~/.evenscriberc: what is under each name
          WITH_OPENSSL,   \* how clickhouse-cpp is built
          WRITE_THREADS,  \* write workers, with a connection each
          MaxFailures     \* bound of the model: failures of the environment

ASSUME StartupAssumption ==
    /\ None \notin Processes
    /\ Services \subseteq Processes
    /\ WITH_OPENSSL \in BOOLEAN
    /\ WRITE_THREADS \in Nat \ {0}
    /\ MaxFailures \in Nat

Writers == 0..(WRITE_THREADS - 1)
Others == {"conn", "read", "sync"}    \* the threads that are no write workers

VARIABLES config,     \* the configuration file
          pc,         \* where each process is in main(), or "down"
          index,      \* the loop variable of run()
          db,         \* the connections each process has made
          writers,    \* the write workers of each process
          threads,    \* its other threads
          file,       \* the process whose socket the socket file leads to; the
                      \* file stays when that process ends
          listening,  \* the processes whose socket listens
          failures    \* failures of the environment so far

progress == <<index, db, writers, threads>>
socket == <<file, listening>>
vars == <<config, pc, progress, socket, failures>>

Init == /\ config \in Files
        /\ pc = [p \in Processes |-> "down"]
        /\ index = [p \in Processes |-> 0]
        /\ db = [p \in Processes |-> {}]
        /\ writers = [p \in Processes |-> {}]
        /\ threads = [p \in Processes |-> {}]
        /\ file = None
        /\ listening = {}
        /\ failures = 0

Move(p, from, to) == /\ pc[p] = from
                     /\ pc' = [pc EXCEPT ![p] = to]
                     /\ UNCHANGED <<config, failures>>

\* error() or an uncaught exception ends the process with a status that is
\* not 0.  All it has is gone, but for the socket file.
End(p) == /\ pc' = [pc EXCEPT ![p] = "down"]
          /\ index' = [index EXCEPT ![p] = 0]
          /\ db' = [db EXCEPT ![p] = {}]
          /\ writers' = [writers EXCEPT ![p] = {}]
          /\ threads' = [threads EXCEPT ![p] = {}]
          /\ listening' = listening \ {p}
          /\ UNCHANGED <<config, file>>

-----------------------------------------------------------------------------
(* config_to_tuple.                                                        *)

\* The service manager or a user starts the process.
Start(p) == Move(p, "down", "config") /\ UNCHANGED <<progress, socket>>

Kind == config["database_kind"]

\* The fields the switch on database_kind asks for, and their types.
Needed == {"host", "port", "user", "password"}
              \cup (IF Kind = "postgres" THEN {"dbname"} ELSE {})
Configured == /\ Kind \in {"postgres", "clickhouse"}
              /\ \A f \in Needed : config[f] = IF f = "port" THEN "number" ELSE "string"

ReadConfig(p) == /\ Configured
                 /\ Move(p, "config", "socket")
                 /\ UNCHANGED <<progress, socket>>

\* There is no such file, it is no JSON, or a field is missing or has
\* another type.
RefuseConfig(p) == pc[p] = "config" /\ ~Configured /\ End(p) /\ UNCHANGED failures

-----------------------------------------------------------------------------
(* Socket::Socket.                                                         *)

\* Mutant: the file is not removed.
Sanitize_Keep(p) == Move(p, "socket", "bind") /\ UNCHANGED <<progress, socket>>

\* remove(SOCKET_PATH), whoever has made it.
Sanitize(p) == /\ Move(p, "socket", "bind")
               /\ file' = None
               /\ UNCHANGED <<progress, listening>>

\* bind() makes the file; from listen() on clients can connect.
BindAndListen(p) == /\ file = None
                    /\ Move(p, "bind", "threads")
                    /\ file' = p
                    /\ listening' = listening \cup {p}
                    /\ UNCHANGED progress

\* Another process has made the file since it was removed.
BindFails(p) == pc[p] = "bind" /\ file # None /\ End(p) /\ UNCHANGED failures

-----------------------------------------------------------------------------
(* Postgres::run and Clickhouse::run.                                      *)

\* The connection workers and the read workers come first.
CreateThreads(p) == /\ Move(p, "threads", "connect")
                    /\ threads' = [threads EXCEPT ![p] = {"conn", "read"}]
                    /\ UNCHANGED <<index, db, writers, socket>>

\* Without OpenSSL a Client that is given SSL options throws.
CanConnect == Kind = "postgres" \/ WITH_OPENSSL

\* Mutant: the write worker is created before its connection.
Connect_Late(p) == /\ CanConnect
                   /\ Move(p, "connect", "create")
                   /\ writers' = [writers EXCEPT ![p] = @ \cup {index[p]}]
                   /\ UNCHANGED <<index, db, threads, socket>>

\* The loop: db[index] is connected ...
Connect(p) == /\ CanConnect
              /\ Move(p, "connect", "create")
              /\ db' = [db EXCEPT ![p] = @ \cup {index[p]}]
              /\ UNCHANGED <<index, writers, threads, socket>>

ClientThrows(p) == pc[p] = "connect" /\ ~CanConnect /\ End(p) /\ UNCHANGED failures

\* Mutant: the loop ends one write worker early.
CreateWriter_Short(p) ==
    /\ Move(p, "create", IF index[p] + 2 < WRITE_THREADS THEN "connect" ELSE "sync")
    /\ writers' = [writers EXCEPT ![p] = @ \cup {index[p]}]
    /\ index' = [index EXCEPT ![p] = @ + 1]
    /\ UNCHANGED <<db, threads, socket>>

\* ... and then write worker index is created.
CreateWriter(p) ==
    /\ Move(p, "create", IF index[p] + 1 < WRITE_THREADS THEN "connect" ELSE "sync")
    /\ writers' = [writers EXCEPT ![p] = @ \cup {index[p]}]
    /\ index' = [index EXCEPT ![p] = @ + 1]
    /\ UNCHANGED <<db, threads, socket>>

\* The sync worker is the last; main() goes on to handle_message().
CreateSync(p) == /\ Move(p, "sync", "accept")
                 /\ threads' = [threads EXCEPT ![p] = @ \cup {"sync"}]
                 /\ UNCHANGED <<index, db, writers, socket>>

-----------------------------------------------------------------------------
\* The environment fails a process: socket() or listen() fails, a thread
\* cannot be created, the database is away, or later a save throws.
Fail(p) == /\ failures < MaxFailures
           /\ failures' = failures + 1
           /\ pc[p] # "down"
           /\ End(p)

\* The accept loop runs for ever; Ingest has what it does.
AcceptLoop(p) == pc[p] = "accept" /\ UNCHANGED vars

Run(p) == \/ ReadConfig(p) \/ RefuseConfig(p)
          \/ Sanitize(p) \/ BindAndListen(p) \/ BindFails(p)
          \/ CreateThreads(p) \/ Connect(p) \/ ClientThrows(p)
          \/ CreateWriter(p) \/ CreateSync(p)

Next == \E p \in Processes : Start(p) \/ Run(p) \/ AcceptLoop(p) \/ Fail(p)

Spec == Init /\ [][Next]_vars

\* A process runs on, and the service manager starts a service again after a
\* failure (Restart=on-failure).
FairSpec == /\ Spec
            /\ \A p \in Processes : WF_vars(Run(p))
            /\ \A p \in Services : WF_vars(Start(p))

-----------------------------------------------------------------------------
TypeOK == /\ config \in Files
          /\ pc \in [Processes -> {"down", "config", "socket", "bind", "threads",
                                   "connect", "create", "sync", "accept"}]
          /\ index \in [Processes -> 0..WRITE_THREADS]
          /\ db \in [Processes -> SUBSET Writers]
          /\ writers \in [Processes -> SUBSET Writers]
          /\ threads \in [Processes -> SUBSET Others]
          /\ file \in Processes \cup {None}
          /\ listening \subseteq Processes
          /\ failures \in 0..MaxFailures

\* A thread that uses db[i] finds it connected, also when it runs before its
\* creator goes on: write worker i, and the sync worker, which uses db[0].
ConnectionBeforeUse == \A p \in Processes :
    /\ writers[p] \subseteq db[p]
    /\ "sync" \in threads[p] => 0 \in db[p]

Serving(p) == pc[p] = "accept"
Reachable(p) == file = p /\ p \in listening

\* A process that accepts is whole: it had a complete configuration, and all
\* its threads run, so that no queue it fills is without a consumer.
ServingIsWhole == \A p \in Processes :
    Serving(p) => Configured /\ writers[p] = Writers /\ threads[p] = Others

\* Whatever failed or crashed before, and however processes race for the
\* socket file, in the end one of them serves and clients reach it; unless
\* one that is no service took the file and then ended for good.
SomeoneServes == (Configured /\ CanConnect) =>
    \/ <>[](\E p \in Processes : Serving(p) /\ Reachable(p))
    \/ <>[](\E q \in Processes \ Services : pc[q] = "down" /\ file \in {q, None})

\* "clickhouse || postgres" (README.md:16): with either database the
\* collector comes to serve, once the types of the fields are right.
EitherDatabaseServes == Configured => <>(\E p \in Processes : Serving(p))
===============================================================================
