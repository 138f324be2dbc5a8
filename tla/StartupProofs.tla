----------------------------- MODULE StartupProofs -----------------------------
(***************************************************************************)
(* Theorems about Startup, for any number of processes, write workers and  *)
(* failures, and any configuration file: what run() has made when it is at *)
(* a certain point.                                                        *)
(***************************************************************************)
EXTENDS Startup, TLAPS

\* The write workers and connections before index are there; a connection is
\* one ahead between the two halves of the loop.
Upto(n) == 0..(n - 1)

Early == {"down", "config", "socket", "bind", "threads"}
FirstThreads == {"conn", "read"}

Progress(p) ==
    /\ pc[p] \in Early => index[p] = 0 /\ db[p] = {} /\ writers[p] = {} /\ threads[p] = {}
    /\ pc[p] \in {"connect", "create", "sync"} => threads[p] = FirstThreads
    /\ pc[p] \in {"connect", "create"} => index[p] < WRITE_THREADS
    /\ pc[p] \in {"connect", "create", "sync", "accept"} => writers[p] = Upto(index[p])
    /\ pc[p] \in {"connect", "sync", "accept"} => db[p] = Upto(index[p])
    /\ pc[p] = "create" => db[p] = Upto(index[p] + 1)
    /\ pc[p] \in {"sync", "accept"} => index[p] = WRITE_THREADS
    /\ pc[p] = "accept" => threads[p] = Others
    /\ pc[p] \notin {"down", "config"} => Configured

IInv == TypeOK /\ \A p \in Processes : Progress(p)

-----------------------------------------------------------------------------
\* The invariant holds at first: every process is down.
LEMMA InitInv == Init => IInv
<1> SUFFICES ASSUME Init PROVE IInv
  OBVIOUS
<1>1. TypeOK
  BY StartupAssumption DEF Init, TypeOK
<1>2. \A p \in Processes : Progress(p)
  BY DEF Init, Progress, Early
<1>. QED
  BY <1>1, <1>2 DEF IInv

\* What is used of a step of process p: the others stay as they are.
OthersStay(p) == \A q \in Processes \ {p} :
    /\ pc'[q] = pc[q] /\ index'[q] = index[q] /\ db'[q] = db[q]
    /\ writers'[q] = writers[q] /\ threads'[q] = threads[q]

LEMMA StepInv ==
    ASSUME IInv, NEW p \in Processes, OthersStay(p), TypeOK', Progress(p)', config' = config
    PROVE  IInv'
<1>1. \A q \in Processes \ {p} : Progress(q)'
  BY DEF IInv, OthersStay, Progress, Configured, Needed, Kind
<1>. QED
  BY <1>1 DEF IInv

\* The end of a process, for whatever reason, leaves nothing of it.
LEMMA EndInv ==
    ASSUME IInv, NEW p \in Processes, End(p), failures' \in 0..MaxFailures
    PROVE  IInv'
<1>1. TypeOK'
  BY StartupAssumption DEF IInv, TypeOK, End
<1>2. OthersStay(p)
  BY DEF IInv, TypeOK, End, OthersStay
<1>3. /\ pc'[p] = "down" /\ index'[p] = 0 /\ db'[p] = {}
      /\ writers'[p] = {} /\ threads'[p] = {}
  BY DEF IInv, TypeOK, End
<1>4. Progress(p)'
  BY <1>3 DEF Progress, Early
<1>. QED
  BY <1>1, <1>2, <1>4, StepInv DEF End

\* Before run(): nothing is made, and the configuration has been tested.
LEMMA EarlyInv ==
    ASSUME IInv, NEW p \in Processes,
           Start(p) \/ ReadConfig(p) \/ Sanitize(p) \/ BindAndListen(p)
    PROVE  IInv'
<1>1. /\ pc[p] \in Early \ {"threads"} /\ pc' = [pc EXCEPT ![p] = pc'[p]]
      /\ pc'[p] \in Early \ {"down"}
      /\ pc'[p] # "config" => Configured
      /\ UNCHANGED <<config, failures, index, db, writers, threads>>
      /\ file' \in Processes \cup {None} /\ listening' \subseteq Processes
  BY DEF Start, ReadConfig, Sanitize, BindAndListen, Move, IInv, TypeOK, Progress, Early,
         progress, socket
<1>2. TypeOK'
  BY <1>1 DEF IInv, TypeOK, Early
<1>3. OthersStay(p)
  BY <1>1 DEF IInv, TypeOK, OthersStay
<1>4. Configured' = Configured
  BY <1>1 DEF Configured, Needed, Kind
<1>5. Progress(p)'
  BY <1>1, <1>4 DEF IInv, Progress, Early
<1>. QED
  BY <1>1, <1>2, <1>3, <1>5, StepInv

\* run(): the first threads, the loop over connections and write workers, and
\* the sync worker.
LEMMA CreateThreadsInv ==
    ASSUME IInv, NEW p \in Processes, CreateThreads(p)
    PROVE  IInv'
<1>1. /\ pc[p] = "threads" /\ pc' = [pc EXCEPT ![p] = "connect"]
      /\ threads' = [threads EXCEPT ![p] = FirstThreads]
      /\ UNCHANGED <<config, failures, index, db, writers, file, listening>>
  BY DEF CreateThreads, Move, FirstThreads, socket
<1>2. TypeOK'
  BY <1>1 DEF IInv, TypeOK, FirstThreads, Others
<1>3. OthersStay(p)
  BY <1>1 DEF IInv, TypeOK, OthersStay
<1>4. Configured' = Configured
  BY <1>1 DEF Configured, Needed, Kind
<1>5. index[p] = 0 /\ db[p] = {} /\ writers[p] = {} /\ Configured
  BY <1>1 DEF IInv, Progress, Early
<1>6. Upto(0) = {}
  BY DEF Upto
<1>7. Progress(p)'
  BY <1>1, <1>4, <1>5, <1>6, StartupAssumption DEF IInv, TypeOK, Progress, Early
<1>. QED
  BY <1>1, <1>2, <1>3, <1>7, StepInv

LEMMA ConnectInv ==
    ASSUME IInv, NEW p \in Processes, Connect(p)
    PROVE  IInv'
<1>1. /\ pc[p] = "connect" /\ pc' = [pc EXCEPT ![p] = "create"]
      /\ db' = [db EXCEPT ![p] = @ \cup {index[p]}]
      /\ UNCHANGED <<config, failures, index, writers, threads, file, listening>>
  BY DEF Connect, Move, socket
<1>2. /\ index[p] \in 0..WRITE_THREADS /\ index[p] < WRITE_THREADS
      /\ db[p] = Upto(index[p]) /\ writers[p] = Upto(index[p])
      /\ threads[p] = FirstThreads /\ Configured
  BY <1>1 DEF IInv, TypeOK, Progress
<1>3. TypeOK'
  BY <1>1, <1>2, StartupAssumption DEF IInv, TypeOK, Writers
<1>4. OthersStay(p)
  BY <1>1 DEF IInv, TypeOK, OthersStay
<1>5. Configured' = Configured
  BY <1>1 DEF Configured, Needed, Kind
<1>6. Upto(index[p]) \cup {index[p]} = Upto(index[p] + 1)
  BY <1>2, StartupAssumption DEF Upto
<1>7. Progress(p)'
  BY <1>1, <1>2, <1>5, <1>6 DEF IInv, TypeOK, Progress, Early
<1>. QED
  BY <1>1, <1>3, <1>4, <1>7, StepInv

LEMMA CreateWriterInv ==
    ASSUME IInv, NEW p \in Processes, CreateWriter(p)
    PROVE  IInv'
<1> DEFINE n == index[p]
           to == IF n + 1 < WRITE_THREADS THEN "connect" ELSE "sync"
<1>1. /\ pc[p] = "create" /\ pc' = [pc EXCEPT ![p] = to]
      /\ writers' = [writers EXCEPT ![p] = @ \cup {n}]
      /\ index' = [index EXCEPT ![p] = n + 1]
      /\ UNCHANGED <<config, failures, db, threads, file, listening>>
  BY DEF CreateWriter, Move, socket
<1>2. /\ n \in 0..WRITE_THREADS /\ n < WRITE_THREADS
      /\ db[p] = Upto(n + 1) /\ writers[p] = Upto(n)
      /\ threads[p] = FirstThreads /\ Configured
  BY <1>1 DEF IInv, TypeOK, Progress
<1>3. /\ to \in {"connect", "sync"}
      /\ to = "connect" => n + 1 < WRITE_THREADS
      /\ to = "sync" => n + 1 = WRITE_THREADS
  BY <1>2, StartupAssumption
<1>4. Upto(n) \cup {n} = Upto(n + 1) /\ n \in Writers /\ n + 1 \in 0..WRITE_THREADS
  BY <1>2, StartupAssumption DEF Upto, Writers
<1>. HIDE DEF to
<1>5. TypeOK'
  BY <1>1, <1>3, <1>4 DEF IInv, TypeOK
<1>6. OthersStay(p)
  BY <1>1 DEF IInv, TypeOK, OthersStay
<1>7. Configured' = Configured
  BY <1>1 DEF Configured, Needed, Kind
<1>8. Progress(p)'
  BY <1>1, <1>2, <1>3, <1>4, <1>7 DEF IInv, TypeOK, Progress, Early
<1>. QED
  BY <1>1, <1>5, <1>6, <1>8, StepInv

LEMMA CreateSyncInv ==
    ASSUME IInv, NEW p \in Processes, CreateSync(p)
    PROVE  IInv'
<1>1. /\ pc[p] = "sync" /\ pc' = [pc EXCEPT ![p] = "accept"]
      /\ threads' = [threads EXCEPT ![p] = @ \cup {"sync"}]
      /\ UNCHANGED <<config, failures, index, db, writers, file, listening>>
  BY DEF CreateSync, Move, socket
<1>2. /\ index[p] = WRITE_THREADS /\ db[p] = Upto(index[p]) /\ writers[p] = Upto(index[p])
      /\ threads[p] = FirstThreads /\ Configured
  BY <1>1 DEF IInv, Progress
<1>3. FirstThreads \cup {"sync"} = Others
  BY DEF FirstThreads, Others
<1>4. TypeOK'
  BY <1>1, <1>2, <1>3 DEF IInv, TypeOK
<1>5. OthersStay(p)
  BY <1>1 DEF IInv, TypeOK, OthersStay
<1>6. Configured' = Configured
  BY <1>1 DEF Configured, Needed, Kind
<1>7. Progress(p)'
  BY <1>1, <1>2, <1>3, <1>6 DEF IInv, TypeOK, Progress, Early
<1>. QED
  BY <1>1, <1>4, <1>5, <1>7, StepInv

\* Every step preserves the invariant.
LEMMA NextInv == IInv /\ [Next]_vars => IInv'
<1> SUFFICES ASSUME IInv, [Next]_vars PROVE IInv'
  OBVIOUS
<1>1. CASE UNCHANGED vars
  BY <1>1 DEF vars, progress, socket, IInv, TypeOK, Progress, Configured, Needed, Kind
<1>2. ASSUME NEW p \in Processes, Start(p) \/ Run(p) \/ AcceptLoop(p) \/ Fail(p)
      PROVE  IInv'
  <2>1. CASE AcceptLoop(p)
    BY <1>1, <2>1 DEF AcceptLoop
  <2>2. CASE RefuseConfig(p) \/ BindFails(p) \/ ClientThrows(p)
    <3>1. End(p) /\ failures' \in 0..MaxFailures
      BY <2>2 DEF RefuseConfig, BindFails, ClientThrows, IInv, TypeOK
    <3>. QED  BY <3>1, EndInv
  <2>3. CASE Fail(p)
    <3>1. End(p) /\ failures' \in 0..MaxFailures
      BY <2>3, StartupAssumption DEF Fail, IInv, TypeOK
    <3>. QED  BY <3>1, EndInv
  <2>. QED
    BY <1>2, <2>1, <2>2, <2>3, EarlyInv, CreateThreadsInv, ConnectInv, CreateWriterInv,
       CreateSyncInv DEF Run
<1>. QED
  BY <1>1, <1>2 DEF Next

LEMMA Invariance == Spec => []IInv
BY InitInv, NextInv, PTL DEF Spec

-----------------------------------------------------------------------------
\* The variables keep their types (TypeOK).
THEOREM TypeCorrect == Spec => []TypeOK
<1>1. IInv => TypeOK
  BY DEF IInv
<1>. QED
  BY <1>1, Invariance, PTL

\* ConnectionBeforeUse: no thread runs that would use a connection that is
\* not there.
THEOREM ConnectionsFirst == Spec => []ConnectionBeforeUse
<1>1. IInv => ConnectionBeforeUse
  <2> SUFFICES ASSUME IInv, NEW p \in Processes
               PROVE  writers[p] \subseteq db[p] /\ ("sync" \in threads[p] => 0 \in db[p])
    BY DEF ConnectionBeforeUse
  <2>1. Progress(p) /\ index[p] \in 0..WRITE_THREADS
    BY DEF IInv, TypeOK
  <2>2. pc[p] \in Early \cup {"connect", "create", "sync", "accept"}
    BY DEF IInv, TypeOK, Early
  <2>3. CASE pc[p] \in Early
    BY <2>1, <2>3 DEF Progress
  <2>4. CASE pc[p] \in {"connect", "create", "sync"}
    <3>1. "sync" \notin threads[p]
      BY <2>1, <2>4 DEF Progress, FirstThreads
    <3>2. writers[p] \subseteq db[p]
      BY <2>1, <2>4, StartupAssumption DEF Progress, Upto
    <3>. QED  BY <3>1, <3>2
  <2>5. CASE pc[p] = "accept"
    BY <2>1, <2>5, StartupAssumption DEF Progress, Upto
  <2>. QED  BY <2>2, <2>3, <2>4, <2>5
<1>. QED
  BY <1>1, Invariance, PTL

\* ServingIsWhole: a process that accepts has read a complete configuration
\* and has all its threads, write workers included.
THEOREM WholeWhenServing == Spec => []ServingIsWhole
<1>1. IInv => ServingIsWhole
  BY StartupAssumption DEF IInv, Progress, ServingIsWhole, Serving, Upto, Writers
<1>. QED
  BY <1>1, Invariance, PTL
===============================================================================
