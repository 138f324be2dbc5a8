---------------------------- MODULE CollectorProofs ----------------------------
(***************************************************************************)
(* The two halves together, on Postgres and on ClickHouse, for any number  *)
(* of clients, threads, messages and crashes.  Each implements Relay, as   *)
(* its saving half implements Delivery (of rows), and Relay implements     *)
(* Delivery of the messages of paced clients.  A message is in the table   *)
(* at most once.                                                           *)
(*                                                                         *)
(* A step of a collector is a step of the one half, of the other or of     *)
(* both; what is new is the hand-over (a row of Ingest has the number Save *)
(* counts) and the crash, which empties the receiving half.                *)
(***************************************************************************)
EXTENDS Collector, FiniteSetTheorems, TLAPS

\* ClickHouse: the state that Collector does not have.
VARIABLES events_, out, in, orphans

C == INSTANCE CollectorClickhouse

SP == INSTANCE SaveProofs
IP == INSTANCE IngestProofs WITH status <- [r \in 1..MaxRows |-> SP!Status(r)],
                                 crashed <- crashed \/ misused

CP == INSTANCE SaveClickhouseProofs
IC == INSTANCE IngestProofs WITH status <- [r \in 1..MaxRows |-> CP!Status(r)],
                                 crashed <- crashed \/ misused

LEMMA Assumptions ==
    /\ IP!IngestAssumption /\ SP!SaveAssumption
    /\ IC!IngestAssumption /\ CP!SaveClickhouseAssumption
<1>1. \A T : (IsFiniteSet(T) => IP!IsFiniteSet(T)) /\ (IsFiniteSet(T) => IC!IsFiniteSet(T))
  BY DEF IsFiniteSet, IP!IsFiniteSet, IC!IsFiniteSet
<1>2. IP!IngestAssumption /\ IC!IngestAssumption
  BY <1>1, CollectorAssumption DEF IP!IngestAssumption, IC!IngestAssumption
<1>3. SP!SaveAssumption /\ CP!SaveClickhouseAssumption
  BY CollectorAssumption DEF SP!SaveAssumption, CP!SaveClickhouseAssumption
<1>. QED
  BY <1>2, <1>3

LEMMA AtMostOne ==
    ASSUME NEW T, \A x, y \in T : x = y PROVE Cardinality(T) <= 1
<1>1. CASE T = {}
  BY <1>1, FS_EmptySet
<1>2. CASE T # {}
  <2>1. PICK x \in T : T = {x}
    BY <1>2
  <2>2. Cardinality({x}) = 1
    BY FS_Singleton
  <2>. QED  BY <2>1, <2>2
<1>. QED
  BY <1>1, <1>2

-----------------------------------------------------------------------------
(* Postgres.  The definitions of Relay, as Collector and as the proofs     *)
(* about them name them.                                                   *)

LEMMA SameCardinality == \A T : R!Cardinality(T) = IP!Cardinality(T)
BY DEF R!Cardinality, IP!Cardinality

LEMMA SameIntact == \A cells : R!Intact(cells) <=> IP!Intact(cells)
BY DEF R!Intact, IP!Intact

LEMMA SameParsed == \A m : R!Parsed(m) <=> IP!Parsed(m)
BY SameIntact DEF R!Parsed, IP!Parsed

LEMMA SameSettled == \A c : R!Settled(c) <=> IP!Settled(c)
BY SameParsed DEF R!Settled, IP!Settled

LEMMA SameConnected == \A c : R!Connected(c) <=> IP!Connected(c)
BY DEF R!Connected, IP!Connected, R!ToSet, IP!ToSet

LEMMA SameParser ==
    \A cells : /\ R!Closed(cells) <=> IP!Closed(cells)
               /\ R!NoObject(cells) <=> IP!NoObject(cells)
               /\ R!Done(cells) <=> IP!Done(cells)
BY DEF R!Closed, IP!Closed, R!NoObject, IP!NoObject, R!Done, IP!Done,
       R!Last, IP!Last, R!Junk, IP!Junk

LEMMA SameSavers ==
    /\ S!Savers = SP!Savers /\ S!Writers = SP!Writers
    /\ \A t : S!Conn(t) = SP!Conn(t)
    /\ \A s : S!Rows(s) = SP!Rows(s)
BY DEF S!Savers, SP!Savers, S!Writers, SP!Writers, S!Conn, SP!Conn, S!Rows, SP!Rows

LEMMA SameStatus == \A k : S!Status(k) = SP!Status(k)
BY SameSavers DEF S!Status, SP!Status, S!InFlight, SP!InFlight, S!Held, SP!Held

LEMMA SameStatusThen == (\A k : S!Status(k) = SP!Status(k))'
BY SameStatus, PTL

\* Relay's Delivery is Save's.
LEMMA SameDelivery ==
    /\ R!D!Init <=> SP!D!Init
    /\ IP!D!Init <=> SP!D!Init
    /\ R!D!InState("held") = SP!D!InState("held")
    /\ IP!D!InState("held") = SP!D!InState("held")
    /\ \A k \in 1..MaxRows : /\ R!D!Accept(k) <=> SP!D!Accept(k)
                             /\ IP!D!Accept(k) <=> SP!D!Accept(k)
    /\ \A T : /\ R!D!Store(T) <=> SP!D!Store(T)
              /\ R!D!Lose(T) <=> SP!D!Lose(T)
              /\ IP!D!Store(T) <=> SP!D!Store(T)
              /\ IP!D!Lose(T) <=> SP!D!Lose(T)
    /\ UNCHANGED R!D!deliveryVars <=> UNCHANGED SP!D!deliveryVars
    /\ UNCHANGED IP!D!deliveryVars <=> UNCHANGED SP!D!deliveryVars
<1>1. \A k : S!Status(k) = SP!Status(k) /\ S!Status(k)' = SP!Status(k)'
  BY SameStatus, SameStatusThen
<1>2. (R!D!Init <=> SP!D!Init) /\ (IP!D!Init <=> SP!D!Init)
  BY <1>1 DEF R!D!Init, SP!D!Init, IP!D!Init
<1>3. \A T, s : /\ R!D!Become(T, s) <=> SP!D!Become(T, s)
                /\ IP!D!Become(T, s) <=> SP!D!Become(T, s)
  BY <1>1 DEF R!D!Become, SP!D!Become, IP!D!Become
<1>4. /\ R!D!InState("held") = SP!D!InState("held")
      /\ IP!D!InState("held") = SP!D!InState("held")
  BY <1>1 DEF R!D!InState, SP!D!InState, IP!D!InState
<1>5. \A k \in 1..MaxRows : /\ R!D!Accept(k) <=> SP!D!Accept(k)
                            /\ IP!D!Accept(k) <=> SP!D!Accept(k)
  BY <1>1, <1>3 DEF R!D!Accept, SP!D!Accept, IP!D!Accept
<1>6. \A T : /\ R!D!Store(T) <=> SP!D!Store(T)
             /\ R!D!Lose(T) <=> SP!D!Lose(T)
             /\ IP!D!Store(T) <=> SP!D!Store(T)
             /\ IP!D!Lose(T) <=> SP!D!Lose(T)
  BY <1>3 DEF R!D!Store, SP!D!Store, R!D!Lose, SP!D!Lose, IP!D!Store, IP!D!Lose
<1>7. /\ UNCHANGED R!D!deliveryVars <=> UNCHANGED SP!D!deliveryVars
      /\ UNCHANGED IP!D!deliveryVars <=> UNCHANGED SP!D!deliveryVars
  BY <1>1 DEF R!D!deliveryVars, SP!D!deliveryVars, IP!D!deliveryVars
<1>. QED
  BY <1>2, <1>4, <1>5, <1>6, <1>7

-----------------------------------------------------------------------------
(* The steps of the receiving half.                                        *)

LEMMA IsClientStep == ASSUME NEW c \in Clients, R!ClientStep(c) PROVE IP!ClientStep(c)
<1> USE DEF R!connVars, R!clientVars, R!bufVars, R!parseVars,
            IP!connVars, IP!clientVars, IP!bufVars, IP!parseVars
<1>1. R!Connect(c) => IP!Connect(c)
  BY SameConnected DEF R!Connect, IP!Connect
<1>2. R!Close(c) => IP!Close(c)
  BY SameConnected, SameSettled DEF R!Close, IP!Close
<1>3. ASSUME NEW n \in Sizes, R!Send(c, n) PROVE IP!Send(c, n)
  BY <1>3, SameConnected, SameSettled DEF R!Send, IP!Send
<1>. QED
  BY <1>1, <1>2, <1>3 DEF R!ClientStep, IP!ClientStep

LEMMA IsAcceptStep == (R!Accept => IP!Accept) /\ (R!AcceptFails => IP!AcceptFails)
BY SameCardinality
   DEF R!Accept, IP!Accept, R!AcceptFails, IP!AcceptFails,
       R!connVars, R!clientVars, R!bufVars, R!parseVars, R!vars,
       IP!connVars, IP!clientVars, IP!bufVars, IP!parseVars, IP!vars

LEMMA IsConnStep == ASSUME NEW w \in CONN_THREADS, R!ConnStep(w) PROVE IP!ConnStep(w)
<1> USE DEF R!connVars, R!clientVars, R!bufVars, R!parseVars,
            IP!connVars, IP!clientVars, IP!bufVars, IP!parseVars
<1>1. R!Serve(w) => IP!Serve(w)
  BY DEF R!Serve, IP!Serve
<1>2. R!StartRead(w) => IP!StartRead(w)
  BY DEF R!StartRead, IP!StartRead, R!Reading, IP!Reading
<1>3. R!CopyPart(w) => IP!CopyPart(w)
  BY DEF R!CopyPart, IP!CopyPart, R!Store, IP!Store
<1>4. R!EndRead(w) => IP!EndRead(w)
  BY DEF R!EndRead, IP!EndRead, R!Store, IP!Store
<1>5. R!EndOfFile(w) => IP!EndOfFile(w)
  BY DEF R!EndOfFile, IP!EndOfFile, R!Reading, IP!Reading
<1>. QED
  BY <1>1, <1>2, <1>3, <1>4, <1>5 DEF R!ConnStep, IP!ConnStep

LEMMA IsPushRow == ASSUME NEW r \in READ_THREADS, R!PushRow(r) PROVE IP!PushRow(r)
BY SameParser DEF R!PushRow, IP!PushRow, R!Release, IP!Release, R!connVars, IP!connVars,
                  R!clientVars, IP!clientVars, R!bufVars, IP!bufVars

LEMMA IsReadStep == ASSUME NEW r \in READ_THREADS, R!ReadStep(r) PROVE IP!ReadStep(r)
<1> USE DEF R!connVars, R!clientVars, R!bufVars, R!parseVars,
            IP!connVars, IP!clientVars, IP!bufVars, IP!parseVars
<1>1. R!TakeBuffer(r) => IP!TakeBuffer(r)
  BY DEF R!TakeBuffer, IP!TakeBuffer
<1>2. R!ParseCell(r) => IP!ParseCell(r)
  BY SameParser DEF R!ParseCell, IP!ParseCell
<1>3. R!Refuse(r) => IP!Refuse(r)
  BY SameParser, SameIntact DEF R!Refuse, IP!Refuse, R!Release, IP!Release
<1>. QED
  BY <1>1, <1>2, <1>3 DEF R!ReadStep, IP!ReadStep

LEMMA IsReceive == R!Receive => IP!Receive
BY IsClientStep, IsAcceptStep, IsConnStep, IsReadStep DEF R!Receive, IP!Receive

LEMMA IsLoseMemory == R!LoseMemory => IP!LoseMemory
BY SameConnected DEF R!LoseMemory, IP!LoseMemory, R!Junk, IP!Junk

\* Relay of Collector is the Relay of the proofs.
LEMMA IsRelayInit == R!RelayInit => IP!RelayInit
<1>1. R!Init => IP!Init
  BY DEF R!Init, IP!Init, R!Junk, IP!Junk
<1>. QED
  BY <1>1, SameDelivery DEF R!RelayInit, IP!RelayInit

LEMMA IsRelayStep == [R!RelayNext]_(R!relayVars) => [IP!RelayNext]_(IP!relayVars)
<1>1. UNCHANGED R!vars <=> UNCHANGED IP!vars
  BY DEF R!vars, R!connVars, R!clientVars, R!bufVars, R!parseVars,
         IP!vars, IP!connVars, IP!clientVars, IP!bufVars, IP!parseVars
<1>2. /\ UNCHANGED <<[r \in 1..MaxRows |-> S!Status(r)], crashed \/ misused>>
             <=> UNCHANGED R!D!deliveryVars
      /\ UNCHANGED <<[r \in 1..MaxRows |-> SP!Status(r)], crashed \/ misused>>
             <=> UNCHANGED SP!D!deliveryVars
  BY DEF R!D!deliveryVars, SP!D!deliveryVars
<1>3. CASE UNCHANGED R!relayVars
  BY <1>1, <1>2, <1>3, SameDelivery DEF R!relayVars, IP!relayVars
<1>4. CASE R!Receive /\ UNCHANGED <<[r \in 1..MaxRows |-> S!Status(r)], crashed \/ misused>>
  BY <1>2, <1>4, SameDelivery, IsReceive DEF IP!RelayNext
<1>5. ASSUME NEW r \in READ_THREADS, R!PushRow(r),
             NEW k \in 1..MaxRows, k = Len(rows) + 1, R!D!Accept(k)
      PROVE  IP!RelayNext
  BY <1>5, SameDelivery, IsPushRow DEF IP!RelayNext
<1>6. ASSUME NEW T \in SUBSET R!D!InState("held"),
             \/ (R!D!Store(T) \/ R!D!Lose(T)) /\ UNCHANGED R!vars
             \/ R!D!Lose(T) /\ R!LoseMemory
      PROVE  IP!RelayNext
  BY <1>1, <1>6, SameDelivery, IsLoseMemory DEF IP!RelayNext
<1>. QED
  BY <1>3, <1>4, <1>5, <1>6 DEF R!RelayNext

LEMMA IsRelay == R!RelaySpec => IP!RelaySpec
BY IsRelayInit, IsRelayStep, PTL DEF R!RelaySpec, IP!RelaySpec

-----------------------------------------------------------------------------
(* The steps of the saving half.                                           *)

LEMMA IsInit == S!Init => SP!Init
BY SameSavers DEF S!Init, SP!Init, S!Queue!Init, SP!Queue!Init, S!Queue!Takers, SP!Queue!Takers

LEMMA IsPush == S!Push => SP!Push
BY DEF S!Push, SP!Push, S!Queue!Put, SP!Queue!Put, S!client, SP!client, S!server, SP!server,
       S!process, SP!process

LEMMA IsTerminate == S!Terminate => SP!Terminate
BY SameSavers DEF S!Terminate, SP!Terminate

LEMMA IsSaverStep ==
    ASSUME NEW t \in S!Savers,
           S!Drain(t) \/ SaverStep(t) \/ S!Throw(t) \/ S!LoseConnection(t)
    PROVE  SP!Next
<1> USE SameSavers DEF S!memory, S!client, S!server, S!process, S!Move,
                       SP!memory, SP!client, SP!server, SP!process, SP!Move
<1>1. S!Drain(t) => SP!Drain(t)
  BY DEF S!Drain, SP!Drain, S!Queue!Take, SP!Queue!Take, S!Queue!Ready, SP!Queue!Ready,
         S!Queue!Batch, SP!Queue!Batch, S!Queue!Rest, SP!Queue!Rest
<1>2. S!TestCurrent(t) => SP!TestCurrent(t)
  BY DEF S!TestCurrent, SP!TestCurrent
<1>3. S!Claim(t) => SP!Claim(t)
  BY DEF S!Claim, SP!Claim
<1>4. /\ \A c : S!Busy(c) <=> SP!Busy(c)
      /\ \A labels : S!Others(t, labels) = SP!Others(t, labels)
      /\ S!Writing(t) = SP!Writing(t)
      /\ S!Sent(t) = SP!Sent(t)
  <2>1. \A labels : S!Others(t, labels) = SP!Others(t, labels)
    BY DEF S!Others, SP!Others
  <2>2. \A T : S!Cardinality(T) = SP!Cardinality(T) /\ S!Mixtures(T) = SP!Mixtures(T)
    BY DEF S!Cardinality, SP!Cardinality, S!Mixtures, SP!Mixtures
  <2>3. S!Insert(t) = SP!Insert(t)
    BY DEF S!Insert, SP!Insert
  <2> DEFINE L == {"flush", "check", "await"}
  <2>m. S!Mixtures({t} \cup S!Others(t, L)) = SP!Mixtures({t} \cup SP!Others(t, L))
    <3>1. S!Others(t, L) = SP!Others(t, L)
      BY <2>1
    <3> HIDE DEF L
    <3> QED BY <3>1, <2>2
  <2>n. {Q \in SUBSET S!Mixtures({t} \cup S!Others(t, L)) : S!Cardinality(Q) <= MaxMixed}
            = {Q \in SUBSET SP!Mixtures({t} \cup SP!Others(t, L)) : SP!Cardinality(Q) <= MaxMixed}
    <3> HIDE DEF L
    <3> QED BY <2>2, <2>m
  <2>4. S!Sent(t) = SP!Sent(t)
    BY <2>3, <2>n DEF S!Sent, SP!Sent
  <2>5. S!Writing(t) = SP!Writing(t)
    BY <2>1 DEF S!Writing, SP!Writing
  <2>6. \A c : S!Busy(c) <=> SP!Busy(c)
    BY DEF S!Busy, SP!Busy
  <2> QED BY <2>1, <2>4, <2>5, <2>6
<1>5. S!Send(t) => SP!Send(t)
  BY <1>4 DEF S!Send, SP!Send
<1>f. S!Flush(t) => SP!Flush(t)
  BY <1>4 DEF S!Flush, SP!Flush
<1>o. S!Order(t) => SP!Order(t)
  BY DEF S!Order, SP!Order
<1>6. S!CheckCurrent(t) => SP!CheckCurrent(t)
  BY DEF S!CheckCurrent, SP!CheckCurrent
<1>7. S!Receive(t) => SP!Receive(t)
  BY DEF S!Receive, SP!Receive
<1>8. S!Finish(t) => SP!Finish(t)
  BY DEF S!Finish, SP!Finish, S!Queue!Finish, SP!Queue!Finish
<1>9. S!Throws(t) => SP!Throws(t)
  BY <1>4 DEF S!Throws, SP!Throws
<1>10. S!Throw(t) => SP!Throw(t)
  BY <1>9, IsTerminate DEF S!Throw, SP!Throw
<1>11. S!LoseConnection(t) => SP!LoseConnection(t)
  BY IsTerminate DEF S!LoseConnection, SP!LoseConnection
<1>. QED
  BY <1>1, <1>2, <1>3, <1>5, <1>f, <1>o, <1>6, <1>7, <1>8, <1>10, <1>11
     DEF SaverStep, SP!Next, SP!SaverStep

LEMMA IsServerStep ==
    ASSUME NEW q \in running, S!Commit(q) \/ S!Reject(q) PROVE SP!Next
<1> USE DEF S!memory, S!client, S!process, SP!memory, SP!client, SP!process, S!Answer, SP!Answer
<1>1. S!Commit(q) => SP!Commit(q)
  BY SameSavers DEF S!Commit, SP!Commit, S!StoreRows, SP!StoreRows
<1>2. S!Reject(q) => SP!Reject(q)
  BY DEF S!Reject, SP!Reject
<1>. QED
  BY <1>1, <1>2 DEF SP!Next

LEMMA IsRestart == S!Restart => SP!Next
BY DEF S!Restart, SP!Restart, SP!Next, S!memory, SP!memory, S!client, SP!client,
       S!server, SP!server

LEMMA IsSyncNothing == S!SyncNothing => UNCHANGED SP!vars
BY DEF S!SyncNothing, S!vars, S!memory, S!client, S!server, S!process,
       SP!vars, SP!memory, SP!client, SP!server, SP!process

\* The saving half alone makes no row.
LEMMA SaveOnStep ==
    ASSUME SaveOn PROVE [SP!Next]_(SP!vars) /\ made' = made /\ UNCHANGED ingestVars
<1> USE DEF S!memory, S!client, S!server, S!process, S!Move
<1>1. ASSUME NEW t \in S!Savers, S!Drain(t) \/ SaverStep(t) PROVE made' = made
  BY <1>1 DEF SaverStep, S!Drain, S!Queue!Take, S!TestCurrent, S!Claim, S!Order, S!Send,
              S!Flush, S!CheckCurrent, S!Receive, S!Finish, S!Queue!Finish
<1>2. ASSUME NEW q \in running, S!Commit(q) \/ S!Reject(q) PROVE made' = made
  BY <1>2 DEF S!Commit, S!Reject
<1>3. S!SyncNothing => made' = made
  BY DEF S!SyncNothing, S!vars
<1>. QED
  BY <1>1, <1>2, <1>3, IsSaverStep, IsServerStep, IsSyncNothing DEF SaveOn

LEMMA CrashStep ==
    ASSUME Crash
    PROVE  SP!Next /\ made' = made /\ stored' = stored /\ crashed' = TRUE /\ R!LoseMemory
<1>1. PICK t \in S!Savers : S!Throw(t) \/ S!LoseConnection(t)
  BY DEF Crash
<1>2. SP!Next
  BY <1>1, IsSaverStep
<1>3. made' = made /\ stored' = stored /\ crashed' = TRUE
  BY <1>1 DEF S!Throw, S!LoseConnection, S!Terminate
<1>. QED
  BY <1>2, <1>3 DEF Crash

-----------------------------------------------------------------------------
(* The steps of the collector are steps of Relay.                          *)

\* Row k of Save is rows[k].
CInv == IP!RelayInv /\ SP!IInv /\ made = Len(rows)

LEMMA PushStep ==
    ASSUME CInv, NEW r \in READ_THREADS, PushRow(r)
    PROVE  /\ R!PushRow(r) /\ SP!Next /\ made \in Nat
           /\ made' = made + 1 /\ made + 1 \in 1..MaxRows /\ Len(rows') = Len(rows) + 1
<1>1. R!PushRow(r) /\ SP!Next
  BY IsPush DEF PushRow, SP!Next
<1>2. made \in Nat /\ made' = made + 1 /\ made + 1 \in 1..MaxRows
  <2>1. made \in 0..MaxRows /\ MaxRows \in Nat
    BY CollectorAssumption DEF CInv, SP!IInv, SP!TypeOK
  <2>2. made' = made + 1 /\ made < MaxRows
    BY DEF PushRow, S!Push, S!Queue!Put
  <2>. QED  BY <2>1, <2>2
<1>3. rows \in Seq(Seq(IP!Cell)) /\ got[r] \in Seq(IP!Cell)
  BY DEF CInv, IP!RelayInv, IP!IInv, IP!TypeOK
<1>4. rows' = Append(rows, got[r])
  BY DEF PushRow, R!PushRow
<1>5. Len(rows') = Len(rows) + 1
  BY <1>3, <1>4
<1>. QED
  BY <1>1, <1>2, <1>5

LEMMA SaveSteps == ASSUME CInv, [Next]_vars PROVE [SP!Next]_(SP!vars)
<1>1. CASE Receive \/ UNCHANGED vars
  BY <1>1 DEF Receive, vars, saveVars, SP!vars, SP!memory, SP!client, SP!server, SP!process
<1>2. ASSUME NEW r \in READ_THREADS, PushRow(r) PROVE SP!Next
  BY <1>2, PushStep
<1>3. CASE SaveOn
  BY <1>3, SaveOnStep
<1>4. CASE Crash
  BY <1>4, CrashStep
<1>5. CASE Restart
  BY <1>5, IsRestart DEF Restart
<1>. QED
  BY <1>1, <1>2, <1>3, <1>4, <1>5 DEF Next

\* A step of the saving half that makes no row accepts none.
LEMMA RowStep ==
    ASSUME SP!IInv, [SP!Next]_(SP!vars), made' = made
    PROVE  \E T \in SUBSET SP!D!InState("held") : SP!D!Store(T) \/ SP!D!Lose(T)
<1>1. SP!D!Next \/ UNCHANGED SP!D!deliveryVars
  BY Assumptions, SP!NextRefines
<1>2. ASSUME NEW k \in 1..MaxRows, SP!D!Accept(k) PROVE FALSE
  <2>1. SP!Status(k) = "new" /\ SP!Status(k)' = "held"
    BY <1>2 DEF SP!D!Accept, SP!D!Become
  <2>2. k > made
    BY <2>1 DEF SP!Status
  <2>3. SP!Status(k)' = "new"
    BY <2>2 DEF SP!Status
  <2>. QED  BY <2>1, <2>3
<1>3. UNCHANGED SP!D!deliveryVars => SP!D!Store({})
  BY DEF SP!D!deliveryVars, SP!D!Store, SP!D!Become
<1>. QED
  BY <1>1, <1>2, <1>3 DEF SP!D!Next

\* Nothing is stored in a crash.
LEMMA CrashLoses ==
    ASSUME SP!IInv, Crash
    PROVE  \E T \in SUBSET SP!D!InState("held") : SP!D!Lose(T)
<1>1. PICK T \in SUBSET SP!D!InState("held") : SP!D!Store(T) \/ SP!D!Lose(T)
  BY CrashStep, RowStep
<1>2. stored' = stored /\ (crashed \/ misused)' = TRUE
  BY CrashStep
<1>3. ASSUME SP!D!Store(T) PROVE T = {} /\ SP!D!Lose(T)
  <2>1. ASSUME NEW k \in T PROVE FALSE
    <3>1. SP!Status(k) = "held" /\ SP!Status(k)' = "stored" /\ k \in 1..MaxRows
      BY <1>3 DEF SP!D!Store, SP!D!Become, SP!D!InState
    <3>2. stored[k] > 0 /\ ~(stored[k] > 0)
      BY <1>2, <3>1 DEF SP!Status
    <3>. QED  BY <3>2
  <2>2. T = {}
    BY <2>1
  <2>. QED  BY <1>2, <1>3, <2>2 DEF SP!D!Store, SP!D!Lose, SP!D!Become
<1>. QED
  BY <1>1, <1>3

\* A row that is pushed is accepted.
LEMMA PushAccepts ==
    ASSUME SP!IInv, SP!Next, made \in Nat, made' = made + 1, made + 1 \in 1..MaxRows
    PROVE  SP!D!Accept(made + 1)
<1>1. SP!D!Next \/ UNCHANGED SP!D!deliveryVars
  BY Assumptions, SP!NextRefines
<1>2. PICK n \in 1..MaxRows : n = made + 1
  OBVIOUS
<1>3. SP!Status(n) = "new" /\ SP!Status(n)' # "new"
  BY <1>2 DEF SP!Status
<1>4. ~UNCHANGED SP!D!deliveryVars
  BY <1>3 DEF SP!D!deliveryVars
<1>5. ASSUME NEW T \in SUBSET SP!D!InState("held"), SP!D!Store(T) \/ SP!D!Lose(T) PROVE FALSE
  <2>1. n \notin T
    BY <1>3 DEF SP!D!InState
  <2>2. SP!Status(n)' = SP!Status(n)
    BY <1>5, <2>1 DEF SP!D!Store, SP!D!Lose, SP!D!Become
  <2>. QED  BY <1>3, <2>2
<1>6. ASSUME NEW k \in 1..MaxRows, SP!D!Accept(k) PROVE k = n
  BY <1>3, <1>6 DEF SP!D!Accept, SP!D!Become
<1>. QED
  BY <1>1, <1>2, <1>4, <1>5, <1>6 DEF SP!D!Next

LEMMA StepIsRelay ==
    ASSUME CInv, [Next]_vars PROVE [R!RelayNext]_(R!relayVars)
<1>1. UNCHANGED ingestVars => UNCHANGED R!vars
  BY DEF ingestVars, R!vars, R!connVars, R!clientVars, R!bufVars, R!parseVars
<1>2. UNCHANGED saveVars => UNCHANGED <<[r \in 1..MaxRows |-> S!Status(r)], crashed \/ misused>>
  BY DEF saveVars, S!Status, S!InFlight, S!Held
<1>3. ASSUME [SP!Next]_(SP!vars), made' = made, UNCHANGED ingestVars PROVE R!RelayNext
  BY <1>1, <1>3, RowStep, SameDelivery DEF CInv, R!RelayNext
<1>4. CASE Receive
  BY <1>2, <1>4 DEF Receive, R!RelayNext
<1>5. ASSUME NEW r \in READ_THREADS, PushRow(r) PROVE R!RelayNext
  <2>1. R!PushRow(r) /\ SP!D!Accept(made + 1) /\ made + 1 \in 1..MaxRows
    BY <1>5, PushStep, PushAccepts DEF CInv
  <2>. QED  BY <2>1, SameDelivery DEF CInv, R!RelayNext
<1>6. CASE SaveOn
  BY <1>3, <1>6, SaveOnStep
<1>7. CASE Crash
  BY <1>7, CrashStep, CrashLoses, SameDelivery DEF CInv, R!RelayNext
<1>8. CASE Restart
  BY <1>3, <1>8, IsRestart DEF Restart, S!Restart, S!memory
<1>9. CASE UNCHANGED vars
  BY <1>1, <1>2, <1>9 DEF vars, R!relayVars
<1>. QED
  BY <1>4, <1>5, <1>6, <1>7, <1>8, <1>9 DEF Next

LEMMA InitCInv == Init => CInv /\ R!RelayInit
<1> SUFFICES ASSUME Init PROVE CInv /\ R!RelayInit
  OBVIOUS
<1>1. SP!Init
  BY IsInit DEF Init
<1>2. SP!IInv /\ SP!D!Init
  BY <1>1, Assumptions, SP!InitIInv, SP!InitRefines
<1>3. R!RelayInit
  BY <1>2, SameDelivery DEF Init, R!RelayInit
<1>4. IP!RelayInv
  BY <1>3, IsRelayInit, Assumptions, IP!RelayInitInv
<1>5. made = Len(rows)
  BY DEF Init, R!Init, S!Init, S!Queue!Init
<1>. QED
  BY <1>2, <1>3, <1>4, <1>5 DEF CInv

LEMMA NextCInv == CInv /\ [Next]_vars => CInv'
<1> SUFFICES ASSUME CInv, [Next]_vars PROVE CInv'
  OBVIOUS
<1>1. SP!IInv'
  BY SaveSteps, Assumptions, SP!NextIInv DEF CInv
<1>2. IP!RelayInv'
  BY StepIsRelay, IsRelayStep, Assumptions, IP!RelayNextInv DEF CInv
<1>3. made' = Len(rows')
  <2>1. CASE Receive
    <3>1. rows' = rows
      BY <2>1, IsReceive, Assumptions, IP!ReceiveKeepsRows DEF Receive
    <3>. QED  BY <2>1, <3>1 DEF Receive, CInv, saveVars
  <2>2. ASSUME NEW r \in READ_THREADS, PushRow(r) PROVE made' = Len(rows')
    BY <2>2, PushStep DEF CInv
  <2>3. CASE SaveOn
    BY <2>3, SaveOnStep DEF CInv, ingestVars
  <2>4. CASE Crash
    BY <2>4, CrashStep DEF CInv, R!LoseMemory
  <2>5. CASE Restart
    BY <2>5 DEF Restart, S!Restart, S!memory, CInv, ingestVars
  <2>6. CASE UNCHANGED vars
    BY <2>6 DEF vars, ingestVars, saveVars, CInv
  <2>. QED  BY <2>1, <2>2, <2>3, <2>4, <2>5, <2>6 DEF Next
<1>. QED
  BY <1>1, <1>2, <1>3 DEF CInv

LEMMA Invariance == Spec => []CInv
BY InitCInv, NextCInv, PTL DEF Spec

\* ImplementsRelay: what happens to the rows is what Save promises, the row
\* that is pushed is the one that is accepted, and only a crash, in which
\* nothing is stored, reaches both halves.
THEOREM PostgresRelays == Spec => ImplementsRelay
BY Invariance, InitCInv, StepIsRelay, PTL DEF Spec, ImplementsRelay, R!RelaySpec

-----------------------------------------------------------------------------
(* What Relay says of messages.                                            *)

\* Clients that wait for an answer, and messages that fit the buffer.
PacedFit == IP!PacedFit

LEMMA SameCarried == \A m : R!CarriedBy(m) = IP!CarriedBy(m)
BY SameIntact DEF R!CarriedBy, IP!CarriedBy

LEMMA SameMessage == \A m : R!MessageStatus(m) = IP!MessageStatus(m)
<1>1. \A m : R!Arriving(m) <=> IP!Arriving(m)
  BY DEF R!Arriving, IP!Arriving, R!ToSet, IP!ToSet
<1>2. [r \in 1..MaxRows |-> S!Status(r)] = [r \in 1..MaxRows |-> SP!Status(r)]
  BY SameStatus
<1> SUFFICES ASSUME NEW m PROVE R!MessageStatus(m) = IP!MessageStatus(m)
  OBVIOUS
<1>3. R!CarriedBy(m) = IP!CarriedBy(m) /\ (R!Arriving(m) <=> IP!Arriving(m))
  BY <1>1, SameCarried
<1>. QED
  BY <1>2, <1>3, Zenon DEF R!MessageStatus, IP!MessageStatus

LEMMA SameMessageThen == (\A m : R!MessageStatus(m) = IP!MessageStatus(m))'
BY SameMessage, PTL

LEMMA SameEnd == IP!EndToEnd => R!EndToEnd
<1>1. \A m : /\ R!MessageStatus(m) = IP!MessageStatus(m)
             /\ R!MessageStatus(m)' = IP!MessageStatus(m)'
  BY SameMessage, SameMessageThen
<1>2. IP!M!Init => R!M!Init
  BY <1>1 DEF IP!M!Init, R!M!Init
<1>3. \A T, s : IP!M!Become(T, s) <=> R!M!Become(T, s)
  BY <1>1 DEF IP!M!Become, R!M!Become
<1>4. IP!M!InState("held") = R!M!InState("held")
  BY <1>1 DEF IP!M!InState, R!M!InState
<1>5. \A m \in 1..MaxMessages : IP!M!Accept(m) => R!M!Accept(m)
  BY <1>1, <1>3 DEF IP!M!Accept, R!M!Accept
<1>6. \A T : (IP!M!Store(T) => R!M!Store(T)) /\ (IP!M!Lose(T) => R!M!Lose(T))
  BY <1>3 DEF IP!M!Store, R!M!Store, IP!M!Lose, R!M!Lose
<1>7. UNCHANGED IP!M!deliveryVars => UNCHANGED R!M!deliveryVars
  BY <1>1 DEF IP!M!deliveryVars, R!M!deliveryVars
<1>8. [IP!M!Next]_(IP!M!deliveryVars) => [R!M!Next]_(R!M!deliveryVars)
  BY <1>4, <1>5, <1>6, <1>7 DEF IP!M!Next, R!M!Next
<1>. QED
  BY <1>2, <1>8, PTL DEF IP!EndToEnd, R!EndToEnd, IP!M!Spec, R!M!Spec

LEMMA RelaysThere == Spec => IP!RelaySpec
BY PostgresRelays, IsRelay DEF ImplementsRelay

\* EndToEnd: the collector on Postgres implements Delivery, of messages: from
\* the moment a paced client has sent one it is held, then stored or lost,
\* and lost only in or after a crash or a race of two threads in libpq.
THEOREM PostgresDelivers == ASSUME PacedFit PROVE Spec => EndToEnd
<1>1. IP!RelaySpec => IP!EndToEnd
  BY Assumptions, IP!RelayDelivers DEF PacedFit
<1>. QED
  BY <1>1, RelaysThere, SameEnd DEF EndToEnd

\* StoredOnce: a paced client's message is one row, and Save stores a row
\* once, through overwritten buffers, lost answers and crashes, until two threads
\* are inside libpq at once.
THEOREM PostgresStoresOnce == ASSUME PacedFit PROVE Spec => []StoredOnce
<1>1. CInv /\ (\A m : \A k \in IP!CarriedBy(m) : IP!CarriedBy(m) = {k}) => StoredOnce
  <2> SUFFICES ASSUME CInv, \A m : \A k \in IP!CarriedBy(m) : IP!CarriedBy(m) = {k},
                      ~misused, NEW m \in DOMAIN sent
               PROVE  Cardinality(Copies(m)) <= 1
    BY DEF StoredOnce
  <2>1. ASSUME NEW k \in R!CarriedBy(m) PROVE k \in 1..MaxRows /\ stored[k] \in {0, 1}
    <3>1. k \in 1..MaxRows
      BY SameCarried DEF CInv, IP!RelayInv, IP!RowsAccepted, IP!CarriedBy
    <3>2. stored \in [1..MaxRows -> Nat] /\ stored[k] <= 1
      BY <3>1 DEF CInv, SP!IInv, SP!TypeOK, SP!AtMostOnce
    <3>. QED  BY <3>1, <3>2
  <2>2. \A x \in Copies(m) : \E k \in R!CarriedBy(m) : x = <<k, 1>>
    BY <2>1 DEF Copies
  <2>3. \A x, y \in Copies(m) : x = y
    BY <2>2, SameCarried
  <2>. QED  BY <2>3, AtMostOne
<1>2. IP!RelaySpec => [](\A m : \A k \in IP!CarriedBy(m) : IP!CarriedBy(m) = {k})
  BY Assumptions, IP!RelayOneRowEach DEF PacedFit
<1>. QED
  BY <1>1, <1>2, Invariance, RelaysThere, PTL

\* Fed by the receiving half, and whatever clients send, the saving half still
\* implements Delivery, of rows (Implements of Save).
THEOREM PostgresDeliversRows == Spec => SP!Implements
<1>1. Init => SP!D!Init
  BY InitCInv, SameDelivery DEF R!RelayInit
<1>2. CInv /\ [Next]_vars => [SP!D!Next]_(SP!D!deliveryVars)
  BY SaveSteps, Assumptions, SP!NextRefines DEF CInv
<1>. QED
  BY <1>1, <1>2, Invariance, PTL DEF Spec, SP!Implements, SP!D!Spec

-----------------------------------------------------------------------------
(* ClickHouse: the same, with a saving half whose steps are others, and a  *)
(* misuse of the shared client that may lose rows too.                     *)

LEMMA CSameCardinality == \A T : C!R!Cardinality(T) = IC!Cardinality(T)
BY DEF C!R!Cardinality, IC!Cardinality

LEMMA CSameIntact == \A cells : C!R!Intact(cells) <=> IC!Intact(cells)
BY DEF C!R!Intact, IC!Intact

LEMMA CSameParsed == \A m : C!R!Parsed(m) <=> IC!Parsed(m)
BY CSameIntact DEF C!R!Parsed, IC!Parsed

LEMMA CSameSettled == \A c : C!R!Settled(c) <=> IC!Settled(c)
BY CSameParsed DEF C!R!Settled, IC!Settled

LEMMA CSameConnected == \A c : C!R!Connected(c) <=> IC!Connected(c)
BY DEF C!R!Connected, IC!Connected, C!R!ToSet, IC!ToSet

LEMMA CSameParser ==
    \A cells : /\ C!R!Closed(cells) <=> IC!Closed(cells)
               /\ C!R!NoObject(cells) <=> IC!NoObject(cells)
               /\ C!R!Done(cells) <=> IC!Done(cells)
BY DEF C!R!Closed, IC!Closed, C!R!NoObject, IC!NoObject, C!R!Done, IC!Done,
       C!R!Last, IC!Last, C!R!Junk, IC!Junk

LEMMA CSameSavers ==
    /\ C!S!Savers = CP!Savers /\ C!S!Writers = CP!Writers
    /\ \A t : C!S!Conn(t) = CP!Conn(t)
    /\ \A s : C!S!Rows(s) = CP!Rows(s)
BY DEF C!S!Savers, CP!Savers, C!S!Writers, CP!Writers, C!S!Conn, CP!Conn, C!S!Rows, CP!Rows

LEMMA CSameStatus == \A k : C!S!Status(k) = CP!Status(k)
BY CSameSavers DEF C!S!Status, CP!Status, C!S!InFlight, CP!InFlight, C!S!Held, CP!Held

LEMMA CSameStatusThen == (\A k : C!S!Status(k) = CP!Status(k))'
BY CSameStatus, PTL

\* Relay's Delivery is SaveClickhouse's.
LEMMA CSameDelivery ==
    /\ C!R!D!Init <=> CP!D!Init
    /\ IC!D!Init <=> CP!D!Init
    /\ C!R!D!InState("held") = CP!D!InState("held")
    /\ IC!D!InState("held") = CP!D!InState("held")
    /\ \A k \in 1..MaxRows : /\ C!R!D!Accept(k) <=> CP!D!Accept(k)
                             /\ IC!D!Accept(k) <=> CP!D!Accept(k)
    /\ \A T : /\ C!R!D!Store(T) <=> CP!D!Store(T)
              /\ C!R!D!Lose(T) <=> CP!D!Lose(T)
              /\ IC!D!Store(T) <=> CP!D!Store(T)
              /\ IC!D!Lose(T) <=> CP!D!Lose(T)
    /\ UNCHANGED C!R!D!deliveryVars <=> UNCHANGED CP!D!deliveryVars
    /\ UNCHANGED IC!D!deliveryVars <=> UNCHANGED CP!D!deliveryVars
<1>1. \A k : C!S!Status(k) = CP!Status(k) /\ C!S!Status(k)' = CP!Status(k)'
  BY CSameStatus, CSameStatusThen
<1>2. (C!R!D!Init <=> CP!D!Init) /\ (IC!D!Init <=> CP!D!Init)
  BY <1>1 DEF C!R!D!Init, CP!D!Init, IC!D!Init
<1>3. \A T, s : /\ C!R!D!Become(T, s) <=> CP!D!Become(T, s)
                /\ IC!D!Become(T, s) <=> CP!D!Become(T, s)
  BY <1>1 DEF C!R!D!Become, CP!D!Become, IC!D!Become
<1>4. /\ C!R!D!InState("held") = CP!D!InState("held")
      /\ IC!D!InState("held") = CP!D!InState("held")
  BY <1>1 DEF C!R!D!InState, CP!D!InState, IC!D!InState
<1>5. \A k \in 1..MaxRows : /\ C!R!D!Accept(k) <=> CP!D!Accept(k)
                            /\ IC!D!Accept(k) <=> CP!D!Accept(k)
  BY <1>1, <1>3 DEF C!R!D!Accept, CP!D!Accept, IC!D!Accept
<1>6. \A T : /\ C!R!D!Store(T) <=> CP!D!Store(T)
             /\ C!R!D!Lose(T) <=> CP!D!Lose(T)
             /\ IC!D!Store(T) <=> CP!D!Store(T)
             /\ IC!D!Lose(T) <=> CP!D!Lose(T)
  BY <1>3 DEF C!R!D!Store, CP!D!Store, C!R!D!Lose, CP!D!Lose, IC!D!Store, IC!D!Lose
<1>7. /\ UNCHANGED C!R!D!deliveryVars <=> UNCHANGED CP!D!deliveryVars
      /\ UNCHANGED IC!D!deliveryVars <=> UNCHANGED CP!D!deliveryVars
  BY <1>1 DEF C!R!D!deliveryVars, CP!D!deliveryVars, IC!D!deliveryVars
<1>. QED
  BY <1>2, <1>4, <1>5, <1>6, <1>7

-----------------------------------------------------------------------------
(* The steps of the receiving half.                                        *)

LEMMA CIsClientStep == ASSUME NEW c \in Clients, C!R!ClientStep(c) PROVE IC!ClientStep(c)
<1> USE DEF C!R!connVars, C!R!clientVars, C!R!bufVars, C!R!parseVars,
            IC!connVars, IC!clientVars, IC!bufVars, IC!parseVars
<1>1. C!R!Connect(c) => IC!Connect(c)
  BY CSameConnected DEF C!R!Connect, IC!Connect
<1>2. C!R!Close(c) => IC!Close(c)
  BY CSameConnected, CSameSettled DEF C!R!Close, IC!Close
<1>3. ASSUME NEW n \in Sizes, C!R!Send(c, n) PROVE IC!Send(c, n)
  BY <1>3, CSameConnected, CSameSettled DEF C!R!Send, IC!Send
<1>. QED
  BY <1>1, <1>2, <1>3 DEF C!R!ClientStep, IC!ClientStep

LEMMA CIsAcceptStep == (C!R!Accept => IC!Accept) /\ (C!R!AcceptFails => IC!AcceptFails)
BY CSameCardinality
   DEF C!R!Accept, IC!Accept, C!R!AcceptFails, IC!AcceptFails,
       C!R!connVars, C!R!clientVars, C!R!bufVars, C!R!parseVars, C!R!vars,
       IC!connVars, IC!clientVars, IC!bufVars, IC!parseVars, IC!vars

LEMMA CIsConnStep == ASSUME NEW w \in CONN_THREADS, C!R!ConnStep(w) PROVE IC!ConnStep(w)
<1> USE DEF C!R!connVars, C!R!clientVars, C!R!bufVars, C!R!parseVars,
            IC!connVars, IC!clientVars, IC!bufVars, IC!parseVars
<1>1. C!R!Serve(w) => IC!Serve(w)
  BY DEF C!R!Serve, IC!Serve
<1>2. C!R!StartRead(w) => IC!StartRead(w)
  BY DEF C!R!StartRead, IC!StartRead, C!R!Reading, IC!Reading
<1>3. C!R!CopyPart(w) => IC!CopyPart(w)
  BY DEF C!R!CopyPart, IC!CopyPart, C!R!Store, IC!Store
<1>4. C!R!EndRead(w) => IC!EndRead(w)
  BY DEF C!R!EndRead, IC!EndRead, C!R!Store, IC!Store
<1>5. C!R!EndOfFile(w) => IC!EndOfFile(w)
  BY DEF C!R!EndOfFile, IC!EndOfFile, C!R!Reading, IC!Reading
<1>. QED
  BY <1>1, <1>2, <1>3, <1>4, <1>5 DEF C!R!ConnStep, IC!ConnStep

LEMMA CIsPushRow == ASSUME NEW r \in READ_THREADS, C!R!PushRow(r) PROVE IC!PushRow(r)
BY CSameParser DEF C!R!PushRow, IC!PushRow, C!R!Release, IC!Release, C!R!connVars, IC!connVars,
                  C!R!clientVars, IC!clientVars, C!R!bufVars, IC!bufVars

LEMMA CIsReadStep == ASSUME NEW r \in READ_THREADS, C!R!ReadStep(r) PROVE IC!ReadStep(r)
<1> USE DEF C!R!connVars, C!R!clientVars, C!R!bufVars, C!R!parseVars,
            IC!connVars, IC!clientVars, IC!bufVars, IC!parseVars
<1>1. C!R!TakeBuffer(r) => IC!TakeBuffer(r)
  BY DEF C!R!TakeBuffer, IC!TakeBuffer
<1>2. C!R!ParseCell(r) => IC!ParseCell(r)
  BY CSameParser DEF C!R!ParseCell, IC!ParseCell
<1>3. C!R!Refuse(r) => IC!Refuse(r)
  BY CSameParser, CSameIntact DEF C!R!Refuse, IC!Refuse, C!R!Release, IC!Release
<1>. QED
  BY <1>1, <1>2, <1>3 DEF C!R!ReadStep, IC!ReadStep

LEMMA CIsReceive == C!R!Receive => IC!Receive
BY CIsClientStep, CIsAcceptStep, CIsConnStep, CIsReadStep DEF C!R!Receive, IC!Receive

LEMMA CIsLoseMemory == C!R!LoseMemory => IC!LoseMemory
BY CSameConnected DEF C!R!LoseMemory, IC!LoseMemory, C!R!Junk, IC!Junk

\* Relay of CollectorClickhouse is the Relay of the proofs.
LEMMA CIsRelayInit == C!R!RelayInit => IC!RelayInit
<1>1. C!R!Init => IC!Init
  BY DEF C!R!Init, IC!Init, C!R!Junk, IC!Junk
<1>. QED
  BY <1>1, CSameDelivery DEF C!R!RelayInit, IC!RelayInit

LEMMA CIsRelayStep == [C!R!RelayNext]_(C!R!relayVars) => [IC!RelayNext]_(IC!relayVars)
<1>1. UNCHANGED C!R!vars <=> UNCHANGED IC!vars
  BY DEF C!R!vars, C!R!connVars, C!R!clientVars, C!R!bufVars, C!R!parseVars,
         IC!vars, IC!connVars, IC!clientVars, IC!bufVars, IC!parseVars
<1>2. /\ UNCHANGED <<[r \in 1..MaxRows |-> C!S!Status(r)], crashed \/ misused>>
             <=> UNCHANGED C!R!D!deliveryVars
      /\ UNCHANGED <<[r \in 1..MaxRows |-> CP!Status(r)], crashed \/ misused>>
             <=> UNCHANGED CP!D!deliveryVars
  BY DEF C!R!D!deliveryVars, CP!D!deliveryVars
<1>3. CASE UNCHANGED C!R!relayVars
  BY <1>1, <1>2, <1>3, CSameDelivery DEF C!R!relayVars, IC!relayVars
<1>4. CASE C!R!Receive /\ UNCHANGED <<[r \in 1..MaxRows |-> C!S!Status(r)], crashed \/ misused>>
  BY <1>2, <1>4, CSameDelivery, CIsReceive DEF IC!RelayNext
<1>5. ASSUME NEW r \in READ_THREADS, C!R!PushRow(r),
             NEW k \in 1..MaxRows, k = Len(rows) + 1, C!R!D!Accept(k)
      PROVE  IC!RelayNext
  BY <1>5, CSameDelivery, CIsPushRow DEF IC!RelayNext
<1>6. ASSUME NEW T \in SUBSET C!R!D!InState("held"),
             \/ (C!R!D!Store(T) \/ C!R!D!Lose(T)) /\ UNCHANGED C!R!vars
             \/ C!R!D!Lose(T) /\ C!R!LoseMemory
      PROVE  IC!RelayNext
  BY <1>1, <1>6, CSameDelivery, CIsLoseMemory DEF IC!RelayNext
<1>. QED
  BY <1>3, <1>4, <1>5, <1>6 DEF C!R!RelayNext

LEMMA CIsRelay == C!R!RelaySpec => IC!RelaySpec
BY CIsRelayInit, CIsRelayStep, PTL DEF C!R!RelaySpec, IC!RelaySpec

-----------------------------------------------------------------------------
(* The steps of the saving half.                                           *)

LEMMA CIsInit == C!S!Init => CP!Init
BY CSameSavers DEF C!S!Init, CP!Init, C!S!Queue!Init, CP!Queue!Init, C!S!Queue!Takers,
                   CP!Queue!Takers

LEMMA CIsPush == C!S!Push => CP!Push
BY DEF C!S!Push, CP!Push, C!S!Queue!Put, CP!Queue!Put, C!S!client, CP!client, C!S!wire, CP!wire,
       C!S!server, CP!server, C!S!process, CP!process

LEMMA CSamePieces == /\ \A t, part : C!S!Piece(t, part) = CP!Piece(t, part)
                     /\ \A s : C!S!Whole(s) <=> CP!Whole(s)
                     /\ \A t, labels : C!S!Others(t, labels) = CP!Others(t, labels)
                     /\ C!S!Inside = CP!Inside
BY CSameSavers DEF C!S!Piece, CP!Piece, C!S!Whole, CP!Whole, C!S!Others, CP!Others,
                   C!S!Inside, CP!Inside

LEMMA CIsTerminate == C!S!Terminate => CP!Terminate
BY CSameSavers, CSamePieces DEF C!S!Terminate, CP!Terminate

LEMMA CIsSaverStep ==
    ASSUME NEW t \in C!S!Savers,
           C!S!Drain(t) \/ C!SaverStep(t) \/ C!S!Throw(t) \/ C!S!LoseConnection(t)
    PROVE  CP!Next
<1> USE CSameSavers, CSamePieces
        DEF C!S!memory, C!S!client, C!S!wire, C!S!server, C!S!process, C!S!Move,
            CP!memory, CP!client, CP!wire, CP!server, CP!process, CP!Move
<1>1. C!S!Drain(t) => CP!Drain(t)
  BY DEF C!S!Drain, CP!Drain, C!S!Queue!Take, CP!Queue!Take, C!S!Queue!Ready, CP!Queue!Ready,
         C!S!Queue!Batch, CP!Queue!Batch, C!S!Queue!Rest, CP!Queue!Rest
<1>2. C!S!Enter(t) => CP!Enter(t)
  BY DEF C!S!Enter, CP!Enter
<1>3. C!S!SendHead(t) => CP!SendHead(t)
  BY DEF C!S!SendHead, CP!SendHead, C!S!SendQuery, CP!SendQuery
<1>4. C!S!SendTail(t) => CP!SendTail(t)
  BY DEF C!S!SendTail, CP!SendTail, C!S!SendQuery, CP!SendQuery
<1>5. C!S!Consume(t) => CP!Consume(t)
  BY DEF C!S!Consume, CP!Consume
<1>6. /\ C!S!NextPacket(t) = CP!NextPacket(t)
      /\ C!S!Available(t) <=> CP!Available(t)
  BY DEF C!S!NextPacket, CP!NextPacket, C!S!Available, CP!Available
<1>7. C!S!ReceivePacket(t) => CP!ReceivePacket(t)
  BY <1>5, <1>6 DEF C!S!ReceivePacket, CP!ReceivePacket
<1>8. C!S!ReadRest(t) => CP!ReadRest(t)
  BY <1>5, <1>6 DEF C!S!ReadRest, CP!ReadRest
<1>9. C!S!Leave(t) => CP!Leave(t)
  BY DEF C!S!Leave, CP!Leave, C!S!Queue!Finish, CP!Queue!Finish
<1>10. C!S!Throw(t) => CP!Throw(t)
  BY <1>6, CIsTerminate DEF C!S!Throw, CP!Throw
<1>11. C!S!LoseConnection(t) => CP!LoseConnection(t)
  BY CIsTerminate DEF C!S!LoseConnection, CP!LoseConnection
<1>. QED
  BY <1>1, <1>2, <1>3, <1>4, <1>7, <1>8, <1>9, <1>10, <1>11
     DEF C!SaverStep, CP!Next, CP!SaverStep

LEMMA CIsServerStep ==
    ASSUME NEW c \in C!S!Writers, C!S!ServerStep(c) PROVE CP!Next
<1> USE CSameSavers, CSamePieces
        DEF C!S!memory, C!S!client, C!S!server, C!S!process,
            CP!memory, CP!client, CP!server, CP!process,
            C!S!Answer, CP!Answer, C!S!Received, CP!Received
<1>1. C!S!Commit(c) => CP!Commit(c)
  BY DEF C!S!Commit, CP!Commit, C!S!StoreRows, CP!StoreRows
<1>2. C!S!Refuse(c) => CP!Refuse(c)
  BY DEF C!S!Refuse, CP!Refuse
<1>. QED
  BY <1>1, <1>2 DEF C!S!ServerStep, CP!ServerStep, CP!Next

LEMMA CIsOrphanStep ==
    ASSUME NEW q \in orphans, C!S!FinishOrphan(q) PROVE CP!Next
<1>1. CP!FinishOrphan(q)
  BY CSameSavers DEF C!S!FinishOrphan, CP!FinishOrphan, C!S!StoreRows, CP!StoreRows,
                     C!S!memory, C!S!client, C!S!wire, C!S!process,
                     CP!memory, CP!client, CP!wire, CP!process
<1>. QED
  BY <1>1 DEF CP!Next

LEMMA CIsRestart == C!S!Restart => CP!Next
BY DEF C!S!Restart, CP!Restart, CP!Next, C!S!memory, CP!memory, C!S!client, CP!client,
       C!S!wire, CP!wire, C!S!server, CP!server

LEMMA CIsSyncNothing == C!S!SyncNothing => UNCHANGED CP!vars
BY DEF C!S!SyncNothing, C!S!vars, C!S!memory, C!S!client, C!S!wire, C!S!server, C!S!process,
       CP!vars, CP!memory, CP!client, CP!wire, CP!server, CP!process

\* The saving half alone makes no row.
LEMMA CSaveOnStep ==
    ASSUME C!SaveOn PROVE [CP!Next]_(CP!vars) /\ made' = made /\ UNCHANGED C!ingestVars
<1> USE DEF C!S!memory, C!S!client, C!S!wire, C!S!server, C!S!process, C!S!Move
<1>1. ASSUME NEW t \in C!S!Savers, C!S!Drain(t) \/ C!SaverStep(t) PROVE made' = made
  BY <1>1 DEF C!S!Drain, C!S!Queue!Take, C!SaverStep, C!S!Enter, C!S!SendHead, C!S!SendTail,
              C!S!SendQuery, C!S!ReceivePacket, C!S!ReadRest, C!S!Leave, C!S!Queue!Finish
<1>2. ASSUME NEW c \in C!S!Writers, C!S!ServerStep(c) PROVE made' = made
  BY <1>2 DEF C!S!ServerStep, C!S!Commit, C!S!Refuse
<1>3. ASSUME NEW q \in orphans, C!S!FinishOrphan(q) PROVE made' = made
  BY <1>3 DEF C!S!FinishOrphan
<1>4. C!S!SyncNothing => made' = made
  BY DEF C!S!SyncNothing, C!S!vars
<1>. QED
  BY <1>1, <1>2, <1>3, <1>4, CIsSaverStep, CIsServerStep, CIsOrphanStep, CIsSyncNothing
     DEF C!SaveOn

LEMMA CCrashStep ==
    ASSUME C!Crash
    PROVE  CP!Next /\ made' = made /\ stored' = stored /\ crashed' = TRUE /\ C!R!LoseMemory
<1>1. PICK t \in C!S!Savers : C!S!Throw(t) \/ C!S!LoseConnection(t)
  BY DEF C!Crash
<1>2. CP!Next
  BY <1>1, CIsSaverStep
<1>3. made' = made /\ stored' = stored /\ crashed' = TRUE
  BY <1>1 DEF C!S!Throw, C!S!LoseConnection, C!S!Terminate
<1>. QED
  BY <1>2, <1>3 DEF C!Crash

-----------------------------------------------------------------------------
(* The steps of the collector are steps of Relay.                          *)

\* Row k of SaveClickhouse is rows[k].
ClickhouseInv == IC!RelayInv /\ CP!IInv /\ made = Len(rows)

LEMMA CPushStep ==
    ASSUME ClickhouseInv, NEW r \in READ_THREADS, C!PushRow(r)
    PROVE  /\ C!R!PushRow(r) /\ CP!Next /\ made \in Nat
           /\ made' = made + 1 /\ made + 1 \in 1..MaxRows /\ Len(rows') = Len(rows) + 1
<1>1. C!R!PushRow(r) /\ CP!Next
  BY CIsPush DEF C!PushRow, CP!Next
<1>2. made \in Nat /\ made' = made + 1 /\ made + 1 \in 1..MaxRows
  <2>1. made \in 0..MaxRows /\ MaxRows \in Nat
    BY CollectorAssumption DEF ClickhouseInv, CP!IInv, CP!TypeOK
  <2>2. made' = made + 1 /\ made < MaxRows
    BY DEF C!PushRow, C!S!Push, C!S!Queue!Put
  <2>. QED  BY <2>1, <2>2
<1>3. rows \in Seq(Seq(IC!Cell)) /\ got[r] \in Seq(IC!Cell)
  BY DEF ClickhouseInv, IC!RelayInv, IC!IInv, IC!TypeOK
<1>4. rows' = Append(rows, got[r])
  BY DEF C!PushRow, C!R!PushRow
<1>5. Len(rows') = Len(rows) + 1
  BY <1>3, <1>4
<1>. QED
  BY <1>1, <1>2, <1>5

LEMMA CSaveSteps == ASSUME ClickhouseInv, [C!Next]_(C!vars) PROVE [CP!Next]_(CP!vars)
<1>1. CASE C!Receive \/ UNCHANGED C!vars
  BY <1>1 DEF C!Receive, C!vars, C!saveVars, CP!vars, CP!memory, CP!client, CP!wire, CP!server, CP!process
<1>2. ASSUME NEW r \in READ_THREADS, C!PushRow(r) PROVE CP!Next
  BY <1>2, CPushStep
<1>3. CASE C!SaveOn
  BY <1>3, CSaveOnStep
<1>4. CASE C!Crash
  BY <1>4, CCrashStep
<1>5. CASE C!Restart
  BY <1>5, CIsRestart DEF C!Restart
<1>. QED
  BY <1>1, <1>2, <1>3, <1>4, <1>5 DEF C!Next

\* A step of the saving half that makes no row accepts none.
LEMMA CRowStep ==
    ASSUME CP!IInv, [CP!Next]_(CP!vars), made' = made
    PROVE  \E T \in SUBSET CP!D!InState("held") : CP!D!Store(T) \/ CP!D!Lose(T)
<1>1. CP!D!Next \/ UNCHANGED CP!D!deliveryVars
  BY Assumptions, CP!NextRefines
<1>2. ASSUME NEW k \in 1..MaxRows, CP!D!Accept(k) PROVE FALSE
  <2>1. CP!Status(k) = "new" /\ CP!Status(k)' = "held"
    BY <1>2 DEF CP!D!Accept, CP!D!Become
  <2>2. k > made
    BY <2>1 DEF CP!Status
  <2>3. CP!Status(k)' = "new"
    BY <2>2 DEF CP!Status
  <2>. QED  BY <2>1, <2>3
<1>3. UNCHANGED CP!D!deliveryVars => CP!D!Store({})
  BY DEF CP!D!deliveryVars, CP!D!Store, CP!D!Become
<1>. QED
  BY <1>1, <1>2, <1>3 DEF CP!D!Next

\* Nothing is stored in a crash.
LEMMA CCrashLoses ==
    ASSUME CP!IInv, C!Crash
    PROVE  \E T \in SUBSET CP!D!InState("held") : CP!D!Lose(T)
<1>1. PICK T \in SUBSET CP!D!InState("held") : CP!D!Store(T) \/ CP!D!Lose(T)
  BY CCrashStep, CRowStep
<1>2. stored' = stored /\ crashed' = TRUE
  BY CCrashStep
<1>3. ASSUME CP!D!Store(T) PROVE T = {} /\ CP!D!Lose(T)
  <2>1. ASSUME NEW k \in T PROVE FALSE
    <3>1. CP!Status(k) = "held" /\ CP!Status(k)' = "stored" /\ k \in 1..MaxRows
      BY <1>3 DEF CP!D!Store, CP!D!Become, CP!D!InState
    <3>2. stored[k] > 0 /\ ~(stored[k] > 0)
      BY <1>2, <3>1 DEF CP!Status
    <3>. QED  BY <3>2
  <2>2. T = {}
    BY <2>1
  <2>. QED  BY <1>2, <1>3, <2>2 DEF CP!D!Store, CP!D!Lose, CP!D!Become
<1>. QED
  BY <1>1, <1>3

\* A row that is pushed is accepted.
LEMMA CPushAccepts ==
    ASSUME CP!IInv, CP!Next, made \in Nat, made' = made + 1, made + 1 \in 1..MaxRows
    PROVE  CP!D!Accept(made + 1)
<1>1. CP!D!Next \/ UNCHANGED CP!D!deliveryVars
  BY Assumptions, CP!NextRefines
<1>2. PICK n \in 1..MaxRows : n = made + 1
  OBVIOUS
<1>3. CP!Status(n) = "new" /\ CP!Status(n)' # "new"
  BY <1>2 DEF CP!Status
<1>4. ~UNCHANGED CP!D!deliveryVars
  BY <1>3 DEF CP!D!deliveryVars
<1>5. ASSUME NEW T \in SUBSET CP!D!InState("held"), CP!D!Store(T) \/ CP!D!Lose(T) PROVE FALSE
  <2>1. n \notin T
    BY <1>3 DEF CP!D!InState
  <2>2. CP!Status(n)' = CP!Status(n)
    BY <1>5, <2>1 DEF CP!D!Store, CP!D!Lose, CP!D!Become
  <2>. QED  BY <1>3, <2>2
<1>6. ASSUME NEW k \in 1..MaxRows, CP!D!Accept(k) PROVE k = n
  BY <1>3, <1>6 DEF CP!D!Accept, CP!D!Become
<1>. QED
  BY <1>1, <1>2, <1>4, <1>5, <1>6 DEF CP!D!Next

LEMMA CStepIsRelay ==
    ASSUME ClickhouseInv, [C!Next]_(C!vars) PROVE [C!R!RelayNext]_(C!R!relayVars)
<1>1. UNCHANGED C!ingestVars => UNCHANGED C!R!vars
  BY DEF C!ingestVars, C!R!vars, C!R!connVars, C!R!clientVars, C!R!bufVars, C!R!parseVars
<1>2. UNCHANGED C!saveVars => UNCHANGED <<[r \in 1..MaxRows |-> C!S!Status(r)], crashed \/ misused>>
  BY DEF C!saveVars, C!S!Status, C!S!InFlight, C!S!Held
<1>3. ASSUME [CP!Next]_(CP!vars), made' = made, UNCHANGED C!ingestVars PROVE C!R!RelayNext
  BY <1>1, <1>3, CRowStep, CSameDelivery DEF ClickhouseInv, C!R!RelayNext
<1>4. CASE C!Receive
  BY <1>2, <1>4 DEF C!Receive, C!R!RelayNext
<1>5. ASSUME NEW r \in READ_THREADS, C!PushRow(r) PROVE C!R!RelayNext
  <2>1. C!R!PushRow(r) /\ CP!D!Accept(made + 1) /\ made + 1 \in 1..MaxRows
    BY <1>5, CPushStep, CPushAccepts DEF ClickhouseInv
  <2>. QED  BY <2>1, CSameDelivery DEF ClickhouseInv, C!R!RelayNext
<1>6. CASE C!SaveOn
  BY <1>3, <1>6, CSaveOnStep
<1>7. CASE C!Crash
  BY <1>7, CCrashStep, CCrashLoses, CSameDelivery DEF ClickhouseInv, C!R!RelayNext
<1>8. CASE C!Restart
  BY <1>3, <1>8, CIsRestart DEF C!Restart, C!S!Restart, C!S!memory
<1>9. CASE UNCHANGED C!vars
  BY <1>1, <1>2, <1>9 DEF C!vars, C!R!relayVars
<1>. QED
  BY <1>4, <1>5, <1>6, <1>7, <1>8, <1>9 DEF C!Next

LEMMA CInitCInv == C!Init => ClickhouseInv /\ C!R!RelayInit
<1> SUFFICES ASSUME C!Init PROVE ClickhouseInv /\ C!R!RelayInit
  OBVIOUS
<1>1. CP!Init
  BY CIsInit DEF C!Init
<1>2. CP!IInv /\ CP!D!Init
  BY <1>1, Assumptions, CP!InitIInv, CP!InitRefines
<1>3. C!R!RelayInit
  BY <1>2, CSameDelivery DEF C!Init, C!R!RelayInit
<1>4. IC!RelayInv
  BY <1>3, CIsRelayInit, Assumptions, IC!RelayInitInv
<1>5. made = Len(rows)
  BY DEF C!Init, C!R!Init, C!S!Init, C!S!Queue!Init
<1>. QED
  BY <1>2, <1>3, <1>4, <1>5 DEF ClickhouseInv

LEMMA CNextCInv == ClickhouseInv /\ [C!Next]_(C!vars) => ClickhouseInv'
<1> SUFFICES ASSUME ClickhouseInv, [C!Next]_(C!vars) PROVE ClickhouseInv'
  OBVIOUS
<1>1. CP!IInv'
  BY CSaveSteps, Assumptions, CP!NextIInv DEF ClickhouseInv
<1>2. IC!RelayInv'
  BY CStepIsRelay, CIsRelayStep, Assumptions, IC!RelayNextInv DEF ClickhouseInv
<1>3. made' = Len(rows')
  <2>1. CASE C!Receive
    <3>1. rows' = rows
      BY <2>1, CIsReceive, Assumptions, IC!ReceiveKeepsRows DEF C!Receive
    <3>. QED  BY <2>1, <3>1 DEF C!Receive, ClickhouseInv, C!saveVars
  <2>2. ASSUME NEW r \in READ_THREADS, C!PushRow(r) PROVE made' = Len(rows')
    BY <2>2, CPushStep DEF ClickhouseInv
  <2>3. CASE C!SaveOn
    BY <2>3, CSaveOnStep DEF ClickhouseInv, C!ingestVars
  <2>4. CASE C!Crash
    BY <2>4, CCrashStep DEF ClickhouseInv, C!R!LoseMemory
  <2>5. CASE C!Restart
    BY <2>5 DEF C!Restart, C!S!Restart, C!S!memory, ClickhouseInv, C!ingestVars
  <2>6. CASE UNCHANGED C!vars
    BY <2>6 DEF C!vars, C!ingestVars, C!saveVars, ClickhouseInv
  <2>. QED  BY <2>1, <2>2, <2>3, <2>4, <2>5, <2>6 DEF C!Next
<1>. QED
  BY <1>1, <1>2, <1>3 DEF ClickhouseInv

LEMMA CInvariance == C!Spec => []ClickhouseInv
BY CInitCInv, CNextCInv, PTL DEF C!Spec

\* ImplementsRelay: the same with what SaveClickhouse promises of the rows.
THEOREM ClickhouseRelays == C!Spec => C!ImplementsRelay
BY CInvariance, CInitCInv, CStepIsRelay, PTL DEF C!Spec, C!ImplementsRelay, C!R!RelaySpec

-----------------------------------------------------------------------------
(* What Relay says of messages.                                            *)

\* Clients that wait for an answer, and messages that fit the buffer.
CPacedFit == IC!PacedFit

LEMMA CSameCarried == \A m : C!R!CarriedBy(m) = IC!CarriedBy(m)
BY CSameIntact DEF C!R!CarriedBy, IC!CarriedBy

LEMMA CSameMessage == \A m : C!R!MessageStatus(m) = IC!MessageStatus(m)
<1>1. \A m : C!R!Arriving(m) <=> IC!Arriving(m)
  BY DEF C!R!Arriving, IC!Arriving, C!R!ToSet, IC!ToSet
<1>2. [r \in 1..MaxRows |-> C!S!Status(r)] = [r \in 1..MaxRows |-> CP!Status(r)]
  BY CSameStatus
<1> SUFFICES ASSUME NEW m PROVE C!R!MessageStatus(m) = IC!MessageStatus(m)
  OBVIOUS
<1>3. C!R!CarriedBy(m) = IC!CarriedBy(m) /\ (C!R!Arriving(m) <=> IC!Arriving(m))
  BY <1>1, CSameCarried
<1>. QED
  BY <1>2, <1>3, Zenon DEF C!R!MessageStatus, IC!MessageStatus

LEMMA CSameMessageThen == (\A m : C!R!MessageStatus(m) = IC!MessageStatus(m))'
BY CSameMessage, PTL

LEMMA CSameEnd == IC!EndToEnd => C!R!EndToEnd
<1>1. \A m : /\ C!R!MessageStatus(m) = IC!MessageStatus(m)
             /\ C!R!MessageStatus(m)' = IC!MessageStatus(m)'
  BY CSameMessage, CSameMessageThen
<1>2. IC!M!Init => C!R!M!Init
  BY <1>1 DEF IC!M!Init, C!R!M!Init
<1>3. \A T, s : IC!M!Become(T, s) <=> C!R!M!Become(T, s)
  BY <1>1 DEF IC!M!Become, C!R!M!Become
<1>4. IC!M!InState("held") = C!R!M!InState("held")
  BY <1>1 DEF IC!M!InState, C!R!M!InState
<1>5. \A m \in 1..MaxMessages : IC!M!Accept(m) => C!R!M!Accept(m)
  BY <1>1, <1>3 DEF IC!M!Accept, C!R!M!Accept
<1>6. \A T : (IC!M!Store(T) => C!R!M!Store(T)) /\ (IC!M!Lose(T) => C!R!M!Lose(T))
  BY <1>3 DEF IC!M!Store, C!R!M!Store, IC!M!Lose, C!R!M!Lose
<1>7. UNCHANGED IC!M!deliveryVars => UNCHANGED C!R!M!deliveryVars
  BY <1>1 DEF IC!M!deliveryVars, C!R!M!deliveryVars
<1>8. [IC!M!Next]_(IC!M!deliveryVars) => [C!R!M!Next]_(C!R!M!deliveryVars)
  BY <1>4, <1>5, <1>6, <1>7 DEF IC!M!Next, C!R!M!Next
<1>. QED
  BY <1>2, <1>8, PTL DEF IC!EndToEnd, C!R!EndToEnd, IC!M!Spec, C!R!M!Spec

LEMMA CRelaysThere == C!Spec => IC!RelaySpec
BY ClickhouseRelays, CIsRelay DEF C!ImplementsRelay

\* EndToEnd: the collector on ClickHouse implements Delivery, of messages: from
\* the moment a paced client has sent one it is held, then stored or lost,
\* and lost only in or after a crash or a misuse of the shared client.
THEOREM ClickhouseDelivers == ASSUME CPacedFit PROVE C!Spec => C!EndToEnd
<1>1. IC!RelaySpec => IC!EndToEnd
  BY Assumptions, IC!RelayDelivers DEF CPacedFit
<1>. QED
  BY <1>1, CRelaysThere, CSameEnd DEF C!EndToEnd

\* StoredOnceUnlessShared: the same, unless the shared client is misused.
THEOREM ClickhouseStoresOnce ==
    ASSUME CPacedFit PROVE C!Spec => []C!StoredOnceUnlessShared
<1>1. ClickhouseInv /\ (\A m : \A k \in IC!CarriedBy(m) : IC!CarriedBy(m) = {k})
          => C!StoredOnceUnlessShared
  <2> SUFFICES ASSUME ClickhouseInv, \A m : \A k \in IC!CarriedBy(m) : IC!CarriedBy(m) = {k},
                      ~misused, NEW m \in DOMAIN sent
               PROVE  C!Cardinality(C!Copies(m)) <= 1
    BY DEF C!StoredOnceUnlessShared
  <2>1. ASSUME NEW k \in C!R!CarriedBy(m) PROVE k \in 1..MaxRows /\ stored[k] \in {0, 1}
    <3>1. k \in 1..MaxRows
      BY CSameCarried DEF ClickhouseInv, IC!RelayInv, IC!RowsAccepted, IC!CarriedBy
    <3>2. stored \in [1..MaxRows -> Nat] /\ stored[k] <= 1
      BY <3>1 DEF ClickhouseInv, CP!IInv, CP!TypeOK, CP!AtMostOnceUnlessShared
    <3>. QED  BY <3>1, <3>2
  <2>2. \A x \in C!Copies(m) : \E k \in C!R!CarriedBy(m) : x = <<k, 1>>
    BY <2>1 DEF C!Copies
  <2>3. \A x, y \in C!Copies(m) : x = y
    BY <2>2, CSameCarried
  <2>4. \A T : C!Cardinality(T) = Cardinality(T)
    BY DEF C!Cardinality, Cardinality
  <2>. QED  BY <2>3, <2>4, AtMostOne
<1>2. IC!RelaySpec => [](\A m : \A k \in IC!CarriedBy(m) : IC!CarriedBy(m) = {k})
  BY Assumptions, IC!RelayOneRowEach DEF CPacedFit
<1>. QED
  BY <1>1, <1>2, CInvariance, CRelaysThere, PTL

\* Fed by the receiving half, and whatever clients send, the saving half still
\* implements Delivery, of rows (Implements of SaveClickhouse).
THEOREM ClickhouseDeliversRows == C!Spec => CP!Implements
<1>1. C!Init => CP!D!Init
  BY CInitCInv, CSameDelivery DEF C!R!RelayInit
<1>2. ClickhouseInv /\ [C!Next]_(C!vars) => [CP!D!Next]_(CP!D!deliveryVars)
  BY CSaveSteps, Assumptions, CP!NextRefines DEF ClickhouseInv
<1>. QED
  BY <1>1, <1>2, CInvariance, PTL DEF C!Spec, CP!Implements, CP!D!Spec
================================================================================
