----------------------------- MODULE SaveProofs ------------------------------
(***************************************************************************)
(* Safety of the saving half, for any number of write workers, any         *)
(* threshold and any number of rows and crashes: until two threads are     *)
(* inside libpq at once no row is stored twice and none is lost without a  *)
(* crash; such a race is always noticed; and Save implements Delivery.     *)
(* Then how far the connection with two users goes wrong: its transactions *)
(* are mixed up, those of no other connection are, and no pointer dangles. *)
(***************************************************************************)
EXTENDS Save, TLAPS

\* The saver has drained its bucket and the server has not seen it.
Unsent(t) == pc[t] \in {"begin", "claim", "order", "send", "flush"}

\* Nobody else can have touched what this saver sends and receives.
Sound(t) == t \in Sole \/ ~misused

\* A row is in one place: the deque, one bucket, or, once sent, one INSERT
\* besides the bucket it came from.
OnePlace == misused \/
    /\ \A t \in Savers : Rows(insert_statements) \cap Rows(bucket[t]) = {}
    /\ \A t, u \in Savers : t # u => Rows(bucket[t]) \cap Rows(bucket[u]) = {}
    /\ \A q \in running : Rows(q.rows) \cap Rows(insert_statements) = {}
    /\ \A q \in running, t \in Savers :
           Unsent(t) => Rows(q.rows) \cap Rows(bucket[t]) = {}
    /\ \A p, q \in running : p # q => Rows(p.rows) \cap Rows(q.rows) = {}

\* What has not been decided is not in the table.
Undecided == misused \/
    /\ \A r \in Rows(insert_statements) : stored[r] = 0
    /\ \A t \in Savers : Unsent(t) => \A r \in Rows(bucket[t]) : stored[r] = 0
    /\ \A q \in running : \A r \in Rows(q.rows) : stored[r] = 0

\* Rows that have not been pushed are not in the table, whatever else is.
New == \A r \in 1..MaxRows : r > made => stored[r] = 0

\* An INSERT whose sender lives is the sender's bucket, and the sender waits
\* for it; one whose sender is gone was left behind by a crash.
Sender ==
    \A q \in running :
        IF q.by = None THEN crashed
        ELSE Sound(q.by) => /\ pc[q.by] \in {"check", "await"}
                            /\ q.rows = bucket[q.by]
                            /\ reply[q.by] = "none"

\* An answer is there only for a saver that waits, and a good one means that
\* its rows are in the table.
Answered ==
    \A t \in Savers : Sound(t) =>
        /\ reply[t] # "none" => pc[t] \in {"check", "await"}
        /\ reply[t] = "ok" \/ pc[t] = "finish" =>
               \A r \in Rows(bucket[t]) : stored[r] > 0

\* A bucket is empty in the wait and nowhere else.
BucketInv == \A t \in Savers : bucket[t] = <<>> <=> pc[t] = "idle"

\* Commands are mixed only where two share a connection.
MixedInv == /\ mixed \cap Sole = {}
            /\ mixed # {} => misused

IInv == /\ TypeOK
        /\ OnePlace
        /\ Undecided
        /\ New
        /\ Sender
        /\ Answered
        /\ BucketInv
        /\ MixedInv
        /\ AtMostOnce
        /\ NothingLost
        /\ RaceNoticed
        /\ NoEmptyInsert

-----------------------------------------------------------------------------
(* The rows of a sequence.                                                 *)

LEMMA RowsEmpty == Rows(<<>>) = {}
BY DEF Rows

\* push_front adds the new row and keeps the others.
LEMMA RowsPush ==
    ASSUME NEW n \in Nat, NEW s \in Seq(1..n)
    PROVE  /\ <<n + 1>> \o s \in Seq(1..(n + 1))
           /\ <<n + 1>> \o s # <<>>
           /\ Rows(<<n + 1>> \o s) = {n + 1} \cup Rows(s)
<1> DEFINE q == <<n + 1>> \o s
<1>1. s \in Seq(1..(n + 1)) /\ <<n + 1>> \in Seq(1..(n + 1))
  <2>1. 1..n \subseteq 1..(n + 1)
    OBVIOUS
  <2> QED BY <2>1
<1>2. /\ q \in Seq(1..(n + 1))
      /\ Len(q) = Len(s) + 1
      /\ q[1] = n + 1
      /\ \A i \in 1..Len(s) : q[i + 1] = s[i]
  BY <1>1
<1>3. Rows(q) \subseteq {n + 1} \cup Rows(s)
  <2> SUFFICES ASSUME NEW i \in 1..Len(q), i # 1 PROVE \E j \in 1..Len(s) : q[i] = s[j]
    BY <1>2 DEF Rows
  <2>1. (i - 1) \in 1..Len(s) /\ q[(i - 1) + 1] = s[i - 1] /\ (i - 1) + 1 = i
    BY <1>2
  <2> QED BY <2>1
<1>4. {n + 1} \cup Rows(s) \subseteq Rows(q)
  <2>1. n + 1 \in Rows(q)
    BY <1>2 DEF Rows
  <2>2. ASSUME NEW i \in 1..Len(s) PROVE s[i] \in Rows(q)
    <3>1. (i + 1) \in 1..Len(q) /\ q[i + 1] = s[i]
      BY <1>2
    <3>2. DOMAIN q = 1..Len(q)
      BY <1>2
    <3> HIDE DEF q
    <3> QED BY <3>1, <3>2 DEF Rows
  <2>3. Rows(s) = {s[i] : i \in 1..Len(s)}
    BY DEF Rows
  <2> QED BY <2>1, <2>2, <2>3
<1> QED BY <1>2, <1>3, <1>4

LEMMA RowsType ==
    ASSUME NEW n \in Nat, NEW s \in Seq(1..n)
    PROVE  Rows(s) \subseteq 1..n
BY DEF Rows

\* Rows stay rows when more are pushed.
LEMMA RowsWiden ==
    ASSUME NEW n \in Nat, NEW s \in Seq(1..n)
    PROVE  s \in Seq(1..(n + 1))
<1>1. 1..n \subseteq 1..(n + 1)
  OBVIOUS
<1> QED BY <1>1

\* Every saver has a connection, and the sync worker shares db[0].
LEMMA ConnType ==
    /\ \A t \in Savers : Conn(t) \in Writers
    /\ None \notin Savers
    /\ Sync \in Savers
    /\ Writers \subseteq Savers
BY SaveAssumption DEF Conn, Savers, Writers

\* ... with write worker 0 alone.
LEMMA SoleConn == /\ Sole \subseteq Savers
                  /\ \A t \in Sole : t \in Writers /\ t # None /\ Conn(t) = t
                  /\ \A t \in Sole, u \in Savers : Conn(u) = t => u = t
BY SaveAssumption DEF Sole, Savers, Writers, Conn

\* The rows that are anywhere have been pushed.
LEMMA RowsMade ==
    ASSUME TypeOK
    PROVE  /\ made \in Nat /\ MaxRows \in Nat /\ made <= MaxRows
           /\ Rows(insert_statements) \subseteq 1..made
           /\ \A t \in Savers : Rows(bucket[t]) \subseteq 1..made
           /\ \A q \in running : Rows(q.rows) \subseteq 1..made
           /\ 1..made \subseteq 1..MaxRows
<1>1. made \in Nat /\ MaxRows \in Nat /\ made <= MaxRows /\ 1..made \subseteq 1..MaxRows
  BY SaveAssumption DEF TypeOK
<1>2. \A s \in Seq(1..made) : Rows(s) \subseteq 1..made
  BY <1>1, RowsType
<1> QED BY <1>1, <1>2 DEF TypeOK, Query

-----------------------------------------------------------------------------
(* The invariant.                                                          *)

LEMMA InitIInv == Init => IInv
<1> SUFFICES ASSUME Init PROVE IInv
  OBVIOUS
<1> USE DEF Init, Queue!Init
<1>1. bucket = [t \in Savers |-> <<>>]
  BY DEF Queue!Takers, Savers
<1>2. TypeOK
  <2>1. made \in 0..MaxRows /\ insert_statements \in Seq(1..made)
    BY SaveAssumption
  <2>2. bucket \in [Savers -> Seq(1..made)]
    BY <1>1
  <2>3. stored \in [1..MaxRows -> Nat]
    OBVIOUS
  <2> QED BY <2>1, <2>2, <2>3 DEF TypeOK, Pcs
<1>3. OnePlace /\ Undecided /\ New /\ Sender /\ Answered /\ BucketInv /\ MixedInv
  BY <1>1, RowsEmpty
     DEF OnePlace, Undecided, New, Sender, Answered, BucketInv, MixedInv, Unsent
<1>4. AtMostOnce /\ NothingLost /\ RaceNoticed /\ NoEmptyInsert
  BY DEF AtMostOnce, NothingLost, RaceNoticed, NoEmptyInsert
<1> QED BY <1>2, <1>3, <1>4 DEF IInv

LEMMA PushIInv == IInv /\ Push => IInv'
<1> SUFFICES ASSUME IInv, Push PROVE IInv'
  OBVIOUS
<1>m. /\ \A t \in Savers : Rows(bucket[t]) \subseteq 1..made
      /\ \A q \in running : Rows(q.rows) \subseteq 1..made
  <2>1. TypeOK
    BY DEF IInv
  <2> QED BY <2>1, RowsMade
<1> USE DEF Push, Queue!Put, client, server, process
<1>1. /\ made < MaxRows /\ made' = made + 1 /\ made \in Nat /\ MaxRows \in Nat
      /\ insert_statements' \in Seq(1..made')
      /\ Rows(insert_statements') = {made + 1} \cup Rows(insert_statements)
  BY RowsPush, SaveAssumption DEF IInv, TypeOK
<1>2. \A s \in Seq(1..made) : s \in Seq(1..made')
  BY <1>1, RowsWiden
<1>3. TypeOK'
  BY <1>1, <1>2 DEF IInv, TypeOK, Query
<1>a. /\ \A t \in Savers : made + 1 \notin Rows(bucket[t])
      /\ \A q \in running : made + 1 \notin Rows(q.rows)
      /\ made + 1 \in 1..MaxRows
  <2>1. made + 1 \notin 1..made
    BY <1>1
  <2>2. made + 1 \in 1..MaxRows
    BY <1>1
  <2> QED BY <1>m, <2>1, <2>2
<1>4. OnePlace'
  <2>1. OnePlace /\ Rows(insert_statements') = {made + 1} \cup Rows(insert_statements)
    BY <1>1 DEF IInv
  <2>2. bucket' = bucket /\ running' = running /\ pc' = pc
    OBVIOUS
  <2> QED BY <1>a, <2>1, <2>2 DEF OnePlace, Unsent
<1>5. Undecided' /\ New'
  <2>1. stored[made + 1] = 0 /\ \A r \in 1..MaxRows : r > made + 1 => stored[r] = 0
    BY <1>1, <1>a DEF IInv, New
  <2> QED BY <1>1, <2>1 DEF IInv, Undecided, New, Unsent
<1>6. /\ Sender' /\ Answered' /\ BucketInv' /\ MixedInv' /\ AtMostOnce' /\ RaceNoticed'
      /\ NoEmptyInsert'
  BY DEF IInv, Sender, Answered, Sound, BucketInv, MixedInv, AtMostOnce, RaceNoticed,
         NoEmptyInsert
<1>7. NothingLost'
  BY <1>1 DEF IInv, NothingLost, Held
<1> QED BY <1>3, <1>4, <1>5, <1>6, <1>7 DEF IInv

LEMMA DrainIInv == ASSUME IInv, NEW t \in Savers, Drain(t) PROVE IInv'
<1> USE DEF Drain, Move, Queue!Take, server, process
<1>1. /\ bucket' = [bucket EXCEPT ![t] = insert_statements]
      /\ insert_statements' = <<>>
      /\ Rows(insert_statements') = {}
  BY RowsEmpty DEF Queue!Batch, Queue!Rest
<1>2. insert_statements # <<>>
  BY SaveAssumption DEF Queue!Ready, IInv, TypeOK
<1>3. TypeOK'
  BY <1>1 DEF IInv, TypeOK, Pcs, Query
<1>4. OnePlace'
  BY <1>1 DEF IInv, TypeOK, OnePlace, Unsent
<1>5. Undecided'
  <2>1. \A u \in Savers : Rows(bucket'[u]) = IF u = t THEN Rows(insert_statements)
                                                    ELSE Rows(bucket[u])
    BY <1>1 DEF IInv, TypeOK
  <2>2. \A u \in Savers : u # t => (Unsent(u)' <=> Unsent(u))
    BY DEF IInv, TypeOK, Unsent
  <2> QED BY <1>1, <2>1, <2>2 DEF IInv, Undecided
<1>6. Sender'
  BY <1>1 DEF IInv, TypeOK, Sender, Sound
<1>7. Answered' /\ BucketInv'
  BY <1>1, <1>2 DEF IInv, TypeOK, Answered, Sound, BucketInv
<1>8. New' /\ MixedInv' /\ AtMostOnce' /\ RaceNoticed' /\ NoEmptyInsert'
  BY DEF IInv, TypeOK, New, MixedInv, AtMostOnce, RaceNoticed, NoEmptyInsert
<1>9. NothingLost'
  <2>1. bucket[t] = <<>>
    OBVIOUS
  <2> QED BY <1>1, <2>1, RowsEmpty DEF IInv, TypeOK, NothingLost, Held
<1> QED BY <1>3, <1>4, <1>5, <1>6, <1>7, <1>8, <1>9 DEF IInv

\* Steps inside execute() that touch only the control state and the current
\* transaction: the test, the claim and the two looks at the order.
LEMMA ControlIInv ==
    ASSUME IInv, NEW t \in Savers,
           TestCurrent(t) \/ Claim(t) \/ Order(t) \/ CheckCurrent(t)
    PROVE  IInv'
<1> USE DEF memory, server, process
<1>1. PICK from, to : /\ Move(t, from, to)
                      /\ \/ from \in {"begin", "claim", "order"} /\ to \in {"claim", "order", "send"}
                         \/ from = "check" /\ to = "await"
  BY DEF TestCurrent, Claim, Order, CheckCurrent
<1>2. /\ pc[t] = from /\ pc' = [pc EXCEPT ![t] = to] /\ to \in Pcs
      /\ UNCHANGED <<memory, busy, mixed, server, process>>
      /\ current' \in [Writers -> Savers \cup {None}]
  <2>1. pc[t] = from /\ pc' = [pc EXCEPT ![t] = to] /\ to \in Pcs
    BY <1>1 DEF Move, Pcs
  <2>2. UNCHANGED <<memory, busy, mixed, server, process>>
    BY <1>1 DEF TestCurrent, Claim, Order, CheckCurrent, Move
  <2>3. current' = current \/ current' = [current EXCEPT ![Conn(t)] = t]
    BY DEF TestCurrent, Claim, Order, CheckCurrent
  <2>4. current' \in [Writers -> Savers \cup {None}]
    BY <2>3 DEF IInv, TypeOK
  <2> QED BY <2>1, <2>2, <2>4
<1>3. TypeOK'
  BY <1>2 DEF IInv, TypeOK, Pcs, Query
<1>4. OnePlace' /\ Undecided' /\ New'
  <2>1. \A u \in Savers : Unsent(u)' <=> Unsent(u)
    BY <1>1, <1>2 DEF IInv, TypeOK, Unsent
  <2>2. OnePlace'
    BY <1>2, <2>1 DEF IInv, OnePlace
  <2>3. Undecided' /\ New'
    BY <1>2, <2>1 DEF IInv, Undecided, New
  <2> QED BY <2>2, <2>3
<1>5. Sender'
  BY <1>1, <1>2 DEF IInv, TypeOK, Sender, Sound
<1>6. Answered' /\ BucketInv'
  BY <1>1, <1>2 DEF IInv, TypeOK, Answered, Sound, BucketInv
<1>7. MixedInv' /\ AtMostOnce' /\ NothingLost' /\ NoEmptyInsert'
  BY <1>2 DEF IInv, MixedInv, AtMostOnce, NothingLost, Held, NoEmptyInsert
<1>8. RaceNoticed'
  <2> SUFFICES ASSUME mixed # {} PROVE RaceNoticed'
    BY <1>2 DEF RaceNoticed
  <2>1. PICK l \in mixed : pc[l] \in {"flush", "check"} /\ current[Conn(l)] # l
    BY DEF IInv, RaceNoticed
  <2>2. l \in Savers /\ l # t
    BY <2>1 DEF IInv, TypeOK, TestCurrent, Claim, Order, CheckCurrent, Move
  <2>3. pc'[l] = pc[l]
    BY <1>2, <2>2 DEF IInv, TypeOK
  <2>4. current'[Conn(l)] # l
    BY <2>1, <2>2, ConnType DEF TestCurrent, Claim, Order, CheckCurrent, IInv, TypeOK
  <2> QED BY <1>2, <2>1, <2>3, <2>4 DEF RaceNoticed
<1> QED BY <1>3, <1>4, <1>5, <1>6, <1>7, <1>8 DEF IInv

\* Two that write at once share a connection.
LEMMA WritersShare ==
    ASSUME NEW t \in Savers, NEW u \in Others(t, {"flush", "check", "await"})
    PROVE  t \notin Sole /\ u \notin Sole /\ u \in Savers /\ u # t /\ Conn(u) = Conn(t)
           /\ pc[u] \in {"flush", "check", "await"}
BY SoleConn DEF Others

\* libpq sees no command in progress, perhaps as the other one is still being
\* written: then one of the two is not in the current transaction.
LEMMA SendIInv == ASSUME IInv, NEW t \in Savers, Send(t) PROVE IInv'
<1> USE DEF Send, Move, memory, server
<1>w. Writing(t) \subseteq Others(t, {"flush", "check", "await"})
  BY DEF Writing, Others
<1>1. TypeOK'
  BY <1>w, WritersShare DEF IInv, TypeOK, Pcs, Query
<1>2. OnePlace' /\ Undecided' /\ New'
  <2>1. \A u \in Savers : Unsent(u)' <=> Unsent(u)
    BY DEF IInv, TypeOK, Unsent
  <2>2. OnePlace'
    BY <2>1 DEF IInv, OnePlace
  <2>3. Undecided' /\ New'
    BY <2>1 DEF IInv, Undecided, New
  <2> QED BY <2>2, <2>3
<1>3. Sender'
  BY DEF IInv, TypeOK, Sender, Sound
<1>4. Answered' /\ BucketInv'
  BY DEF IInv, TypeOK, Answered, Sound, BucketInv
<1>5. MixedInv'
  <2>1. Writing(t) # {} => t \notin Sole /\ Writing(t) \cap Sole = {}
    BY <1>w, WritersShare
  <2> QED BY <2>1 DEF IInv, MixedInv
<1>6. AtMostOnce' /\ NothingLost' /\ NoEmptyInsert'
  BY DEF IInv, AtMostOnce, NothingLost, Held, NoEmptyInsert
<1>7. RaceNoticed'
  <2>1. CASE Writing(t) = {}
    <3> SUFFICES ASSUME mixed # {} PROVE RaceNoticed'
      BY <2>1 DEF RaceNoticed
    <3>1. PICK l \in mixed : pc[l] \in {"flush", "check"} /\ current[Conn(l)] # l
      BY DEF IInv, RaceNoticed
    <3>2. l # t /\ pc'[l] = pc[l]
      BY <3>1 DEF IInv, TypeOK
    <3> QED BY <2>1, <3>1, <3>2 DEF RaceNoticed
  <2>2. ASSUME NEW u \in Writing(t) PROVE RaceNoticed'
    <3>1. u \in Savers /\ u # t /\ Conn(u) = Conn(t) /\ pc[u] = "flush"
      BY DEF Writing, Others
    <3>2. pc'[u] = "flush" /\ pc'[t] = "flush" /\ {t, u} \subseteq mixed'
      BY <3>1 DEF IInv, TypeOK
    <3>3. current[Conn(t)] # t \/ current[Conn(u)] # u
      BY <3>1
    <3> QED BY <3>2, <3>3 DEF RaceNoticed
  <2> QED BY <2>1, <2>2
<1> QED BY <1>1, <1>2, <1>3, <1>4, <1>5, <1>6, <1>7 DEF IInv

\* A command leaves for the server: the saver's own, if no other thread was
\* inside PQsendQueryParams at the same time.
LEMMA SentCommand ==
    ASSUME IInv, NEW t \in Savers, pc[t] = "flush", NEW Q \in Sent(t), NEW q \in Q
    PROVE  /\ q \in Query /\ q.by # None /\ q.rows # <<>>
           /\ \E u \in Savers : q.rows = bucket[u]
           /\ t \notin mixed => Q = {Insert(t)}
           /\ t \in mixed => q.by \notin Sole
<1> USE DEF Query
<1>1. CASE t \notin mixed
  <2>1. q = Insert(t) /\ Q = {Insert(t)}
    BY <1>1 DEF Sent
  <2>2. bucket[t] # <<>> /\ bucket[t] \in Seq(1..made) /\ t # None
    BY ConnType DEF IInv, TypeOK, BucketInv
  <2> QED BY <1>1, <2>1, <2>2 DEF Insert
<1>2. CASE t \in mixed
  <2> DEFINE T == {t} \cup Others(t, {"flush", "check", "await"})
  <2>1. q \in Mixtures(T)
    BY <1>2 DEF Sent
  <2>2. q \in [by : T, rows : {bucket[u] : u \in T}]
    BY <2>1 DEF Mixtures
  <2>3. q.by \in T /\ q = [by |-> q.by, rows |-> q.rows]
    BY <2>2
  <2>4. PICK u \in T : q.rows = bucket[u]
    BY <2>2
  <2>5. t \notin Sole
    BY <1>2 DEF IInv, MixedInv
  <2>6. \A v \in T : v \in Savers /\ v \notin Sole /\ pc[v] \in {"flush", "check", "await"}
    BY <2>5, WritersShare
  <2>7. \A v \in T : bucket[v] # <<>> /\ bucket[v] \in Seq(1..made) /\ v # None
    BY <2>6, ConnType DEF IInv, TypeOK, BucketInv
  <2> QED BY <1>2, <2>3, <2>4, <2>6, <2>7
<1> QED BY <1>1, <1>2

\* What two have written at once disturbs only what is promised of neither.
LEMMA MixedFlush ==
    ASSUME IInv, NEW t \in Savers, Flush(t), t \in mixed
    PROVE  OnePlace' /\ Undecided' /\ Sender'
<1> USE DEF Flush, Move, memory, process
<1>1. misused /\ misused' /\ t \notin Sole
  BY DEF IInv, MixedInv
<1>2. OnePlace' /\ Undecided'
  BY <1>1 DEF OnePlace, Undecided
<1>3. \A q \in running' : q \in running \/ (q.by # None /\ q.by \notin Sole)
  BY SentCommand
<1>4. \A u \in Sole : u # t /\ pc'[u] = pc[u]
  BY <1>1, SoleConn DEF IInv, TypeOK
<1>5. Sender'
  BY <1>1, <1>3, <1>4 DEF IInv, Sender, Sound
<1> QED BY <1>2, <1>5

\* A command written by one thread alone: its rows are nowhere else.
LEMMA SoundFlush ==
    ASSUME IInv, NEW t \in Savers, Flush(t), t \notin mixed
    PROVE  OnePlace' /\ Undecided' /\ Sender'
<1> USE DEF Flush, Move, memory, process
<1> DEFINE q == Insert(t)
<1>1. /\ pc[t] = "flush" /\ pc' = [pc EXCEPT ![t] = "check"]
      /\ q.by = t /\ q.rows = bucket[t] /\ running' = running \cup {q}
      /\ t # None /\ misused' = misused
      /\ Sound(t) => reply[t] = "none"
      /\ Unsent(t)
  BY ConnType DEF IInv, TypeOK, Answered, Unsent, Insert, Sent
<1> HIDE DEF q
<1>2. \A u \in Savers : Unsent(u)' => u # t /\ Unsent(u)
  BY DEF Unsent, IInv, TypeOK
<1>3. ASSUME ~misused PROVE OnePlace'
  <2>1. \A p \in running : Rows(p.rows) \cap Rows(q.rows) = {}
    BY <1>1, <1>3 DEF IInv, OnePlace
  <2>2. \A u \in Savers : Unsent(u)' => Rows(q.rows) \cap Rows(bucket[u]) = {}
    BY <1>1, <1>2, <1>3 DEF IInv, OnePlace
  <2>3. Rows(q.rows) \cap Rows(insert_statements) = {}
    BY <1>1, <1>3 DEF IInv, OnePlace
  <2> QED BY <1>1, <1>2, <1>3, <2>1, <2>2, <2>3 DEF IInv, OnePlace
<1>4. ASSUME ~misused PROVE Undecided'
  <2>1. \A r \in Rows(q.rows) : stored[r] = 0
    BY <1>1, <1>4 DEF IInv, Undecided
  <2> QED BY <1>1, <1>2, <1>4, <2>1 DEF IInv, Undecided
<1>5. Sender'
  <2>1. ASSUME NEW p \in running'
        PROVE  IF p.by = None THEN crashed'
               ELSE Sound(p.by)' => /\ pc'[p.by] \in {"check", "await"}
                                    /\ p.rows = bucket'[p.by]
                                    /\ reply'[p.by] = "none"
    <3>1. Sound(p.by)' <=> Sound(p.by)
      BY DEF Sound
    <3>2. CASE p = q
      BY <1>1, <3>1, <3>2 DEF IInv, TypeOK
    <3>3. CASE p \in running
      BY <1>1, <3>1, <3>3 DEF IInv, TypeOK, Sender
    <3> QED BY <1>1, <3>2, <3>3
  <2> QED BY <2>1 DEF Sender
<1>6. misused => OnePlace' /\ Undecided'
  BY <1>1 DEF OnePlace, Undecided
<1> QED BY <1>3, <1>4, <1>5, <1>6

LEMMA FlushIInv == ASSUME IInv, NEW t \in Savers, Flush(t) PROVE IInv'
<1> USE DEF Flush, Move, memory, process
<1>1. PICK Q \in Sent(t) : running' = running \cup Q
  OBVIOUS
<1>2. \A q \in Q : q \in Query /\ q.rows # <<>>
  BY SentCommand
<1>3. TypeOK'
  <2>1. busy' \in [Writers -> BOOLEAN]
    BY ConnType DEF IInv, TypeOK
  <2>2. running' \subseteq Query'
    BY <1>1, <1>2 DEF IInv, TypeOK, Query
  <2> QED BY <2>1, <2>2 DEF IInv, TypeOK, Pcs
<1>4. OnePlace' /\ Undecided' /\ Sender'
  BY MixedFlush, SoundFlush
<1>5. Answered' /\ BucketInv'
  BY DEF IInv, TypeOK, Answered, Sound, BucketInv
<1>6. New' /\ MixedInv' /\ AtMostOnce' /\ NothingLost'
  BY DEF IInv, New, MixedInv, AtMostOnce, NothingLost, Held
<1>7. NoEmptyInsert'
  BY <1>1, <1>2 DEF IInv, NoEmptyInsert
<1>8. RaceNoticed'
  BY DEF IInv, TypeOK, RaceNoticed
<1> QED BY <1>3, <1>4, <1>5, <1>6, <1>7, <1>8 DEF IInv

\* After these steps of a saver its answer has been read.
LEMMA ReadAnswer ==
    ASSUME IInv, NEW t \in Savers, NEW to, to \in {"finish", "idle"},
           \/ pc[t] = "await" /\ reply[t] = "ok" /\ reply' = [reply EXCEPT ![t] = "none"]
           \/ pc[t] = "finish" /\ reply' = reply,
           pc' = [pc EXCEPT ![t] = to],
           bucket' = bucket \/ bucket' = [bucket EXCEPT ![t] = <<>>],
           running' = running, crashed' = crashed, misused' = misused
    PROVE  Sender'
<1>1. \A q \in running : q.by = t => ~Sound(t)
  BY ConnType DEF IInv, Sender, Answered
<1>2. ASSUME NEW q \in running, q.by # t, q.by # None
      PROVE  reply'[q.by] = reply[q.by] /\ pc'[q.by] = pc[q.by] /\ bucket'[q.by] = bucket[q.by]
  BY <1>2 DEF IInv, TypeOK, Query
<1> QED BY <1>1, <1>2 DEF IInv, Sender, Sound

LEMMA ReceiveIInv == ASSUME IInv, NEW t \in Savers, Receive(t) PROVE IInv'
<1> USE DEF Receive, Move, memory, process
<1>1. TypeOK'
  <2>1. busy' \in [Writers -> BOOLEAN]
    BY ConnType DEF IInv, TypeOK
  <2> QED BY <2>1 DEF IInv, TypeOK, Pcs, Query
<1>2. OnePlace' /\ Undecided' /\ New'
  <2>1. \A u \in Savers : Unsent(u)' <=> Unsent(u)
    BY DEF IInv, TypeOK, Unsent
  <2> QED BY <2>1 DEF IInv, OnePlace, Undecided, New
<1>3. Sender'
  BY ReadAnswer
<1>4. Answered' /\ BucketInv'
  BY DEF IInv, TypeOK, Answered, Sound, BucketInv
<1>5. MixedInv' /\ AtMostOnce' /\ NothingLost' /\ NoEmptyInsert'
  BY DEF IInv, MixedInv, AtMostOnce, NothingLost, Held, NoEmptyInsert
<1>6. RaceNoticed'
  BY DEF IInv, TypeOK, RaceNoticed
<1> QED BY <1>1, <1>2, <1>3, <1>4, <1>5, <1>6 DEF IInv

LEMMA FinishIInv == ASSUME IInv, NEW t \in Savers, Finish(t) PROVE IInv'
<1> USE DEF Finish, Move, Queue!Finish, server, process
<1>1. TypeOK'
  <2>1. <<>> \in Seq(1..made)
    OBVIOUS
  <2>2. current' \in [Writers -> Savers \cup {None}]
    BY DEF IInv, TypeOK
  <2> QED BY <2>1, <2>2 DEF IInv, TypeOK, Pcs, Query
<1>2. OnePlace' /\ Undecided' /\ New'
  <2>1. \A u \in Savers : /\ Unsent(u)' => Unsent(u)
                          /\ Rows(bucket'[u]) \subseteq Rows(bucket[u])
    BY RowsEmpty DEF IInv, TypeOK, Unsent
  <2>2. OnePlace'
    BY <2>1 DEF IInv, OnePlace
  <2>3. Undecided' /\ New'
    BY <2>1 DEF IInv, Undecided, New
  <2> QED BY <2>2, <2>3
<1>3. Sender'
  BY ReadAnswer
<1>4. Answered' /\ BucketInv'
  BY RowsEmpty DEF IInv, TypeOK, Answered, Sound, BucketInv
<1>5. MixedInv' /\ AtMostOnce' /\ NoEmptyInsert'
  BY DEF IInv, MixedInv, AtMostOnce, NoEmptyInsert
<1>6. NothingLost'
  <2>1. ~misused => \A r \in Rows(bucket[t]) : stored[r] > 0
    BY DEF IInv, Answered, Sound
  <2> QED BY <2>1 DEF IInv, TypeOK, NothingLost, Held
<1>7. RaceNoticed'
  <2> SUFFICES ASSUME mixed # {} PROVE RaceNoticed'
    BY DEF RaceNoticed
  <2>1. PICK l \in mixed : pc[l] \in {"flush", "check"} /\ current[Conn(l)] # l
    BY DEF IInv, RaceNoticed
  <2>2. l \in Savers /\ l # t /\ l # None /\ pc'[l] = pc[l]
    BY <2>1, ConnType DEF IInv, TypeOK
  <2>3. current'[Conn(l)] # l
    BY <2>1, <2>2, ConnType DEF IInv, TypeOK
  <2> QED BY <2>1, <2>2, <2>3 DEF RaceNoticed
<1> QED BY <1>1, <1>2, <1>3, <1>4, <1>5, <1>6, <1>7 DEF IInv

\* A crash empties the memory; INSERTs already sent lose their sender.
LEMMA TerminateIInv == IInv /\ Terminate => IInv'
<1> SUFFICES ASSUME IInv, Terminate PROVE IInv'
  OBVIOUS
<1> USE DEF Terminate
<1>1. /\ \A t \in Savers : bucket'[t] = <<>> /\ Rows(bucket'[t]) = {} /\ pc'[t] = "idle"
                           /\ reply'[t] = "none"
      /\ Rows(insert_statements') = {}
  BY RowsEmpty
<1>2. \A q \in running' :
          \E p \in running : q = [by |-> None, rows |-> p.rows] /\ p \in Query
  BY DEF IInv, TypeOK, Query
<1>3. \A q \in running' : q \in Query /\ q.by = None
                          /\ \E p \in running : q.rows = p.rows
  BY <1>2 DEF Query
<1>4. TypeOK'
  <2>1. <<>> \in Seq(1..made)
    OBVIOUS
  <2> QED BY <1>3, <2>1 DEF IInv, TypeOK, Pcs, Query
<1>5. ASSUME ~misused PROVE OnePlace'
  <2>1. \A p, q \in running' : p # q => Rows(p.rows) \cap Rows(q.rows) = {}
    <3> SUFFICES ASSUME NEW p \in running', NEW q \in running', p # q
                 PROVE  Rows(p.rows) \cap Rows(q.rows) = {}
      OBVIOUS
    <3>1. PICK p0 \in running : p = [by |-> None, rows |-> p0.rows]
      BY <1>2
    <3>2. PICK q0 \in running : q = [by |-> None, rows |-> q0.rows]
      BY <1>2
    <3>3. p0 # q0 /\ p.rows = p0.rows /\ q.rows = q0.rows
      BY <3>1, <3>2
    <3> QED BY <1>5, <3>3 DEF IInv, OnePlace
  <2> QED BY <1>1, <2>1 DEF OnePlace
<1>6. Undecided' /\ New' /\ (misused => OnePlace')
  BY <1>1, <1>3 DEF IInv, OnePlace, Undecided, New, Unsent
<1>7. Sender' /\ Answered' /\ BucketInv' /\ MixedInv'
  BY <1>1, <1>3 DEF Sender, Answered, BucketInv, MixedInv
<1>8. AtMostOnce' /\ NothingLost' /\ RaceNoticed' /\ NoEmptyInsert'
  BY <1>1, <1>3 DEF IInv, AtMostOnce, NothingLost, RaceNoticed, NoEmptyInsert
<1> QED BY <1>4, <1>5, <1>6, <1>7, <1>8 DEF IInv

\* The answer to one INSERT is none to another.
LEMMA AnsweredSender ==
    ASSUME IInv, NEW q \in running, running' = running \ {q},
           NEW a \in {"ok", "error"}, Answer(q, a), UNCHANGED <<bucket, pc, crashed, misused>>
    PROVE  Sender'
<1>1. ASSUME NEW p \in running, p # q, p.by = q.by, p.by # None PROVE ~Sound(p.by)
  <2>1. p \in Query /\ q \in Query
    BY DEF IInv, TypeOK
  <2>2. Sound(p.by) => p.rows = q.rows
    BY <1>1 DEF IInv, Sender
  <2>3. p.rows # q.rows
    BY <1>1, <2>1 DEF Query
  <2> QED BY <2>2, <2>3
<1>2. ASSUME NEW p \in running, p.by # q.by, p.by # None PROVE reply'[p.by] = reply[p.by]
  BY <1>2 DEF Answer, IInv, TypeOK, Query
<1> QED BY <1>1, <1>2 DEF IInv, Sender, Sound

\* The server carries an INSERT out.  Its rows are nowhere else undecided, so
\* each is counted once.
LEMMA CommitIInv == ASSUME IInv, NEW q \in running, Commit(q) PROVE IInv'
<1> USE DEF Commit, StoreRows, memory, client, process
<1>1. q \in Query /\ Rows(q.rows) \subseteq 1..MaxRows
  BY RowsMade DEF IInv, TypeOK
<1>2. \A r \in 1..MaxRows :
          stored'[r] = IF r \in Rows(q.rows) THEN stored[r] + 1 ELSE stored[r]
  OBVIOUS
<1>3. /\ q.by \in Savers => \E a \in {"ok", "error"} : reply' = [reply EXCEPT ![q.by] = a]
      /\ q.by = None => reply' = reply
  BY ConnType DEF Answer
<1>4. stored' \in [1..MaxRows -> Nat]
  BY DEF IInv, TypeOK
<1>5. TypeOK'
  BY <1>1, <1>3, <1>4 DEF IInv, TypeOK, Query
<1>6. OnePlace' /\ New'
  <2>1. \A r \in 1..MaxRows : r > made => r \notin Rows(q.rows)
    BY RowsMade DEF IInv
  <2>2. New'
    BY <1>2, <2>1 DEF IInv, New
  <2> QED BY <2>2 DEF IInv, OnePlace, Unsent
<1>7. ASSUME ~misused PROVE Undecided'
  <2> USE <1>7
  <2>2. \A r \in Rows(insert_statements) : r \notin Rows(q.rows) /\ r \in 1..MaxRows
    BY RowsMade DEF IInv, OnePlace
  <2>3. \A t \in Savers : Unsent(t) =>
            \A r \in Rows(bucket[t]) : r \notin Rows(q.rows) /\ r \in 1..MaxRows
    BY RowsMade DEF IInv, OnePlace
  <2>4. \A p \in running' :
            \A r \in Rows(p.rows) : r \notin Rows(q.rows) /\ r \in 1..MaxRows
    BY RowsMade DEF IInv, OnePlace
  <2>5. \A t \in Savers : Unsent(t)' <=> Unsent(t)
    BY DEF Unsent
  <2> QED BY <1>2, <2>2, <2>3, <2>4, <2>5 DEF IInv, Undecided
<1>8. Sender'
  BY AnsweredSender
<1>9. Answered'
  <2> SUFFICES ASSUME NEW t \in Savers, Sound(t)
               PROVE  /\ reply'[t] # "none" => pc[t] \in {"check", "await"}
                      /\ reply'[t] = "ok" \/ pc[t] = "finish" =>
                             \A r \in Rows(bucket[t]) : stored'[r] > 0
    BY DEF Answered, Sound
  <2>1. \A r \in Rows(bucket[t]) : r \in 1..MaxRows /\ stored[r] \in Nat
    BY RowsMade DEF IInv, TypeOK
  <2>2. CASE q.by = t
    <3>1. pc[t] \in {"check", "await"} /\ q.rows = bucket[t]
      BY <1>1, <2>2, ConnType DEF IInv, Sender
    <3>2. \A r \in Rows(bucket[t]) : stored'[r] > 0
      BY <1>2, <2>1, <3>1
    <3> QED BY <3>1, <3>2
  <2>3. CASE q.by # t
    <3>1. reply'[t] = reply[t]
      BY <1>1, <1>3, <2>3 DEF IInv, TypeOK, Query
    <3> QED BY <1>2, <2>1, <3>1 DEF IInv, Answered
  <2> QED BY <2>2, <2>3
<1>10. BucketInv' /\ MixedInv' /\ RaceNoticed' /\ NoEmptyInsert'
  BY DEF IInv, BucketInv, MixedInv, RaceNoticed, NoEmptyInsert
<1>11. AtMostOnce' /\ (misused => Undecided')
  BY <1>1, <1>2 DEF IInv, AtMostOnce, Undecided
<1>12. NothingLost'
  <2>1. \A r \in 1..made : r \in 1..MaxRows /\ stored[r] \in Nat
    BY RowsMade DEF IInv, TypeOK
  <2> QED BY <1>2, <2>1 DEF IInv, NothingLost, Held
<1> QED BY <1>5, <1>6, <1>7, <1>8, <1>9, <1>10, <1>11, <1>12 DEF IInv

LEMMA RejectIInv == ASSUME IInv, NEW q \in running, Reject(q) PROVE IInv'
<1> USE DEF Reject, memory, client, process
<1>1. q \in Query
  BY DEF IInv, TypeOK
<1>2. /\ q.by \in Savers => reply' = [reply EXCEPT ![q.by] = "error"]
      /\ q.by = None => reply' = reply
  BY ConnType DEF Answer
<1>3. TypeOK'
  BY <1>1, <1>2 DEF IInv, TypeOK, Query
<1>4. OnePlace' /\ Undecided' /\ New'
  BY DEF IInv, OnePlace, Undecided, New, Unsent
<1>5. Sender'
  BY AnsweredSender
<1>6. Answered'
  <2> SUFFICES ASSUME NEW t \in Savers, Sound(t)
               PROVE  /\ reply'[t] # "none" => pc[t] \in {"check", "await"}
                      /\ reply'[t] = "ok" => reply[t] = "ok"
    BY DEF IInv, Answered, Sound
  <2>1. CASE q.by = t
    BY <1>1, <1>2, <2>1, ConnType DEF IInv, TypeOK, Sender
  <2>2. CASE q.by # t
    BY <1>1, <1>2, <2>2 DEF IInv, TypeOK, Query, Answered
  <2> QED BY <2>1, <2>2
<1>7. /\ BucketInv' /\ MixedInv' /\ RaceNoticed' /\ AtMostOnce' /\ NothingLost'
      /\ NoEmptyInsert'
  BY DEF IInv, BucketInv, MixedInv, RaceNoticed, AtMostOnce, NothingLost, Held, NoEmptyInsert
<1> QED BY <1>3, <1>4, <1>5, <1>6, <1>7 DEF IInv

\* Steps that change nothing the invariant speaks of: a restart, the sync
\* worker finding nothing, a stutter.
LEMMA QuietIInv ==
    ASSUME IInv, alive' \in BOOLEAN, UNCHANGED <<memory, client, server, crashed, misused>>
    PROVE  IInv'
<1> USE DEF memory, client, server
<1>1. TypeOK'
  BY DEF IInv, TypeOK, Query
<1>2. OnePlace' /\ Undecided' /\ New' /\ Sender' /\ Answered' /\ BucketInv' /\ MixedInv'
  BY DEF IInv, OnePlace, Undecided, New, Sender, Answered, Sound, BucketInv, MixedInv, Unsent
<1>3. AtMostOnce' /\ NothingLost' /\ RaceNoticed' /\ NoEmptyInsert'
  BY DEF IInv, AtMostOnce, NothingLost, RaceNoticed, Held, NoEmptyInsert
<1> QED BY <1>1, <1>2, <1>3 DEF IInv

LEMMA NextIInv == IInv /\ [Next]_vars => IInv'
<1> SUFFICES ASSUME IInv, [Next]_vars PROVE IInv'
  OBVIOUS
<1>1. CASE Push
  BY <1>1, PushIInv
<1>2. ASSUME NEW t \in Savers, Drain(t) PROVE IInv'
  BY <1>2, DrainIInv
<1>3. ASSUME NEW t \in Savers, TestCurrent(t) \/ Claim(t) \/ Order(t) \/ CheckCurrent(t)
      PROVE  IInv'
  BY <1>3, ControlIInv
<1>4. ASSUME NEW t \in Savers, Send(t) \/ Flush(t) PROVE IInv'
  BY <1>4, SendIInv, FlushIInv
<1>5. ASSUME NEW t \in Savers, Receive(t) PROVE IInv'
  BY <1>5, ReceiveIInv
<1>6. ASSUME NEW t \in Savers, Finish(t) PROVE IInv'
  BY <1>6, FinishIInv
<1>7. ASSUME NEW t \in Savers, Throw(t) \/ LoseConnection(t) PROVE IInv'
  BY <1>7, TerminateIInv DEF Throw, LoseConnection
<1>8. ASSUME NEW q \in running, Commit(q) \/ Reject(q) PROVE IInv'
  BY <1>8, CommitIInv, RejectIInv
<1>9. CASE Restart \/ SyncNothing \/ UNCHANGED vars
  <2>1. alive' \in BOOLEAN /\ UNCHANGED <<memory, client, server, crashed, misused>>
    BY <1>9 DEF Restart, SyncNothing, vars, process, IInv, TypeOK
  <2> QED BY <2>1, QuietIInv
<1> QED
  BY <1>1, <1>2, <1>3, <1>4, <1>5, <1>6, <1>7, <1>8, <1>9 DEF Next, SaverStep

\* The inductive invariant holds in every behaviour of the saving half.
THEOREM Invariance == Spec => []IInv
BY InitIInv, NextIInv, PTL DEF Spec

\* Every variable keeps its type, for any number of writers, rows, crashes.
THEOREM TypeCorrect == Spec => []TypeOK
<1>1. IInv => TypeOK
  BY DEF IInv
<1> QED BY <1>1, Invariance, PTL

\* No row is ever in the table twice, until two threads are in libpq at once.
THEOREM NoDuplicates == Spec => []AtMostOnce
<1>1. IInv => AtMostOnce
  BY DEF IInv
<1> QED BY <1>1, Invariance, PTL

\* As long as the process has not terminated, nor two threads were in libpq at
\* once, every row pushed is in memory or in the table.
THEOREM NoLoss == Spec => []NothingLost
<1>1. IInv => NothingLost
  BY DEF IInv
<1> QED BY <1>1, Invariance, PTL

\* Of two threads whose commands libpq has mixed, one has yet to come to the
\* second look at the current transaction and will not find its own: taopq ends
\* every process in which the streams of db[0] are out of order.
THEOREM RacesEnd == Spec => []RaceNoticed
<1>1. IInv => RaceNoticed
  BY DEF IInv
<1> QED BY <1>1, Invariance, PTL

\* No INSERT without rows ever reaches the server.
THEOREM NoEmptyStatement == Spec => []NoEmptyInsert
<1>1. IInv => NoEmptyInsert
  BY DEF IInv
<1> QED BY <1>1, Invariance, PTL

\* A thread that logs "Save success" and goes back to its loop has its rows
\* in the table.
THEOREM SuccessIsStored == Spec => SuccessMeansStored
<1> DEFINE A == \A t \in Savers : /\ t \in Sole \/ ~misused
                                  /\ bucket'[t] # bucket[t] /\ bucket'[t] = <<>> /\ alive'
                    => \A r \in Rows(bucket[t]) : stored[r] > 0
<1>1. IInv /\ [Next]_vars => [A]_vars
  <2> SUFFICES ASSUME IInv, Next, NEW t \in Savers, Sound(t),
                      bucket'[t] # bucket[t], bucket'[t] = <<>>, alive'
               PROVE  \A r \in Rows(bucket[t]) : stored[r] > 0
    BY DEF Sound
  <2>1. \/ \E u \in Savers : Drain(u) \/ Finish(u)
        \/ Terminate
        \/ bucket' = bucket
    BY DEF Next, SaverStep, Push, Queue!Put, SyncNothing, TestCurrent, Claim, Order, Send,
           Flush, CheckCurrent, Receive, Throw, LoseConnection, Commit, Reject, Restart, memory, vars
  <2>2. CASE \E u \in Savers : Drain(u)
    <3>1. PICK u \in Savers : Drain(u)
      BY <2>2
    <3>2. bucket' = [bucket EXCEPT ![u] = insert_statements] /\ insert_statements # <<>>
      BY <3>1, SaveAssumption DEF Drain, Queue!Take, Queue!Batch, Queue!Ready, IInv, TypeOK
    <3> QED BY <3>2 DEF IInv, TypeOK
  <2>3. CASE \E u \in Savers : Finish(u)
    <3>1. PICK u \in Savers : Finish(u)
      BY <2>3
    <3>2. u = t /\ pc[t] = "finish"
      BY <3>1 DEF Finish, Queue!Finish, Move, IInv, TypeOK
    <3> QED BY <3>2 DEF IInv, Answered
  <2>4. CASE Terminate
    BY <2>4 DEF Terminate
  <2> QED BY <2>1, <2>2, <2>3, <2>4
<1> QED BY <1>1, Invariance, PTL DEF Spec, SuccessMeansStored

-----------------------------------------------------------------------------
(* Refinement of Delivery.                                                 *)

StatusMap == [r \in 1..MaxRows |-> Status(r)]

\* A step after which every row is where it was is a stutter of Delivery.
LEMMA SameStatus ==
    ASSUME made' = made, stored' = stored, crashed' = crashed, misused' = misused,
           \A r \in 1..made : stored[r] = 0 => (InFlight(r)' <=> InFlight(r)),
           TypeOK
    PROVE  UNCHANGED D!deliveryVars
<1>1. ASSUME NEW r \in 1..MaxRows PROVE Status(r)' = Status(r)
  <2>1. made \in Nat /\ stored[r] \in Nat
    BY SaveAssumption DEF TypeOK
  <2>2. CASE r > made
    BY <2>2 DEF Status
  <2>3. CASE stored[r] > 0
    BY <2>3 DEF Status
  <2>4. CASE r \in 1..made /\ stored[r] = 0
    BY <2>4 DEF Status
  <2> QED BY <2>1, <2>2, <2>3, <2>4
<1> QED BY <1>1 DEF D!deliveryVars

\* A step that makes and stores no row, and only takes rows out of flight,
\* loses these; after a crash or a race that is a step of Delivery.
LEMMA LossStep ==
    ASSUME made' = made, stored' = stored, crashed' \/ misused', TypeOK,
           \A r \in 1..made : stored[r] = 0 /\ InFlight(r)' => InFlight(r)
    PROVE  D!Next
<1> DEFINE S == {r \in 1..MaxRows : Status(r) = "held" /\ Status(r)' = "lost"}
<1>1. S \in SUBSET D!InState("held")
  BY DEF D!InState
<1>2. ASSUME NEW r \in 1..MaxRows
      PROVE  Status(r)' = Status(r) \/ (Status(r) = "held" /\ Status(r)' = "lost")
  <2>1. made \in Nat /\ stored[r] \in Nat
    BY SaveAssumption DEF TypeOK
  <2> QED BY <2>1 DEF Status
<1>3. ASSUME NEW r \in 1..MaxRows
      PROVE  Status(r)' = IF r \in S THEN "lost" ELSE Status(r)
  BY <1>2
<1>4. (crashed' \/ misused') = TRUE
  OBVIOUS
<1>5. D!Lose(S)
  BY <1>3, <1>4 DEF D!Lose, D!Become
<1> QED BY <1>1, <1>5 DEF D!Next

\* The row that is pushed is held from then on; of no other it matters.
LEMMA PushStatus ==
    ASSUME IInv, Push, NEW r \in 1..MaxRows
    PROVE  Status(r)' = IF r = made + 1 THEN "held" ELSE Status(r)
<1> USE DEF Push, Queue!Put, server, process
<1>1. /\ made \in Nat /\ MaxRows \in Nat /\ made + 1 \in 1..MaxRows
      /\ made' = made + 1
      /\ \A k \in 1..MaxRows : stored[k] \in Nat
      /\ Rows(insert_statements') = {made + 1} \cup Rows(insert_statements)
  BY RowsPush, SaveAssumption DEF IInv, TypeOK
<1>n. PICK n \in 1..MaxRows : n = made + 1
  BY <1>1
<1>2. stored[n] = 0
  BY <1>1, <1>n DEF IInv, New
<1>3. InFlight(n)'
  BY <1>1, <1>n DEF InFlight, Held
<1>4. \A k \in 1..made : InFlight(k)' <=> InFlight(k)
  BY <1>1 DEF InFlight, Held
<1>5. CASE r = n
  BY <1>5, <1>1, <1>n, <1>2, <1>3 DEF Status
<1>6. CASE r > n
  BY <1>6, <1>1, <1>n DEF Status
<1>7. CASE r \in 1..made
  BY <1>7, <1>1, <1>n, <1>4 DEF Status
<1>. QED
  BY <1>1, <1>n, <1>5, <1>6, <1>7

LEMMA PushRefines == ASSUME IInv, Push PROVE D!Next
<1>1. made \in Nat /\ made + 1 \in 1..MaxRows /\ (crashed \/ misused)' = (crashed \/ misused)
  BY SaveAssumption DEF IInv, TypeOK, Push, Queue!Put, process
<1>2. PICK n \in 1..MaxRows : n = made + 1
  BY <1>1
<1>3. \A r \in 1..MaxRows : Status(r)' = IF r \in {n} THEN "held" ELSE Status(r)
  BY <1>2, PushStatus
<1>4. Status(n) = "new"
  BY <1>1, <1>2 DEF Status
<1>5. D!Accept(n)
  BY <1>1, <1>3, <1>4 DEF D!Accept, D!Become
<1>. QED
  BY <1>5 DEF D!Next

\* The rows of an INSERT that are in the table for the first time.
LEMMA CommitRefines == ASSUME IInv, NEW q \in running, Commit(q) PROVE D!Next
<1> USE DEF Commit, StoreRows, memory, client, process
<1> DEFINE S == {r \in Rows(q.rows) : stored[r] = 0}
<1>1. /\ made \in Nat /\ MaxRows \in Nat /\ made <= MaxRows
      /\ \A r \in 1..MaxRows : stored[r] \in Nat
      /\ Rows(q.rows) \subseteq 1..made
  BY RowsMade DEF IInv, TypeOK
<1>2. S \in SUBSET D!InState("held")
  BY <1>1 DEF D!InState, Status, InFlight
<1>3. \A r \in 1..MaxRows :
          stored'[r] = IF r \in Rows(q.rows) THEN stored[r] + 1 ELSE stored[r]
  OBVIOUS
<1>4. \A r \in 1..MaxRows : r \notin Rows(q.rows) => (InFlight(r)' <=> InFlight(r))
  BY DEF InFlight, Held
<1>5. ASSUME NEW r \in 1..MaxRows
      PROVE  Status(r)' = IF r \in S THEN "stored" ELSE Status(r)
  <2>1. CASE r \in Rows(q.rows)
    BY <1>1, <1>3, <2>1 DEF Status
  <2>2. CASE r \notin Rows(q.rows)
    BY <1>1, <1>3, <1>4, <2>2 DEF Status
  <2> QED BY <2>1, <2>2
<1>6. (crashed \/ misused)' = (crashed \/ misused)
  OBVIOUS
<1>7. D!Store(S)
  BY <1>5, <1>6 DEF D!Store, D!Become
<1> QED BY <1>2, <1>7 DEF D!Next

LEMMA RejectRefines ==
    ASSUME IInv, NEW q \in running, Reject(q)
    PROVE  D!Next \/ UNCHANGED D!deliveryVars
<1> USE DEF Reject, memory, client, process
<1>1. \A r \in 1..made : InFlight(r)' => InFlight(r)
  BY DEF InFlight, Held
<1>2. CASE crashed \/ misused
  BY <1>1, <1>2, LossStep DEF IInv
<1>3. CASE ~crashed /\ ~misused
  <2>1. q.by # None /\ q.rows = bucket[q.by]
    BY <1>3 DEF IInv, Sender, Sound
  <2>2. q.by \in Savers
    BY <2>1 DEF IInv, TypeOK, Query
  <2>3. \A r \in Rows(q.rows) : Held(r)'
    BY <2>1, <2>2 DEF Held
  <2>4. \A r \in 1..made : InFlight(r) => InFlight(r)'
    BY <2>3 DEF InFlight, Held
  <2> QED BY <1>1, <2>4, SameStatus DEF IInv
<1> QED BY <1>2, <1>3

\* The process terminates: no row comes into flight by that.
LEMMA TerminateRefines == ASSUME IInv, Terminate PROVE D!Next
<1> USE DEF Terminate
<1>1. \A q \in running' : \E p \in running : q.rows = p.rows
  BY DEF IInv, TypeOK, Query
<1>2. \A r \in 1..made : InFlight(r)' => InFlight(r)
  BY <1>1, RowsEmpty DEF InFlight, Held
<1> QED BY <1>2, LossStep DEF IInv

\* The steps of a saver that neither lose nor store a row.
LEMMA SaverRefines ==
    ASSUME IInv, NEW t \in Savers,
           Drain(t) \/ TestCurrent(t) \/ Claim(t) \/ Order(t) \/ Flush(t)
               \/ CheckCurrent(t) \/ Receive(t)
    PROVE  UNCHANGED D!deliveryVars
<1> SUFFICES ASSUME NEW r \in 1..made, stored[r] = 0
             PROVE  InFlight(r)' <=> InFlight(r)
  BY SameStatus
     DEF IInv, Drain, TestCurrent, Claim, Order, Flush, CheckCurrent, Receive,
         Queue!Take, memory, server, process
<1>1. CASE Drain(t)
  <2>1. /\ bucket' = [bucket EXCEPT ![t] = insert_statements]
        /\ Rows(insert_statements') = {}
        /\ bucket[t] = <<>>
        /\ running' = running
    BY <1>1, RowsEmpty DEF Drain, Queue!Take, Queue!Batch, Queue!Rest, server
  <2> QED BY <2>1, RowsEmpty DEF IInv, TypeOK, InFlight, Held
<1>2. CASE Flush(t)
  <2>1. PICK Q \in Sent(t) : running' = running \cup Q
    BY <1>2 DEF Flush
  <2>2. pc[t] = "flush" /\ bucket' = bucket /\ insert_statements' = insert_statements
    BY <1>2 DEF Flush, Move, memory
  <2>3. \A q \in Q : \E u \in Savers : q.rows = bucket[u]
    BY <2>2, SentCommand
  <2> QED BY <2>1, <2>2, <2>3 DEF InFlight, Held
<1>3. CASE TestCurrent(t) \/ Claim(t) \/ Order(t) \/ CheckCurrent(t) \/ Receive(t)
  BY <1>3
     DEF TestCurrent, Claim, Order, CheckCurrent, Receive, memory, server, InFlight, Held
<1> QED BY <1>1, <1>2, <1>3

\* The two steps that may: a second thread comes to write a command, and a
\* saver forgets its bucket, of which it may have the answer of another.
LEMMA RaceRefines ==
    ASSUME IInv, NEW t \in Savers, Send(t) \/ Finish(t)
    PROVE  D!Next \/ UNCHANGED D!deliveryVars
<1>1. made' = made /\ stored' = stored /\ crashed' = crashed
  BY DEF Send, Finish, Queue!Finish, memory, server, process
<1>2. ASSUME NEW r \in 1..made, InFlight(r)' PROVE InFlight(r)
  <2>1. insert_statements' = insert_statements /\ running' = running
    BY DEF Send, Finish, Queue!Finish, memory, server
  <2>2. bucket' = bucket \/ bucket' = [bucket EXCEPT ![t] = <<>>]
    BY DEF Send, Finish, Queue!Finish, memory
  <2>3. \A u \in Savers : Rows(bucket'[u]) \subseteq Rows(bucket[u])
    BY <2>2, RowsEmpty DEF IInv, TypeOK
  <2> QED BY <1>2, <2>1, <2>3 DEF InFlight, Held
<1>3. CASE misused'
  BY <1>1, <1>2, <1>3, LossStep DEF IInv
<1>4. CASE ~misused'
  <2>1. ~misused /\ misused' = misused
    BY <1>4 DEF Send, Finish, process, IInv, TypeOK
  <2> SUFFICES ASSUME NEW r \in 1..made, stored[r] = 0, InFlight(r) PROVE InFlight(r)'
    BY <1>1, <1>2, <2>1, SameStatus DEF IInv
  <2>2. CASE Send(t)
    BY <2>2 DEF Send, memory, server, InFlight, Held
  <2>3. CASE Finish(t)
    <3>1. /\ r \notin Rows(bucket[t])
          /\ bucket' = [bucket EXCEPT ![t] = <<>>]
          /\ insert_statements' = insert_statements
          /\ running' = running
      BY <2>1, <2>3 DEF Finish, Queue!Finish, Move, IInv, Answered, Sound, server
    <3> QED BY <3>1, RowsEmpty DEF IInv, TypeOK, InFlight, Held
  <2> QED BY <2>2, <2>3
<1> QED BY <1>3, <1>4

LEMMA InitRefines == ASSUME Init PROVE D!Init
<1>1. \A r \in 1..MaxRows : Status(r) = "new"
  BY DEF Init, Queue!Init, Status
<1>2. (crashed \/ misused) = FALSE
  BY DEF Init
<1> QED BY <1>1, <1>2 DEF D!Init

LEMMA NextRefines == IInv /\ [Next]_vars => [D!Next]_(D!deliveryVars)
<1> SUFFICES ASSUME IInv, [Next]_vars PROVE D!Next \/ UNCHANGED D!deliveryVars
  OBVIOUS
<1>1. CASE Push
  BY <1>1, PushRefines
<1>2. ASSUME NEW t \in Savers,
             Drain(t) \/ TestCurrent(t) \/ Claim(t) \/ Order(t) \/ Flush(t)
                 \/ CheckCurrent(t) \/ Receive(t)
      PROVE  UNCHANGED D!deliveryVars
  BY <1>2, SaverRefines
<1>3. ASSUME NEW t \in Savers, Send(t) \/ Finish(t)
      PROVE  D!Next \/ UNCHANGED D!deliveryVars
  BY <1>3, RaceRefines
<1>4. ASSUME NEW t \in Savers, Throw(t) \/ LoseConnection(t) PROVE D!Next
  BY <1>4, TerminateRefines DEF Throw, LoseConnection
<1>5. ASSUME NEW q \in running, Commit(q) \/ Reject(q)
      PROVE  D!Next \/ UNCHANGED D!deliveryVars
  BY <1>5, CommitRefines, RejectRefines
<1>6. CASE Restart \/ SyncNothing \/ UNCHANGED vars
  <2>1. UNCHANGED <<memory, client, server, crashed, misused>>
    BY <1>6 DEF Restart, SyncNothing, vars, process
  <2>2. \A r \in 1..made : InFlight(r)' <=> InFlight(r)
    BY <2>1 DEF memory, server, InFlight, Held
  <2> QED BY <2>1, <2>2, SameStatus DEF memory, server, IInv
<1> QED BY <1>1, <1>2, <1>3, <1>4, <1>5, <1>6 DEF Next, SaverStep

\* The saving half implements Delivery: rows go from held to stored, once
\* and a whole INSERT at a time, or are lost, in or after a crash or a race of
\* two threads in libpq.
THEOREM Refinement == Spec => Implements
BY InitRefines, NextRefines, Invariance, PTL DEF Spec, Implements, D!Spec

-----------------------------------------------------------------------------
(* How far the confusion about transactions on db[0] reaches.  Savers that *)
(* share a connection may find its current transaction to be the other's;  *)
(* it is always one that lives, and the other savers never notice.         *)

InTransaction(t) == pc[t] \in {"order", "send", "flush", "check", "await", "finish"}

CurrentAlive == \A c \in Writers :
    current[c] # None => Conn(current[c]) = c /\ InTransaction(current[c])

SoleCurrent == \A t \in Sole : /\ InTransaction(t) => current[t] = t
                               /\ busy[t] => pc[t] \in {"check", "await"}

\* An exception that is no answer of the server.
OutOfOrder(t) == Throw(t) /\ reply[t] # "error"

LEMMA CurrentNext ==
    TypeOK /\ CurrentAlive /\ SoleCurrent /\ [Next]_vars => CurrentAlive' /\ SoleCurrent'
<1> SUFFICES ASSUME TypeOK, CurrentAlive, SoleCurrent, [Next]_vars
             PROVE  CurrentAlive' /\ SoleCurrent'
  OBVIOUS
<1> USE SoleConn, ConnType, SaveAssumption
<1>1. ASSUME NEW t \in Savers, NEW to, pc' = [pc EXCEPT ![t] = to], current' = current,
             InTransaction(t) <=> to \in {"order", "send", "flush", "check", "await", "finish"},
             \/ busy' = busy /\ (to \in {"check", "await"} <=> pc[t] \in {"check", "await"})
             \/ busy' = [busy EXCEPT ![Conn(t)] = TRUE] /\ to \in {"check", "await"}
             \/ busy' = [busy EXCEPT ![Conn(t)] = FALSE]
      PROVE  CurrentAlive' /\ SoleCurrent'
  <2>1. /\ pc \in [Savers -> Pcs] /\ current' = current /\ busy \in [Writers -> BOOLEAN]
        /\ \A c \in Writers : current[c] # None => current[c] \in Savers
    BY <1>1 DEF TypeOK
  <2>2. \A u \in Savers : InTransaction(u)' <=> InTransaction(u)
    BY <1>1, <2>1 DEF InTransaction
  <2>3. CurrentAlive'
    BY <2>1, <2>2 DEF CurrentAlive
  <2>4. ASSUME NEW u \in Sole, busy'[u] PROVE pc'[u] \in {"check", "await"}
    <3>1. CASE u = t
      <4>1. Conn(t) = t /\ t \in Writers
        BY <3>1
      <4> QED BY <1>1, <2>1, <2>4, <3>1, <4>1 DEF SoleCurrent
    <3>2. CASE u # t
      <4>1. u \in Savers /\ Conn(t) # u
        BY <3>2
      <4>2. busy'[u] = busy[u] /\ pc'[u] = pc[u]
        BY <1>1, <2>1, <3>2, <4>1
      <4> QED BY <2>4, <4>2 DEF SoleCurrent
    <3> QED BY <3>1, <3>2
  <2>5. SoleCurrent'
    BY <2>1, <2>2, <2>4 DEF SoleCurrent
  <2> QED BY <2>3, <2>5
<1>2. ASSUME NEW t \in Savers,
             Drain(t) \/ TestCurrent(t) \/ Order(t) \/ Send(t) \/ CheckCurrent(t)
      PROVE  CurrentAlive' /\ SoleCurrent'
  BY <1>1, <1>2 DEF Drain, TestCurrent, Order, Send, CheckCurrent, Move, InTransaction
<1>3. ASSUME NEW t \in Savers, Flush(t) \/ Receive(t) PROVE CurrentAlive' /\ SoleCurrent'
  BY <1>1, <1>3 DEF Flush, Receive, Move, InTransaction
<1>4. ASSUME NEW t \in Savers, NEW to, NEW who \in {t, None},
             pc' = [pc EXCEPT ![t] = to], pc[t] \in {"claim", "finish"},
             current' = [current EXCEPT ![Conn(t)] = who], busy' = busy,
             to = IF who = t THEN "order" ELSE "idle"
      PROVE  CurrentAlive' /\ SoleCurrent'
  <2>1. /\ Conn(t) \in Writers /\ t # None
        /\ pc \in [Savers -> Pcs] /\ current \in [Writers -> Savers \cup {None}]
    BY DEF TypeOK
  <2>2. CurrentAlive'
    BY <1>4, <2>1 DEF CurrentAlive, InTransaction
  <2>3. ASSUME NEW u \in Sole
        PROVE  InTransaction(u)' => current'[u] = u
    <3>1. u \in Savers /\ (u = t => Conn(t) = u) /\ (u # t => Conn(t) # u)
      OBVIOUS
    <3> QED BY <1>4, <2>1, <3>1 DEF SoleCurrent, InTransaction
  <2>4. ASSUME NEW u \in Sole, busy'[u] PROVE pc'[u] \in {"check", "await"}
    BY <1>4, <2>1, <2>4 DEF SoleCurrent
  <2> QED BY <2>2, <2>3, <2>4 DEF SoleCurrent
<1>5. ASSUME NEW t \in Savers, Claim(t) \/ Finish(t) PROVE CurrentAlive' /\ SoleCurrent'
  BY <1>4, <1>5 DEF Claim, Finish, Move
<1>6. ASSUME Terminate PROVE CurrentAlive' /\ SoleCurrent'
  BY <1>6 DEF Terminate, CurrentAlive, SoleCurrent, InTransaction, Sole
<1>7. ASSUME UNCHANGED client PROVE CurrentAlive' /\ SoleCurrent'
  BY <1>7 DEF client, CurrentAlive, SoleCurrent, InTransaction
<1>8. Push \/ SyncNothing \/ Restart \/ UNCHANGED vars => UNCHANGED client
  BY DEF Push, SyncNothing, Restart, vars
<1>9. ASSUME NEW q \in running, Commit(q) \/ Reject(q) PROVE UNCHANGED client
  BY <1>9 DEF Commit, Reject
<1> QED
  BY <1>2, <1>3, <1>5, <1>6, <1>7, <1>8, <1>9 DEF Next, SaverStep, Throw, LoseConnection

LEMMA SoleOrder ==
    ASSUME TypeOK, CurrentAlive, NEW t \in Sole, pc[t] = "begin"
    PROVE  current[Conn(t)] = None
<1>1. t \in Writers /\ Conn(t) = t
  BY SoleConn
<1> SUFFICES ASSUME NEW u \in Savers, u = current[t], u # None PROVE FALSE
  BY <1>1 DEF TypeOK
<1>2. Conn(u) = t /\ InTransaction(u)
  BY <1>1 DEF CurrentAlive
<1>3. u = t
  BY <1>2, SoleConn
<1> QED BY <1>2, <1>3 DEF InTransaction

LEMMA CurrentInit == Init => CurrentAlive /\ SoleCurrent
BY SoleConn DEF Init, CurrentAlive, SoleCurrent, InTransaction, Sole

LEMMA CurrentInvariance == Spec => [](CurrentAlive /\ SoleCurrent)
BY CurrentInit, CurrentNext, TypeCorrect, PTL DEF Spec

\* The pointer m_current_transaction, which connection.cpp does not own, leads
\* to a transaction that lives, whoever else has begun one since.
THEOREM TransactionsAlive == Spec => []CurrentAlive
BY CurrentInvariance, PTL

\* TransactionOrder holds of every saver but the two that share db[0].
THEOREM OrderUnlessShared ==
    Spec => [](\A t \in Sole : pc[t] = "begin" => current[Conn(t)] = None)
<1>1. TypeOK /\ CurrentAlive => \A t \in Sole : pc[t] = "begin" => current[Conn(t)] = None
  BY SoleOrder
<1> QED BY <1>1, CurrentInvariance, TypeCorrect, PTL

\* A saver with a connection of its own ends the process only on an answer of
\* the server, or with its connection.
THEOREM ThrowsUnlessShared == Spec => [][\A t \in Sole : ~OutOfOrder(t)]_vars
<1>1. TypeOK /\ CurrentAlive /\ SoleCurrent => \A t \in Sole : ~OutOfOrder(t)
  <2> SUFFICES ASSUME TypeOK, CurrentAlive, SoleCurrent, NEW t \in Sole, Throw(t)
               PROVE  reply[t] = "error"
    BY DEF OutOfOrder
  <2>1. ~(pc[t] = "begin" /\ current[Conn(t)] # None)
    BY SoleOrder
  <2>2. ~(pc[t] \in {"order", "check"} /\ current[Conn(t)] # t)
    BY SoleConn DEF SoleCurrent, InTransaction
  <2>3. ~(pc[t] = "send" /\ Busy(Conn(t)))
    BY SoleConn DEF SoleCurrent, Busy
  <2> QED BY <2>1, <2>2, <2>3 DEF Throw, Throws
<1> QED BY <1>1, CurrentInvariance, TypeCorrect, PTL

-----------------------------------------------------------------------------
(* What EveryRowLeaves rests on: nobody waits for an answer that is not on *)
(* its way, but for the two whose commands were written at once.           *)

Waits(t) == pc[t] \in {"check", "await"}
Due(t) == reply[t] # "none" \/ \E q \in running : q.by = t
AnswerDue == \A t \in Savers \ mixed : Waits(t) => Due(t)

LEMMA AnswerDueNext == TypeOK /\ AnswerDue /\ [Next]_vars => AnswerDue'
<1> SUFFICES ASSUME TypeOK, AnswerDue, [Next]_vars PROVE AnswerDue'
  OBVIOUS
<1> USE DEF Waits, Due
<1>1. ASSUME NEW t \in Savers,
             Drain(t) \/ TestCurrent(t) \/ Claim(t) \/ Order(t) \/ CheckCurrent(t) \/ Finish(t)
      PROVE  AnswerDue'
  BY <1>1 DEF Drain, TestCurrent, Claim, Order, CheckCurrent, Finish, Move, server, TypeOK,
              AnswerDue
<1>2. ASSUME NEW t \in Savers, Send(t) PROVE AnswerDue'
  <2>1. mixed \subseteq mixed' /\ pc' = [pc EXCEPT ![t] = "flush"] /\ UNCHANGED server
    BY <1>2 DEF Send, Move
  <2> QED BY <2>1 DEF server, TypeOK, AnswerDue
<1>3. ASSUME NEW t \in Savers, Flush(t) PROVE AnswerDue'
  <2>1. /\ pc' = [pc EXCEPT ![t] = "check"] /\ reply' = reply /\ mixed' = mixed
        /\ running \subseteq running'
    BY <1>3 DEF Flush, Move
  <2>2. t \notin mixed => \E q \in running' : q.by = t
    <3> SUFFICES ASSUME t \notin mixed PROVE \E q \in running' : q.by = t
      OBVIOUS
    <3>1. Insert(t) \in running'
      BY <1>3 DEF Flush, Sent
    <3>2. Insert(t).by = t
      BY DEF Insert
    <3> QED BY <3>1, <3>2
  <2>3. \A u \in Savers : u # t => pc'[u] = pc[u]
    BY <2>1 DEF TypeOK
  <2> QED BY <2>1, <2>2, <2>3 DEF AnswerDue
<1>4. ASSUME NEW t \in Savers, Receive(t) PROVE AnswerDue'
  BY <1>4 DEF Receive, Move, TypeOK, AnswerDue
<1>5. Terminate => AnswerDue'
  BY DEF Terminate, AnswerDue
<1>6. ASSUME NEW q \in running, NEW a \in {"ok", "error"}, Answer(q, a),
             running' = running \ {q}, pc' = pc, mixed' = mixed
      PROVE  AnswerDue'
  <2> SUFFICES ASSUME NEW t \in Savers \ mixed, Waits(t) PROVE Due(t)'
    BY <1>6 DEF AnswerDue
  <2>1. CASE q.by = t
    <3>1. reply'[t] = a
      BY <1>6, <2>1, SaveAssumption DEF Answer, TypeOK, Savers, Writers
    <3> QED BY <3>1
  <2>2. CASE q.by # t
    <3>1. reply'[t] = reply[t]
      BY <1>6, <2>2 DEF Answer, TypeOK
    <3> QED BY <1>6, <2>2, <3>1 DEF AnswerDue
  <2> QED BY <2>1, <2>2
<1>7. ASSUME NEW q \in running, Commit(q) \/ Reject(q) PROVE AnswerDue'
  BY <1>6, <1>7 DEF Commit, Reject, client
<1>8. Push \/ SyncNothing \/ Restart \/ UNCHANGED vars => AnswerDue'
  BY DEF Push, SyncNothing, Restart, vars, client, server, AnswerDue
<1> QED
  BY <1>1, <1>2, <1>3, <1>4, <1>5, <1>7, <1>8 DEF Next, SaverStep, Throw, LoseConnection

\* A saver that waits in get_result has an answer, or a statement of its own
\* is with the server: no crash takes either from it, and no other saver but
\* one whose command was written at the same time.
THEOREM AnswersDue == Spec => []AnswerDue
<1>1. Init => AnswerDue
  BY DEF Init, AnswerDue, Waits
<1> QED BY <1>1, AnswerDueNext, TypeCorrect, PTL DEF Spec
=============================================================================
