------------------------- MODULE SaveClickhouseProofs --------------------------
(***************************************************************************)
(* Safety of the saving half on ClickHouse, for any number of write        *)
(* workers, any threshold and any number of rows and crashes: what a       *)
(* client points to is alive whatever its threads do; no row is stored     *)
(* twice and success means stored until two threads are inside the shared  *)
(* client; and SaveClickhouse implements Delivery.                         *)
(***************************************************************************)
EXTENDS SaveClickhouse, TLAPS

\* A client that two threads have not used at once.
Exclusive(c) == c # 0 \/ ~misused

Saved(t) == \A r \in Rows(bucket[t]) : stored[r] > 0

Alone == \A t, u \in Savers :
    /\ Conn(t) = Conn(u) /\ Exclusive(Conn(t))
    /\ pc[t] \in Inside /\ pc[u] \in Inside
    => t = u

\* Where the statement of a saver is between the client and the server, and
\* what the packets on their way back say of it.
Asked(t) == /\ out[Conn(t)] = <<Piece(t, "head"), Piece(t, "tail")>>
            /\ in[Conn(t)] = <<>>
Refused(t) == /\ out[Conn(t)] = <<>>
              /\ in[Conn(t)] = <<"exception">>
Done(t, packets) == /\ out[Conn(t)] = <<>>
                    /\ in[Conn(t)] = packets
                    /\ Saved(t)

ChannelOf(t) == Exclusive(Conn(t)) =>
    /\ pc[t] = "head" => out[Conn(t)] = <<>> /\ in[Conn(t)] = <<>>
    /\ pc[t] = "tail" => out[Conn(t)] = <<Piece(t, "head")>> /\ in[Conn(t)] = <<>>
    /\ pc[t] = "await" => \/ Asked(t) \/ Refused(t)
                          \/ Done(t, <<"end">>)
                          \/ Done(t, <<"progress", "rest", "end">>)
    /\ pc[t] = "rest" => Done(t, <<"rest", "end">>)
    /\ pc[t] = "leave" => Done(t, <<>>)
Channel == \A t \in Savers : ChannelOf(t)

\* Nothing is on its way while nobody is inside the client.
Quiet == \A c \in Writers :
    /\ Exclusive(c)
    /\ \A t \in Savers : Conn(t) = c => pc[t] \notin Inside
    => out[c] = <<>> /\ in[c] = <<>>

\* A saver whose rows the server has not decided about.
Unsent(t) == \/ pc[t] \in {"enter", "head", "tail"}
             \/ pc[t] = "await" /\ out[Conn(t)] # <<>>

OnePlace == ~misused =>
    /\ \A t \in Savers : Rows(insert_statements) \cap Rows(bucket[t]) = {}
    /\ \A t, u \in Savers : t # u => Rows(bucket[t]) \cap Rows(bucket[u]) = {}
    /\ \A p \in orphans : Rows(p) \cap Rows(insert_statements) = {}
    /\ \A p \in orphans, t \in Savers : Unsent(t) => Rows(p) \cap Rows(bucket[t]) = {}
    /\ \A p, q \in orphans : p # q => Rows(p) \cap Rows(q) = {}

Undecided == ~misused =>
    /\ \A r \in Rows(insert_statements) : stored[r] = 0
    /\ \A t \in Savers : Unsent(t) => \A r \in Rows(bucket[t]) : stored[r] = 0
    /\ \A p \in orphans : \A r \in Rows(p) : stored[r] = 0

New == \A r \in 1..MaxRows : r > made => stored[r] = 0

\* A bucket is empty in the wait and nowhere else.
BucketInv == \A t \in Savers : bucket[t] = <<>> <=> pc[t] = "idle"

Left == orphans # {} => crashed

IInv == /\ TypeOK
        /\ EventsAlive
        /\ Alone
        /\ Channel
        /\ Quiet
        /\ OnePlace
        /\ Undecided
        /\ New
        /\ BucketInv
        /\ Left
        /\ AtMostOnceUnlessShared

-----------------------------------------------------------------------------
(* Sequences.                                                              *)

LEMMA RowsEmpty == Rows(<<>>) = {}
BY DEF Rows

\* push_front adds the new row and keeps the others.
LEMMA RowsPush ==
    ASSUME NEW n \in Nat, NEW s \in Seq(1..n)
    PROVE  /\ <<n + 1>> \o s \in Seq(1..(n + 1))
           /\ <<n + 1>> \o s # <<>>
           /\ Rows(<<n + 1>> \o s) = {n + 1} \cup Rows(s)
<1> DEFINE q == <<n + 1>> \o s
<1>1. s \in Seq(1..(n + 1)) /\ <<n + 1>> \in Seq(1..(n + 1))
  <2>1. 1..n \subseteq 1..(n + 1)
    OBVIOUS
  <2> QED BY <2>1
<1>2. /\ q \in Seq(1..(n + 1))
      /\ Len(q) = Len(s) + 1
      /\ q[1] = n + 1
      /\ \A i \in 1..Len(s) : q[i + 1] = s[i]
  BY <1>1
<1>3. Rows(q) \subseteq {n + 1} \cup Rows(s)
  <2> SUFFICES ASSUME NEW i \in 1..Len(q), i # 1 PROVE \E j \in 1..Len(s) : q[i] = s[j]
    BY <1>2 DEF Rows
  <2>1. (i - 1) \in 1..Len(s) /\ q[(i - 1) + 1] = s[i - 1] /\ (i - 1) + 1 = i
    BY <1>2
  <2> QED BY <2>1
<1>4. {n + 1} \cup Rows(s) \subseteq Rows(q)
  <2>1. n + 1 \in Rows(q)
    BY <1>2 DEF Rows
  <2>2. ASSUME NEW i \in 1..Len(s) PROVE s[i] \in Rows(q)
    <3>1. (i + 1) \in 1..Len(q) /\ q[i + 1] = s[i]
      BY <1>2
    <3>2. DOMAIN q = 1..Len(q)
      BY <1>2
    <3> HIDE DEF q
    <3> QED BY <3>1, <3>2 DEF Rows
  <2>3. Rows(s) = {s[i] : i \in 1..Len(s)}
    BY DEF Rows
  <2> QED BY <2>1, <2>2, <2>3
<1> QED BY <1>2, <1>3, <1>4

LEMMA RowsType ==
    ASSUME NEW n \in Nat, NEW s \in Seq(1..n)
    PROVE  Rows(s) \subseteq 1..n
BY DEF Rows

\* A sequence stays one of a larger set.
LEMMA SeqWiden ==
    ASSUME NEW S, NEW T, S \subseteq T, NEW s \in Seq(S)
    PROVE  s \in Seq(T)
OBVIOUS

\* Appending to a stream, and taking from its front, keeps its type.
LEMMA SeqKept ==
    ASSUME NEW S, NEW s \in Seq(S)
    PROVE  /\ \A u \in Seq(S) : s \o u \in Seq(S)
           /\ \A n \in Nat : SubSeq(s, n + 1, Len(s)) \in Seq(S)
           /\ s # <<>> => Tail(s) \in Seq(S) /\ Head(s) \in S
           /\ s # <<>> => s[1] \in S /\ Head(s) = s[1] /\ Len(s) >= 1
           /\ Len(s) >= 1 => s # <<>>
<1>1. \A n \in Nat : SubSeq(s, n + 1, Len(s)) \in Seq(S)
  <2> SUFFICES ASSUME NEW n \in Nat PROVE SubSeq(s, n + 1, Len(s)) \in Seq(S)
    OBVIOUS
  <2>1. \A i \in (n + 1)..Len(s) : s[i] \in S
    OBVIOUS
  <2> QED BY <2>1
<1> QED BY <1>1

\* The sequences of at most three elements that occur in a channel.
LEMMA Short ==
    ASSUME NEW a, NEW b, NEW c
    PROVE  /\ <<>> \o <<a>> = <<a>>
           /\ <<>> \o <<a, b, c>> = <<a, b, c>>
           /\ <<a>> \o <<b>> = <<a, b>>  /\ <<a, b>> \o <<c>> = <<a, b, c>>
           /\ <<a>> # <<>> /\ <<a, b>> # <<>> /\ <<a, b, c>> # <<>>
           /\ Head(<<a>>) = a /\ Tail(<<a>>) = <<>>
           /\ Head(<<a, b>>) = a /\ Tail(<<a, b>>) = <<b>>
           /\ Head(<<a, b, c>>) = a /\ Tail(<<a, b, c>>) = <<b, c>>
           /\ Len(<<a>>) = 1 /\ Len(<<a, b>>) = 2
           /\ <<a, b>>[1] = a /\ <<a, b>>[2] = b /\ <<a>>[1] = a
           /\ SubSeq(<<a, b>>, 3, 2) = <<>>
<1>1. <<>> \o <<a>> = <<a>>
  OBVIOUS
<1>2. <<>> \o <<a, b, c>> = <<a, b, c>>
  OBVIOUS
<1>3. <<a>> \o <<b>> = <<a, b>>
  <2> DEFINE u == <<a>> \o <<b>>
  <2>1. <<a>> \in Seq({a, b}) /\ <<b>> \in Seq({a, b}) /\ <<a, b>> \in Seq({a, b})
    OBVIOUS
  <2>2. u \in Seq({a, b}) /\ Len(u) = 2 /\ u[1] = a /\ u[2] = b
    BY <2>1
  <2> HIDE DEF u
  <2>3. u = <<a, b>>
    BY <2>2
  <2> QED BY <2>3 DEF u
<1>10. <<a, b>> \o <<c>> = <<a, b, c>>
  <2> DEFINE u == <<a, b>> \o <<c>>
  <2>1. <<a, b>> \in Seq({a, b, c}) /\ <<c>> \in Seq({a, b, c}) /\ <<a, b, c>> \in Seq({a, b, c})
    OBVIOUS
  <2>2. u \in Seq({a, b, c}) /\ Len(u) = 3 /\ u[1] = a /\ u[2] = b /\ u[3] = c
    BY <2>1
  <2> HIDE DEF u
  <2>3. u = <<a, b, c>>
    BY <2>2
  <2> QED BY <2>3 DEF u
<1>4. <<a>> # <<>> /\ <<a, b>> # <<>> /\ <<a, b, c>> # <<>>
  OBVIOUS
<1>5. Head(<<a>>) = a /\ Tail(<<a>>) = <<>>
  OBVIOUS
<1>6. Head(<<a, b>>) = a /\ Tail(<<a, b>>) = <<b>>
  OBVIOUS
<1>7. Head(<<a, b, c>>) = a /\ Tail(<<a, b, c>>) = <<b, c>>
  OBVIOUS
<1>8. Len(<<a>>) = 1 /\ Len(<<a, b>>) = 2 /\ <<a, b>>[1] = a /\ <<a, b>>[2] = b /\ <<a>>[1] = a
  OBVIOUS
<1>9. SubSeq(<<a, b>>, 3, 2) = <<>>
  OBVIOUS
<1> QED BY <1>1, <1>2, <1>3, <1>4, <1>5, <1>6, <1>7, <1>8, <1>9, <1>10

-----------------------------------------------------------------------------
(* Types and names.                                                        *)

\* Every saver has a client, and only the sync worker shares one.
LEMMA ConnType ==
    /\ \A t \in Savers : Conn(t) \in Writers
    /\ \A t, u \in Savers : Conn(t) = Conn(u) /\ Conn(t) # 0 => t = u
    /\ None \notin Savers
    /\ Sync \in Savers
    /\ Writers \subseteq Savers
    /\ \A t \in Sole : t \in Savers /\ Conn(t) # 0
BY SaveClickhouseAssumption DEF Conn, Savers, Writers, Sole

\* The rows that are anywhere have been pushed.
LEMMA RowsMade ==
    ASSUME TypeOK
    PROVE  /\ made \in Nat /\ MaxRows \in Nat /\ made <= MaxRows
           /\ 1..made \subseteq 1..MaxRows
           /\ \A s \in Seq(1..made) : Rows(s) \subseteq 1..made
           /\ Rows(insert_statements) \subseteq 1..made
           /\ \A t \in Savers : Rows(bucket[t]) \subseteq 1..made
           /\ \A p \in orphans : Rows(p) \subseteq 1..made
<1>1. made \in Nat /\ MaxRows \in Nat /\ made <= MaxRows /\ 1..made \subseteq 1..MaxRows
  BY SaveClickhouseAssumption DEF TypeOK
<1>2. \A s \in Seq(1..made) : Rows(s) \subseteq 1..made
  BY <1>1, RowsType
<1> QED BY <1>1, <1>2 DEF TypeOK

LEMMA PieceType ==
    ASSUME TypeOK, NEW t \in Savers
    PROVE  Piece(t, "head") \in Pieces /\ Piece(t, "tail") \in Pieces
BY DEF TypeOK, Pieces, Piece

\* What a piece is made of.
LEMMA PieceFields ==
    ASSUME NEW t, NEW part
    PROVE  Piece(t, part).part = part /\ Piece(t, part).rows = bucket[t]
BY DEF Piece

-----------------------------------------------------------------------------
(* The channel of a client that is not misused.                            *)

\* A thread inside an exclusive client is alone there.
LEMMA NoOthers ==
    ASSUME IInv, NEW t \in Savers, pc[t] \in Inside, Exclusive(Conn(t)),
           NEW labels, labels \subseteq Inside
    PROVE  Others(t, labels) = {}
BY DEF IInv, Alone, Others

\* A step of a thread inside its client: the channels of the others are not
\* touched, and its own is as it has to be.
LEMMA ChannelStep ==
    ASSUME IInv, NEW t \in Savers, NEW to \in Inside \cup {"idle"},
           pc[t] \in Inside, pc' = [pc EXCEPT ![t] = to],
           misused' = misused, stored' = stored,
           \A u \in Savers \ {t} : bucket'[u] = bucket[u],
           \A d \in Writers \ {Conn(t)} : out'[d] = out[d] /\ in'[d] = in[d],
           ChannelOf(t)',
           to = "idle" /\ Exclusive(Conn(t)) => out'[Conn(t)] = <<>> /\ in'[Conn(t)] = <<>>
    PROVE  Alone' /\ Channel' /\ Quiet'
<1>1. /\ pc'[t] = to /\ \A u \in Savers \ {t} : pc'[u] = pc[u]
      /\ \A c : Exclusive(c)' <=> Exclusive(c)
  BY DEF IInv, TypeOK, Exclusive
<1>2. Alone'
  BY <1>1 DEF IInv, Alone
<1>3. ASSUME NEW u \in Savers, u # t PROVE ChannelOf(u)'
  <2>1. CASE Conn(u) = Conn(t)
    <3>1. Exclusive(Conn(u)) => pc[u] \notin Inside
      BY <1>3, <2>1 DEF IInv, Alone
    <3> QED BY <1>1, <1>3, <3>1 DEF ChannelOf, Inside
  <2>2. CASE Conn(u) # Conn(t)
    <3>1. /\ out'[Conn(u)] = out[Conn(u)] /\ in'[Conn(u)] = in[Conn(u)]
          /\ bucket'[u] = bucket[u] /\ pc'[u] = pc[u]
      BY <1>1, <1>3, <2>2, ConnType
    <3>2. ChannelOf(u)
      BY DEF IInv, Channel
    <3>3. /\ Asked(u) => Asked(u)'
          /\ Refused(u) => Refused(u)'
          /\ Piece(u, "head")' = Piece(u, "head")
          /\ Saved(u)' <=> Saved(u)
      BY <3>1 DEF Asked, Refused, Piece, Saved
    <3> QED BY <1>1, <3>1, <3>2, <3>3 DEF ChannelOf, Done
  <2> QED BY <2>1, <2>2
<1>4. Channel'
  BY <1>3 DEF Channel
<1>5. Quiet'
  <2> SUFFICES ASSUME NEW c \in Writers, Exclusive(c),
                      \A u \in Savers : Conn(u) = c => pc'[u] \notin Inside
               PROVE  out'[c] = <<>> /\ in'[c] = <<>>
    BY <1>1 DEF Quiet
  <2>1. CASE c = Conn(t)
    BY <1>1, <2>1
  <2>2. CASE c # Conn(t)
    BY <1>1, <2>2 DEF IInv, Quiet
  <2> QED BY <2>1, <2>2
<1> QED BY <1>2, <1>4, <1>5

\* A step of a saver between the drain and the end that leaves the rows
\* where they are.
LEMMA RowsStep ==
    ASSUME IInv, NEW t \in Savers, NEW to, pc[t] # "idle", to # "idle",
           pc' = [pc EXCEPT ![t] = to],
           UNCHANGED <<memory, server, crashed>>,
           misused => misused',
           \A u \in Savers : ~misused' /\ Unsent(u)' => Unsent(u)
    PROVE  OnePlace' /\ Undecided' /\ New' /\ BucketInv' /\ Left' /\ AtMostOnceUnlessShared'
<1> USE DEF memory, server
<1>1. OnePlace' /\ Undecided'
  BY DEF IInv, OnePlace, Undecided
<1>2. New' /\ Left' /\ AtMostOnceUnlessShared'
  BY DEF IInv, New, Left, AtMostOnceUnlessShared
<1>3. BucketInv'
  BY DEF IInv, TypeOK, BucketInv
<1> QED BY <1>1, <1>2, <1>3

\* What the server has received on an exclusive client is from the thread
\* that is inside it.
LEMMA Sender ==
    ASSUME IInv, NEW c \in Writers, Exclusive(c), out[c] # <<>>
    PROVE  \E t \in Savers : /\ Conn(t) = c
                             /\ \/ pc[t] = "tail" /\ out[c] = <<Piece(t, "head")>>
                                \/ pc[t] = "await" /\ Asked(t)
<1>1. PICK t \in Savers : Conn(t) = c /\ pc[t] \in Inside
  BY DEF IInv, Quiet
<1>2. ChannelOf(t)
  BY DEF IInv, Channel
<1> QED BY <1>1, <1>2 DEF ChannelOf, Inside, Refused, Done

\* A statement, or what the server refuses, is the whole one of a saver that
\* waits for it.
LEMMA WholeSender ==
    ASSUME IInv, NEW c \in Writers, Exclusive(c),
           \/ Len(out[c]) >= 2
           \/ out[c] # <<>> /\ out[c][1].part = "tail"
    PROVE  \E t \in Savers : /\ Conn(t) = c /\ pc[t] = "await" /\ Asked(t) /\ Unsent(t)
                             /\ Whole(out[c]) /\ Len(out[c]) = 2
                             /\ out[c][1].rows = bucket[t] /\ out[c][2].rows = bucket[t]
<1>1. out[c] # <<>>
  <2>1. out[c] \in Seq(Pieces)
    BY DEF IInv, TypeOK
  <2> QED BY <2>1, SeqKept
<1>2. PICK t \in Savers : /\ Conn(t) = c
                          /\ \/ pc[t] = "tail" /\ out[c] = <<Piece(t, "head")>>
                             \/ pc[t] = "await" /\ Asked(t)
  BY <1>1, Sender
<1>3. out[c] # <<Piece(t, "head")>>
  <2> SUFFICES ASSUME out[c] = <<Piece(t, "head")>> PROVE FALSE
    OBVIOUS
  <2>1. Len(out[c]) = 1 /\ out[c][1] = Piece(t, "head")
    BY Short
  <2> QED BY <2>1, PieceFields
<1>4. pc[t] = "await" /\ Asked(t) /\ out[c] = <<Piece(t, "head"), Piece(t, "tail")>>
  BY <1>2, <1>3 DEF Asked
<1>5. Len(out[c]) = 2 /\ out[c][1] = Piece(t, "head") /\ out[c][2] = Piece(t, "tail")
  BY <1>4, Short
<1>6. Whole(out[c]) /\ out[c][1].rows = bucket[t] /\ out[c][2].rows = bucket[t]
  BY <1>5, PieceFields DEF Whole
<1> QED BY <1>1, <1>2, <1>4, <1>5, <1>6 DEF Unsent

-----------------------------------------------------------------------------
(* The invariant: the workers.                                             *)

LEMMA InitIInv == Init => IInv
<1> SUFFICES ASSUME Init PROVE IInv
  OBVIOUS
<1> USE DEF Init, Queue!Init
<1>1. bucket = [t \in Savers |-> <<>>]
  BY DEF Queue!Takers, Savers
<1>2. TypeOK
  <2>1. made \in 0..MaxRows /\ insert_statements \in Seq(1..made)
    BY SaveClickhouseAssumption
  <2>2. bucket \in [Savers -> Seq(1..made)]
    BY <1>1
  <2>3. stored \in [1..MaxRows -> Nat]
    OBVIOUS
  <2>4. out \in [Writers -> Seq(Pieces)]
    OBVIOUS
  <2>5. in \in [Writers -> Seq({"progress", "rest", "end", "exception"})]
    OBVIOUS
  <2> QED BY <2>1, <2>2, <2>3, <2>4, <2>5 DEF TypeOK
<1>3. EventsAlive /\ Alone /\ Channel /\ Quiet
  BY ConnType DEF EventsAlive, Alone, Channel, ChannelOf, Quiet, Inside
<1>4. OnePlace /\ Undecided
  BY <1>1, RowsEmpty DEF OnePlace, Undecided
<1>5. New /\ BucketInv /\ Left /\ AtMostOnceUnlessShared
  BY <1>1 DEF New, BucketInv, Left, AtMostOnceUnlessShared
<1> QED BY <1>2, <1>3, <1>4, <1>5 DEF IInv

LEMMA PushIInv == IInv /\ Push => IInv'
<1> SUFFICES ASSUME IInv, Push PROVE IInv'
  OBVIOUS
<1> USE DEF Push, Queue!Put, client, wire, server, process
<1>m. /\ \A t \in Savers : Rows(bucket[t]) \subseteq 1..made
      /\ \A p \in orphans : Rows(p) \subseteq 1..made
  <2>1. TypeOK
    BY DEF IInv
  <2> QED BY <2>1, RowsMade
<1>1. /\ made < MaxRows /\ made' = made + 1 /\ made \in Nat /\ MaxRows \in Nat
      /\ insert_statements' \in Seq(1..made')
      /\ Rows(insert_statements') = {made + 1} \cup Rows(insert_statements)
  BY RowsPush, SaveClickhouseAssumption DEF IInv, TypeOK
<1>2. Seq(1..made) \subseteq Seq(1..made')
  <2>1. 1..made \subseteq 1..made'
    BY <1>1
  <2> QED BY <2>1, SeqWiden
<1>3. Seq(Pieces) \subseteq Seq(Pieces')
  <2>1. Pieces \subseteq Pieces'
    BY <1>2 DEF Pieces
  <2> HIDE DEF Pieces
  <2> QED BY <2>1, SeqWiden
<1>4. TypeOK'
  BY <1>1, <1>2, <1>3 DEF IInv, TypeOK
<1>5. EventsAlive' /\ Alone' /\ Quiet' /\ BucketInv' /\ Left' /\ AtMostOnceUnlessShared'
  BY DEF IInv, EventsAlive, Alone, Quiet, Exclusive, BucketInv, Left, AtMostOnceUnlessShared
<1>6. Channel'
  BY DEF IInv, Channel, ChannelOf, Exclusive, Asked, Refused, Done, Piece, Saved
<1>a. /\ \A t \in Savers : made + 1 \notin Rows(bucket[t])
      /\ \A p \in orphans : made + 1 \notin Rows(p)
      /\ made + 1 \in 1..MaxRows
  <2>1. made + 1 \notin 1..made /\ made + 1 \in 1..MaxRows
    BY <1>1
  <2> QED BY <1>m, <2>1
<1>7. OnePlace'
  <2>1. OnePlace /\ \A t \in Savers : Unsent(t)' <=> Unsent(t)
    BY DEF IInv, Unsent
  <2>2. bucket' = bucket /\ orphans' = orphans /\ misused' = misused
    OBVIOUS
  <2>3. ~misused => \A t \in Savers : Rows(insert_statements') \cap Rows(bucket[t]) = {}
    BY <1>1, <1>a, <2>1 DEF OnePlace
  <2>4. ~misused => \A p \in orphans : Rows(p) \cap Rows(insert_statements') = {}
    BY <1>1, <1>a, <2>1 DEF OnePlace
  <2> HIDE DEF Push, Queue!Put
  <2> SUFFICES ASSUME ~misused
               PROVE  /\ \A t \in Savers : Rows(insert_statements') \cap Rows(bucket[t]) = {}
                      /\ \A t, u \in Savers : t # u => Rows(bucket[t]) \cap Rows(bucket[u]) = {}
                      /\ \A p \in orphans : Rows(p) \cap Rows(insert_statements') = {}
                      /\ \A p \in orphans, t \in Savers :
                             Unsent(t)' => Rows(p) \cap Rows(bucket[t]) = {}
                      /\ \A p, q \in orphans : p # q => Rows(p) \cap Rows(q) = {}
    BY <2>2 DEF OnePlace
  <2> QED BY <2>1, <2>3, <2>4 DEF OnePlace
<1>8. New' /\ stored[made + 1] = 0
  BY <1>1, <1>a DEF IInv, New
<1>9. Undecided'
  <2>1. Undecided /\ \A t \in Savers : Unsent(t)' <=> Unsent(t)
    BY DEF IInv, Unsent
  <2> QED BY <1>1, <1>8, <2>1 DEF Undecided
<1> QED BY <1>4, <1>5, <1>6, <1>7, <1>8, <1>9 DEF IInv

LEMMA DrainIInv == ASSUME IInv, NEW t \in Savers, Drain(t) PROVE IInv'
<1> USE DEF Drain, Move, Queue!Take, wire, server, process
<1>1. /\ bucket' = [bucket EXCEPT ![t] = insert_statements]
      /\ insert_statements' = <<>>
      /\ Rows(insert_statements') = {}
  BY RowsEmpty DEF Queue!Batch, Queue!Rest
<1>2. insert_statements # <<>>
  BY SaveClickhouseAssumption DEF Queue!Ready, IInv, TypeOK
<1>3. TypeOK'
  BY <1>1 DEF IInv, TypeOK, Pieces
<1>4. /\ pc'[t] = "enter" /\ pc[t] = "idle" /\ \A u \in Savers \ {t} : pc'[u] = pc[u]
      /\ \A u \in Savers \ {t} : bucket'[u] = bucket[u]
      /\ \A u \in Savers : pc'[u] \in Inside => u # t /\ pc[u] \in Inside
      /\ \A u \in Savers : pc[u] \in Inside => u # t /\ pc'[u] \in Inside
      /\ bucket'[t] = insert_statements
  BY <1>1 DEF IInv, TypeOK, Inside
<1>5. EventsAlive'
  BY <1>4, ConnType DEF IInv, TypeOK, EventsAlive
<1>6. Alone' /\ Quiet'
  BY <1>4 DEF IInv, Alone, Quiet, Exclusive
<1>7. Channel'
  <2> SUFFICES ASSUME NEW u \in Savers PROVE ChannelOf(u)'
    BY DEF Channel
  <2>1. CASE u = t
    BY <1>4, <2>1 DEF ChannelOf
  <2>2. CASE u # t
    <3>1. ChannelOf(u) /\ bucket'[u] = bucket[u] /\ pc'[u] = pc[u]
      BY <1>4, <2>2 DEF IInv, Channel
    <3> QED BY <3>1 DEF ChannelOf, Exclusive, Asked, Refused, Done, Piece, Saved
  <2> QED BY <2>1, <2>2
<1>8. \A u \in Savers : u # t => (Unsent(u)' <=> Unsent(u))
  BY <1>4 DEF Unsent
<1>9. \A u \in Savers : Rows(bucket'[u]) = IF u = t THEN Rows(insert_statements)
                                                  ELSE Rows(bucket[u])
  BY <1>4
<1>10. OnePlace'
  <2> SUFFICES ASSUME ~misused PROVE OnePlace'
    BY DEF OnePlace
  <2>1. /\ \A u \in Savers : Rows(insert_statements) \cap Rows(bucket[u]) = {}
        /\ \A u, v \in Savers : u # v => Rows(bucket[u]) \cap Rows(bucket[v]) = {}
        /\ \A p \in orphans : Rows(p) \cap Rows(insert_statements) = {}
        /\ \A p \in orphans, u \in Savers : Unsent(u) => Rows(p) \cap Rows(bucket[u]) = {}
        /\ \A p, q \in orphans : p # q => Rows(p) \cap Rows(q) = {}
    BY DEF IInv, OnePlace
  <2>2. \A u, v \in Savers : u # v => Rows(bucket'[u]) \cap Rows(bucket'[v]) = {}
    BY <1>9, <2>1
  <2>3. \A p \in orphans, u \in Savers : Unsent(u)' => Rows(p) \cap Rows(bucket'[u]) = {}
    BY <1>8, <1>9, <2>1
  <2>4. \A S : {} \cap S = {} /\ S \cap {} = {}
    OBVIOUS
  <2> QED BY <1>1, <2>1, <2>2, <2>3, <2>4 DEF OnePlace
<1>11. Undecided'
  BY <1>1, <1>8, <1>9 DEF IInv, Undecided
<1>12. BucketInv'
  BY <1>2, <1>4 DEF IInv, BucketInv
<1>13. New' /\ Left' /\ AtMostOnceUnlessShared'
  BY DEF IInv, New, Left, AtMostOnceUnlessShared
<1> QED BY <1>3, <1>5, <1>6, <1>7, <1>10, <1>11, <1>12, <1>13 DEF IInv

\* EnsureNull.  A second thread inside the client is what misuses it.
LEMMA EnterIInv == ASSUME IInv, NEW t \in Savers, Enter(t) PROVE IInv'
<1> USE DEF Enter, Move, memory, wire, server
<1>1. /\ pc'[t] = "head" /\ pc[t] = "enter" /\ \A u \in Savers \ {t} : pc'[u] = pc[u]
      /\ \A u \in Savers \ {t} : pc'[u] \in Inside <=> pc[u] \in Inside
      /\ pc[t] \notin Inside /\ pc'[t] \in Inside
      /\ \A c : Exclusive(c)' => Exclusive(c)
      /\ Exclusive(Conn(t))' => \A u \in Savers \ {t} : Conn(u) = Conn(t) => pc[u] \notin Inside
  <2>1. /\ pc'[t] = "head" /\ pc[t] = "enter" /\ \A u \in Savers \ {t} : pc'[u] = pc[u]
        /\ pc[t] \notin Inside /\ pc'[t] \in Inside
    BY DEF IInv, TypeOK, Inside
  <2>2. Exclusive(Conn(t))' => \A u \in Savers \ {t} : Conn(u) = Conn(t) => pc[u] \notin Inside
    <3>1. CASE Conn(t) = 0
      BY <3>1 DEF Exclusive, Others
    <3>2. CASE Conn(t) # 0
      BY <3>2, ConnType
    <3> QED BY <3>1, <3>2
  <2> QED BY <2>1, <2>2 DEF Exclusive
<1>2. TypeOK'
  <2>1. misused' \in BOOLEAN
    BY DEF IInv, TypeOK
  <2>2. events_' \in [Writers -> Savers \cup {None}]
    BY ConnType DEF IInv, TypeOK
  <2>3. pc' \in [Savers -> {"idle", "enter"} \cup Inside]
    BY DEF IInv, TypeOK, Inside
  <2> QED BY <2>1, <2>2, <2>3 DEF IInv, TypeOK, Pieces
<1>3. EventsAlive'
  <2> SUFFICES ASSUME NEW c \in Writers, events_'[c] # None
               PROVE  Conn(events_'[c]) = c /\ pc'[events_'[c]] \in Inside
    BY DEF EventsAlive
  <2>1. CASE c = Conn(t)
    <3>1. events_'[c] = t
      BY <2>1 DEF IInv, TypeOK
    <3> QED BY <1>1, <2>1, <3>1
  <2>2. CASE c # Conn(t)
    <3>1. events_'[c] = events_[c] /\ events_[c] \in Savers
      BY <2>2 DEF IInv, TypeOK
    <3>2. Conn(events_[c]) = c /\ pc[events_[c]] \in Inside
      BY <3>1 DEF IInv, EventsAlive
    <3> QED BY <1>1, <2>2, <3>1, <3>2
  <2> QED BY <2>1, <2>2
<1>4. Alone' /\ Quiet'
  BY <1>1 DEF IInv, Alone, Quiet
<1>5. Channel'
  <2> SUFFICES ASSUME NEW u \in Savers PROVE ChannelOf(u)'
    BY DEF Channel
  <2>1. CASE u = t
    <3>1. Exclusive(Conn(t))' => out[Conn(t)] = <<>> /\ in[Conn(t)] = <<>>
      BY <1>1, ConnType DEF IInv, Quiet
    <3> QED BY <1>1, <2>1, <3>1 DEF ChannelOf
  <2>2. CASE u # t
    <3>1. ChannelOf(u) /\ pc'[u] = pc[u]
      BY <1>1, <2>2 DEF IInv, Channel
    <3> QED BY <1>1, <3>1 DEF ChannelOf, Asked, Refused, Done, Piece, Saved
  <2> QED BY <2>1, <2>2
<1>6. \A u \in Savers : Unsent(u)' => Unsent(u)
  BY <1>1 DEF Unsent
<1>7. OnePlace' /\ Undecided' /\ New' /\ BucketInv' /\ Left' /\ AtMostOnceUnlessShared'
  <2>1. misused => misused'
    OBVIOUS
  <2>2. UNCHANGED <<memory, server, crashed>>
    OBVIOUS
  <2> QED BY <1>1, <1>6, <2>1, <2>2, RowsStep
<1> QED BY <1>2, <1>3, <1>4, <1>5, <1>7 DEF IInv

\* Moves inside a client keep the pointer of the client alive.
LEMMA AliveInside ==
    ASSUME IInv, NEW t \in Savers, NEW to \in Inside,
           pc' = [pc EXCEPT ![t] = to], events_' = events_
    PROVE  EventsAlive'
<1>1. \A u \in Savers : pc'[u] = IF u = t THEN to ELSE pc[u]
  BY DEF IInv, TypeOK
<1>2. \A c \in Writers : events_[c] \in Savers \cup {None}
  BY DEF IInv, TypeOK
<1>3. ASSUME NEW c \in Writers, events_[c] # None
      PROVE  Conn(events_[c]) = c /\ pc'[events_[c]] \in Inside
  <2>1. /\ events_[c] \in Savers /\ Conn(events_[c]) = c
        /\ pc[events_[c]] \in Inside
    BY <1>2, <1>3 DEF IInv, EventsAlive
  <2> QED BY <1>1, <2>1
<1> QED BY <1>3 DEF EventsAlive

LEMMA SendStep ==
    ASSUME IInv, NEW t \in Savers, NEW from, NEW to, NEW piece \in Pieces, NEW again \in Seq(Pieces),
           \/ from = "head" /\ to = "tail" /\ piece = Piece(t, "head")
           \/ from = "tail" /\ to = "await" /\ piece = Piece(t, "tail"),
           SendQuery(t, from, to, piece, again)
    PROVE  IInv'
<1> USE DEF SendQuery, Move, memory, server, process
<1> DEFINE c == Conn(t)
<1>1. /\ pc[t] = from /\ pc' = [pc EXCEPT ![t] = to] /\ pc'[t] = to
      /\ from \in Inside /\ to \in Inside /\ c \in Writers
      /\ bucket' = bucket /\ stored' = stored /\ misused' = misused /\ in' = in
  BY ConnType DEF IInv, TypeOK, Inside
<1>2. PICK s : /\ s \in {<<piece>>, <<>>, again}
               /\ Others(t, {"head", "tail"}) = {} => s = <<piece>>
               /\ out' = [out EXCEPT ![c] = @ \o s]
  <2>1. \E s \in {<<piece>>} \cup (IF Others(t, {"head", "tail"}) = {} THEN {} ELSE {<<>>, again}) :
            out' = [out EXCEPT ![c] = @ \o s]
    OBVIOUS
  <2> QED BY <2>1
<1>3. out'[c] = out[c] \o s /\ \A d \in Writers \ {c} : out'[d] = out[d]
  BY <1>1, <1>2 DEF IInv, TypeOK
<1>4. TypeOK'
  <2>1. <<piece>> \in Seq(Pieces) /\ <<>> \in Seq(Pieces)
    BY PieceType DEF IInv
  <2>2. s \in Seq(Pieces)
    BY <1>2, <2>1
  <2>3. out[c] \in Seq(Pieces)
    BY <1>1 DEF IInv, TypeOK
  <2>8. \A u \in Seq(Pieces) : out[c] \o u \in Seq(Pieces)
    BY <2>3, SeqKept
  <2>4. out'[c] \in Seq(Pieces)
    BY <1>3, <2>2, <2>8
  <2>5. out' \in [Writers -> Seq(Pieces)]
    BY <1>2, <2>4, <1>3 DEF IInv, TypeOK
  <2>6. Pieces' = Pieces
    BY DEF Pieces
  <2>7. pc' \in [Savers -> {"idle", "enter"} \cup Inside]
    BY <1>1 DEF IInv, TypeOK
  <2> QED BY <2>5, <2>6, <2>7 DEF IInv, TypeOK
<1>5. EventsAlive'
  BY <1>1, AliveInside
<1>6. ChannelOf(t)'
  <2> SUFFICES ASSUME Exclusive(c) PROVE ChannelOf(t)'
    BY <1>1 DEF ChannelOf, Exclusive
  <2>1. {"head", "tail"} \subseteq Inside
    BY DEF Inside
  <2>2. s = <<piece>>
    BY <1>1, <1>2, <2>1, NoOthers
  <2>3. ChannelOf(t)
    BY DEF IInv, Channel
  <2>4. Piece(t, "head")' = Piece(t, "head") /\ Piece(t, "tail")' = Piece(t, "tail")
    BY <1>1 DEF Piece
  <2>5. CASE from = "head"
    <3>1. to = "tail" /\ piece = Piece(t, "head") /\ out[c] = <<>> /\ in[c] = <<>>
      BY <1>1, <2>3, <2>5 DEF ChannelOf
    <3>2. out'[c] = <<Piece(t, "head")>>
      BY <1>3, <2>2, <3>1, Short
    <3> QED BY <1>1, <2>4, <3>1, <3>2 DEF ChannelOf
  <2>6. CASE from = "tail"
    <3>1. to = "await" /\ piece = Piece(t, "tail") /\ out[c] = <<Piece(t, "head")>> /\ in[c] = <<>>
      BY <1>1, <2>3, <2>6 DEF ChannelOf
    <3>2. out'[c] = <<Piece(t, "head"), Piece(t, "tail")>>
      <4> DEFINE h == Piece(t, "head")
                 g == Piece(t, "tail")
                 u == <<h>> \o <<g>>
      <4>1. out'[c] = u
        BY <1>3, <2>2, <3>1
      <4> HIDE DEF h, g
      <4>2. <<h>> \in Seq({h, g}) /\ <<g>> \in Seq({h, g})
        OBVIOUS
      <4>3. u \in Seq({h, g}) /\ Len(u) = 2 /\ u[1] = h /\ u[2] = g
        BY <4>2
      <4> HIDE DEF u
      <4>4. u = <<h, g>>
        BY <4>3
      <4> QED BY <4>1, <4>4 DEF h, g
    <3>5. Asked(t)'
      BY <1>1, <2>4, <3>1, <3>2 DEF Asked
    <3> QED BY <1>1, <3>1, <3>5 DEF ChannelOf
  <2> QED BY <2>5, <2>6
<1>7. Alone' /\ Channel' /\ Quiet'
  <2>1. to # "idle" /\ to \in Inside \cup {"idle"} /\ \A u \in Savers \ {t} : bucket'[u] = bucket[u]
    BY <1>1
  <2>2. \A d \in Writers \ {Conn(t)} : out'[d] = out[d] /\ in'[d] = in[d]
    BY <1>1, <1>3
  <2> QED BY <1>1, <1>6, <2>1, <2>2, ChannelStep
<1>8. \A u \in Savers : ~misused' /\ Unsent(u)' => Unsent(u)
  <2> SUFFICES ASSUME NEW u \in Savers, ~misused, Unsent(u)' PROVE Unsent(u)
    BY <1>1
  <2>1. CASE u = t
    BY <1>1, <2>1 DEF Unsent
  <2>2. CASE u # t /\ Conn(u) = c
    <3>1. pc[u] \notin Inside
      BY <1>1, <2>2 DEF IInv, Alone, Exclusive
    <3>2. pc'[u] = pc[u]
      BY <1>1, <2>2 DEF IInv, TypeOK
    <3> QED BY <3>1, <3>2 DEF Unsent, Inside
  <2>3. CASE Conn(u) # c
    <3>1. pc'[u] = pc[u] /\ out'[Conn(u)] = out[Conn(u)]
      BY <1>1, <1>3, <2>3, ConnType DEF IInv, TypeOK
    <3> QED BY <3>1 DEF Unsent
  <2> QED BY <2>1, <2>2, <2>3
<1>9. OnePlace' /\ Undecided' /\ New' /\ BucketInv' /\ Left' /\ AtMostOnceUnlessShared'
  <2>1. pc[t] # "idle" /\ to # "idle" /\ (misused => misused') /\ UNCHANGED <<memory, server, crashed>>
    BY <1>1
  <2> QED BY <1>1, <1>8, <2>1, RowsStep
<1> QED BY <1>4, <1>5, <1>7, <1>9 DEF IInv

LEMMA SendIInv == ASSUME IInv, NEW t \in Savers, SendHead(t) \/ SendTail(t) PROVE IInv'
<1>1. Piece(t, "head") \in Pieces /\ Piece(t, "tail") \in Pieces
  BY PieceType DEF IInv
<1>2. /\ <<Piece(t, "head")>> \in Seq(Pieces)
      /\ <<Piece(t, "tail"), Piece(t, "head"), Piece(t, "tail")>> \in Seq(Pieces)
  BY <1>1
<1>3. CASE SendHead(t)
  BY <1>1, <1>2, <1>3, SendStep DEF SendHead
<1>4. CASE SendTail(t)
  BY <1>1, <1>2, <1>4, SendStep DEF SendTail
<1> QED BY <1>3, <1>4

LEMMA ReadStep ==
    ASSUME IInv, NEW t \in Savers, NEW from, NEW to,
           \/ from = "await" /\ to = "rest" /\ NextPacket(t) \in {"progress", "rest"}
           \/ from = "await" /\ to = "leave" /\ NextPacket(t) \in {"end", "rest"}
           \/ from = "rest" /\ to = "await",
           Move(t, from, to), Available(t), Consume(t),
           UNCHANGED <<memory, events_, out, server, process>>
    PROVE  IInv'
<1> USE DEF Move, memory, server, process, Available, NextPacket
<1> DEFINE c == Conn(t)
           Packets == {"progress", "rest", "end", "exception"}
<1>1. /\ pc[t] = from /\ pc' = [pc EXCEPT ![t] = to] /\ pc'[t] = to
      /\ from \in Inside /\ to \in Inside /\ c \in Writers
      /\ bucket' = bucket /\ stored' = stored /\ misused' = misused /\ out' = out
  BY ConnType DEF IInv, TypeOK, Inside
<1>2. PICK s : /\ s \in {Tail(in[c]), in[c]}
               /\ Others(t, {"await", "rest"}) = {} => s = Tail(in[c])
               /\ in' = [in EXCEPT ![c] = s]
  BY DEF Consume
<1>3. in'[c] = s /\ \A d \in Writers \ {c} : in'[d] = in[d]
  BY <1>1, <1>2 DEF IInv, TypeOK
<1>4. TypeOK'
  <2>1. in[c] \in Seq(Packets) /\ in[c] # <<>>
    BY <1>1 DEF IInv, TypeOK
  <2> HIDE DEF Packets
  <2>2. s \in Seq(Packets)
    BY <1>2, <2>1, SeqKept
  <2>3. in' \in [Writers -> Seq(Packets)]
    BY <1>2, <2>2 DEF IInv, TypeOK, Packets
  <2>4. Pieces' = Pieces
    BY DEF Pieces
  <2>5. pc' \in [Savers -> {"idle", "enter"} \cup Inside]
    BY <1>1 DEF IInv, TypeOK
  <2> QED BY <2>3, <2>4, <2>5 DEF IInv, TypeOK, Packets
<1>5. EventsAlive'
  BY <1>1, AliveInside
<1>6. Exclusive(c) => /\ out[c] = <<>>
                      /\ pc'[t] = "await" => Done(t, <<"end">>)'
                      /\ pc'[t] = "rest" => Done(t, <<"rest", "end">>)'
                      /\ pc'[t] = "leave" => Done(t, <<>>)'
  <2> SUFFICES ASSUME Exclusive(c)
               PROVE  /\ out[c] = <<>>
                      /\ pc'[t] = "await" => Done(t, <<"end">>)'
                      /\ pc'[t] = "rest" => Done(t, <<"rest", "end">>)'
                      /\ pc'[t] = "leave" => Done(t, <<>>)'
    OBVIOUS
  <2>1. {"await", "rest"} \subseteq Inside
    BY DEF Inside
  <2>2. in'[c] = Tail(in[c])
    BY <1>1, <1>2, <1>3, <2>1, NoOthers
  <2>3. ChannelOf(t)
    BY DEF IInv, Channel
  <2>4. Saved(t)' <=> Saved(t)
    BY <1>1 DEF Saved
  <2>5. CASE from = "rest"
    <3>1. Done(t, <<"rest", "end">>)
      BY <1>1, <2>3, <2>5 DEF ChannelOf
    <3>2. in'[c] = <<"end">>
      BY <2>2, <3>1, Short DEF Done
    <3> QED BY <1>1, <2>4, <2>5, <3>1, <3>2 DEF Done
  <2>6. CASE from = "await" /\ in[c] = <<"end">> /\ Done(t, <<"end">>)
    <3>1. Head(in[c]) = "end" /\ in'[c] = <<>>
      BY <2>2, <2>6, Short
    <3> QED BY <1>1, <2>4, <2>6, <3>1 DEF Done
  <2>7. CASE from = "await" /\ in[c] = <<"progress", "rest", "end">>
             /\ Done(t, <<"progress", "rest", "end">>)
    <3>1. Head(in[c]) = "progress" /\ in'[c] = <<"rest", "end">>
      BY <2>2, <2>7, Short
    <3> QED BY <1>1, <2>4, <2>7, <3>1 DEF Done
  <2>8. CASE from = "await" /\ Refused(t)
    <3>1. Head(in[c]) = "exception"
      BY <2>8, Short DEF Refused
    <3> QED BY <2>8, <3>1
  <2> QED BY <1>1, <2>3, <2>5, <2>6, <2>7, <2>8 DEF ChannelOf, Asked, Done
<1>7. ChannelOf(t)'
  BY <1>1, <1>6 DEF ChannelOf, Exclusive
<1>8. Alone' /\ Channel' /\ Quiet'
  <2>1. to # "idle" /\ to \in Inside \cup {"idle"} /\ \A u \in Savers \ {t} : bucket'[u] = bucket[u]
    BY <1>1
  <2>2. \A d \in Writers \ {Conn(t)} : out'[d] = out[d] /\ in'[d] = in[d]
    BY <1>1, <1>3
  <2> QED BY <1>1, <1>7, <2>1, <2>2, ChannelStep
<1>9. \A u \in Savers : ~misused' /\ Unsent(u)' => Unsent(u)
  <2> SUFFICES ASSUME NEW u \in Savers, ~misused, Unsent(u)' PROVE Unsent(u)
    BY <1>1
  <2>1. CASE u = t
    BY <1>1, <1>6, <2>1 DEF Unsent, Exclusive
  <2>2. CASE u # t
    BY <1>1, <2>2 DEF Unsent, IInv, TypeOK
  <2> QED BY <2>1, <2>2
<1>10. OnePlace' /\ Undecided' /\ New' /\ BucketInv' /\ Left' /\ AtMostOnceUnlessShared'
  <2>1. pc[t] # "idle" /\ to # "idle" /\ (misused => misused') /\ UNCHANGED <<memory, server, crashed>>
    BY <1>1
  <2> QED BY <1>1, <1>9, <2>1, RowsStep
<1> QED BY <1>4, <1>5, <1>8, <1>10 DEF IInv

LEMMA ReceiveIInv == ASSUME IInv, NEW t \in Savers, ReceivePacket(t) \/ ReadRest(t) PROVE IInv'
BY ReadStep DEF ReceivePacket, ReadRest

\* ~EnsureNull, and the end of a save.
LEMMA LeaveIInv == ASSUME IInv, NEW t \in Savers, Leave(t) PROVE IInv'
<1> USE DEF Leave, Move, Queue!Finish, wire, server, process
<1>1. /\ pc[t] = "leave" /\ pc' = [pc EXCEPT ![t] = "idle"] /\ pc'[t] = "idle"
      /\ \A u \in Savers \ {t} : pc'[u] = pc[u] /\ bucket'[u] = bucket[u]
      /\ bucket'[t] = <<>> /\ "leave" \in Inside /\ Conn(t) \in Writers
  BY ConnType DEF IInv, TypeOK, Inside
<1>2. TypeOK'
  <2>1. <<>> \in Seq(1..made)
    OBVIOUS
  <2>2. bucket' \in [Savers -> Seq(1..made)]
    BY <2>1 DEF IInv, TypeOK
  <2>3. events_' \in [Writers -> Savers \cup {None}]
    BY DEF IInv, TypeOK
  <2>4. pc' \in [Savers -> {"idle", "enter"} \cup Inside]
    BY DEF IInv, TypeOK
  <2>5. Pieces' = Pieces
    BY DEF Pieces
  <2> QED BY <2>2, <2>3, <2>4, <2>5 DEF IInv, TypeOK
<1>3. EventsAlive'
  <2> SUFFICES ASSUME NEW c \in Writers, events_'[c] # None
               PROVE  Conn(events_'[c]) = c /\ pc'[events_'[c]] \in Inside
    BY DEF EventsAlive
  <2>1. c # Conn(t) /\ events_'[c] = events_[c]
    BY DEF IInv, TypeOK
  <2>2. Conn(events_[c]) = c /\ pc[events_[c]] \in Inside /\ events_[c] \in Savers
    BY <2>1 DEF IInv, TypeOK, EventsAlive
  <2> QED BY <1>1, <2>1, <2>2
<1>4. ChannelOf(t)'
  BY <1>1 DEF ChannelOf
<1>5. Exclusive(Conn(t)) => out'[Conn(t)] = <<>> /\ in'[Conn(t)] = <<>>
  BY <1>1 DEF IInv, Channel, ChannelOf, Done
<1>6. Alone' /\ Channel' /\ Quiet'
  <2>1. pc[t] \in Inside /\ "idle" \in Inside \cup {"idle"} /\ misused' = misused /\ stored' = stored
    BY <1>1
  <2>2. \A d \in Writers \ {Conn(t)} : out'[d] = out[d] /\ in'[d] = in[d]
    OBVIOUS
  <2>3. \A u \in Savers \ {t} : bucket'[u] = bucket[u]
    BY <1>1
  <2> QED BY <1>1, <1>4, <1>5, <2>1, <2>2, <2>3, ChannelStep
<1>7. \A u \in Savers : Unsent(u)' => u # t /\ Unsent(u)
  BY <1>1 DEF Unsent
<1>r. \A u \in Savers : Rows(bucket'[u]) = IF u = t THEN {} ELSE Rows(bucket[u])
  BY <1>1, RowsEmpty
<1>8. OnePlace' /\ Undecided'
  <2>1. OnePlace /\ Undecided
    BY DEF IInv
  <2>2. \A u \in Savers : Rows(bucket'[u]) \subseteq Rows(bucket[u])
    BY <1>r
  <2>3. OnePlace'
    BY <1>7, <2>1, <2>2 DEF OnePlace
  <2>4. Undecided'
    BY <1>7, <2>1, <2>2 DEF Undecided
  <2> QED BY <2>3, <2>4
<1>9. BucketInv'
  BY <1>1 DEF IInv, BucketInv
<1>10. New' /\ Left' /\ AtMostOnceUnlessShared'
  BY DEF IInv, New, Left, AtMostOnceUnlessShared
<1> QED BY <1>2, <1>3, <1>6, <1>8, <1>9, <1>10 DEF IInv

-----------------------------------------------------------------------------
(* The invariant: the end of a process, the server.                        *)

\* The memory and the connections go; what the server has received stays.
LEMMA TerminateIInv == IInv /\ Terminate => IInv'
<1> SUFFICES ASSUME IInv, Terminate PROVE IInv'
  OBVIOUS
<1> USE DEF Terminate
<1>1. /\ \A t \in Savers : bucket'[t] = <<>> /\ Rows(bucket'[t]) = {} /\ pc'[t] = "idle"
      /\ \A c \in Writers : events_'[c] = None /\ out'[c] = <<>> /\ in'[c] = <<>>
      /\ Rows(insert_statements') = {} /\ crashed' = TRUE /\ misused' = misused
      /\ made' = made /\ stored' = stored
  BY RowsEmpty
<1>2. ASSUME NEW p \in orphans'
      PROVE  p \in orphans \/ \E c \in Writers : Whole(out[c]) /\ p = out[c][1].rows
  BY <1>2
<1>3. TypeOK'
  <2>1. \A c \in Writers : Whole(out[c]) => out[c][1] \in Pieces
    <3> SUFFICES ASSUME NEW c \in Writers, Whole(out[c]) PROVE out[c][1] \in Pieces
      OBVIOUS
    <3>1. out[c] \in Seq(Pieces) /\ Len(out[c]) >= 2
      BY DEF IInv, TypeOK, Whole
    <3>2. 1 \in 1..Len(out[c])
      BY <3>1
    <3> QED BY <3>1, <3>2
  <2>2. \A x \in Pieces : x.rows \in Seq(1..made)
    BY DEF Pieces
  <2>3. orphans' \subseteq Seq(1..made)
    BY <1>2, <2>1, <2>2 DEF IInv, TypeOK
  <2>4. <<>> \in Seq(1..made) /\ <<>> \in Seq(Pieces)
        /\ <<>> \in Seq({"progress", "rest", "end", "exception"})
    OBVIOUS
  <2>5. Pieces' = Pieces
    BY DEF Pieces
  <2>6. /\ insert_statements' \in Seq(1..made)
        /\ bucket' \in [Savers -> Seq(1..made)]
        /\ pc' \in [Savers -> {"idle", "enter"} \cup Inside]
        /\ events_' \in [Writers -> Savers \cup {None}]
        /\ out' \in [Writers -> Seq(Pieces)]
        /\ in' \in [Writers -> Seq({"progress", "rest", "end", "exception"})]
    BY <2>4
  <2> QED BY <1>1, <2>3, <2>5, <2>6 DEF IInv, TypeOK
<1>4. EventsAlive' /\ Alone' /\ Quiet' /\ Channel' /\ BucketInv' /\ Left'
  BY <1>1 DEF EventsAlive, Alone, Quiet, Channel, ChannelOf, BucketInv, Left, Inside
<1>5. New' /\ AtMostOnceUnlessShared'
  BY <1>1 DEF IInv, New, AtMostOnceUnlessShared
<1>6. ASSUME ~misused, NEW c \in Writers, Whole(out[c])
      PROVE  \E t \in Savers : Conn(t) = c /\ Unsent(t) /\ out[c][1].rows = bucket[t]
  <2>1. Exclusive(c) /\ Len(out[c]) >= 2
    BY <1>6 DEF Exclusive, Whole
  <2> QED BY <2>1, WholeSender
<1>7. ASSUME ~misused, NEW p \in orphans'
      PROVE  p \in orphans \/ \E t \in Savers : Unsent(t) /\ p = bucket[t]
  BY <1>2, <1>6, <1>7
<1>8. OnePlace'
  <2> SUFFICES ASSUME ~misused, NEW p \in orphans', NEW q \in orphans', p # q
               PROVE  Rows(p) \cap Rows(q) = {}
    BY <1>1 DEF OnePlace
  <2>1. OnePlace
    BY DEF IInv
  <2>2. CASE p \in orphans /\ q \in orphans
    BY <2>1, <2>2 DEF OnePlace
  <2>3. CASE p \in orphans /\ \E t \in Savers : Unsent(t) /\ q = bucket[t]
    BY <2>1, <2>3 DEF OnePlace
  <2>4. CASE q \in orphans /\ \E t \in Savers : Unsent(t) /\ p = bucket[t]
    BY <2>1, <2>4 DEF OnePlace
  <2>5. CASE /\ \E t \in Savers : Unsent(t) /\ p = bucket[t]
             /\ \E t \in Savers : Unsent(t) /\ q = bucket[t]
    BY <2>1, <2>5 DEF OnePlace
  <2> QED BY <1>7, <2>2, <2>3, <2>4, <2>5
<1>9. Undecided'
  <2> SUFFICES ASSUME ~misused, NEW p \in orphans' PROVE \A r \in Rows(p) : stored[r] = 0
    BY <1>1 DEF Undecided, Unsent
  <2> QED BY <1>7 DEF IInv, Undecided
<1> QED BY <1>3, <1>4, <1>5, <1>8, <1>9 DEF IInv

\* More rows in the table do no harm to a channel.
LEMMA StoreChannel ==
    ASSUME IInv, NEW u \in Savers,
           \A r \in 1..MaxRows : stored[r] > 0 => stored'[r] > 0,
           bucket' = bucket, pc' = pc, misused' = misused,
           out'[Conn(u)] = out[Conn(u)], in'[Conn(u)] = in[Conn(u)]
    PROVE  ChannelOf(u)'
<1>1. ChannelOf(u)
  BY DEF IInv, Channel
<1>2. Rows(bucket[u]) \subseteq 1..MaxRows
  BY RowsMade DEF IInv
<1>3. Saved(u) => Saved(u)'
  BY <1>2 DEF Saved
<1> QED BY <1>1, <1>3 DEF ChannelOf, Exclusive, Asked, Refused, Done, Piece

\* The server decides about what it has received on one client.
LEMMA ServerChannel ==
    ASSUME IInv, NEW c \in Writers,
           \/ Len(out[c]) >= 2
           \/ out[c] # <<>> /\ out[c][1].part = "tail",
           \A r \in 1..MaxRows : stored[r] > 0 => stored'[r] > 0,
           bucket' = bucket, pc' = pc, misused' = misused,
           \A d \in Writers \ {c} : out'[d] = out[d] /\ in'[d] = in[d],
           \A t \in Savers : Conn(t) = c /\ pc[t] = "await" /\ Asked(t) /\ Exclusive(c)
                             => ChannelOf(t)'
    PROVE  Alone' /\ Channel' /\ Quiet'
<1>1. Alone'
  BY DEF IInv, Alone, Exclusive
<1>2. ASSUME Exclusive(c)
      PROVE  \E t \in Savers : Conn(t) = c /\ pc[t] = "await" /\ Asked(t)
  BY <1>2, WholeSender
<1>3. Channel'
  <2> SUFFICES ASSUME NEW u \in Savers PROVE ChannelOf(u)'
    BY DEF Channel
  <2>1. CASE Conn(u) # c
    BY <2>1, StoreChannel, ConnType
  <2>2. CASE Conn(u) = c /\ ~Exclusive(c)
    BY <2>2 DEF ChannelOf, Exclusive
  <2>3. CASE Conn(u) = c /\ Exclusive(c)
    <3>1. PICK t \in Savers : Conn(t) = c /\ pc[t] = "await" /\ Asked(t)
      BY <1>2, <2>3
    <3>2. CASE u = t
      BY <2>3, <3>1, <3>2
    <3>3. CASE u # t
      <4>1. pc[u] \notin Inside
        BY <2>3, <3>1, <3>3 DEF IInv, Alone, Inside
      <4> QED BY <4>1 DEF ChannelOf, Inside
    <3> QED BY <3>2, <3>3
  <2> QED BY <2>1, <2>2, <2>3
<1>4. Quiet'
  <2>1. Exclusive(c) => \E t \in Savers : Conn(t) = c /\ pc[t] \in Inside
    BY <1>2 DEF Inside
  <2> QED BY <2>1 DEF IInv, Quiet, Exclusive
<1> QED BY <1>1, <1>3, <1>4

\* What the server answers when it has carried out a statement.
LEMMA Reply ==
    ASSUME NEW p \in {<<>>, <<"progress", "rest">>}
    PROVE  /\ p \o <<"end">> \in Seq({"progress", "rest", "end", "exception"})
           /\ <<>> \o (p \o <<"end">>) \in {<<"end">>, <<"progress", "rest", "end">>}
<1> DEFINE P == {"progress", "rest", "end", "exception"}
           u == p \o <<"end">>
           v == <<>> \o u
<1>1. p \in Seq(P) /\ <<"end">> \in Seq(P) /\ <<>> \in Seq(P)
  <2>1. <<"progress", "rest">> \in Seq(P) /\ <<"end">> \in Seq(P) /\ <<>> \in Seq(P)
    OBVIOUS
  <2> QED BY <2>1
<1>2. <<"end">> \in Seq(P) /\ <<"progress", "rest", "end">> \in Seq(P)
  OBVIOUS
<1>3. u \in Seq(P)
  BY <1>1
<1>4. v \in Seq(P) /\ v = u
  <2> HIDE DEF u
  <2> QED BY <1>3
<1>5. CASE p = <<>>
  <2>1. Len(u) = 1 /\ u[1] = "end"
    BY <1>5
  <2> HIDE DEF u
  <2>2. u = <<"end">>
    BY <1>2, <1>3, <2>1
  <2> QED BY <1>3, <1>4, <2>2 DEF u
<1>6. CASE p = <<"progress", "rest">>
  <2>1. Len(u) = 3 /\ u[1] = "progress" /\ u[2] = "rest" /\ u[3] = "end"
    BY <1>6
  <2> HIDE DEF u
  <2>2. u = <<"progress", "rest", "end">>
    BY <1>2, <1>3, <2>1
  <2> QED BY <1>3, <1>4, <2>2 DEF u
<1> QED BY <1>5, <1>6

LEMMA CommitIInv == ASSUME IInv, NEW c \in Writers, Commit(c) PROVE IInv'
<1> USE DEF memory, client, process
<1> DEFINE S == Rows(out[c][1].rows)
           Packets == {"progress", "rest", "end", "exception"}
<1>1. /\ Whole(out[c]) /\ Len(out[c]) >= 2 /\ out[c] \in Seq(Pieces) /\ out[c][1] \in Pieces
      /\ UNCHANGED <<memory, client, orphans, process>>
  <2>1. Whole(out[c]) /\ Len(out[c]) >= 2 /\ UNCHANGED <<memory, client, orphans, process>>
    BY DEF Commit, Whole
  <2>2. out[c] \in Seq(Pieces)
    BY DEF IInv, TypeOK
  <2>3. 1 \in 1..Len(out[c])
    BY <2>1, <2>2
  <2> QED BY <2>1, <2>2, <2>3
<1>2. /\ S \subseteq 1..made /\ S \subseteq 1..MaxRows
      /\ \A r \in 1..MaxRows : stored[r] \in Nat
      /\ \A r \in 1..MaxRows : stored'[r] = IF r \in S THEN stored[r] + 1 ELSE stored[r]
  <2>1. out[c][1].rows \in Seq(1..made)
    BY <1>1 DEF Pieces
  <2>2. S \subseteq 1..made /\ S \subseteq 1..MaxRows
    BY <2>1, RowsMade DEF IInv
  <2>3. \A r \in 1..MaxRows : stored[r] \in Nat
    BY DEF IInv, TypeOK
  <2>4. \A r \in 1..MaxRows : stored'[r] = IF r \in S THEN stored[r] + 1 ELSE stored[r]
    BY DEF Commit, StoreRows
  <2> QED BY <2>2, <2>3, <2>4
<1>3. PICK p \in {<<>>, <<"progress", "rest">>} : in' = [in EXCEPT ![c] = @ \o (p \o <<"end">>)]
  BY DEF Commit, Answer
<1>4. out' = [out EXCEPT ![c] = SubSeq(@, 3, Len(@))]
  BY DEF Commit, Received
<1>5. TypeOK'
  <2>1. SubSeq(out[c], 3, Len(out[c])) \in Seq(Pieces)
    BY <1>1, SeqKept
  <2>2. out' \in [Writers -> Seq(Pieces)]
    BY <1>4, <2>1 DEF IInv, TypeOK
  <2>3. p \o <<"end">> \in Seq(Packets)
    BY Reply
  <2>4. in[c] \in Seq(Packets)
    BY DEF IInv, TypeOK
  <2> HIDE DEF Packets
  <2>5. in[c] \o (p \o <<"end">>) \in Seq(Packets)
    BY <2>3, <2>4, SeqKept
  <2>6. in' \in [Writers -> Seq(Packets)]
    BY <1>3, <2>5 DEF IInv, TypeOK, Packets
  <2>7. stored' \in [1..MaxRows -> Nat]
    BY <1>2 DEF Commit, StoreRows
  <2>8. Pieces' = Pieces
    BY <1>1 DEF Pieces
  <2> QED BY <1>1, <2>2, <2>6, <2>7, <2>8 DEF IInv, TypeOK, Packets
<1>6. /\ out'[c] = SubSeq(out[c], 3, Len(out[c])) /\ \A d \in Writers \ {c} : out'[d] = out[d]
      /\ in'[c] = in[c] \o (p \o <<"end">>) /\ \A d \in Writers \ {c} : in'[d] = in[d]
  BY <1>3, <1>4 DEF IInv, TypeOK
<1>7. ASSUME NEW t \in Savers, Conn(t) = c, pc[t] = "await", Asked(t)
      PROVE  /\ ChannelOf(t)' /\ out'[c] = <<>> /\ S = Rows(bucket[t])
  <2>1. out[c] = <<Piece(t, "head"), Piece(t, "tail")>> /\ in[c] = <<>>
    BY <1>7 DEF Asked
  <2>2. Len(out[c]) = 2 /\ out[c][1] = Piece(t, "head")
        /\ SubSeq(<<Piece(t, "head"), Piece(t, "tail")>>, 3, 2) = <<>>
    BY <2>1, Short
  <2>3. S = Rows(bucket[t])
    BY <2>2, PieceFields
  <2>4. out'[c] = <<>>
    BY <1>6, <2>1, <2>2
  <2>5. in'[c] \in {<<"end">>, <<"progress", "rest", "end">>}
    <3>1. in'[c] = <<>> \o (p \o <<"end">>)
      BY <1>6, <2>1
    <3>2. <<>> \o (p \o <<"end">>) \in {<<"end">>, <<"progress", "rest", "end">>}
      BY Reply
    <3> QED BY <3>1, <3>2, Zenon
  <2>6. Saved(t)'
    <3>1. \A r \in S : stored'[r] > 0
      BY <1>2
    <3> HIDE DEF S
    <3> QED BY <1>1, <2>3, <3>1 DEF Saved
  <2>7. Done(t, <<"end">>)' \/ Done(t, <<"progress", "rest", "end">>)'
    BY <1>7, <2>4, <2>5, <2>6 DEF Done
  <2> QED BY <1>1, <1>7, <2>3, <2>4, <2>7 DEF ChannelOf
<1> HIDE DEF S
<1>8. Alone' /\ Channel' /\ Quiet'
  <2>1. \A r \in 1..MaxRows : stored[r] > 0 => stored'[r] > 0
    BY <1>2
  <2> QED BY <1>1, <1>6, <1>7, <2>1, ServerChannel
<1>9. EventsAlive' /\ BucketInv' /\ Left'
  BY <1>1 DEF IInv, EventsAlive, BucketInv, Left
<1>10. New'
  BY <1>1, <1>2, RowsMade DEF IInv, New
<1>a. ASSUME ~misused
      PROVE  \E t \in Savers : /\ Conn(t) = c /\ Unsent(t) /\ pc[t] = "await"
                               /\ S = Rows(bucket[t]) /\ out'[c] = <<>>
  <2>1. Exclusive(c)
    BY <1>a DEF Exclusive
  <2>2. PICK t \in Savers : Conn(t) = c /\ pc[t] = "await" /\ Asked(t) /\ Unsent(t)
    BY <1>1, <2>1, WholeSender
  <2> QED BY <1>7, <2>2
<1>b. \A u \in Savers : ~misused /\ Unsent(u)' => Unsent(u) /\ S \cap Rows(bucket[u]) = {}
  <2> SUFFICES ASSUME NEW u \in Savers, ~misused, Unsent(u)'
               PROVE  Unsent(u) /\ S \cap Rows(bucket[u]) = {}
    OBVIOUS
  <2>1. PICK t \in Savers : /\ Conn(t) = c /\ Unsent(t) /\ pc[t] = "await"
                            /\ S = Rows(bucket[t]) /\ out'[c] = <<>>
    BY <1>a
  <2>2. u # t
    BY <1>1, <2>1 DEF Unsent
  <2>3. Unsent(u)
    <3>1. CASE Conn(u) = c
      BY <1>1, <2>1, <3>1 DEF Unsent
    <3>2. CASE Conn(u) # c
      BY <1>1, <1>6, <3>2, ConnType DEF Unsent
    <3> QED BY <3>1, <3>2
  <2> QED BY <2>1, <2>2, <2>3 DEF IInv, OnePlace
<1>11. OnePlace'
  BY <1>1, <1>b DEF IInv, OnePlace
<1>c. ~misused => /\ S \cap Rows(insert_statements) = {}
                  /\ \A q \in orphans : S \cap Rows(q) = {}
                  /\ \A r \in S : stored[r] = 0
  BY <1>a DEF IInv, OnePlace, Undecided
<1>12. Undecided'
  <2> SUFFICES ASSUME ~misused PROVE Undecided'
    BY <1>1 DEF Undecided
  <2>1. /\ \A r \in Rows(insert_statements) : r \in 1..MaxRows /\ r \notin S /\ stored[r] = 0
        /\ \A q \in orphans : \A r \in Rows(q) : r \in 1..MaxRows /\ r \notin S /\ stored[r] = 0
        /\ \A u \in Savers : Unsent(u)' =>
               \A r \in Rows(bucket[u]) : r \in 1..MaxRows /\ r \notin S /\ stored[r] = 0
    BY <1>b, <1>c, RowsMade DEF IInv, Undecided
  <2> QED BY <1>1, <1>2, <2>1 DEF Undecided
<1>13. AtMostOnceUnlessShared'
  BY <1>1, <1>2, <1>c DEF IInv, AtMostOnceUnlessShared
<1> QED BY <1>5, <1>8, <1>9, <1>10, <1>11, <1>12, <1>13 DEF IInv

\* The server refuses a statement, or what is none.
LEMMA RefuseIInv == ASSUME IInv, NEW c \in Writers, Refuse(c) PROVE IInv'
<1> USE DEF memory, client, server, process
<1> DEFINE Packets == {"progress", "rest", "end", "exception"}
           n == IF Whole(out[c]) THEN 2 ELSE Len(out[c])
<1>1. /\ Len(out[c]) >= 2 \/ (out[c] # <<>> /\ out[c][1].part = "tail")
      /\ out[c] \in Seq(Pieces) /\ n \in Nat
      /\ UNCHANGED <<memory, client, server, process>>
  <2>1. out[c] \in Seq(Pieces)
    BY DEF IInv, TypeOK
  <2>2. n \in Nat
    BY <2>1
  <2>3. /\ Len(out[c]) >= 2 \/ (out[c] # <<>> /\ out[c][1].part = "tail")
        /\ UNCHANGED <<memory, client, server, process>>
    BY DEF Refuse
  <2> QED BY <2>1, <2>2, <2>3
<1>2. out' = [out EXCEPT ![c] = SubSeq(@, n + 1, Len(@))]
  BY DEF Refuse, Received
<1>3. in' = [in EXCEPT ![c] = @ \o <<"exception">>]
  BY DEF Refuse, Answer
<1>4. /\ out'[c] = SubSeq(out[c], n + 1, Len(out[c])) /\ \A d \in Writers \ {c} : out'[d] = out[d]
      /\ in'[c] = in[c] \o <<"exception">> /\ \A d \in Writers \ {c} : in'[d] = in[d]
  BY <1>2, <1>3 DEF IInv, TypeOK
<1>5. TypeOK'
  <2> HIDE DEF n
  <2>1. SubSeq(out[c], n + 1, Len(out[c])) \in Seq(Pieces)
    BY <1>1, SeqKept
  <2>2. out' \in [Writers -> Seq(Pieces)]
    BY <1>2, <2>1 DEF IInv, TypeOK
  <2>3. <<"exception">> \in Seq(Packets)
    OBVIOUS
  <2>4. in[c] \in Seq(Packets)
    BY DEF IInv, TypeOK
  <2> HIDE DEF Packets
  <2>5. in[c] \o <<"exception">> \in Seq(Packets)
    BY <2>3, <2>4, SeqKept
  <2>6. in' \in [Writers -> Seq(Packets)]
    BY <1>3, <2>5 DEF IInv, TypeOK, Packets
  <2>7. Pieces' = Pieces
    BY <1>1 DEF Pieces
  <2> QED BY <1>1, <2>2, <2>6, <2>7 DEF IInv, TypeOK, Packets
<1>6. ASSUME NEW t \in Savers, Conn(t) = c, pc[t] = "await", Asked(t), Exclusive(c)
      PROVE  ChannelOf(t)' /\ out'[c] = <<>>
  <2>1. out[c] = <<Piece(t, "head"), Piece(t, "tail")>> /\ in[c] = <<>>
    BY <1>6 DEF Asked
  <2>2. Len(out[c]) = 2 /\ SubSeq(<<Piece(t, "head"), Piece(t, "tail")>>, 3, 2) = <<>>
    BY <2>1, Short
  <2>3. Whole(out[c])
    BY <1>1, <1>6, WholeSender
  <2>4. out'[c] = <<>>
    BY <1>4, <2>1, <2>2, <2>3
  <2>5. <<>> \o <<"exception">> = <<"exception">>
    BY Short
  <2>6. in'[c] = <<"exception">>
    BY <1>4, <2>1, <2>5
  <2>7. Refused(t)' /\ pc'[t] = "await"
    BY <1>1, <1>6, <2>4, <2>6 DEF Refused
  <2> QED BY <2>4, <2>7 DEF ChannelOf
<1> HIDE DEF n
<1>7. Alone' /\ Channel' /\ Quiet'
  <2>1. /\ \A r \in 1..MaxRows : stored[r] > 0 => stored'[r] > 0
        /\ bucket' = bucket /\ pc' = pc /\ misused' = misused
    BY <1>1
  <2> QED BY <1>1, <1>4, <1>6, <2>1, ServerChannel
<1>8. EventsAlive' /\ BucketInv' /\ Left' /\ New' /\ AtMostOnceUnlessShared'
  BY <1>1 DEF IInv, EventsAlive, BucketInv, Left, New, AtMostOnceUnlessShared
<1>9. \A u \in Savers : ~misused /\ Unsent(u)' => Unsent(u)
  <2> SUFFICES ASSUME NEW u \in Savers, ~misused, Unsent(u)' PROVE Unsent(u)
    OBVIOUS
  <2>1. CASE Conn(u) # c
    BY <1>1, <1>4, <2>1, ConnType DEF Unsent
  <2>2. CASE Conn(u) = c
    <3>1. out[c] # <<>>
      BY <1>1, SeqKept
    <3> QED BY <1>1, <2>2, <3>1 DEF Unsent
  <2> QED BY <2>1, <2>2
<1>10. OnePlace' /\ Undecided'
  BY <1>1, <1>9 DEF IInv, OnePlace, Undecided
<1> QED BY <1>5, <1>7, <1>8, <1>10 DEF IInv

\* The statement of a process that is gone.
LEMMA FinishOrphanIInv == ASSUME IInv, NEW q \in orphans, FinishOrphan(q) PROVE IInv'
<1> USE DEF memory, client, wire, process
<1>1. orphans' = orphans \ {q} /\ UNCHANGED <<memory, client, wire, process>>
  BY DEF FinishOrphan
<1>2. /\ q \in Seq(1..made) /\ Rows(q) \subseteq 1..made /\ Rows(q) \subseteq 1..MaxRows
      /\ \A r \in 1..MaxRows : stored[r] \in Nat
      /\ \A r \in 1..MaxRows : stored'[r] = stored[r] \/ (r \in Rows(q) /\ stored'[r] = stored[r] + 1)
      /\ stored' \in [1..MaxRows -> Nat]
  <2>1. q \in Seq(1..made) /\ Rows(q) \subseteq 1..made /\ Rows(q) \subseteq 1..MaxRows
    BY RowsMade DEF IInv, TypeOK
  <2>2. stored \in [1..MaxRows -> Nat]
    BY DEF IInv, TypeOK
  <2>3. ASSUME StoreRows(q)
        PROVE  /\ \A r \in 1..MaxRows : stored'[r] = IF r \in Rows(q) THEN stored[r] + 1 ELSE stored[r]
               /\ stored' \in [1..MaxRows -> Nat]
    <3> HIDE DEF Rows
    <3> QED BY <2>2, <2>3 DEF StoreRows
  <2>4. ASSUME UNCHANGED stored
        PROVE  (\A r \in 1..MaxRows : stored'[r] = stored[r]) /\ stored' \in [1..MaxRows -> Nat]
    BY <2>2, <2>4
  <2>5. \A r \in 1..MaxRows : stored[r] \in Nat
    BY <2>2
  <2>6. StoreRows(q) \/ UNCHANGED stored
    BY DEF FinishOrphan
  <2>7. \A r \in 1..MaxRows : stored'[r] = stored[r] \/ (r \in Rows(q) /\ stored'[r] = stored[r] + 1)
    BY <2>3, <2>4, <2>6
  <2>8. stored' \in [1..MaxRows -> Nat]
    BY <2>3, <2>4, <2>6
  <2> QED BY <2>1, <2>5, <2>7, <2>8
<1>3. TypeOK'
  <2>1. Pieces' = Pieces
    BY <1>1 DEF Pieces
  <2>2. orphans' \subseteq Seq(1..made)
    BY <1>1 DEF IInv, TypeOK
  <2> QED BY <1>1, <1>2, <2>1, <2>2 DEF IInv, TypeOK
<1>4. EventsAlive' /\ Alone' /\ Quiet' /\ BucketInv' /\ Left'
  BY <1>1 DEF IInv, EventsAlive, Alone, Quiet, Exclusive, BucketInv, Left
<1>5. Channel'
  <2> SUFFICES ASSUME NEW u \in Savers PROVE ChannelOf(u)'
    BY DEF Channel
  <2>1. \A r \in 1..MaxRows : stored[r] > 0 => stored'[r] > 0
    BY <1>2
  <2> QED BY <1>1, <2>1, StoreChannel
<1>6. New'
  BY <1>1, <1>2, RowsMade DEF IInv, New
<1>7. OnePlace'
  BY <1>1 DEF IInv, OnePlace, Unsent
<1>8. Undecided'
  <2> SUFFICES ASSUME ~misused PROVE Undecided'
    BY <1>1 DEF Undecided
  <2>1. /\ \A r \in Rows(insert_statements) : r \in 1..MaxRows /\ r \notin Rows(q) /\ stored[r] = 0
        /\ \A p \in orphans' : \A r \in Rows(p) : r \in 1..MaxRows /\ r \notin Rows(q) /\ stored[r] = 0
        /\ \A u \in Savers : Unsent(u) =>
               \A r \in Rows(bucket[u]) : r \in 1..MaxRows /\ r \notin Rows(q) /\ stored[r] = 0
    BY <1>1, RowsMade DEF IInv, OnePlace, Undecided
  <2>2. \A u \in Savers : Unsent(u)' <=> Unsent(u)
    BY <1>1 DEF Unsent
  <2> QED BY <1>1, <1>2, <2>1, <2>2 DEF Undecided
<1>9. AtMostOnceUnlessShared'
  BY <1>1, <1>2 DEF IInv, AtMostOnceUnlessShared, Undecided
<1> QED BY <1>3, <1>4, <1>5, <1>6, <1>7, <1>8, <1>9 DEF IInv

\* A restart, and a step that changes nothing.
LEMMA QuietIInv == ASSUME IInv, Restart \/ UNCHANGED vars PROVE IInv'
<1>1. /\ UNCHANGED <<memory, client, wire, server, crashed, misused>>
      /\ alive' \in BOOLEAN
  BY DEF Restart, vars, process, IInv, TypeOK
<1> USE DEF memory, client, wire, server
<1>2. TypeOK'
  BY <1>1 DEF IInv, TypeOK, Pieces
<1>3. EventsAlive' /\ Alone' /\ Quiet' /\ BucketInv' /\ Left'
  BY <1>1 DEF IInv, EventsAlive, Alone, Quiet, Exclusive, BucketInv, Left
<1>4. Channel'
  BY <1>1 DEF IInv, Channel, ChannelOf, Exclusive, Asked, Refused, Done, Piece, Saved
<1>5. OnePlace' /\ Undecided'
  BY <1>1 DEF IInv, OnePlace, Undecided, Unsent
<1>6. New' /\ AtMostOnceUnlessShared'
  BY <1>1 DEF IInv, New, AtMostOnceUnlessShared
<1> QED BY <1>2, <1>3, <1>4, <1>5, <1>6 DEF IInv

LEMMA NextIInv == IInv /\ [Next]_vars => IInv'
<1> SUFFICES ASSUME IInv, [Next]_vars PROVE IInv'
  OBVIOUS
<1>1. CASE Push
  BY <1>1, PushIInv
<1>2. CASE SyncNothing
  BY <1>2, QuietIInv DEF SyncNothing
<1>3. ASSUME NEW t \in Savers, Drain(t) \/ SaverStep(t) \/ LoseConnection(t)
      PROVE  IInv'
  BY <1>3, DrainIInv, EnterIInv, SendIInv, ReceiveIInv, LeaveIInv, TerminateIInv
  DEF SaverStep, Throw, LoseConnection
<1>4. ASSUME NEW c \in Writers, ServerStep(c) PROVE IInv'
  BY <1>4, CommitIInv, RefuseIInv DEF ServerStep
<1>5. ASSUME NEW q \in orphans, FinishOrphan(q) PROVE IInv'
  BY <1>5, FinishOrphanIInv
<1>6. CASE Restart \/ UNCHANGED vars
  BY <1>6, QuietIInv
<1> QED BY <1>1, <1>2, <1>3, <1>4, <1>5, <1>6 DEF Next

-----------------------------------------------------------------------------
(* The theorems.                                                           *)

\* The inductive invariant holds in every state that is reached.
THEOREM Invariance == Spec => []IInv
BY InitIInv, NextIInv, PTL DEF Spec

\* What is on its way and in memory has the types of the model.
THEOREM TypeCorrect == Spec => []TypeOK
<1>1. IInv => TypeOK
  BY DEF IInv
<1> QED BY <1>1, Invariance, PTL

\* What a client points to is alive, however many threads are inside it
\* (EnsureNull, client.cpp).
THEOREM EventsLive == Spec => []EventsAlive
<1>1. IInv => EventsAlive
  BY DEF IInv
<1> QED BY <1>1, Invariance, PTL

\* No crash, lost answer or restart stores a row twice; only two threads
\* inside the shared client can.
THEOREM AtMostOnce == Spec => []AtMostOnceUnlessShared
<1>1. IInv => AtMostOnceUnlessShared
  BY DEF IInv
<1> QED BY <1>1, Invariance, PTL

\* A bucket is emptied only by a saver whose rows are in the table.
LEMMA LeaveSaved ==
    ASSUME IInv, [Next]_vars, NEW t \in Savers, Exclusive(Conn(t)),
           bucket[t] # <<>>, bucket'[t] = <<>>, alive'
    PROVE  Saved(t)
<1> USE DEF memory, client, wire, server, process
<1>1. CASE Push \/ SyncNothing \/ Restart \/ UNCHANGED vars
  BY <1>1 DEF Push, Queue!Put, SyncNothing, Restart, vars
<1>2. ASSUME NEW u \in Savers, Drain(u) PROVE FALSE
  <2>1. pc[u] = "idle" /\ bucket[u] = <<>> /\ t # u
    BY <1>2 DEF Drain, Move, IInv, BucketInv
  <2>2. bucket'[t] = bucket[t]
    BY <1>2, <2>1 DEF Drain, Queue!Take, IInv, TypeOK
  <2> QED BY <2>2
<1>3. ASSUME NEW u \in Savers, Enter(u) \/ SendHead(u) \/ SendTail(u) \/ ReceivePacket(u) \/ ReadRest(u)
      PROVE  FALSE
  BY <1>3 DEF Enter, SendHead, SendTail, SendQuery, ReceivePacket, ReadRest
<1>4. ASSUME NEW u \in Savers, Throw(u) \/ LoseConnection(u) PROVE FALSE
  BY <1>4 DEF Throw, LoseConnection, Terminate
<1>5. ASSUME NEW u \in Savers, Leave(u) PROVE Saved(t)
  <2>1. u = t
    BY <1>5 DEF Leave, Queue!Finish, IInv, TypeOK
  <2>2. pc[t] = "leave" /\ ChannelOf(t)
    BY <1>5, <2>1 DEF Leave, Move, IInv, Channel
  <2> QED BY <2>2 DEF ChannelOf, Done
<1>6. ASSUME NEW c \in Writers, ServerStep(c) PROVE FALSE
  BY <1>6 DEF ServerStep, Commit, Refuse
<1>7. ASSUME NEW q \in orphans, FinishOrphan(q) PROVE FALSE
  BY <1>7 DEF FinishOrphan
<1> QED BY <1>1, <1>2, <1>3, <1>4, <1>5, <1>6, <1>7 DEF Next, SaverStep

\* "Save success" is logged only for stored rows: always by a worker with a
\* client of its own, by the others while they have not met in theirs.
THEOREM Success == Spec => SuccessUnlessShared
<1>1. IInv /\ [Next]_vars =>
      \A t \in Savers : (t \in Sole \/ ~misused) /\ bucket[t] # <<>> /\ bucket'[t] = <<>> /\ alive'
           => \A r \in Rows(bucket[t]) : stored[r] > 0
  BY LeaveSaved, ConnType DEF Exclusive, Saved
<1> QED BY <1>1, Invariance, PTL DEF Spec, SuccessUnlessShared

-----------------------------------------------------------------------------
(* Refinement of Delivery.                                                 *)

\* The rows of the pieces of a stream.
Carried(s) == UNION {Rows(s[i].rows) : i \in DOMAIN s}

\* Appending pieces adds their rows; taking from the front removes rows, and
\* none that the rest still has.
LEMMA CarriedAppend ==
    ASSUME NEW S, NEW s \in Seq(S), NEW u \in Seq(S)
    PROVE  Carried(s \o u) = Carried(s) \cup Carried(u)
<1> DEFINE q == s \o u
<1>1. /\ q \in Seq(S) /\ DOMAIN q = 1..(Len(s) + Len(u))
      /\ DOMAIN s = 1..Len(s) /\ DOMAIN u = 1..Len(u)
      /\ Len(s) \in Nat /\ Len(u) \in Nat
      /\ \A i \in 1..Len(s) : q[i] = s[i]
      /\ \A i \in 1..Len(u) : q[Len(s) + i] = u[i]
  OBVIOUS
<1> HIDE DEF q
<1>2. ASSUME NEW i \in DOMAIN q
      PROVE  (\E j \in DOMAIN s : q[i] = s[j]) \/ (\E j \in DOMAIN u : q[i] = u[j])
  <2>1. CASE i <= Len(s)
    BY <1>1, <2>1
  <2>2. CASE i > Len(s)
    <3>1. i - Len(s) \in 1..Len(u) /\ Len(s) + (i - Len(s)) = i
      BY <1>1, <2>2
    <3> QED BY <1>1, <3>1
  <2> QED BY <1>1, <2>1, <2>2
<1>3. ASSUME NEW j \in DOMAIN s PROVE \E i \in DOMAIN q : q[i] = s[j]
  BY <1>1
<1>4. ASSUME NEW j \in DOMAIN u PROVE \E i \in DOMAIN q : q[i] = u[j]
  <2>1. Len(s) + j \in DOMAIN q /\ q[Len(s) + j] = u[j]
    BY <1>1
  <2> QED BY <2>1
<1>5. Carried(q) = Carried(s) \cup Carried(u)
  BY <1>2, <1>3, <1>4 DEF Carried
<1> QED BY <1>5 DEF q

LEMMA CarriedRest ==
    ASSUME NEW S, NEW s \in Seq(S), NEW n \in Nat
    PROVE  /\ Carried(SubSeq(s, n + 1, Len(s))) \subseteq Carried(s)
           /\ \A i \in DOMAIN s :
                  i > n => Rows(s[i].rows) \subseteq Carried(SubSeq(s, n + 1, Len(s)))
<1> DEFINE q == SubSeq(s, n + 1, Len(s))
<1>1. /\ DOMAIN s = 1..Len(s) /\ Len(s) \in Nat
      /\ DOMAIN q = 1..Len(q) /\ Len(q) = IF n <= Len(s) THEN Len(s) - n ELSE 0
      /\ \A i \in 1..Len(q) : q[i] = s[n + i]
  OBVIOUS
<1> HIDE DEF q
<1>2. ASSUME NEW i \in DOMAIN q PROVE \E j \in DOMAIN s : q[i] = s[j]
  <2>1. i \in 1..Len(q) /\ n <= Len(s) /\ Len(q) = Len(s) - n
    <3>1. i \in 1..Len(q)
      BY <1>1
    <3>2. Len(s) \in Nat /\ Len(q) = IF n <= Len(s) THEN Len(s) - n ELSE 0
      BY <1>1
    <3>3. CASE n <= Len(s)
      BY <3>1, <3>2, <3>3
    <3>4. CASE ~(n <= Len(s))
      <4>1. Len(q) = 0
        BY <3>2, <3>4
      <4>2. 1..0 = {}
        OBVIOUS
      <4> QED BY <3>1, <4>1, <4>2
    <3> QED BY <3>3, <3>4
  <2>2. n + i \in 1..Len(s)
    BY <1>1, <2>1
  <2> QED BY <1>1, <2>1, <2>2
<1>3. ASSUME NEW i \in DOMAIN s, i > n PROVE \E j \in DOMAIN q : q[j] = s[i]
  <2>1. i - n \in DOMAIN q /\ n + (i - n) = i
    BY <1>1, <1>3
  <2> QED BY <1>1, <2>1
<1>4. Carried(q) \subseteq Carried(s)
  BY <1>2 DEF Carried
<1>5. ASSUME NEW i \in DOMAIN s, i > n PROVE Rows(s[i].rows) \subseteq Carried(q)
  BY <1>3, <1>5 DEF Carried
<1> QED BY <1>4, <1>5 DEF q

\* A row in flight is held, or in a stream, or in what a process left.
LEMMA FlightOf ==
    ASSUME NEW r
    PROVE  /\ InFlight(r) <=> \/ Held(r)
                              \/ \E c \in Writers : r \in Carried(out[c])
                              \/ \E p \in orphans : r \in Rows(p)
           /\ InFlight(r)' <=> \/ Held(r)'
                               \/ \E c \in Writers : r \in Carried(out'[c])
                               \/ \E p \in orphans' : r \in Rows(p)
BY DEF InFlight, Carried

\* A step after which every row is where it was is a stutter of Delivery.
LEMMA SameStatus ==
    ASSUME made' = made, stored' = stored, crashed' = crashed, misused' = misused,
           \A r \in 1..made : stored[r] = 0 => (InFlight(r)' <=> InFlight(r)),
           TypeOK
    PROVE  UNCHANGED D!deliveryVars
<1>1. ASSUME NEW r \in 1..MaxRows PROVE Status(r)' = Status(r)
  <2>1. made \in Nat /\ stored[r] \in Nat
    BY SaveClickhouseAssumption DEF TypeOK
  <2>2. CASE r > made
    BY <2>2 DEF Status
  <2>3. CASE stored[r] > 0
    BY <2>3 DEF Status
  <2>4. CASE r \in 1..made /\ stored[r] = 0
    BY <2>4 DEF Status
  <2> QED BY <2>1, <2>2, <2>3, <2>4
<1> QED BY <1>1 DEF D!deliveryVars

\* After a crash or a misuse, a step that takes rows out of flight loses them.
LEMMA LossStep ==
    ASSUME made' = made, stored' = stored, crashed' \/ misused',
           crashed' \in BOOLEAN, misused' \in BOOLEAN,
           \A r \in 1..made : stored[r] = 0 /\ InFlight(r)' => InFlight(r),
           TypeOK
    PROVE  D!Next
<1> DEFINE S == {r \in 1..made : stored[r] = 0 /\ InFlight(r) /\ ~InFlight(r)'}
<1>1. made \in Nat /\ MaxRows \in Nat /\ made <= MaxRows
      /\ \A r \in 1..MaxRows : stored[r] \in Nat
  BY SaveClickhouseAssumption DEF TypeOK
<1>2. S \in SUBSET D!InState("held")
  BY <1>1 DEF D!InState, Status
<1>3. ASSUME NEW r \in 1..MaxRows
      PROVE  Status(r)' = IF r \in S THEN "lost" ELSE Status(r)
  BY <1>1 DEF Status
<1>4. (crashed' \/ misused') = TRUE
  OBVIOUS
<1>5. D!Lose(S)
  BY <1>3, <1>4 DEF D!Lose, D!Become
<1> QED BY <1>2, <1>5 DEF D!Next

\* A step that stores rows that are in flight, and takes no other out of it.
LEMMA StoreStep ==
    ASSUME NEW rows, StoreRows(rows), TypeOK, Rows(rows) \subseteq 1..made,
           made' = made, crashed' = crashed, misused' = misused,
           \A r \in Rows(rows) : InFlight(r),
           \A r \in 1..made : r \notin Rows(rows) => (InFlight(r)' <=> InFlight(r))
    PROVE  D!Next
<1> DEFINE S == {r \in Rows(rows) : stored[r] = 0}
<1>1. made \in Nat /\ MaxRows \in Nat /\ made <= MaxRows
      /\ (\A r \in 1..MaxRows : stored[r] \in Nat)
  BY SaveClickhouseAssumption DEF TypeOK
<1>2. S \in SUBSET D!InState("held")
  BY <1>1 DEF D!InState, Status
<1>3. \A r \in 1..MaxRows : stored'[r] = IF r \in Rows(rows) THEN stored[r] + 1 ELSE stored[r]
  BY DEF StoreRows
<1>4. ASSUME NEW r \in 1..MaxRows
      PROVE  Status(r)' = IF r \in S THEN "stored" ELSE Status(r)
  <2>1. CASE r \in Rows(rows)
    BY <1>1, <1>3, <2>1 DEF Status
  <2>2. CASE r \notin Rows(rows)
    BY <1>1, <1>3, <2>2 DEF Status
  <2> QED BY <2>1, <2>2
<1>5. D!Store(S)
  BY <1>4 DEF D!Store, D!Become
<1> QED BY <1>2, <1>5 DEF D!Next

LEMMA PushRefines == ASSUME IInv, Push PROVE D!Next
<1> USE DEF Push, Queue!Put, client, wire, server, process
<1>1. /\ made \in Nat /\ MaxRows \in Nat /\ made + 1 \in 1..MaxRows
      /\ made' = made + 1
      /\ \A r \in 1..MaxRows : stored[r] \in Nat
      /\ Rows(insert_statements') = {made + 1} \cup Rows(insert_statements)
  BY RowsPush, SaveClickhouseAssumption DEF IInv, TypeOK
<1>n. PICK n \in 1..MaxRows : n = made + 1
  BY <1>1
<1>2. stored[n] = 0
  BY <1>1, <1>n DEF IInv, New
<1>3. InFlight(n)'
  BY <1>1, <1>n DEF InFlight, Held
<1>4. \A r \in 1..made : InFlight(r)' <=> InFlight(r)
  <2>1. \A r \in 1..made : r # made + 1
    BY <1>1
  <2> QED BY <1>1, <2>1 DEF InFlight, Held
<1>5. ASSUME NEW r \in 1..MaxRows
      PROVE  Status(r)' = IF r \in {n} THEN "held" ELSE Status(r)
  <2>1. CASE r = n
    BY <2>1, <1>1, <1>n, <1>2, <1>3 DEF Status
  <2>2. CASE r > n
    BY <2>2, <1>1, <1>n DEF Status
  <2>3. CASE r \in 1..made
    BY <2>3, <1>1, <1>n, <1>4 DEF Status
  <2> QED BY <1>1, <1>n, <2>1, <2>2, <2>3
<1>6. Status(n) = "new"
  BY <1>1, <1>n DEF Status
<1>7. D!Accept(n)
  BY <1>1, <1>5, <1>6 DEF D!Accept, D!Become
<1> QED BY <1>1, <1>7 DEF D!Next

\* A drain moves rows, a send copies them.
LEMMA MoveRefines ==
    ASSUME IInv, NEW t \in Savers,
           Drain(t) \/ SendHead(t) \/ SendTail(t) \/ ReceivePacket(t) \/ ReadRest(t)
    PROVE  UNCHANGED D!deliveryVars
<1>1. /\ made' = made /\ stored' = stored /\ crashed' = crashed /\ misused' = misused
      /\ orphans' = orphans
  BY DEF Drain, Queue!Take, SendHead, SendTail, SendQuery, ReceivePacket, ReadRest,
         memory, server, process
<1>2. SUFFICES ASSUME NEW r \in 1..made PROVE InFlight(r)' <=> InFlight(r)
  BY <1>1, SameStatus DEF IInv
<1>3. CASE Drain(t)
  <2>1. /\ bucket' = [bucket EXCEPT ![t] = insert_statements]
        /\ Rows(insert_statements') = {} /\ Rows(bucket[t]) = {}
        /\ out' = out
    BY <1>3, RowsEmpty DEF Drain, Queue!Take, Queue!Batch, Queue!Rest, wire
  <2>2. /\ Rows(bucket'[t]) = Rows(insert_statements)
        /\ \A u \in Savers \ {t} : Rows(bucket'[u]) = Rows(bucket[u])
    BY <2>1 DEF IInv, TypeOK
  <2>3. Held(r)' <=> Held(r)
    BY <2>1, <2>2 DEF Held
  <2> QED BY <1>1, <2>1, <2>3 DEF InFlight
<1>4. CASE SendHead(t) \/ SendTail(t)
  <2> DEFINE c == Conn(t)
             h == Piece(t, "head")
             g == Piece(t, "tail")
  <2>1. /\ insert_statements' = insert_statements /\ bucket' = bucket
        /\ \E s \in {<<>>, <<h>>, <<g>>, <<g, h, g>>} : out' = [out EXCEPT ![c] = @ \o s]
    BY <1>4 DEF SendHead, SendTail, SendQuery, memory
  <2>2. PICK s \in {<<>>, <<h>>, <<g>>, <<g, h, g>>} : out' = [out EXCEPT ![c] = @ \o s]
    BY <2>1
  <2>3. c \in Writers /\ out'[c] = out[c] \o s /\ out[c] \in Seq(Pieces)
        /\ (\A d \in Writers \ {c} : out'[d] = out[d])
    BY <2>2, ConnType DEF IInv, TypeOK
  <2>4. s \in Seq({h, g}) /\ h \in Pieces /\ g \in Pieces
    <3>1. h \in Pieces /\ g \in Pieces
      BY PieceType DEF IInv
    <3> HIDE DEF h, g
    <3>2. <<>> \in Seq({h, g}) /\ <<h>> \in Seq({h, g}) /\ <<g>> \in Seq({h, g})
          /\ <<g, h, g>> \in Seq({h, g})
      OBVIOUS
    <3> QED BY <3>1, <3>2
  <2>5. s \in Seq(Pieces)
    BY <2>4, SeqWiden
  <2>6. Carried(s) \subseteq Rows(bucket[t])
    <3>1. ASSUME NEW i \in DOMAIN s PROVE s[i].rows = bucket[t]
      <4>1. s[i] = h \/ s[i] = g
        BY <2>4
      <4> QED BY <4>1, PieceFields
    <3> QED BY <3>1 DEF Carried
  <2>7. Carried(out'[c]) = Carried(out[c]) \cup Carried(s)
    BY <2>3, <2>5, CarriedAppend
  <2>8. Held(r)' <=> Held(r)
    BY <2>1 DEF Held
  <2>9. r \in Carried(s) => Held(r)
    BY <2>6 DEF Held
  <2> HIDE DEF c
  <2> QED BY <1>1, <2>3, <2>7, <2>8, <2>9, FlightOf
<1>5. CASE ReceivePacket(t) \/ ReadRest(t)
  BY <1>5 DEF ReceivePacket, ReadRest, memory, server, InFlight, Held
<1> QED BY <1>3, <1>4, <1>5

\* A second thread inside a client is the start of a loss.
LEMMA EnterRefines == ASSUME IInv, NEW t \in Savers, Enter(t)
                      PROVE  D!Next \/ UNCHANGED D!deliveryVars
<1>1. /\ made' = made /\ stored' = stored /\ crashed' = crashed
      /\ misused' \in BOOLEAN /\ (misused => misused')
      /\ UNCHANGED <<memory, wire, server>>
  BY DEF Enter, memory, server, IInv, TypeOK
<1>2. \A r \in 1..made : InFlight(r)' <=> InFlight(r)
  BY <1>1 DEF memory, wire, server, InFlight, Held
<1>3. CASE misused'
  BY <1>1, <1>2, <1>3, LossStep DEF IInv, TypeOK
<1>4. CASE ~misused'
  <2>1. misused' = misused
    BY <1>1, <1>4 DEF IInv, TypeOK
  <2> QED BY <1>1, <1>2, <2>1, SameStatus DEF IInv
<1> QED BY <1>3, <1>4

\* What leaves a bucket is in the table, or the client has been misused.
LEMMA LeaveRefines == ASSUME IInv, NEW t \in Savers, Leave(t)
                      PROVE  D!Next \/ UNCHANGED D!deliveryVars
<1>1. /\ made' = made /\ stored' = stored /\ crashed' = crashed /\ misused' = misused
      /\ insert_statements' = insert_statements /\ out' = out /\ orphans' = orphans
      /\ bucket' = [bucket EXCEPT ![t] = <<>>] /\ pc[t] = "leave"
  BY DEF Leave, Move, Queue!Finish, wire, server, process
<1>2. /\ Rows(bucket'[t]) = {} /\ \A u \in Savers \ {t} : Rows(bucket'[u]) = Rows(bucket[u])
  BY <1>1, RowsEmpty DEF IInv, TypeOK
<1>3. \A r : /\ Held(r)' => Held(r)
             /\ Held(r) => Held(r)' \/ r \in Rows(bucket[t])
  BY <1>1, <1>2 DEF Held
<1>4. \A r : /\ InFlight(r)' => InFlight(r)
             /\ InFlight(r) => InFlight(r)' \/ r \in Rows(bucket[t])
  BY <1>1, <1>3 DEF InFlight
<1>5. CASE misused
  BY <1>1, <1>4, <1>5, LossStep DEF IInv, TypeOK
<1>6. CASE ~misused
  <2>1. \A r \in Rows(bucket[t]) : stored[r] > 0
    BY <1>1, <1>6 DEF IInv, Channel, ChannelOf, Exclusive, Done, Saved
  <2> QED BY <1>1, <1>4, <2>1, SameStatus DEF IInv
<1> QED BY <1>5, <1>6 DEF IInv, TypeOK

LEMMA TerminateRefines == ASSUME IInv, Terminate PROVE D!Next
<1> USE DEF Terminate
<1>1. ASSUME NEW p \in orphans', p \notin orphans, NEW r \in Rows(p) PROVE InFlight(r)
  <2>1. PICK c \in Writers : Whole(out[c]) /\ p = out[c][1].rows
    BY <1>1
  <2>2. out[c] \in Seq(Pieces) /\ Len(out[c]) >= 2
    BY <2>1 DEF IInv, TypeOK, Whole
  <2>3. 1 \in DOMAIN out[c]
    BY <2>2
  <2> QED BY <1>1, <2>1, <2>3 DEF InFlight
<1>2. /\ \A t \in Savers : Rows(bucket'[t]) = {}
      /\ Rows(insert_statements') = {}
      /\ \A c \in Writers : out'[c] = <<>>
  BY RowsEmpty
<1>3. \A c \in Writers : Carried(out'[c]) = {}
  BY <1>2 DEF Carried
<1>4. \A r \in 1..made : InFlight(r)' => InFlight(r)
  <2>1. SUFFICES ASSUME NEW r \in 1..made, InFlight(r)' PROVE InFlight(r)
    OBVIOUS
  <2>2. \E p \in orphans' : r \in Rows(p)
    BY <1>2, <1>3, <2>1, FlightOf DEF Held
  <2>3. PICK p \in orphans' : r \in Rows(p)
    BY <2>2
  <2>4. CASE p \in orphans
    BY <2>3, <2>4 DEF InFlight
  <2> QED BY <1>1, <2>3, <2>4
<1>5. crashed' \in BOOLEAN /\ misused' \in BOOLEAN /\ crashed'
  BY DEF IInv, TypeOK
<1> QED BY <1>4, <1>5, LossStep DEF IInv

\* The server takes a statement off a stream.
LEMMA CommitRefines == ASSUME IInv, NEW c \in Writers, Commit(c) PROVE D!Next
<1> USE DEF memory, client, process
<1> DEFINE rows == out[c][1].rows
<1>1. /\ Whole(out[c]) /\ StoreRows(rows) /\ UNCHANGED <<memory, client, orphans, process>>
      /\ out' = [out EXCEPT ![c] = SubSeq(@, 2 + 1, Len(@))]
  BY DEF Commit, Received
<1>2. /\ out[c] \in Seq(Pieces) /\ Len(out[c]) >= 2
      /\ DOMAIN out[c] = 1..Len(out[c]) /\ 1 \in DOMAIN out[c] /\ 2 \in Nat
      /\ out[c][2].rows = rows
  <2>1. out[c] \in Seq(Pieces) /\ Len(out[c]) >= 2 /\ out[c][2].rows = rows
    BY <1>1 DEF IInv, TypeOK, Whole
  <2>2. DOMAIN out[c] = 1..Len(out[c]) /\ 1 \in DOMAIN out[c] /\ 2 \in Nat
    BY <2>1
  <2> QED BY <2>1, <2>2
<1>3. out'[c] = SubSeq(out[c], 2 + 1, Len(out[c])) /\ (\A d \in Writers \ {c} : out'[d] = out[d])
  BY <1>1 DEF IInv, TypeOK
<1>4. Rows(rows) \subseteq 1..made
  <2>1. rows \in Seq(1..made)
    <3>1. out[c][1] \in Pieces
      BY <1>2
    <3> QED BY <3>1 DEF Pieces
  <2> QED BY <2>1, RowsMade DEF IInv
<1>5. \A r \in Rows(rows) : InFlight(r)
  BY <1>2 DEF InFlight
<1>6. /\ Carried(out'[c]) \subseteq Carried(out[c])
      /\ \A r \in Carried(out[c]) : r \notin Rows(rows) => r \in Carried(out'[c])
  <2>1. /\ Carried(out'[c]) \subseteq Carried(out[c])
        /\ \A i \in DOMAIN out[c] : i > 2 => Rows(out[c][i].rows) \subseteq Carried(out'[c])
    BY <1>2, <1>3, CarriedRest
  <2>2. \A i \in DOMAIN out[c] : i = 1 \/ i = 2 \/ i > 2
    BY <1>2
  <2> QED BY <1>2, <2>1, <2>2 DEF Carried
<1>7. ASSUME NEW r \in 1..made, r \notin Rows(rows) PROVE InFlight(r)' <=> InFlight(r)
  <2>1. Held(r)' <=> Held(r)
    BY <1>1 DEF Held
  <2>2. \A d \in Writers : r \in Carried(out'[d]) <=> r \in Carried(out[d])
    BY <1>3, <1>6, <1>7
  <2> QED BY <1>1, <2>1, <2>2, FlightOf
<1> HIDE DEF rows
<1>8. made' = made /\ crashed' = crashed /\ misused' = misused
  BY <1>1
<1> QED BY <1>1, <1>4, <1>5, <1>7, <1>8, StoreStep DEF IInv

LEMMA RefuseRefines == ASSUME IInv, NEW c \in Writers, Refuse(c)
                       PROVE  D!Next \/ UNCHANGED D!deliveryVars
<1> USE DEF memory, client, server, process
<1> DEFINE n == IF Whole(out[c]) THEN 2 ELSE Len(out[c])
<1>1. /\ UNCHANGED <<memory, client, server, process>>
      /\ Len(out[c]) >= 2 \/ (out[c] # <<>> /\ out[c][1].part = "tail")
      /\ out' = [out EXCEPT ![c] = SubSeq(@, n + 1, Len(@))]
  BY DEF Refuse, Received
<1>2. out[c] \in Seq(Pieces) /\ n \in Nat
  <2>1. out[c] \in Seq(Pieces)
    BY DEF IInv, TypeOK
  <2> QED BY <2>1
<1> HIDE DEF n
<1>3. /\ out'[c] = SubSeq(out[c], n + 1, Len(out[c])) /\ (\A d \in Writers \ {c} : out'[d] = out[d])
      /\ Carried(out'[c]) \subseteq Carried(out[c])
  <2>1. out'[c] = SubSeq(out[c], n + 1, Len(out[c])) /\ (\A d \in Writers \ {c} : out'[d] = out[d])
    BY <1>1 DEF IInv, TypeOK
  <2> QED BY <1>2, <2>1, CarriedRest
<1>4. \A r : Held(r)' <=> Held(r)
  BY <1>1 DEF Held
<1>5. ASSUME NEW r PROVE InFlight(r)' => InFlight(r)
  BY <1>1, <1>3, <1>4, FlightOf
<1>6. CASE misused
  BY <1>1, <1>5, <1>6, LossStep DEF IInv, TypeOK
<1>7. CASE ~misused
  <2>1. PICK t \in Savers : /\ Len(out[c]) = 2
                            /\ out[c][1].rows = bucket[t] /\ out[c][2].rows = bucket[t]
    BY <1>1, <1>7, WholeSender DEF Exclusive
  <2>2. \A i \in DOMAIN out[c] : i = 1 \/ i = 2
    BY <1>2, <2>1
  <2>3. Carried(out[c]) \subseteq Rows(bucket[t])
    BY <2>1, <2>2 DEF Carried
  <2>4. \A r \in Carried(out[c]) : Held(r)'
    BY <1>4, <2>3 DEF Held
  <2>5. ASSUME NEW r PROVE InFlight(r) => InFlight(r)'
    BY <1>1, <1>3, <1>4, <2>4, FlightOf
  <2> QED BY <1>1, <1>5, <2>5, SameStatus DEF IInv
<1> QED BY <1>6, <1>7 DEF IInv, TypeOK

LEMMA OrphanRefines == ASSUME IInv, NEW q \in orphans, FinishOrphan(q) PROVE D!Next
<1> USE DEF memory, client, wire, process
<1>1. orphans' = orphans \ {q} /\ UNCHANGED <<memory, client, wire, process>>
  BY DEF FinishOrphan
<1>2. \A r : Held(r)' <=> Held(r)
  BY <1>1 DEF Held
<1>3. /\ \A r : InFlight(r)' => InFlight(r)
      /\ \A r : r \notin Rows(q) => (InFlight(r)' <=> InFlight(r))
      /\ \A r \in Rows(q) : InFlight(r)
  BY <1>1, <1>2 DEF InFlight
<1>4. CASE StoreRows(q)
  <2>1. Rows(q) \subseteq 1..made
    BY RowsMade DEF IInv
  <2> QED BY <1>1, <1>3, <1>4, <2>1, StoreStep DEF IInv
<1>5. CASE UNCHANGED stored
  <2>1. crashed
    BY DEF IInv, Left
  <2> QED BY <1>1, <1>3, <1>5, <2>1, LossStep DEF IInv, TypeOK
<1> QED BY <1>4, <1>5 DEF FinishOrphan

LEMMA InitRefines == ASSUME Init PROVE D!Init
<1>1. \A r \in 1..MaxRows : Status(r) = "new"
  BY SaveClickhouseAssumption DEF Init, Queue!Init, Status
<1>2. (crashed \/ misused) = FALSE
  BY DEF Init
<1> QED BY <1>1, <1>2 DEF D!Init

LEMMA NextRefines == IInv /\ [Next]_vars => [D!Next]_(D!deliveryVars)
<1> SUFFICES ASSUME IInv, [Next]_vars PROVE D!Next \/ UNCHANGED D!deliveryVars
  OBVIOUS
<1>1. CASE Push
  BY <1>1, PushRefines
<1>2. ASSUME NEW t \in Savers, Drain(t) \/ SaverStep(t) \/ LoseConnection(t)
      PROVE  D!Next \/ UNCHANGED D!deliveryVars
  BY <1>2, MoveRefines, EnterRefines, LeaveRefines, TerminateRefines
  DEF SaverStep, Throw, LoseConnection
<1>3. ASSUME NEW c \in Writers, ServerStep(c) PROVE D!Next \/ UNCHANGED D!deliveryVars
  BY <1>3, CommitRefines, RefuseRefines DEF ServerStep
<1>4. ASSUME NEW q \in orphans, FinishOrphan(q) PROVE D!Next
  BY <1>4, OrphanRefines
<1>5. CASE Restart \/ SyncNothing \/ UNCHANGED vars
  <2>1. UNCHANGED <<memory, client, wire, server, crashed, misused>>
    BY <1>5 DEF Restart, SyncNothing, vars, process
  <2>2. \A r \in 1..made : InFlight(r)' <=> InFlight(r)
    BY <2>1 DEF memory, wire, server, InFlight, Held
  <2> QED BY <2>1, <2>2, SameStatus DEF memory, server, IInv
<1> QED BY <1>1, <1>2, <1>3, <1>4, <1>5 DEF Next

\* The ClickHouse half implements Delivery: rows go from held to stored, or
\* are lost, in or after a crash or a misuse of the shared client.
THEOREM Refinement == Spec => Implements
BY InitRefines, NextRefines, Invariance, PTL DEF Spec, Implements, D!Spec

-----------------------------------------------------------------------------
(* What EveryRowLeaves rests on: nobody waits for a packet that does not   *)
(* come, until two threads are inside the shared client.                   *)

PacketDue == \A t \in Savers : Exclusive(Conn(t)) =>
    /\ pc[t] = "await" => Available(t) \/ Whole(out[Conn(t)])
    /\ pc[t] = "rest" => Available(t)

\* A thread that reads has something to read, or the server has a whole
\* statement that it will answer.
THEOREM PacketsDue == Spec => []PacketDue
<1>1. IInv => PacketDue
  <2> SUFFICES ASSUME IInv, NEW t \in Savers, Exclusive(Conn(t))
               PROVE  /\ pc[t] = "await" => Available(t) \/ Whole(out[Conn(t)])
                      /\ pc[t] = "rest" => Available(t)
    BY DEF PacketDue
  <2>1. ChannelOf(t)
    BY DEF IInv, Channel
  <2>2. ASSUME Asked(t) PROVE Whole(out[Conn(t)])
    <3> DEFINE s == <<Piece(t, "head"), Piece(t, "tail")>>
    <3>1. Len(s) >= 2 /\ s[1] = Piece(t, "head") /\ s[2] = Piece(t, "tail")
      OBVIOUS
    <3>2. out[Conn(t)] = s
      BY <2>2 DEF Asked
    <3> HIDE DEF s
    <3>. QED  BY <3>1, <3>2 DEF Whole, Piece
  <2>3. Refused(t) \/ Done(t, <<"end">>) \/ Done(t, <<"progress", "rest", "end">>)
            \/ Done(t, <<"rest", "end">>) => Available(t)
    BY DEF Refused, Done, Available
  <2>. QED  BY <2>1, <2>2, <2>3 DEF ChannelOf
<1>. QED
  BY <1>1, Invariance, PTL
===============================================================================
