----------------------------- MODULE IngestProofs -----------------------------
(***************************************************************************)
(* Safety of the receiving half, for any clients, threads, queue and       *)
(* buffer sizes.  First, of all clients: a connection has one owner, and   *)
(* each read is parsed once.  Then what the shared buffers need to be      *)
(* harmless: clients that wait for a message to be parsed before they send *)
(* the next one or close, and messages that fit a buffer.  Then every row  *)
(* is one whole message, no message is two rows, and none is lost.         *)
(***************************************************************************)
EXTENDS Relay, FiniteSetTheorems, TLAPS

\* No connection is twice among those that wait and those that are served.
Owners ==
    /\ \A i, j \in DOMAIN backlog : backlog[i] = backlog[j] => i = j
    /\ \A i \in DOMAIN backlog : backlog[i] \notin fds
    /\ \A i, j \in DOMAIN conn_queue : conn_queue[i] = conn_queue[j] => i = j
    /\ \A v, w \in CONN_THREADS : serving[v] = serving[w] /\ serving[w] # None => v = w
    /\ \A w \in CONN_THREADS, i \in DOMAIN conn_queue : serving[w] # conn_queue[i]

\* A parser never goes past the end of a buffer.
WithinBuffer ==
    \A r \in READ_THREADS : /\ Len(got[r]) <= BUFFER_SIZE
                            /\ parsing[r] = None => got[r] = <<>>

IInv == TypeOK /\ IsFiniteSet(fds) /\ Owners /\ WithinBuffer /\ ReadsAccounted

-----------------------------------------------------------------------------
(* Sequences and finite sets.                                              *)

LEMMA TailFacts ==
    ASSUME NEW S, NEW s \in Seq(S), s # <<>>
    PROVE  /\ Head(s) \in S /\ Head(s) = s[1] /\ 1 \in DOMAIN s
           /\ Tail(s) \in Seq(S) /\ Len(Tail(s)) = Len(s) - 1 /\ Len(s) \in Nat \ {0}
           /\ \A i \in DOMAIN Tail(s) : /\ i + 1 \in DOMAIN s /\ i + 1 # 1
                                        /\ Tail(s)[i] = s[i + 1]
           /\ Len(s) > 1 => Tail(s) # <<>>
OBVIOUS

LEMMA PushFacts ==
    ASSUME NEW S, NEW s \in Seq(S), NEW x \in S
    PROVE  /\ <<x>> \o s \in Seq(S) /\ Len(<<x>> \o s) = Len(s) + 1
           /\ (<<x>> \o s)[1] = x
           /\ \A i \in DOMAIN (<<x>> \o s) \ {1} : /\ i - 1 \in DOMAIN s
                                                   /\ (<<x>> \o s)[i] = s[i - 1]
OBVIOUS

\* One thread more, or one less, in a given state.
LEMMA CardinalityUp ==
    ASSUME NEW T, IsFiniteSet(T), NEW S \in SUBSET T, NEW x \in T \ S
    PROVE  /\ IsFiniteSet(S) /\ Cardinality(S) \in Nat
           /\ Cardinality(S \cup {x}) = Cardinality(S) + 1
BY FS_Subset, FS_AddElement, FS_CardinalityType

LEMMA CardinalityDown ==
    ASSUME NEW T, IsFiniteSet(T), NEW S \in SUBSET T, NEW x \in S
    PROVE  /\ IsFiniteSet(S) /\ Cardinality(S) \in Nat
           /\ Cardinality(S \ {x}) = Cardinality(S) - 1
BY FS_Subset, FS_RemoveElement, FS_CardinalityType

\* The threads that ReadsAccounted counts.
Parsers == {r \in READ_THREADS : parsing[r] # None}
Readers == {w \in CONN_THREADS : Reading(w)}

LEMMA ThreadCounts ==
    /\ IsFiniteSet(READ_THREADS) /\ IsFiniteSet(CONN_THREADS)
    /\ Cardinality(Parsers) \in Nat /\ Cardinality(Readers) \in Nat
<1>1. Parsers \in SUBSET READ_THREADS /\ Readers \in SUBSET CONN_THREADS
  BY DEF Parsers, Readers
<1>. QED
  BY <1>1, IngestAssumption, FS_Subset, FS_CardinalityType

\* What ReadsAccounted says, in Parsers and Readers.
LEMMA ReadsAccountedIs ==
    ReadsAccounted <=>
        Len(rows) + dropped + Len(read_queue) + Cardinality(Parsers) + Cardinality(Readers)
          = reads
BY DEF ReadsAccounted, Parsers, Readers

\* The worker that starts a read() is counted with it.
LEMMA CountReader ==
    ASSUME TypeOK, ReadsAccounted, reads' = reads + 1, UNCHANGED <<read_queue, rows, dropped>>,
           NEW w \in CONN_THREADS \ Readers, Readers' = Readers \cup {w}, Parsers' = Parsers
    PROVE  ReadsAccounted'
<1>1. Readers \in SUBSET CONN_THREADS
  BY DEF Readers
<1>2. Cardinality(Readers') = Cardinality(Readers) + 1
  BY <1>1, ThreadCounts, CardinalityUp
<1>3. Len(rows) \in Nat /\ dropped \in Nat /\ Len(read_queue) \in Nat /\ reads \in Nat
  BY DEF TypeOK
<1>4. Len(rows') + dropped' + Len(read_queue') + Cardinality(Parsers') + Cardinality(Readers')
          = reads'
  BY <1>2, <1>3, ThreadCounts, ReadsAccountedIs
<1>. QED
  BY <1>4 DEF ReadsAccounted, Parsers, Readers

-----------------------------------------------------------------------------
(* The clients and the accept loop.                                        *)

LEMMA InitInv == Init => IInv
<1> SUFFICES ASSUME Init PROVE IInv
  OBVIOUS
<1>1. TypeOK
  <2>1. Junk \in Cell
    BY DEF Cell
  <2>3. Cardinality(fds) <= MaxFds
    BY FS_EmptySet, IngestAssumption DEF Init
  <2>4. /\ backlog \in Seq(Clients) /\ Len(backlog) <= MAXIMUM_CONNECTIONS
        /\ sent \in Seq(Clients) /\ Len(sent) <= MaxMessages
    BY IngestAssumption DEF Init
  <2>5. fds \subseteq Clients /\ conn_queue \in Seq(fds) /\ closed \subseteq Clients
    BY DEF Init
  <2>6. /\ serving \in [CONN_THREADS -> fds \cup {None}]
        /\ stream \in [Clients -> Seq(Part)]
        /\ copying \in [CONN_THREADS -> Seq([at : 1..BUFFER_SIZE, cell : Part])]
        /\ buf \in [CONN_THREADS -> [1..BUFFER_SIZE -> Cell]]
    BY <2>1 DEF Init
  <2>7. /\ reads \in Nat /\ read_queue \in Seq(CONN_THREADS)
        /\ parsing \in [READ_THREADS -> CONN_THREADS \cup {None}]
        /\ got \in [READ_THREADS -> Seq(Cell)]
        /\ rows \in Seq(Seq(Cell)) /\ dropped \in Nat
    BY DEF Init
  <2>. QED
    BY <2>3, <2>4, <2>5, <2>6, <2>7 DEF TypeOK
<1>2. IsFiniteSet(fds)
  BY FS_EmptySet DEF Init
<1>3. Owners /\ WithinBuffer
  BY IngestAssumption DEF Init, Owners, WithinBuffer
<1>4. ReadsAccounted
  <2>1. {r \in READ_THREADS : parsing[r] # None} = {} /\ {w \in CONN_THREADS : Reading(w)} = {}
    BY DEF Init, Reading
  <2>2. Len(rows) = 0 /\ dropped = 0 /\ Len(read_queue) = 0 /\ reads = 0 /\ Cardinality({}) = 0
    BY FS_EmptySet DEF Init
  <2>3. Len(rows) + dropped + Len(read_queue) + Cardinality({}) + Cardinality({}) = reads
    BY <2>2
  <2>. QED  BY <2>1, <2>3 DEF ReadsAccounted
<1>. QED
  BY <1>1, <1>2, <1>3, <1>4 DEF IInv

LEMMA ConnectInv == ASSUME IInv, NEW c \in Clients, Connect(c) PROVE IInv'
<1>1. /\ backlog' = Append(backlog, c) /\ Len(backlog) < MAXIMUM_CONNECTIONS
      /\ UNCHANGED <<fds, conn_queue, serving, stream, closed, sent, copying, buf, reads,
                     read_queue, parsing, got, rows, dropped>>
  BY DEF Connect, clientVars, bufVars, parseVars
<1>2. c \notin fds /\ \A i \in DOMAIN backlog : backlog[i] # c
  BY DEF Connect, Connected, ToSet
<1>3. backlog \in Seq(Clients)
  BY DEF IInv, TypeOK
<1>4. /\ backlog' \in Seq(Clients) /\ Len(backlog') = Len(backlog) + 1
      /\ \A i \in DOMAIN backlog' : \/ i \in DOMAIN backlog /\ backlog'[i] = backlog[i]
                                    \/ i = Len(backlog) + 1 /\ backlog'[i] = c
  BY <1>1, <1>3
<1>5. TypeOK'
  <2>1. Len(backlog') <= MAXIMUM_CONNECTIONS
    BY <1>1, <1>3, <1>4, IngestAssumption
  <2>. QED  BY <1>1, <1>4, <2>1 DEF IInv, TypeOK
<1>6. Owners'
  BY <1>1, <1>2, <1>4 DEF IInv, Owners
<1>7. (IsFiniteSet(fds) /\ WithinBuffer /\ ReadsAccounted)'
  BY <1>1 DEF IInv, WithinBuffer, ReadsAccounted, Reading
<1>. QED
  BY <1>5, <1>6, <1>7 DEF IInv

LEMMA SendInv == ASSUME IInv, NEW c \in Clients, NEW n \in Sizes, Send(c, n) PROVE IInv'
<1> DEFINE new == [i \in 1..n |-> [msg |-> Len(sent) + 1, part |-> i, size |-> n]]
<1>1. /\ sent' = Append(sent, c) /\ Len(sent) < MaxMessages
      /\ stream' = [stream EXCEPT ![c] = @ \o new]
      /\ UNCHANGED <<backlog, fds, conn_queue, serving, closed, copying, buf, reads,
                     read_queue, parsing, got, rows, dropped>>
  BY DEF Send, connVars, bufVars, parseVars
<1>2. new \in Seq(Part)
  BY <1>1, IngestAssumption DEF Part, IInv, TypeOK
<1> HIDE DEF new
<1>3. stream' \in [Clients -> Seq(Part)]
  BY <1>1, <1>2 DEF IInv, TypeOK
<1>4. sent' \in Seq(Clients) /\ Len(sent') <= MaxMessages
  BY <1>1, IngestAssumption DEF IInv, TypeOK
<1>5. TypeOK'
  BY <1>1, <1>3, <1>4 DEF IInv, TypeOK
<1>6. (IsFiniteSet(fds) /\ Owners /\ WithinBuffer /\ ReadsAccounted)'
  BY <1>1 DEF IInv, Owners, WithinBuffer, ReadsAccounted, Reading
<1>. QED
  BY <1>5, <1>6 DEF IInv

LEMMA CloseInv == ASSUME IInv, NEW c \in Clients, Close(c) PROVE IInv'
<1>1. /\ closed' = closed \cup {c}
      /\ UNCHANGED <<backlog, fds, conn_queue, serving, stream, sent, copying, buf, reads,
                     read_queue, parsing, got, rows, dropped>>
  BY DEF Close, connVars, bufVars, parseVars
<1>2. TypeOK'
  BY <1>1 DEF IInv, TypeOK
<1>3. (IsFiniteSet(fds) /\ Owners /\ WithinBuffer /\ ReadsAccounted)'
  BY <1>1 DEF IInv, Owners, WithinBuffer, ReadsAccounted, Reading
<1>. QED
  BY <1>2, <1>3 DEF IInv

LEMMA AcceptInv == ASSUME IInv, Accept PROVE IInv'
<1> DEFINE c == Head(backlog)
<1>1. /\ backlog' = Tail(backlog) /\ fds' = fds \cup {c} /\ conn_queue' = <<c>> \o conn_queue
      /\ backlog # <<>> /\ Cardinality(fds) < MaxFds
      /\ UNCHANGED <<serving, stream, closed, sent, copying, buf, reads,
                     read_queue, parsing, got, rows, dropped>>
  BY DEF Accept, clientVars, bufVars, parseVars
<1>2. backlog \in Seq(Clients) /\ conn_queue \in Seq(fds')
  BY <1>1 DEF IInv, TypeOK
<1>3. /\ c \in Clients /\ c = backlog[1] /\ 1 \in DOMAIN backlog
      /\ backlog' \in Seq(Clients) /\ Len(backlog') = Len(backlog) - 1
      /\ Len(backlog) \in Nat
      /\ \A i \in DOMAIN backlog' : /\ i + 1 \in DOMAIN backlog /\ i + 1 # 1
                                    /\ backlog'[i] = backlog[i + 1]
  BY <1>1, <1>2, TailFacts
<1>4. c \notin fds
  BY <1>3 DEF IInv, Owners
<1>5. c \in fds'
  BY <1>1
<1> HIDE DEF c
<1>6. /\ conn_queue' \in Seq(fds') /\ conn_queue'[1] = c
      /\ \A i \in DOMAIN conn_queue' \ {1} : /\ i - 1 \in DOMAIN conn_queue
                                             /\ conn_queue'[i] = conn_queue[i - 1]
  BY <1>1, <1>2, <1>5, PushFacts
<1>7. IsFiniteSet(fds') /\ Cardinality(fds') <= MaxFds
  <2>1. IsFiniteSet(fds) /\ Cardinality(fds) \in Nat
    BY FS_CardinalityType DEF IInv
  <2>2. IsFiniteSet(fds') /\ Cardinality(fds') = Cardinality(fds) + 1
    BY <1>1, <1>4, <2>1, FS_AddElement
  <2>. QED  BY <1>1, <2>1, <2>2, IngestAssumption
<1>8. TypeOK'
  <2>1. Len(backlog') <= MAXIMUM_CONNECTIONS
    BY <1>3, IngestAssumption DEF IInv, TypeOK
  <2>2. fds' \subseteq Clients /\ serving' \in [CONN_THREADS -> fds' \cup {None}]
    BY <1>1, <1>3 DEF IInv, TypeOK
  <2>. QED  BY <1>1, <1>3, <1>6, <1>7, <2>1, <2>2 DEF IInv, TypeOK
<1>9. Owners'
  <2>1. \A i \in DOMAIN conn_queue : conn_queue[i] \in fds
    BY DEF IInv, TypeOK
  <2>2. \A w \in CONN_THREADS : serving[w] # c
    BY <1>3, <1>4, IngestAssumption DEF IInv, TypeOK
  <2>3. DOMAIN conn_queue' \subseteq Int /\ DOMAIN backlog' \subseteq Int
    BY <1>3, <1>6
  <2>4. \A i, j \in DOMAIN backlog' : backlog'[i] = backlog'[j] => i = j
    BY <1>3, <2>3 DEF IInv, Owners
  <2>5. \A i \in DOMAIN backlog' : backlog'[i] \notin fds'
    BY <1>1, <1>3 DEF IInv, Owners
  <2>6. \A i, j \in DOMAIN conn_queue' : conn_queue'[i] = conn_queue'[j] => i = j
    BY <1>4, <1>6, <2>1, <2>3 DEF IInv, Owners
  <2>7. \A w \in CONN_THREADS, i \in DOMAIN conn_queue' : serving[w] # conn_queue'[i]
    BY <1>6, <2>2 DEF IInv, Owners
  <2>. QED  BY <1>1, <2>4, <2>5, <2>6, <2>7 DEF IInv, Owners
<1>10. (WithinBuffer /\ ReadsAccounted)'
  BY <1>1 DEF IInv, WithinBuffer, ReadsAccounted, Reading
<1>. QED
  BY <1>7, <1>8, <1>9, <1>10 DEF IInv
-----------------------------------------------------------------------------
(* The connection workers.                                                 *)

LEMMA ServeInv == ASSUME IInv, NEW w \in CONN_THREADS, Serve(w) PROVE IInv'
<1>1. /\ serving[w] = None /\ conn_queue # <<>>
      /\ serving' = [serving EXCEPT ![w] = Head(conn_queue)] /\ conn_queue' = Tail(conn_queue)
      /\ UNCHANGED <<backlog, fds, stream, closed, sent, copying, buf, reads,
                     read_queue, parsing, got, rows, dropped>>
  BY DEF Serve, clientVars, bufVars, parseVars
<1>2. conn_queue \in Seq(fds)
  BY DEF IInv, TypeOK
<1>3. /\ Head(conn_queue) \in fds /\ Head(conn_queue) = conn_queue[1] /\ 1 \in DOMAIN conn_queue
      /\ conn_queue' \in Seq(fds) /\ Len(conn_queue) \in Nat
      /\ \A i \in DOMAIN conn_queue' : /\ i + 1 \in DOMAIN conn_queue /\ i + 1 # 1
                                       /\ conn_queue'[i] = conn_queue[i + 1]
  BY <1>1, <1>2, TailFacts
<1>4. DOMAIN conn_queue' \subseteq Int
  BY <1>3
<1>5. TypeOK'
  BY <1>1, <1>3 DEF IInv, TypeOK
<1>6. \A v \in CONN_THREADS : /\ v # w => serving'[v] = serving[v]
                              /\ serving'[w] = conn_queue[1]
  BY <1>1, <1>3 DEF IInv, TypeOK
<1>7. Owners'
  <2>1. \A i, j \in DOMAIN conn_queue' : conn_queue'[i] = conn_queue'[j] => i = j
    BY <1>3, <1>4 DEF IInv, Owners
  <2>2. \A u, v \in CONN_THREADS : serving'[u] = serving'[v] /\ serving'[v] # None => u = v
    <3>1. \A v \in CONN_THREADS : serving[v] # conn_queue[1]
      BY <1>3 DEF IInv, Owners
    <3>2. \A u, v \in CONN_THREADS : serving[u] = serving[v] /\ serving[v] # None => u = v
      BY DEF IInv, Owners
    <3>. QED  BY <1>6, <3>1, <3>2
  <2>3. \A i \in DOMAIN conn_queue' : conn_queue'[i] # conn_queue[1]
    BY <1>3, <1>4 DEF IInv, Owners
  <2>4. \A v \in CONN_THREADS \ {w}, i \in DOMAIN conn_queue' : serving[v] # conn_queue'[i]
    BY <1>3 DEF IInv, Owners
  <2>5. \A v \in CONN_THREADS, i \in DOMAIN conn_queue' : serving'[v] # conn_queue'[i]
    BY <1>6, <2>3, <2>4
  <2>. QED  BY <1>1, <2>1, <2>2, <2>5 DEF IInv, Owners
<1>8. (IsFiniteSet(fds) /\ WithinBuffer /\ ReadsAccounted)'
  BY <1>1 DEF IInv, WithinBuffer, ReadsAccounted, Reading
<1>. QED
  BY <1>5, <1>7, <1>8 DEF IInv

LEMMA StartReadInv == ASSUME IInv, NEW w \in CONN_THREADS, StartRead(w) PROVE IInv'
<1> DEFINE c == serving[w]
           n == IF Len(stream[c]) < BUFFER_SIZE THEN Len(stream[c]) ELSE BUFFER_SIZE
           parts == [i \in 1..n |-> [at |-> i, cell |-> stream[c][i]]]
<1>1. /\ c # None /\ ~Reading(w) /\ n > 0
      /\ copying' = [copying EXCEPT ![w] = parts]
      /\ stream' = [stream EXCEPT ![c] = SubSeq(@, n + 1, Len(@))]
      /\ reads' = reads + 1
      /\ UNCHANGED <<backlog, fds, conn_queue, serving, closed, sent, buf,
                     read_queue, parsing, got, rows, dropped>>
  BY DEF StartRead, connVars, clientVars, parseVars
<1>2. c \in Clients /\ stream[c] \in Seq(Part)
  BY <1>1 DEF IInv, TypeOK
<1>3. n \in Nat /\ n <= BUFFER_SIZE /\ n <= Len(stream[c]) /\ BUFFER_SIZE \in Nat
  BY <1>2, IngestAssumption
<1>4. parts \in Seq([at : 1..BUFFER_SIZE, cell : Part]) /\ parts # <<>>
  BY <1>1, <1>2, <1>3
<1>5. SubSeq(stream[c], n + 1, Len(stream[c])) \in Seq(Part)
  BY <1>2, <1>3
<1> HIDE DEF n, parts
<1>6. stream' \in [Clients -> Seq(Part)]
  BY <1>1, <1>5 DEF IInv, TypeOK
<1>7. copying' \in [CONN_THREADS -> Seq([at : 1..BUFFER_SIZE, cell : Part])]
  BY <1>1, <1>4 DEF IInv, TypeOK
<1>8. TypeOK'
  <2>1. reads' \in Nat
    BY <1>1 DEF IInv, TypeOK
  <2>2. UNCHANGED <<backlog, fds, conn_queue, serving, closed, sent, buf,
                    read_queue, parsing, got, rows, dropped>>
    BY <1>1
  <2>. QED  BY <1>6, <1>7, <2>1, <2>2 DEF IInv, TypeOK
<1>9. Readers' = Readers \cup {w} /\ w \in CONN_THREADS \ Readers /\ Parsers' = Parsers
  BY <1>1, <1>4 DEF Readers, Parsers, Reading, IInv, TypeOK
<1>10. ReadsAccounted'
  BY <1>1, <1>9, CountReader DEF IInv, TypeOK
<1>11. (IsFiniteSet(fds) /\ Owners /\ WithinBuffer)'
  BY <1>1 DEF IInv, Owners, WithinBuffer
<1>. QED
  BY <1>8, <1>10, <1>11 DEF IInv

\* A part is copied: the rest of read() is still typed, and so is the buffer.
LEMMA StoreFacts ==
    ASSUME TypeOK, NEW w \in CONN_THREADS, copying[w] # <<>>, Store(w)
    PROVE  /\ buf' \in [CONN_THREADS -> [1..BUFFER_SIZE -> Cell]]
           /\ Tail(copying[w]) \in Seq([at : 1..BUFFER_SIZE, cell : Part])
           /\ Len(copying[w]) > 1 => Tail(copying[w]) # <<>>
<1> DEFINE C == [at : 1..BUFFER_SIZE, cell : Part]
<1>1. copying[w] \in Seq(C)
  BY DEF TypeOK
<1> HIDE DEF C
<1>2. /\ Head(copying[w]) \in C /\ Tail(copying[w]) \in Seq(C)
      /\ Len(copying[w]) > 1 => Tail(copying[w]) # <<>>
  BY <1>1, TailFacts
<1>3. Head(copying[w]).at \in 1..BUFFER_SIZE /\ Head(copying[w]).cell \in Cell
  BY <1>2 DEF C, Cell
<1>4. buf' = [buf EXCEPT ![w][Head(copying[w]).at] = Head(copying[w]).cell]
  BY DEF Store
<1>5. buf' \in [CONN_THREADS -> [1..BUFFER_SIZE -> Cell]]
  BY <1>3, <1>4 DEF TypeOK
<1>. QED
  BY <1>2, <1>5 DEF C

LEMMA CopyPartInv == ASSUME IInv, NEW w \in CONN_THREADS, CopyPart(w) PROVE IInv'
<1>1. /\ Len(copying[w]) > 1 /\ Store(w)
      /\ copying' = [copying EXCEPT ![w] = Tail(copying[w])]
      /\ UNCHANGED <<backlog, fds, conn_queue, serving, stream, closed, sent, reads,
                     read_queue, parsing, got, rows, dropped>>
  BY DEF CopyPart, connVars, clientVars, parseVars
<1>2. copying[w] # <<>>
  BY <1>1
<1>3. /\ buf' \in [CONN_THREADS -> [1..BUFFER_SIZE -> Cell]]
      /\ Tail(copying[w]) \in Seq([at : 1..BUFFER_SIZE, cell : Part])
      /\ Tail(copying[w]) # <<>>
  <2>1. TypeOK /\ Store(w)
    BY <1>1 DEF IInv
  <2>2. Len(copying[w]) > 1
    BY <1>1
  <2>. QED  BY <1>2, <2>1, <2>2, StoreFacts
<1>4. TypeOK'
  <2>1. copying' \in [CONN_THREADS -> Seq([at : 1..BUFFER_SIZE, cell : Part])]
    BY <1>1, <1>3 DEF IInv, TypeOK
  <2>. QED  BY <1>1, <1>3, <2>1 DEF IInv, TypeOK
<1>5. Readers' = Readers /\ Parsers' = Parsers
  BY <1>1, <1>2, <1>3 DEF Readers, Parsers, Reading, IInv, TypeOK
<1>6. ReadsAccounted'
  BY <1>1, <1>5 DEF IInv, ReadsAccounted, Readers, Parsers
<1>7. (IsFiniteSet(fds) /\ Owners /\ WithinBuffer)'
  BY <1>1 DEF IInv, Owners, WithinBuffer
<1>. QED
  BY <1>4, <1>6, <1>7 DEF IInv

LEMMA EndReadInv == ASSUME IInv, NEW w \in CONN_THREADS, EndRead(w) PROVE IInv'
<1>1. /\ Len(copying[w]) = 1 /\ Store(w)
      /\ copying' = [copying EXCEPT ![w] = <<>>]
      /\ read_queue' = <<w>> \o read_queue
      /\ UNCHANGED <<backlog, fds, conn_queue, serving, stream, closed, sent, reads,
                     parsing, got, rows, dropped>>
  BY DEF EndRead, connVars, clientVars, parseVars
<1>2. copying[w] # <<>>
  <2>1. Len(copying[w]) = 1
    BY <1>1
  <2>. QED  BY <2>1
<1>3. buf' \in [CONN_THREADS -> [1..BUFFER_SIZE -> Cell]]
  BY <1>1, <1>2, StoreFacts DEF IInv
<1>4. read_queue' \in Seq(CONN_THREADS) /\ Len(read_queue') = Len(read_queue) + 1
  BY <1>1, PushFacts DEF IInv, TypeOK
<1>5. TypeOK'
  <2>1. copying' \in [CONN_THREADS -> Seq([at : 1..BUFFER_SIZE, cell : Part])]
    <3> DEFINE C == [at : 1..BUFFER_SIZE, cell : Part]
    <3>1. copying \in [CONN_THREADS -> Seq(C)]
      BY DEF IInv, TypeOK
    <3> HIDE DEF C
    <3>2. copying' \in [CONN_THREADS -> Seq(C)]
      BY <1>1, <3>1
    <3>. QED  BY <3>2 DEF C
  <2>. QED  BY <1>1, <1>3, <1>4, <2>1 DEF IInv, TypeOK
<1>6. Readers' = Readers \ {w} /\ w \in Readers /\ Parsers' = Parsers
  BY <1>1, <1>2 DEF Readers, Parsers, Reading, IInv, TypeOK
<1>7. ReadsAccounted'
  <2>1. Cardinality(Readers') = Cardinality(Readers) - 1
    BY <1>6, ThreadCounts, CardinalityDown DEF Readers
  <2>2. Len(rows) \in Nat /\ dropped \in Nat /\ Len(read_queue) \in Nat /\ reads \in Nat
    BY DEF IInv, TypeOK
  <2>3. Len(rows') + dropped' + Len(read_queue') + Cardinality(Parsers') + Cardinality(Readers')
          = reads'
    BY <1>1, <1>4, <1>6, <2>1, <2>2, ThreadCounts, ReadsAccountedIs DEF IInv
  <2>. QED  BY <2>3 DEF ReadsAccounted, Parsers, Readers
<1>8. (IsFiniteSet(fds) /\ Owners /\ WithinBuffer)'
  BY <1>1 DEF IInv, Owners, WithinBuffer
<1>. QED
  BY <1>5, <1>7, <1>8 DEF IInv

LEMMA EndOfFileInv == ASSUME IInv, NEW w \in CONN_THREADS, EndOfFile(w) PROVE IInv'
<1>1. /\ serving' = [serving EXCEPT ![w] = None]
      /\ UNCHANGED <<backlog, fds, conn_queue, stream, closed, sent, copying, buf, reads,
                     read_queue, parsing, got, rows, dropped>>
  BY DEF EndOfFile, connVars, clientVars, bufVars, parseVars
<1>2. TypeOK'
  BY <1>1 DEF IInv, TypeOK
<1>3. \A v \in CONN_THREADS : serving'[v] = None \/ serving'[v] = serving[v]
  BY <1>1 DEF IInv, TypeOK
<1>4. Owners'
  <2>1. \A i \in DOMAIN conn_queue : conn_queue[i] # None
    BY IngestAssumption DEF IInv, TypeOK
  <2>. QED  BY <1>1, <1>3, <2>1 DEF IInv, Owners
<1>5. (IsFiniteSet(fds) /\ WithinBuffer /\ ReadsAccounted)'
  BY <1>1 DEF IInv, WithinBuffer, ReadsAccounted, Reading
<1>. QED
  BY <1>2, <1>4, <1>5 DEF IInv

-----------------------------------------------------------------------------
(* The read workers.                                                       *)

LEMMA TakeBufferInv == ASSUME IInv, NEW r \in READ_THREADS, TakeBuffer(r) PROVE IInv'
<1>1. /\ parsing[r] = None /\ read_queue # <<>>
      /\ parsing' = [parsing EXCEPT ![r] = Head(read_queue)]
      /\ read_queue' = Tail(read_queue)
      /\ UNCHANGED <<backlog, fds, conn_queue, serving, stream, closed, sent, copying, buf,
                     reads, got, rows, dropped>>
  BY DEF TakeBuffer, connVars, clientVars, bufVars
<1>2. /\ Head(read_queue) \in CONN_THREADS /\ read_queue' \in Seq(CONN_THREADS)
      /\ Len(read_queue') = Len(read_queue) - 1 /\ Len(read_queue) \in Nat \ {0}
  BY <1>1, TailFacts DEF IInv, TypeOK
<1>3. Head(read_queue) # None
  BY <1>2, IngestAssumption
<1>4. TypeOK'
  BY <1>1, <1>2 DEF IInv, TypeOK
<1>5. Parsers' = Parsers \cup {r} /\ r \in READ_THREADS \ Parsers /\ Readers' = Readers
  BY <1>1, <1>3 DEF Parsers, Readers, Reading, IInv, TypeOK
<1>6. ReadsAccounted'
  <2>1. Cardinality(Parsers') = Cardinality(Parsers) + 1
    BY <1>5, ThreadCounts, CardinalityUp DEF Parsers
  <2>2. Len(rows) \in Nat /\ dropped \in Nat /\ Len(read_queue) \in Nat /\ reads \in Nat
    BY DEF IInv, TypeOK
  <2>3. Len(rows') + dropped' + Len(read_queue') + Cardinality(Parsers') + Cardinality(Readers')
          = reads'
    BY <1>1, <1>2, <1>5, <2>1, <2>2, ThreadCounts, ReadsAccountedIs DEF IInv
  <2>. QED  BY <2>3 DEF ReadsAccounted, Parsers, Readers
<1>7. WithinBuffer'
  BY <1>1, <1>2, <1>3 DEF IInv, WithinBuffer, TypeOK
<1>8. (IsFiniteSet(fds) /\ Owners)'
  BY <1>1 DEF IInv, Owners
<1>. QED
  BY <1>4, <1>6, <1>7, <1>8 DEF IInv

LEMMA ParseCellInv == ASSUME IInv, NEW r \in READ_THREADS, ParseCell(r) PROVE IInv'
<1> DEFINE next == Len(got[r]) + 1
<1>1. /\ parsing[r] # None /\ Len(got[r]) # BUFFER_SIZE
      /\ got' = [got EXCEPT ![r] = Append(got[r], buf[parsing[r]][next])]
      /\ UNCHANGED <<backlog, fds, conn_queue, serving, stream, closed, sent, copying, buf,
                     reads, read_queue, parsing, rows, dropped>>
  BY DEF ParseCell, Done, connVars, clientVars, bufVars
<1>2. parsing[r] \in CONN_THREADS /\ got[r] \in Seq(Cell)
  BY <1>1 DEF IInv, TypeOK
<1>3. next \in 1..BUFFER_SIZE
  <2>1. Len(got[r]) \in Nat /\ Len(got[r]) <= BUFFER_SIZE
    BY <1>2 DEF IInv, WithinBuffer
  <2>. QED  BY <1>1, <2>1, IngestAssumption
<1>4. buf[parsing[r]][next] \in Cell
  BY <1>2, <1>3 DEF IInv, TypeOK
<1>5. got'[r] \in Seq(Cell) /\ Len(got'[r]) = next
  BY <1>1, <1>2, <1>4 DEF IInv, TypeOK
<1> HIDE DEF next
<1>6. got' \in [READ_THREADS -> Seq(Cell)]
  BY <1>1, <1>5 DEF IInv, TypeOK
<1>7. TypeOK'
  BY <1>1, <1>6 DEF IInv, TypeOK
<1>8. WithinBuffer'
  BY <1>1, <1>3, <1>5, IngestAssumption DEF IInv, WithinBuffer, TypeOK
<1>9. (IsFiniteSet(fds) /\ Owners /\ ReadsAccounted)'
  BY <1>1 DEF IInv, Owners, ReadsAccounted, Reading
<1>. QED
  BY <1>7, <1>8, <1>9 DEF IInv

\* A parse is over, with a row or without one.
LEMMA ReleaseInv ==
    ASSUME IInv, NEW r \in READ_THREADS, parsing[r] # None, Release(r),
           \/ rows' = rows /\ dropped' = dropped + 1
           \/ rows' = Append(rows, got[r]) /\ dropped' = dropped,
           UNCHANGED <<backlog, fds, conn_queue, serving, stream, closed, sent, copying, buf,
                       reads, read_queue>>
    PROVE  IInv'
<1>1. /\ parsing' = [parsing EXCEPT ![r] = None]
      /\ got' = [got EXCEPT ![r] = <<>>]
  BY DEF Release
<1>2. /\ rows' \in Seq(Seq(Cell)) /\ dropped' \in Nat /\ Len(rows') \in Nat
      /\ Len(rows') + dropped' = Len(rows) + dropped + 1
  <2>1. rows \in Seq(Seq(Cell)) /\ got[r] \in Seq(Cell)
    BY DEF IInv, TypeOK
  <2> DEFINE T == Seq(Cell)
  <2>2. rows \in Seq(T) /\ got[r] \in T /\ dropped \in Nat
    BY <2>1 DEF IInv, TypeOK
  <2> HIDE DEF T
  <2>3. /\ rows' \in Seq(T) /\ dropped' \in Nat /\ Len(rows') \in Nat
        /\ Len(rows') + dropped' = Len(rows) + dropped + 1
    BY <2>2
  <2>. QED  BY <2>3 DEF T
<1>3. TypeOK'
  <2>1. /\ parsing' \in [READ_THREADS -> CONN_THREADS \cup {None}]
        /\ got' \in [READ_THREADS -> Seq(Cell)]
    BY <1>1 DEF IInv, TypeOK
  <2>. QED  BY <1>2, <2>1 DEF IInv, TypeOK
<1>4. Parsers' = Parsers \ {r} /\ r \in Parsers /\ Readers' = Readers
  BY <1>1 DEF Parsers, Readers, Reading, IInv, TypeOK
<1>5. ReadsAccounted'
  <2>1. Cardinality(Parsers') = Cardinality(Parsers) - 1
    BY <1>4, ThreadCounts, CardinalityDown DEF Parsers
  <2>2. Len(rows) \in Nat /\ dropped \in Nat /\ Len(read_queue) \in Nat /\ reads \in Nat
    BY DEF IInv, TypeOK
  <2>3. Len(rows') + dropped' + Len(read_queue') + Cardinality(Parsers') + Cardinality(Readers')
          = reads'
    BY <1>2, <1>4, <2>1, <2>2, ThreadCounts, ReadsAccountedIs DEF IInv
  <2>. QED  BY <2>3 DEF ReadsAccounted, Parsers, Readers
<1>6. WithinBuffer'
  BY <1>1, IngestAssumption DEF IInv, WithinBuffer, TypeOK
<1>7. (IsFiniteSet(fds) /\ Owners)'
  BY DEF IInv, Owners
<1>. QED
  BY <1>3, <1>5, <1>6, <1>7 DEF IInv

LEMMA PushRowInv == ASSUME IInv, NEW r \in READ_THREADS, PushRow(r) PROVE IInv'
BY ReleaseInv DEF PushRow, connVars, clientVars, bufVars

LEMMA RefuseInv == ASSUME IInv, NEW r \in READ_THREADS, Refuse(r) PROVE IInv'
BY ReleaseInv DEF Refuse, connVars, clientVars, bufVars

-----------------------------------------------------------------------------
(* The invariant, and what it says.                                        *)

LEMMA NextInv == IInv /\ [Next]_vars => IInv'
<1> SUFFICES ASSUME IInv, [Next]_vars PROVE IInv'
  OBVIOUS
<1>1. CASE UNCHANGED vars
  BY <1>1 DEF vars, connVars, clientVars, bufVars, parseVars, IInv, TypeOK, Owners,
              WithinBuffer, ReadsAccounted, Reading
<1>2. ASSUME NEW c \in Clients, ClientStep(c) PROVE IInv'
  BY <1>2, ConnectInv, CloseInv, SendInv DEF ClientStep
<1>3. CASE Accept
  BY <1>3, AcceptInv
<1>4. CASE AcceptFails
  BY <1>1, <1>4 DEF AcceptFails
<1>5. ASSUME NEW w \in CONN_THREADS, ConnStep(w) PROVE IInv'
  BY <1>5, ServeInv, StartReadInv, CopyPartInv, EndReadInv, EndOfFileInv DEF ConnStep
<1>6. ASSUME NEW r \in READ_THREADS, ReadStep(r) \/ PushRow(r) PROVE IInv'
  BY <1>6, TakeBufferInv, ParseCellInv, RefuseInv, PushRowInv DEF ReadStep
<1>. QED
  BY <1>1, <1>2, <1>3, <1>4, <1>5, <1>6 DEF Next, Receive

LEMMA Invariance == Spec => []IInv
BY InitInv, NextInv, PTL DEF Spec

\* TypeOK: a read worker stays within the buffer whose address it was given,
\* and the accept loop within its descriptors, for any sizes and threads.
THEOREM TypeCorrect == Spec => []TypeOK
<1>1. IInv => TypeOK
  BY DEF IInv
<1>. QED
  BY <1>1, Invariance, PTL

\* ReadsAccounted: one push for a read, one parse for a push, and each parse
\* ends as a row or without one; none is passed over.
THEOREM EveryReadOnce == Spec => []ReadsAccounted
<1>1. IInv => ReadsAccounted
  BY DEF IInv
<1>. QED
  BY <1>1, Invariance, PTL

LEMMA AtMostOne ==
    ASSUME NEW S, \A x, y \in S : x = y
    PROVE  IsFiniteSet(S) /\ (Cardinality(S) = 0 \/ Cardinality(S) = 1)
           /\ (S = {} => Cardinality(S) = 0)
<1>1. CASE S = {}
  BY <1>1, FS_EmptySet
<1>2. CASE S # {}
  <2>1. PICK x \in S : TRUE
    BY <1>2
  <2>2. S = {x}
    BY <2>1
  <2>. QED  BY <1>2, <2>2, FS_Singleton
<1>. QED
  BY <1>1, <1>2

LEMMA OneOwnerInv == IInv => OneOwner
<1> SUFFICES ASSUME IInv, NEW c \in Clients
             PROVE  Cardinality({i \in DOMAIN backlog : backlog[i] = c})
                      + Cardinality({i \in DOMAIN conn_queue : conn_queue[i] = c})
                      + Cardinality({w \in CONN_THREADS : serving[w] = c}) <= 1
  BY DEF OneOwner
<1> DEFINE A == {i \in DOMAIN backlog : backlog[i] = c}
           B == {i \in DOMAIN conn_queue : conn_queue[i] = c}
           S == {w \in CONN_THREADS : serving[w] = c}
<1>1. c # None
  BY IngestAssumption
<1>2. /\ \A x, y \in A : x = y
      /\ \A x, y \in B : x = y
      /\ \A x, y \in S : x = y
  BY <1>1 DEF IInv, Owners
<1>3. B # {} \/ S # {} => c \in fds
  BY <1>1 DEF IInv, TypeOK
<1>4. A # {} => B = {} /\ S = {}
  BY <1>3 DEF IInv, Owners
<1>5. B # {} => S = {}
  BY DEF IInv, Owners
<1> HIDE DEF A, B, S
<1>6. Cardinality(A) + Cardinality(B) + Cardinality(S) <= 1
  BY <1>2, <1>4, <1>5, AtMostOne
<1>. QED
  BY <1>6 DEF A, B, S

\* OneOwner: two workers never read from the same connection.
THEOREM OwnersUnique == Spec => []OneOwner
BY OneOwnerInv, Invariance, PTL

-----------------------------------------------------------------------------
(* Paced clients, and messages that fit.                                   *)

PacedFit == Paced /\ \A n \in Sizes : n <= BUFFER_SIZE

PartOf(m, n, i) == [msg |-> m, part |-> i, size |-> n]

\* The first k cells are the first k parts of message m.
Starts(cells, m, n, k) == \A i \in 1..k : cells[i] = PartOf(m, n, i)

\* Client c has sent message m, and it is not a row yet.
Pending(c, m) == m \in DOMAIN sent /\ sent[m] = c /\ ~Parsed(m)

\* The address of w's buffer is in read_queue or with a read worker.
Pushed(w) == \/ \E i \in DOMAIN read_queue : read_queue[i] = w
             \/ \E r \in READ_THREADS : parsing[r] = w

\* Where a pending message is: in the socket, all of it; ...
InSocket(c) == \E m \in Nat, n \in Sizes :
    /\ Pending(c, m)
    /\ Len(stream[c]) = n /\ Starts(stream[c], m, n, n)

\* ... k parts in the buffer and the others to come; ...
Copied(w, c, m, n, k) ==
    /\ serving[w] = c /\ stream[c] = <<>> /\ Pending(c, m)
    /\ k + Len(copying[w]) = n
    /\ \A i \in 1..Len(copying[w]) :
           copying[w][i] = [at |-> k + i, cell |-> PartOf(m, n, k + i)]
    /\ Starts(buf[w], m, n, k)
InCopy(w) == \E c \in Clients, m \in Nat, n \in Sizes, k \in Nat : Copied(w, c, m, n, k)

\* ... or in the buffer, as far as the parser has come and beyond.
Parsing(w, c, m, n) ==
    /\ serving[w] = c /\ stream[c] = <<>> /\ copying[w] = <<>> /\ Pending(c, m)
    /\ Starts(buf[w], m, n, n)
    /\ \A r \in READ_THREADS : parsing[r] = w =>
           Len(got[r]) <= n /\ Starts(got[r], m, n, Len(got[r]))
InBuffer(w) == \E c \in Clients, m \in Nat, n \in Sizes : Parsing(w, c, m, n)

\* An address is in the queue, or with a read worker, once.
PushedOnce ==
    /\ \A i, j \in DOMAIN read_queue : read_queue[i] = read_queue[j] => i = j
    /\ \A q, r \in READ_THREADS : parsing[q] = parsing[r] /\ parsing[r] # None => q = r
    /\ \A r \in READ_THREADS, i \in DOMAIN read_queue : parsing[r] # read_queue[i]

WholeRows == /\ \A k \in DOMAIN rows : Intact(rows[k]) /\ rows[k][1].msg \in DOMAIN sent
             /\ NoDoubleRow

\* A client that closes has nothing pending, unless its connection is gone.
ClosedSettled == \A c \in closed : Connected(c) => Settled(c)

PacedInv == /\ \A c \in Clients : stream[c] # <<>> => InSocket(c)
            /\ \A w \in CONN_THREADS : Reading(w) => InCopy(w)
            /\ \A w \in CONN_THREADS : Pushed(w) => InBuffer(w)
            /\ PushedOnce
            /\ ClosedSettled
            /\ WholeRows

-----------------------------------------------------------------------------
(* What is left alone stays where it is.                                   *)

StillPending(c) == \A m \in Nat : Pending(c, m) => Pending(c, m)'

LEMMA SocketFrame ==
    ASSUME NEW c \in Clients, InSocket(c), stream'[c] = stream[c], StillPending(c)
    PROVE  InSocket(c)'
BY DEF InSocket, StillPending, Starts

\* A worker's connection, its socket and its message.
SameSource(w) == /\ serving'[w] = serving[w]
                 /\ \A c \in Clients : serving[w] = c =>
                        stream'[c] = stream[c] /\ StillPending(c)

LEMMA CopyFrame ==
    ASSUME NEW w \in CONN_THREADS, InCopy(w), SameSource(w),
           copying'[w] = copying[w], buf'[w] = buf[w]
    PROVE  InCopy(w)'
<1>1. PICK c \in Clients, m \in Nat, n \in Sizes, k \in Nat : Copied(w, c, m, n, k)
  BY DEF InCopy
<1>2. serving'[w] = c /\ stream'[c] = <<>> /\ Pending(c, m)'
  BY <1>1 DEF Copied, SameSource, StillPending
<1>3. Copied(w, c, m, n, k)'
  BY <1>1, <1>2 DEF Copied
<1>. QED
  BY <1>3 DEF InCopy

LEMMA BufferFrame ==
    ASSUME NEW w \in CONN_THREADS, InBuffer(w), SameSource(w),
           copying'[w] = copying[w], buf'[w] = buf[w],
           \A r \in READ_THREADS : parsing'[r] = w =>
               got'[r] = <<>> \/ (parsing[r] = w /\ got'[r] = got[r])
    PROVE  InBuffer(w)'
<1>1. PICK c \in Clients, m \in Nat, n \in Sizes : Parsing(w, c, m, n)
  BY DEF InBuffer
<1>2. serving'[w] = c /\ stream'[c] = <<>> /\ Pending(c, m)'
  BY <1>1 DEF Parsing, SameSource, StillPending
<1>3. n \in Nat
  BY IngestAssumption
<1>4. ASSUME NEW r \in READ_THREADS, parsing'[r] = w
      PROVE  Len(got'[r]) <= n /\ Starts(got'[r], m, n, Len(got'[r]))
  <2>1. CASE got'[r] = <<>>
    BY <1>3, <2>1 DEF Starts
  <2>2. CASE parsing[r] = w /\ got'[r] = got[r]
    BY <1>1, <2>2 DEF Parsing
  <2>. QED  BY <1>4, <2>1, <2>2
<1>5. Parsing(w, c, m, n)'
  BY <1>1, <1>2, <1>4 DEF Parsing
<1>. QED
  BY <1>5 DEF InBuffer

LEMMA SamePending ==
    ASSUME UNCHANGED <<sent, rows>> PROVE \A c : StillPending(c)
BY DEF StillPending, Pending, Parsed

\* Steps of the clients and the accept loop, and of a connection worker that
\* takes or leaves a connection: no pending message is moved.
LEMMA QuietInv ==
    ASSUME IInv, PacedInv,
           UNCHANGED <<stream, sent, copying, buf, read_queue, parsing, got, rows>>,
           \A w \in CONN_THREADS : Reading(w) \/ Pushed(w) => serving'[w] = serving[w],
           \A c \in closed' : Connected(c)' => Settled(c)
    PROVE  PacedInv'
<1>1. \A c \in Clients : stream'[c] # <<>> => InSocket(c)'
  BY SamePending, SocketFrame DEF PacedInv
<1>6. \A w \in CONN_THREADS : Reading(w) \/ Pushed(w) => SameSource(w)
  BY SamePending DEF SameSource
<1>2. ASSUME NEW w \in CONN_THREADS, Reading(w)' PROVE InCopy(w)'
  <2>1. Reading(w) /\ InCopy(w)
    BY <1>2 DEF Reading, PacedInv
  <2>. QED  BY <1>6, <2>1, CopyFrame
<1>3. ASSUME NEW w \in CONN_THREADS, Pushed(w)' PROVE InBuffer(w)'
  <2>1. Pushed(w) /\ InBuffer(w)
    BY <1>3 DEF Pushed, PacedInv
  <2>. QED  BY <1>6, <2>1, BufferFrame
<1>4. PushedOnce' /\ WholeRows'
  BY DEF PacedInv, PushedOnce, WholeRows, NoDoubleRow
<1>5. ClosedSettled'
  BY DEF ClosedSettled, Settled, Parsed
<1>. QED
  BY <1>1, <1>2, <1>3, <1>4, <1>5 DEF PacedInv

LEMMA PacedInit == Init => PacedInv
<1> SUFFICES ASSUME Init PROVE PacedInv
  OBVIOUS
<1>1. \A w \in CONN_THREADS : ~Pushed(w)
  BY IngestAssumption DEF Init, Pushed
<1>2. PushedOnce
  BY DEF Init, PushedOnce
<1>3. WholeRows
  BY DEF Init, WholeRows, NoDoubleRow
<1>. QED
  BY <1>1, <1>2, <1>3 DEF Init, PacedInv, ClosedSettled, Reading

LEMMA PacedConnect ==
    ASSUME IInv, PacedInv, NEW c \in Clients, Connect(c) PROVE PacedInv'
<1>1. /\ backlog' = Append(backlog, c) /\ fds' = fds /\ c \notin closed
      /\ backlog \in Seq(Clients)
  BY DEF Connect, IInv, TypeOK
<1>2. ToSet(backlog') = ToSet(backlog) \cup {c}
  BY <1>1 DEF ToSet
<1>3. \A d \in closed : Connected(d)' => Connected(d)
  BY <1>1, <1>2 DEF Connected
<1>. QED
  BY <1>3, QuietInv DEF Connect, PacedInv, ClosedSettled, clientVars, bufVars, parseVars

LEMMA PacedClose ==
    ASSUME PacedFit, IInv, PacedInv, NEW c \in Clients, Close(c) PROVE PacedInv'
BY QuietInv DEF Close, PacedInv, ClosedSettled, Connected, PacedFit, connVars, bufVars, parseVars

LEMMA PacedAccept == ASSUME IInv, PacedInv, Accept PROVE PacedInv'
<1>1. /\ backlog # <<>> /\ backlog \in Seq(Clients)
      /\ backlog' = Tail(backlog) /\ fds' = fds \cup {Head(backlog)}
  BY DEF Accept, IInv, TypeOK
<1>2. Head(backlog) \in ToSet(backlog) /\ ToSet(backlog') \subseteq ToSet(backlog)
  <2>1. PICK s \in Seq(Clients) : s = backlog
    BY <1>1
  <2>2. /\ Head(s) = s[1] /\ 1 \in DOMAIN s
        /\ \A i \in DOMAIN Tail(s) : i + 1 \in DOMAIN s /\ Tail(s)[i] = s[i + 1]
    BY <1>1, <2>1, TailFacts
  <2>. QED  BY <1>1, <2>1, <2>2 DEF ToSet
<1>3. \A d : Connected(d)' => Connected(d)
  BY <1>1, <1>2 DEF Connected
<1>. QED
  BY <1>3, QuietInv DEF Accept, PacedInv, ClosedSettled, clientVars, bufVars, parseVars

LEMMA PacedServe ==
    ASSUME IInv, PacedInv, NEW w \in CONN_THREADS, Serve(w) PROVE PacedInv'
<1>1. /\ serving[w] = None
      /\ \A v \in CONN_THREADS : v # w => serving'[v] = serving[v]
      /\ UNCHANGED <<stream, closed, sent, copying, buf, read_queue, parsing, got, rows>>
  BY DEF Serve, clientVars, bufVars, parseVars, IInv, TypeOK
<1>2. \A v \in CONN_THREADS : Reading(v) \/ Pushed(v) => serving[v] # None
  BY IngestAssumption DEF PacedInv, InCopy, InBuffer, Copied, Parsing
<1>3. ClosedSettled /\ UNCHANGED fds /\ UNCHANGED backlog
  BY DEF Serve, PacedInv
<1>. QED
  BY <1>1, <1>2, <1>3, QuietInv DEF ClosedSettled, Connected

\* A connection is left when its client's last message is a row.
LEMMA EndOfFileIdle ==
    ASSUME IInv, PacedInv, NEW w \in CONN_THREADS, EndOfFile(w)
    PROVE  ~Reading(w) /\ ~Pushed(w)
<1>1. Settled(serving[w])
  BY DEF EndOfFile, PacedInv, ClosedSettled, Connected, IInv, TypeOK
<1>. QED
  BY <1>1 DEF EndOfFile, PacedInv, InBuffer, Parsing, Pending, Settled

LEMMA PacedEndOfFile ==
    ASSUME IInv, PacedInv, NEW w \in CONN_THREADS, EndOfFile(w) PROVE PacedInv'
<1>1. /\ \A v \in CONN_THREADS : v # w => serving'[v] = serving[v]
      /\ UNCHANGED <<stream, closed, sent, copying, buf, read_queue, parsing, got, rows>>
  BY DEF EndOfFile, connVars, clientVars, bufVars, parseVars, IInv, TypeOK
<1>2. ClosedSettled /\ UNCHANGED fds /\ UNCHANGED backlog
  BY DEF EndOfFile, connVars, PacedInv
<1>. QED
  BY <1>1, <1>2, EndOfFileIdle, QuietInv DEF ClosedSettled, Connected

-----------------------------------------------------------------------------
(* A message is sent.                                                      *)

LEMMA PacedSend ==
    ASSUME PacedFit, IInv, PacedInv, NEW c \in Clients, NEW n \in Sizes, Send(c, n)
    PROVE  PacedInv'
<1>1. PICK m \in Nat : m = Len(sent) + 1
  BY DEF IInv, TypeOK
<1>2. n \in Nat \ {0}
  BY IngestAssumption
<1> DEFINE new == [i \in 1..n |-> PartOf(m, n, i)]
<1>3. /\ sent' = Append(sent, c) /\ c \notin closed /\ Settled(c)
      /\ stream' = [stream EXCEPT ![c] = stream[c] \o new]
      /\ UNCHANGED <<backlog, fds, serving, closed, copying, buf, read_queue, parsing, got, rows>>
  BY <1>1 DEF Send, PacedFit, PartOf, connVars, bufVars, parseVars
<1>4. new \in Seq({PartOf(m, n, i) : i \in 1..n}) /\ Len(new) = n /\ Starts(new, m, n, n)
  BY <1>2 DEF Starts
<1> HIDE DEF new
<1>5. /\ m \notin DOMAIN sent /\ DOMAIN sent' = DOMAIN sent \cup {m}
      /\ sent'[m] = c /\ \A j \in DOMAIN sent : sent'[j] = sent[j]
  BY <1>1, <1>3 DEF IInv, TypeOK
<1>6. \A d : StillPending(d)
  BY <1>3, <1>5 DEF StillPending, Pending, Parsed
<1>7. \A j : ~Pending(c, j)
  BY <1>3 DEF Settled, Pending
<1>8. stream'[c] = new
  <2>1. stream[c] = <<>>
    BY <1>7 DEF PacedInv, InSocket
  <2>2. stream'[c] = stream[c] \o new
    BY <1>3 DEF IInv, TypeOK
  <2>. QED  BY <1>4, <2>1, <2>2
<1>9. \A d \in Clients \ {c} : stream'[d] = stream[d]
  BY <1>3 DEF IInv, TypeOK
<1>10. Pending(c, m)'
  <2>1. ~Parsed(m)
    BY <1>5 DEF Parsed, PacedInv, WholeRows
  <2>. QED  BY <1>3, <1>5, <2>1 DEF Pending, Parsed
<1>11. ASSUME NEW d \in Clients, stream'[d] # <<>> PROVE InSocket(d)'
  <2>1. CASE d = c
    BY <1>4, <1>8, <1>10, <2>1 DEF InSocket
  <2>2. CASE d # c
    BY <1>6, <1>9, <1>11, <2>2, SocketFrame DEF PacedInv
  <2>. QED  BY <2>1, <2>2
<1>12. \A w \in CONN_THREADS : InCopy(w) \/ InBuffer(w) => SameSource(w)
  BY <1>3, <1>6, <1>7, <1>9 DEF InCopy, InBuffer, Copied, Parsing, SameSource
<1>13. ASSUME NEW w \in CONN_THREADS, Reading(w)' PROVE InCopy(w)'
  <2>1. Reading(w) /\ InCopy(w)
    BY <1>3, <1>13 DEF Reading, PacedInv
  <2>. QED  BY <1>3, <1>12, <2>1, CopyFrame
<1>14. ASSUME NEW w \in CONN_THREADS, Pushed(w)' PROVE InBuffer(w)'
  <2>1. Pushed(w) /\ InBuffer(w)
    BY <1>3, <1>14 DEF Pushed, PacedInv
  <2>. QED  BY <1>3, <1>12, <2>1, BufferFrame
<1>15. PushedOnce' /\ WholeRows'
  BY <1>3, <1>5 DEF PacedInv, PushedOnce, WholeRows, NoDoubleRow
<1>16. ClosedSettled'
  BY <1>3, <1>5 DEF PacedInv, ClosedSettled, Connected, Settled, Parsed
<1>. QED
  BY <1>11, <1>13, <1>14, <1>15, <1>16 DEF PacedInv

-----------------------------------------------------------------------------
(* A message is read.                                                      *)

\* A client is served by one worker.
LEMMA OneServer ==
    ASSUME IInv, NEW v \in CONN_THREADS, NEW w \in CONN_THREADS, v # w,
           serving[v] \in Clients
    PROVE  serving[v] # serving[w]
BY IngestAssumption DEF IInv, Owners

LEMMA PacedStartRead ==
    ASSUME PacedFit, IInv, PacedInv, NEW w \in CONN_THREADS, StartRead(w)
    PROVE  PacedInv'
<1>1. PICK c \in Clients : serving[w] = c
  BY DEF StartRead, IInv, TypeOK
<1> DEFINE s == stream[c]
<1>2. s \in Seq(Part) /\ s # <<>>
  BY <1>1 DEF StartRead, IInv, TypeOK
<1>3. PICK m \in Nat, n \in Sizes : Pending(c, m) /\ Len(s) = n /\ Starts(s, m, n, n)
  BY <1>2 DEF PacedInv, InSocket
<1>4. n \in Nat \ {0} /\ n <= BUFFER_SIZE /\ BUFFER_SIZE \in Nat
  BY IngestAssumption DEF PacedFit
<1>5. (IF Len(s) < BUFFER_SIZE THEN Len(s) ELSE BUFFER_SIZE) = n
  BY <1>3, <1>4
<1>6. /\ copying' = [copying EXCEPT ![w] = [i \in 1..n |-> [at |-> i, cell |-> s[i]]]]
      /\ stream' = [stream EXCEPT ![c] = SubSeq(s, n + 1, Len(s))]
      /\ UNCHANGED <<backlog, fds, serving, closed, sent, buf, read_queue, parsing, got, rows>>
  BY <1>1, <1>5 DEF StartRead, connVars, clientVars, parseVars
<1>7. SubSeq(s, n + 1, Len(s)) = <<>>
  BY <1>2, <1>3, <1>4
<1>8. stream'[c] = <<>> /\ \A d \in Clients \ {c} : stream'[d] = stream[d]
  BY <1>6, <1>7 DEF IInv, TypeOK
<1>9. /\ copying'[w] = [i \in 1..n |-> [at |-> i, cell |-> s[i]]]
      /\ \A v \in CONN_THREADS \ {w} : copying'[v] = copying[v]
  BY <1>6 DEF IInv, TypeOK
<1>10. \A d : StillPending(d)
  BY <1>6, SamePending
<1>11. Copied(w, c, m, n, 0)'
  <2>1. serving'[w] = c /\ stream'[c] = <<>> /\ Pending(c, m)'
    BY <1>1, <1>3, <1>6, <1>8, <1>10 DEF StillPending
  <2>2. Len(copying'[w]) = n
    BY <1>4, <1>9
  <2>3. \A i \in 1..n : copying'[w][i] = [at |-> i, cell |-> PartOf(m, n, i)]
    BY <1>3, <1>9 DEF Starts
  <2>4. \A i \in 1..n : 0 + i = i
    BY <1>4
  <2>5. Starts(buf'[w], m, n, 0)
    BY DEF Starts
  <2>. QED  BY <1>4, <2>1, <2>2, <2>3, <2>4, <2>5 DEF Copied
<1> HIDE DEF s
<1>12. \A v \in CONN_THREADS : Reading(v) \/ Pushed(v) => v # w /\ SameSource(v)
  <2>1. \A v \in CONN_THREADS : Reading(v) \/ Pushed(v) =>
            serving[v] # c /\ serving[v] \in Clients
    BY <1>2 DEF PacedInv, InBuffer, InCopy, Copied, Parsing, s
  <2>. QED  BY <1>1, <1>6, <1>8, <1>10, <2>1 DEF SameSource
<1>13. \A d \in Clients : stream'[d] # <<>> => InSocket(d)'
  BY <1>8, <1>10, SocketFrame DEF PacedInv
<1>14. ASSUME NEW v \in CONN_THREADS, Reading(v)' PROVE InCopy(v)'
  <2>1. CASE v = w
    BY <1>11, <2>1 DEF InCopy
  <2>2. CASE v # w
    <3>1. Reading(v) /\ InCopy(v)
      BY <1>9, <1>14, <2>2 DEF Reading, PacedInv
    <3>. QED  BY <1>6, <1>9, <1>12, <2>2, <3>1, CopyFrame
  <2>. QED  BY <2>1, <2>2
<1>15. ASSUME NEW v \in CONN_THREADS, Pushed(v)' PROVE InBuffer(v)'
  <2>1. Pushed(v) /\ InBuffer(v)
    BY <1>6, <1>15 DEF Pushed, PacedInv
  <2>. QED  BY <1>6, <1>9, <1>12, <2>1, BufferFrame
<1>16. PushedOnce' /\ WholeRows'
  BY <1>6 DEF PacedInv, PushedOnce, WholeRows, NoDoubleRow
<1>17. ClosedSettled'
  BY <1>6 DEF PacedInv, ClosedSettled, Connected, Settled, Parsed
<1>. QED
  BY <1>13, <1>14, <1>15, <1>16, <1>17 DEF PacedInv

\* What read() has yet to copy.
LEMMA CopyingFacts ==
    ASSUME IInv, NEW w \in CONN_THREADS, Reading(w)
    PROVE  /\ 1 \in 1..Len(copying[w]) /\ Head(copying[w]) = copying[w][1]
           /\ Head(copying[w]).at \in 1..BUFFER_SIZE
           /\ Len(copying[w]) \in Nat /\ Len(Tail(copying[w])) = Len(copying[w]) - 1
           /\ DOMAIN copying[w] = 1..Len(copying[w])
           /\ \A i \in 1..Len(Tail(copying[w])) :
                  i + 1 \in 1..Len(copying[w]) /\ Tail(copying[w])[i] = copying[w][i + 1]
<1> DEFINE C == [at : 1..BUFFER_SIZE, cell : Part]
<1>1. copying[w] \in Seq(C)
  BY DEF IInv, TypeOK
<1>2. \A x \in C : x.at \in 1..BUFFER_SIZE
  OBVIOUS
<1> HIDE DEF C
<1>3. PICK s \in Seq(C) : s = copying[w]
  BY <1>1
<1>4. s # <<>>
  BY <1>3 DEF Reading
<1>5. /\ Head(s) \in C /\ Head(s) = s[1] /\ 1 \in DOMAIN s
      /\ Tail(s) \in Seq(C) /\ Len(Tail(s)) = Len(s) - 1 /\ Len(s) \in Nat
      /\ \A i \in DOMAIN Tail(s) : i + 1 \in DOMAIN s /\ Tail(s)[i] = s[i + 1]
  BY <1>4, TailFacts
<1>6. DOMAIN s = 1..Len(s) /\ DOMAIN Tail(s) = 1..Len(Tail(s))
  BY <1>5
<1>. QED
  BY <1>2, <1>3, <1>5, <1>6

\* One more part is in the buffer.
LEMMA StorePart ==
    ASSUME IInv, NEW w \in CONN_THREADS, Reading(w), Store(w), NEW m \in Nat, NEW n \in Sizes,
           NEW c \in Clients, NEW k \in Nat, Copied(w, c, m, n, k)
    PROVE  Starts(buf'[w], m, n, k + 1)
<1>1. copying[w][1] = [at |-> k + 1, cell |-> PartOf(m, n, k + 1)]
  BY CopyingFacts DEF Copied
<1>2. Head(copying[w]).at = k + 1 /\ Head(copying[w]).cell = PartOf(m, n, k + 1)
  BY <1>1, CopyingFacts
<1>3. buf' = [buf EXCEPT ![w][k + 1] = PartOf(m, n, k + 1)]
  BY <1>2 DEF Store
<1>4. k + 1 \in 1..BUFFER_SIZE
  BY <1>2, CopyingFacts
<1>5. buf'[w] = [buf[w] EXCEPT ![k + 1] = PartOf(m, n, k + 1)]
  BY <1>3 DEF IInv, TypeOK
<1>6. buf[w] \in [1..BUFFER_SIZE -> Cell]
  BY DEF IInv, TypeOK
<1>7. \A i \in 1..(k + 1) : buf'[w][i] = IF i = k + 1 THEN PartOf(m, n, k + 1) ELSE buf[w][i]
  <2>1. \A i \in 1..(k + 1) : i \in 1..BUFFER_SIZE
    BY <1>4, IngestAssumption
  <2>. QED  BY <1>5, <1>6, <2>1
<1>8. \A i \in 1..(k + 1) : i # k + 1 => i \in 1..k
  OBVIOUS
<1>. QED
  BY <1>7, <1>8 DEF Copied, Starts

\* The other workers while one of them copies.
LEMMA OtherWorkers ==
    ASSUME IInv, PacedInv, NEW w \in CONN_THREADS, Reading(w), Store(w),
           NEW rest, copying' = [copying EXCEPT ![w] = rest],
           UNCHANGED <<serving, stream, sent, rows>>
    PROVE  /\ ~Pushed(w)
           /\ \A v \in CONN_THREADS \ {w} : buf'[v] = buf[v] /\ copying'[v] = copying[v]
           /\ \A v \in CONN_THREADS : SameSource(v)
           /\ \A v \in CONN_THREADS \ {w} : Reading(v)' => InCopy(v)'
           /\ \A d \in Clients : stream'[d] # <<>> => InSocket(d)'
<1>1. ~Pushed(w)
  BY DEF PacedInv, InBuffer, Parsing, Reading
<1>2. \A v \in CONN_THREADS \ {w} : buf'[v] = buf[v] /\ copying'[v] = copying[v]
  BY DEF Store, IInv, TypeOK
<1>3. \A d : StillPending(d)
  BY SamePending
<1>4. \A v \in CONN_THREADS : SameSource(v)
  BY <1>3 DEF SameSource
<1>5. ASSUME NEW v \in CONN_THREADS \ {w}, Reading(v)' PROVE InCopy(v)'
  <2>1. InCopy(v)
    BY <1>2, <1>5 DEF Reading, PacedInv
  <2>. QED  BY <1>2, <1>4, <2>1, CopyFrame
<1>6. \A d \in Clients : stream'[d] # <<>> => InSocket(d)'
  BY <1>3, SocketFrame DEF PacedInv
<1>. QED
  BY <1>1, <1>2, <1>4, <1>5, <1>6

LEMMA PacedCopyPart ==
    ASSUME IInv, PacedInv, NEW w \in CONN_THREADS, CopyPart(w) PROVE PacedInv'
<1>1. /\ Len(copying[w]) > 1 /\ Store(w)
      /\ copying' = [copying EXCEPT ![w] = Tail(copying[w])]
      /\ UNCHANGED <<backlog, fds, serving, stream, closed, sent, read_queue, parsing, got, rows>>
  BY DEF CopyPart, connVars, clientVars, parseVars
<1>2. Reading(w)
  <2>1. Len(copying[w]) # 0
    BY <1>1
  <2>. QED  BY <2>1 DEF Reading
<1>3. PICK rest : rest = Tail(copying[w])
  OBVIOUS
<1>4. copying' = [copying EXCEPT ![w] = rest]
  BY <1>1, <1>3
<1>5. /\ ~Pushed(w)
      /\ \A v \in CONN_THREADS \ {w} : buf'[v] = buf[v] /\ copying'[v] = copying[v]
      /\ \A v \in CONN_THREADS : SameSource(v)
      /\ \A v \in CONN_THREADS \ {w} : Reading(v)' => InCopy(v)'
      /\ \A d \in Clients : stream'[d] # <<>> => InSocket(d)'
  BY <1>1, <1>2, <1>4, OtherWorkers
<1>6. InCopy(w)'
  <2>1. PICK c \in Clients, m \in Nat, n \in Sizes, k \in Nat : Copied(w, c, m, n, k)
    BY <1>2 DEF PacedInv, InCopy
  <2>2. copying'[w] = Tail(copying[w])
    BY <1>1 DEF IInv, TypeOK
  <2>3. (k + 1) + Len(copying'[w]) = n
    <3>1. PICK j \in Nat : j = Len(copying[w]) /\ Len(Tail(copying[w])) = j - 1
      BY <1>2, CopyingFacts
    <3>2. k + j = n
      BY <2>1, <3>1 DEF Copied
    <3>3. Len(copying'[w]) = j - 1
      BY <2>2, <3>1
    <3>. QED  BY <3>2, <3>3
  <2>4. \A i \in 1..Len(copying'[w]) :
            copying'[w][i] = [at |-> (k + 1) + i, cell |-> PartOf(m, n, (k + 1) + i)]
    <3> SUFFICES ASSUME NEW i \in 1..Len(copying'[w])
                 PROVE  copying'[w][i] = [at |-> (k + 1) + i, cell |-> PartOf(m, n, (k + 1) + i)]
      OBVIOUS
    <3>1. i + 1 \in 1..Len(copying[w]) /\ copying'[w][i] = copying[w][i + 1]
      BY <1>2, <2>2, CopyingFacts
    <3>2. k + (i + 1) = (k + 1) + i
      BY <3>1
    <3>3. copying[w][i + 1] = [at |-> k + (i + 1), cell |-> PartOf(m, n, k + (i + 1))]
      BY <2>1, <3>1 DEF Copied
    <3>. QED  BY <3>1, <3>2, <3>3
  <2>5. Starts(buf'[w], m, n, k + 1)
    BY <1>1, <1>2, <2>1, StorePart
  <2>6. serving'[w] = c /\ stream'[c] = <<>> /\ Pending(c, m)' /\ k + 1 \in Nat
    BY <1>5, <2>1 DEF Copied, SameSource, StillPending
  <2>7. Copied(w, c, m, n, k + 1)'
    BY <2>3, <2>4, <2>5, <2>6 DEF Copied
  <2>. QED  BY <2>6, <2>7 DEF InCopy
<1>7. ASSUME NEW v \in CONN_THREADS, Pushed(v)' PROVE InBuffer(v)'
  <2>1. Pushed(v) /\ InBuffer(v) /\ v # w
    BY <1>1, <1>5, <1>7 DEF Pushed, PacedInv
  <2>. QED  BY <1>1, <1>5, <2>1, BufferFrame
<1>8. PushedOnce' /\ WholeRows'
  BY <1>1 DEF PacedInv, PushedOnce, WholeRows, NoDoubleRow
<1>9. ClosedSettled'
  BY <1>1 DEF PacedInv, ClosedSettled, Connected, Settled, Parsed
<1>. QED
  BY <1>5, <1>6, <1>7, <1>8, <1>9 DEF PacedInv

LEMMA PacedEndRead ==
    ASSUME IInv, PacedInv, NEW w \in CONN_THREADS, EndRead(w) PROVE PacedInv'
<1>1. /\ Len(copying[w]) = 1 /\ Store(w)
      /\ copying' = [copying EXCEPT ![w] = <<>>]
      /\ read_queue' = <<w>> \o read_queue
      /\ UNCHANGED <<backlog, fds, serving, stream, closed, sent, parsing, got, rows>>
  BY DEF EndRead, connVars, clientVars, parseVars
<1>2. Reading(w)
  <2>1. Len(copying[w]) # 0
    BY <1>1
  <2>. QED  BY <2>1 DEF Reading
<1>3. /\ ~Pushed(w)
      /\ \A v \in CONN_THREADS \ {w} : buf'[v] = buf[v] /\ copying'[v] = copying[v]
      /\ \A v \in CONN_THREADS : SameSource(v)
      /\ \A v \in CONN_THREADS \ {w} : Reading(v)' => InCopy(v)'
      /\ \A d \in Clients : stream'[d] # <<>> => InSocket(d)'
  BY <1>1, <1>2, OtherWorkers
<1>4. copying'[w] = <<>>
  BY <1>1 DEF IInv, TypeOK
<1>5. /\ read_queue'[1] = w /\ DOMAIN read_queue' \subseteq Int
      /\ \A i \in DOMAIN read_queue' \ {1} : /\ i - 1 \in DOMAIN read_queue
                                             /\ read_queue'[i] = read_queue[i - 1]
  <2>1. read_queue \in Seq(CONN_THREADS)
    BY DEF IInv, TypeOK
  <2>2. read_queue' \in Seq(CONN_THREADS)
    BY <1>1, <2>1, PushFacts
  <2>. QED  BY <1>1, <2>1, <2>2, PushFacts
<1>6. InBuffer(w)'
  <2>1. PICK c \in Clients, m \in Nat, n \in Sizes, k \in Nat : Copied(w, c, m, n, k)
    BY <1>2 DEF PacedInv, InCopy
  <2>2. k + 1 = n
    BY <1>1, <2>1 DEF Copied
  <2>3. Starts(buf'[w], m, n, n)
    BY <1>1, <1>2, <2>1, <2>2, StorePart
  <2>4. serving'[w] = c /\ stream'[c] = <<>> /\ Pending(c, m)'
    BY <1>3, <2>1 DEF Copied, SameSource, StillPending
  <2>5. \A r \in READ_THREADS : parsing'[r] # w
    BY <1>1, <1>3 DEF Pushed
  <2>6. Parsing(w, c, m, n)'
    BY <1>4, <2>3, <2>4, <2>5 DEF Parsing
  <2>. QED  BY <2>6 DEF InBuffer
<1>7. ASSUME NEW v \in CONN_THREADS, Reading(v)' PROVE InCopy(v)'
  BY <1>3, <1>4, <1>7 DEF Reading
<1>8. ASSUME NEW v \in CONN_THREADS, Pushed(v)' PROVE InBuffer(v)'
  <2>1. CASE v = w
    BY <1>6, <2>1
  <2>2. CASE v # w
    <3>1. Pushed(v) /\ InBuffer(v)
      BY <1>1, <1>5, <1>8, <2>2 DEF Pushed, PacedInv
    <3>. QED  BY <1>1, <1>3, <2>2, <3>1, BufferFrame
  <2>. QED  BY <2>1, <2>2
<1>9. PushedOnce'
  <2>1. \A i, j \in DOMAIN read_queue' : read_queue'[i] = read_queue'[j] => i = j
    BY <1>3, <1>5 DEF PacedInv, PushedOnce, Pushed
  <2>2. \A r \in READ_THREADS, i \in DOMAIN read_queue' : parsing[r] # read_queue'[i]
    BY <1>3, <1>5 DEF PacedInv, PushedOnce, Pushed
  <2>. QED  BY <1>1, <2>1, <2>2 DEF PacedInv, PushedOnce
<1>10. WholeRows' /\ ClosedSettled'
  BY <1>1 DEF PacedInv, ClosedSettled, Connected, WholeRows, NoDoubleRow, Settled, Parsed
<1>. QED
  BY <1>3, <1>7, <1>8, <1>9, <1>10 DEF PacedInv

-----------------------------------------------------------------------------
(* A message is parsed.                                                    *)

LEMMA WholeMessage ==
    ASSUME NEW m \in Nat, NEW n \in Nat \ {0}, NEW s \in Seq(Cell),
           Len(s) = n, Starts(s, m, n, n)
    PROVE  Intact(s) /\ s[1].msg = m
<1>1. s[1] = PartOf(m, n, 1) /\ DOMAIN s = 1..n /\ s # <<>>
  BY DEF Starts
<1>2. \A i \in 1..n : s[i] = PartOf(m, n, i)
  BY DEF Starts
<1>3. \A i \in 1..n : [PartOf(m, n, 1) EXCEPT !.part = i] = PartOf(m, n, i)
  BY DEF PartOf
<1>4. s[1].size = n /\ s[1].msg = m
  BY <1>1 DEF PartOf
<1>. QED
  BY <1>1, <1>2, <1>3, <1>4 DEF Intact

\* The parser is at the end of the message, or goes on.
LEMMA ParserFacts ==
    ASSUME PacedFit, IInv, PacedInv, NEW r \in READ_THREADS, parsing[r] # None
    PROVE  \E c \in Clients, m \in Nat, n \in Nat \ {0} :
               /\ n \in Sizes /\ Parsing(parsing[r], c, m, n) /\ m # 0
               /\ Len(got[r]) <= n /\ Starts(got[r], m, n, Len(got[r]))
               /\ Done(got[r]) <=> Len(got[r]) = n
<1>1. parsing[r] \in CONN_THREADS /\ got[r] \in Seq(Cell)
  BY DEF IInv, TypeOK
<1>2. PICK c \in Clients, m \in Nat, n \in Sizes : Parsing(parsing[r], c, m, n)
  BY <1>1 DEF PacedInv, Pushed, InBuffer
<1>3. n \in Nat \ {0} /\ n <= BUFFER_SIZE /\ BUFFER_SIZE \in Nat
  BY IngestAssumption DEF PacedFit
<1>4. m # 0
  BY <1>2 DEF Parsing, Pending, IInv, TypeOK
<1>5. PICK s \in Seq(Cell) : s = got[r]
  BY <1>1
<1>6. Len(s) <= n /\ Starts(s, m, n, Len(s)) /\ Len(s) \in Nat
  BY <1>2, <1>5 DEF Parsing
<1>7. ASSUME s # <<>>
      PROVE  /\ s[1].part = 1
             /\ Last(s).part = Len(s) /\ Last(s).size = n /\ Last(s).msg = m
  <2>1. Len(s) \in 1..Len(s) /\ 1 \in 1..Len(s)
    BY <1>6, <1>7
  <2>2. s[1] = PartOf(m, n, 1) /\ Last(s) = PartOf(m, n, Len(s))
    BY <1>6, <2>1 DEF Starts, Last
  <2>. QED  BY <2>2 DEF PartOf
<1>8. Done(s) => Len(s) = n
  BY <1>3, <1>6, <1>7 DEF Done, Closed, NoObject
<1>9. Len(s) = n => Done(s)
  <2> SUFFICES ASSUME Len(s) = n PROVE Done(s)
    OBVIOUS
  <2>1. s # <<>>
    BY <1>3
  <2>2. Last(s) # Junk
    BY <1>4, <1>7, <2>1 DEF Junk
  <2>. QED  BY <1>7, <2>1, <2>2 DEF Done, Closed
<1>. QED
  BY <1>2, <1>3, <1>4, <1>5, <1>6, <1>8, <1>9

LEMMA PacedTakeBuffer ==
    ASSUME IInv, PacedInv, NEW r \in READ_THREADS, TakeBuffer(r) PROVE PacedInv'
<1>1. /\ parsing[r] = None /\ read_queue # <<>>
      /\ parsing' = [parsing EXCEPT ![r] = Head(read_queue)]
      /\ read_queue' = Tail(read_queue)
      /\ UNCHANGED <<backlog, fds, serving, stream, closed, sent, copying, buf, got, rows>>
  BY DEF TakeBuffer, connVars, clientVars, bufVars
<1>2. /\ Head(read_queue) = read_queue[1] /\ 1 \in DOMAIN read_queue
      /\ DOMAIN read_queue' \subseteq Int
      /\ \A i \in DOMAIN read_queue' : /\ i + 1 \in DOMAIN read_queue /\ i + 1 # 1
                                       /\ read_queue'[i] = read_queue[i + 1]
  <2>1. read_queue \in Seq(CONN_THREADS)
    BY DEF IInv, TypeOK
  <2>. QED  BY <1>1, <2>1, TailFacts
<1>3. /\ parsing'[r] = read_queue[1]
      /\ \A q \in READ_THREADS \ {r} : parsing'[q] = parsing[q]
  BY <1>1, <1>2 DEF IInv, TypeOK
<1>4. got[r] = <<>>
  BY <1>1 DEF IInv, WithinBuffer
<1>5. (\A d : StillPending(d)) /\ \A w \in CONN_THREADS : SameSource(w)
  BY <1>1, SamePending DEF SameSource
<1>6. \A d \in Clients : stream'[d] # <<>> => InSocket(d)'
  BY <1>1, <1>5, SocketFrame DEF PacedInv
<1>7. ASSUME NEW w \in CONN_THREADS, Reading(w)' PROVE InCopy(w)'
  <2>1. InCopy(w)
    BY <1>1, <1>7 DEF Reading, PacedInv
  <2>. QED  BY <1>1, <1>5, <2>1, CopyFrame
<1>8. ASSUME NEW w \in CONN_THREADS, Pushed(w)' PROVE InBuffer(w)'
  <2>1. Pushed(w) /\ InBuffer(w)
    BY <1>2, <1>3, <1>8 DEF Pushed, PacedInv
  <2>2. \A q \in READ_THREADS : parsing'[q] = w =>
            got'[q] = <<>> \/ (parsing[q] = w /\ got'[q] = got[q])
    BY <1>1, <1>3, <1>4
  <2>. QED  BY <1>1, <1>5, <2>1, <2>2, BufferFrame
<1>9. PushedOnce'
  <2>1. \A i, j \in DOMAIN read_queue' : read_queue'[i] = read_queue'[j] => i = j
    BY <1>2 DEF PacedInv, PushedOnce
  <2>2. \A p, q \in READ_THREADS : parsing'[p] = parsing'[q] /\ parsing'[q] # None => p = q
    BY <1>2, <1>3 DEF PacedInv, PushedOnce
  <2>3. \A q \in READ_THREADS, i \in DOMAIN read_queue' : parsing'[q] # read_queue'[i]
    BY <1>2, <1>3 DEF PacedInv, PushedOnce
  <2>. QED  BY <2>1, <2>2, <2>3 DEF PushedOnce
<1>10. WholeRows' /\ ClosedSettled'
  BY <1>1 DEF PacedInv, ClosedSettled, Connected, WholeRows, NoDoubleRow, Settled, Parsed
<1>. QED
  BY <1>6, <1>7, <1>8, <1>9, <1>10 DEF PacedInv

LEMMA PacedParseCell ==
    ASSUME PacedFit, IInv, PacedInv, NEW r \in READ_THREADS, ParseCell(r) PROVE PacedInv'
<1>1. PICK w \in CONN_THREADS : w = parsing[r]
  BY DEF ParseCell, IInv, TypeOK
<1>2. w # None
  BY IngestAssumption
<1>3. /\ ~Done(got[r])
      /\ got' = [got EXCEPT ![r] = Append(got[r], buf[w][Len(got[r]) + 1])]
      /\ UNCHANGED <<backlog, fds, serving, stream, closed, sent, copying, buf, read_queue, parsing, rows>>
  BY <1>1 DEF ParseCell, connVars, clientVars, bufVars
<1>4. (\A d : StillPending(d)) /\ \A v \in CONN_THREADS : SameSource(v)
  BY <1>3, SamePending DEF SameSource
<1>5. \A q \in READ_THREADS \ {r} : got'[q] = got[q] /\ parsing[q] # w
  BY <1>1, <1>2, <1>3 DEF PacedInv, PushedOnce, IInv, TypeOK
<1>6. InBuffer(w)'
  <2>1. PICK c \in Clients, m \in Nat, n \in Nat \ {0} :
            /\ n \in Sizes /\ Parsing(w, c, m, n)
            /\ Len(got[r]) <= n /\ Starts(got[r], m, n, Len(got[r]))
            /\ Done(got[r]) <=> Len(got[r]) = n
    BY <1>1, <1>2, ParserFacts
  <2>2. PICK s \in Seq(Cell) : s = got[r]
    BY DEF IInv, TypeOK
  <2>3. Len(s) + 1 \in 1..n /\ Len(s) \in Nat
    BY <1>3, <2>1, <2>2
  <2>4. buf[w][Len(s) + 1] = PartOf(m, n, Len(s) + 1)
    BY <2>1, <2>3 DEF Parsing, Starts
  <2>5. got'[r] = Append(s, PartOf(m, n, Len(s) + 1))
    BY <1>3, <2>2, <2>4 DEF IInv, TypeOK
  <2>6. /\ Len(got'[r]) = Len(s) + 1
        /\ \A i \in 1..(Len(s) + 1) : got'[r][i] = IF i = Len(s) + 1 THEN PartOf(m, n, i) ELSE s[i]
    BY <2>3, <2>5
  <2>7. \A i \in 1..(Len(s) + 1) : i # Len(s) + 1 => s[i] = PartOf(m, n, i)
    BY <2>1, <2>2, <2>3 DEF Starts
  <2>8. Len(got'[r]) <= n /\ Starts(got'[r], m, n, Len(got'[r]))
    BY <2>3, <2>6, <2>7 DEF Starts
  <2>9. Pending(c, m)'
    BY <1>4, <2>1 DEF StillPending, Parsing
  <2>10. Parsing(w, c, m, n)'
    BY <1>3, <1>5, <2>1, <2>8, <2>9 DEF Parsing
  <2>. QED  BY <2>1, <2>10 DEF InBuffer
<1>7. \A d \in Clients : stream'[d] # <<>> => InSocket(d)'
  BY <1>3, <1>4, SocketFrame DEF PacedInv
<1>8. ASSUME NEW v \in CONN_THREADS, Reading(v)' PROVE InCopy(v)'
  <2>1. InCopy(v)
    BY <1>3, <1>8 DEF Reading, PacedInv
  <2>. QED  BY <1>3, <1>4, <2>1, CopyFrame
<1>9. ASSUME NEW v \in CONN_THREADS, Pushed(v)' PROVE InBuffer(v)'
  <2>1. CASE v = w
    BY <1>6, <2>1
  <2>2. CASE v # w
    <3>1. Pushed(v) /\ InBuffer(v)
      BY <1>3, <1>9 DEF Pushed, PacedInv
    <3>2. \A q \in READ_THREADS : parsing'[q] = v => parsing[q] = v /\ got'[q] = got[q]
      BY <1>1, <1>3, <1>5, <2>2
    <3>. QED  BY <1>3, <1>4, <3>1, <3>2, BufferFrame
  <2>. QED  BY <2>1, <2>2
<1>10. PushedOnce' /\ WholeRows' /\ ClosedSettled'
  BY <1>3 DEF PacedInv, ClosedSettled, Connected, PushedOnce, WholeRows, NoDoubleRow, Settled, Parsed
<1>. QED
  BY <1>7, <1>8, <1>9, <1>10 DEF PacedInv

\* A paced client's message is never refused.
LEMMA PacedRefuse ==
    ASSUME PacedFit, IInv, PacedInv, NEW r \in READ_THREADS, Refuse(r) PROVE FALSE
<1>1. parsing[r] # None /\ Done(got[r]) /\ ~Intact(got[r])
  BY DEF Refuse
<1>2. PICK c \in Clients, m \in Nat, n \in Nat \ {0} :
          Len(got[r]) = n /\ Starts(got[r], m, n, Len(got[r]))
  BY <1>1, ParserFacts
<1>3. got[r] \in Seq(Cell)
  BY DEF IInv, TypeOK
<1>. QED
  BY <1>1, <1>2, <1>3, WholeMessage

LEMMA PacedPushRow ==
    ASSUME PacedFit, IInv, PacedInv, NEW r \in READ_THREADS, PushRow(r) PROVE PacedInv'
<1>1. PICK w \in CONN_THREADS : w = parsing[r]
  BY DEF PushRow, IInv, TypeOK
<1>2. w # None
  BY IngestAssumption
<1>3. /\ Done(got[r]) /\ rows' = Append(rows, got[r])
      /\ parsing' = [parsing EXCEPT ![r] = None] /\ got' = [got EXCEPT ![r] = <<>>]
      /\ UNCHANGED <<backlog, fds, serving, stream, closed, sent, copying, buf, read_queue>>
  BY DEF PushRow, Release, Done, connVars, clientVars, bufVars
<1>4. PICK c \in Clients, m \in Nat, n \in Nat \ {0} :
          /\ Parsing(w, c, m, n) /\ Len(got[r]) = n /\ Starts(got[r], m, n, n)
  BY <1>1, <1>2, <1>3, ParserFacts
<1>5. PICK s \in Seq(Cell) : s = got[r]
  BY DEF IInv, TypeOK
<1>6. Intact(s) /\ s[1].msg = m
  BY <1>4, <1>5, WholeMessage
<1>7. /\ serving[w] = c /\ stream[c] = <<>> /\ copying[w] = <<>>
      /\ m \in DOMAIN sent /\ sent[m] = c /\ ~Parsed(m)
  BY <1>4 DEF Parsing, Pending
<1>8. /\ DOMAIN rows = 1..Len(rows) /\ DOMAIN rows' = 1..(Len(rows) + 1) /\ Len(rows) \in Nat
      /\ rows'[Len(rows) + 1] = s /\ \A k \in DOMAIN rows : rows'[k] = rows[k]
  BY <1>3, <1>5 DEF IInv, TypeOK
<1>9. \A k \in DOMAIN rows' : k \in DOMAIN rows \/ (k = Len(rows) + 1 /\ rows'[k] = s)
  BY <1>8
<1>10. \A j : Parsed(j)' <=> Parsed(j) \/ j = m
  BY <1>6, <1>8, <1>9 DEF Parsed
<1>11. \A d \in Clients \ {c} : StillPending(d)
  BY <1>3, <1>7, <1>10 DEF StillPending, Pending
<1>12. /\ parsing'[r] = None /\ got'[r] = <<>>
       /\ \A q \in READ_THREADS \ {r} :
              parsing'[q] = parsing[q] /\ got'[q] = got[q] /\ parsing[q] # w
  BY <1>1, <1>2, <1>3 DEF PacedInv, PushedOnce, IInv, TypeOK
<1>13. \A d \in Clients : stream'[d] # <<>> => InSocket(d)'
  BY <1>3, <1>7, <1>11, SocketFrame DEF PacedInv
<1>14. \A v \in CONN_THREADS \ {w} : serving[v] \in Clients => SameSource(v)
  BY <1>3, <1>7, <1>11, OneServer DEF SameSource
<1>15. ASSUME NEW v \in CONN_THREADS, Reading(v)' PROVE InCopy(v)'
  <2>1. v # w /\ InCopy(v)
    BY <1>3, <1>7, <1>15 DEF Reading, PacedInv
  <2>2. serving[v] \in Clients
    BY <2>1 DEF InCopy, Copied
  <2>. QED  BY <1>3, <1>14, <2>1, <2>2, CopyFrame
<1>16. ASSUME NEW v \in CONN_THREADS, Pushed(v)' PROVE InBuffer(v)'
  <2>1. v # w
    BY <1>1, <1>2, <1>3, <1>12, <1>16 DEF Pushed, PacedInv, PushedOnce
  <2>2. Pushed(v) /\ InBuffer(v)
    BY <1>3, <1>12, <1>16, IngestAssumption DEF Pushed, PacedInv
  <2>3. serving[v] \in Clients
    BY <2>2 DEF InBuffer, Parsing
  <2>4. \A q \in READ_THREADS : parsing'[q] = v => parsing[q] = v /\ got'[q] = got[q]
    BY <1>12, IngestAssumption
  <2>. QED  BY <1>3, <1>14, <2>1, <2>2, <2>3, <2>4, BufferFrame
<1>17. PushedOnce'
  <2>1. \A p, q \in READ_THREADS : parsing'[p] = parsing'[q] /\ parsing'[q] # None => p = q
    BY <1>12 DEF PacedInv, PushedOnce
  <2>2. \A i \in DOMAIN read_queue : read_queue[i] # None
    BY IngestAssumption DEF IInv, TypeOK
  <2>3. \A q \in READ_THREADS, i \in DOMAIN read_queue : parsing'[q] # read_queue[i]
    BY <1>12, <2>2 DEF PacedInv, PushedOnce
  <2>. QED  BY <1>3, <2>1, <2>3 DEF PacedInv, PushedOnce
<1>18. WholeRows'
  <2>1. \A k \in DOMAIN rows' : Intact(rows'[k]) /\ rows'[k][1].msg \in DOMAIN sent'
    BY <1>3, <1>6, <1>7, <1>8, <1>9 DEF PacedInv, WholeRows
  <2>2. \A k \in DOMAIN rows : rows[k][1].msg # m
    BY <1>7 DEF PacedInv, WholeRows, Parsed
  <2>3. NoDoubleRow'
    BY <1>6, <1>8, <1>9, <2>2 DEF PacedInv, WholeRows, NoDoubleRow
  <2>. QED  BY <2>1, <2>3 DEF WholeRows
<1>19. ClosedSettled'
  BY <1>3, <1>10 DEF PacedInv, ClosedSettled, Connected, Settled
<1>. QED
  BY <1>13, <1>15, <1>16, <1>17, <1>18, <1>19 DEF PacedInv

-----------------------------------------------------------------------------
(* Nothing is left behind.                                                 *)

\* A worker is between the read() of a message of c and the end of its parse,
\* or c's socket holds something.
Underway(c) == \/ stream[c] # <<>>
               \/ \E w \in CONN_THREADS : serving[w] = c /\ (Reading(w) \/ Pushed(w))

\* A client whose connection is not closed has one message pending at most, and
\* that is on its way.
Present == \A c \in Clients \ closed :
    /\ \A m, n \in DOMAIN sent : Pending(c, m) /\ Pending(c, n) => m = n
    /\ \A m \in DOMAIN sent : Pending(c, m) => Underway(c)

LEMMA PresentFrame ==
    ASSUME Present, UNCHANGED <<sent, rows>>, closed \subseteq closed',
           \A c \in Clients : Underway(c) => Underway(c)'
    PROVE  Present'
BY DEF Present, Pending, Parsed

LEMMA PresentInit == Init => Present
BY DEF Init, Present, Pending

LEMMA PresentQuiet ==
    ASSUME Present, closed \subseteq closed',
           UNCHANGED <<stream, sent, copying, read_queue, parsing, rows>>,
           \A w \in CONN_THREADS : Reading(w) \/ Pushed(w) => serving'[w] = serving[w]
    PROVE  Present'
<1>1. ASSUME NEW c \in Clients, Underway(c) PROVE Underway(c)'
  BY <1>1 DEF Underway, Reading, Pushed
<1>. QED
  BY <1>1, PresentFrame

LEMMA PresentServe ==
    ASSUME IInv, PacedInv, Present, NEW w \in CONN_THREADS, Serve(w) PROVE Present'
<1>1. /\ serving[w] = None
      /\ \A v \in CONN_THREADS : v # w => serving'[v] = serving[v]
      /\ UNCHANGED <<stream, closed, sent, copying, read_queue, parsing, rows>>
  BY DEF Serve, clientVars, bufVars, parseVars, IInv, TypeOK
<1>2. \A v \in CONN_THREADS : Reading(v) \/ Pushed(v) => serving[v] # None
  BY IngestAssumption DEF PacedInv, InCopy, InBuffer, Copied, Parsing
<1>. QED
  BY <1>1, <1>2, PresentQuiet

LEMMA PresentEndOfFile ==
    ASSUME IInv, PacedInv, Present, NEW w \in CONN_THREADS, EndOfFile(w) PROVE Present'
<1>1. /\ \A v \in CONN_THREADS : v # w => serving'[v] = serving[v]
      /\ UNCHANGED <<stream, closed, sent, copying, read_queue, parsing, rows>>
  BY DEF EndOfFile, clientVars, bufVars, parseVars, IInv, TypeOK
<1>. QED
  BY <1>1, EndOfFileIdle, PresentQuiet

LEMMA PresentSend ==
    ASSUME PacedFit, IInv, Present, NEW c \in Clients, NEW n \in Sizes, Send(c, n)
    PROVE  Present'
<1>1. PICK m \in Nat : m = Len(sent) + 1
  BY DEF IInv, TypeOK
<1>2. n \in Nat \ {0}
  BY IngestAssumption
<1> DEFINE new == [i \in 1..n |-> PartOf(m, n, i)]
<1>3. /\ sent' = Append(sent, c) /\ Settled(c)
      /\ stream' = [stream EXCEPT ![c] = stream[c] \o new]
      /\ UNCHANGED <<serving, closed, copying, read_queue, parsing, rows>>
  BY <1>1 DEF Send, PacedFit, PartOf, bufVars, parseVars
<1>4. stream'[c] # <<>> /\ \A d \in Clients \ {c} : stream'[d] = stream[d]
  <2>1. new \in Seq({PartOf(m, n, i) : i \in 1..n}) /\ Len(new) = n
    BY <1>2
  <2> HIDE DEF new
  <2>2. stream'[c] = stream[c] \o new /\ Len(stream[c]) \in Nat
    BY <1>3 DEF IInv, TypeOK
  <2>3. PICK s \in Seq(Part) : s = stream[c]
    BY DEF IInv, TypeOK
  <2>4. Len(s \o new) # 0
    BY <1>2, <2>1, <2>3
  <2>. QED  BY <1>3, <2>2, <2>3, <2>4 DEF IInv, TypeOK
<1> HIDE DEF new
<1>5. /\ DOMAIN sent' = DOMAIN sent \cup {m} /\ m \notin DOMAIN sent
      /\ sent'[m] = c /\ \A j \in DOMAIN sent : sent'[j] = sent[j]
  BY <1>1, <1>3 DEF IInv, TypeOK
<1>6. \A j \in DOMAIN sent' : Pending(c, j)' => j = m
  BY <1>3, <1>5 DEF Pending, Settled, Parsed
<1>7. ASSUME NEW d \in Clients, d # c, NEW j \in DOMAIN sent', Pending(d, j)'
      PROVE  j \in DOMAIN sent /\ Pending(d, j)
  BY <1>3, <1>5, <1>7 DEF Pending, Parsed
<1>8. \A d \in Clients \ {c} : Underway(d) => Underway(d)'
  BY <1>3, <1>4 DEF Underway, Reading, Pushed
<1>9. Underway(c)'
  BY <1>4 DEF Underway
<1>. QED
  BY <1>3, <1>6, <1>7, <1>8, <1>9 DEF Present

LEMMA PresentStartRead ==
    ASSUME IInv, Present, NEW w \in CONN_THREADS, StartRead(w) PROVE Present'
<1>1. PICK c \in Clients : serving[w] = c
  BY DEF StartRead, IInv, TypeOK
<1>2. /\ \A d \in Clients \ {c} : stream'[d] = stream[d]
      /\ UNCHANGED <<serving, closed, sent, read_queue, parsing, rows>>
  BY <1>1 DEF StartRead, clientVars, parseVars, IInv, TypeOK
<1>3. Reading(w)' /\ \A v \in CONN_THREADS : Reading(v) => Reading(v)'
  <2>1. PICK n \in Nat \ {0} :
            copying' = [copying EXCEPT ![w] = [i \in 1..n |-> [at |-> i, cell |-> stream[c][i]]]]
    <3>1. Len(stream[c]) \in Nat
      BY DEF IInv, TypeOK
    <3>2. PICK n : /\ n = IF Len(stream[c]) < BUFFER_SIZE THEN Len(stream[c]) ELSE BUFFER_SIZE
                   /\ n > 0
                   /\ copying' = [copying EXCEPT ![w] =
                                     [i \in 1..n |-> [at |-> i, cell |-> stream[c][i]]]]
      BY <1>1 DEF StartRead
    <3>3. n \in Nat \ {0}
      BY <3>1, <3>2, IngestAssumption
    <3>. QED  BY <3>2, <3>3
  <2>2. copying'[w] = [i \in 1..n |-> [at |-> i, cell |-> stream[c][i]]]
    BY <2>1 DEF IInv, TypeOK
  <2>3. DOMAIN copying'[w] = 1..n /\ 1 \in 1..n
    BY <2>2
  <2>4. \A v \in CONN_THREADS \ {w} : copying'[v] = copying[v]
    BY <2>1 DEF IInv, TypeOK
  <2>. QED  BY <2>3, <2>4 DEF Reading
<1>4. ASSUME NEW d \in Clients, Underway(d) PROVE Underway(d)'
  <2>1. CASE d = c
    BY <1>1, <1>2, <1>3, <2>1 DEF Underway
  <2>2. CASE d # c
    BY <1>2, <1>3, <1>4, <2>2 DEF Underway, Pushed
  <2>. QED  BY <2>1, <2>2
<1>. QED
  BY <1>2, <1>4, PresentFrame

LEMMA PresentCopy ==
    ASSUME IInv, Present, NEW w \in CONN_THREADS, CopyPart(w) \/ EndRead(w) PROVE Present'
<1>1. UNCHANGED <<serving, stream, closed, sent, parsing, rows>>
  BY DEF CopyPart, EndRead, clientVars, parseVars
<1>2. \A v \in CONN_THREADS \ {w} : copying'[v] = copying[v]
  BY DEF CopyPart, EndRead, IInv, TypeOK
<1>3. \A v \in CONN_THREADS : Pushed(v) => Pushed(v)'
  <2>1. CASE read_queue' = read_queue
    BY <1>1, <2>1 DEF Pushed
  <2>2. CASE read_queue' = <<w>> \o read_queue
    <3>1. read_queue \in Seq(CONN_THREADS)
      BY DEF IInv, TypeOK
    <3>2. \A i \in DOMAIN read_queue :
              i + 1 \in DOMAIN read_queue' /\ read_queue'[i + 1] = read_queue[i]
      BY <2>2, <3>1
    <3>. QED  BY <1>1, <3>2 DEF Pushed
  <2>. QED  BY <2>1, <2>2 DEF CopyPart, EndRead
<1>4. Reading(w)' \/ Pushed(w)'
  <2>1. CASE CopyPart(w)
    <3>1. Reading(w) /\ copying'[w] = Tail(copying[w]) /\ Len(copying[w]) > 1
      BY <2>1 DEF CopyPart, IInv, TypeOK, Reading
    <3>2. PICK k \in Nat : k = Len(copying[w]) /\ Len(Tail(copying[w])) = k - 1
      BY <3>1, CopyingFacts
    <3>3. PICK rest : rest = Tail(copying[w])
      OBVIOUS
    <3>4. k > 1 /\ Len(rest) = k - 1
      BY <3>1, <3>2, <3>3
    <3>5. rest # <<>>
      BY <3>4
    <3>. QED  BY <3>1, <3>3, <3>5 DEF Reading
  <2>2. CASE EndRead(w)
    <3>1. read_queue' = <<w>> \o read_queue /\ read_queue \in Seq(CONN_THREADS)
      BY <2>2 DEF EndRead, IInv, TypeOK
    <3>2. 1 \in DOMAIN read_queue' /\ read_queue'[1] = w
      BY <3>1
    <3>. QED  BY <3>2 DEF Pushed
  <2>. QED  BY <2>1, <2>2
<1>5. ASSUME NEW d \in Clients, Underway(d) PROVE Underway(d)'
  BY <1>1, <1>2, <1>3, <1>4, <1>5 DEF Underway, Reading
<1>. QED
  BY <1>1, <1>5, PresentFrame

LEMMA PresentTakeBuffer ==
    ASSUME IInv, Present, NEW r \in READ_THREADS, TakeBuffer(r) PROVE Present'
<1>1. /\ parsing[r] = None /\ read_queue # <<>>
      /\ parsing' = [parsing EXCEPT ![r] = Head(read_queue)]
      /\ read_queue' = Tail(read_queue)
      /\ UNCHANGED <<serving, stream, closed, sent, copying, rows>>
  BY DEF TakeBuffer, clientVars, bufVars
<1>2. PICK s \in Seq(CONN_THREADS) : s = read_queue
  BY DEF IInv, TypeOK
<1>3. \A i \in DOMAIN s : \/ s[i] = Head(s)
                          \/ i - 1 \in DOMAIN Tail(s) /\ Tail(s)[i - 1] = s[i]
  BY <1>1, <1>2
<1>4. parsing'[r] = Head(s) /\ \A q \in READ_THREADS \ {r} : parsing'[q] = parsing[q]
  BY <1>1, <1>2 DEF IInv, TypeOK
<1>5. ASSUME NEW v \in CONN_THREADS, Pushed(v) PROVE Pushed(v)'
  BY <1>1, <1>2, <1>3, <1>4, <1>5, IngestAssumption DEF Pushed
<1>6. ASSUME NEW d \in Clients, Underway(d) PROVE Underway(d)'
  BY <1>1, <1>5, <1>6 DEF Underway, Reading
<1>. QED
  BY <1>1, <1>6, PresentFrame

LEMMA PresentPushRow ==
    ASSUME PacedFit, IInv, PacedInv, Present, NEW r \in READ_THREADS, PushRow(r)
    PROVE  Present'
<1>1. PICK w \in CONN_THREADS : w = parsing[r]
  BY DEF PushRow, IInv, TypeOK
<1>2. w # None
  BY IngestAssumption
<1>3. /\ Done(got[r]) /\ rows' = Append(rows, got[r])
      /\ parsing' = [parsing EXCEPT ![r] = None]
      /\ UNCHANGED <<serving, stream, closed, sent, copying, read_queue>>
  BY DEF PushRow, Release, Done, clientVars, bufVars
<1>4. PICK c \in Clients, m \in Nat, n \in Nat \ {0} :
          /\ Parsing(w, c, m, n) /\ Len(got[r]) = n /\ Starts(got[r], m, n, n)
  BY <1>1, <1>2, <1>3, ParserFacts
<1>5. PICK s \in Seq(Cell) : s = got[r]
  BY DEF IInv, TypeOK
<1>6. Intact(s) /\ s[1].msg = m
  BY <1>4, <1>5, WholeMessage
<1>7. serving[w] = c /\ Pending(c, m)
  BY <1>4 DEF Parsing
<1>8. /\ Parsed(m)' /\ \A j : Parsed(j) => Parsed(j)'
  <2>1. /\ DOMAIN rows' = 1..(Len(rows) + 1) /\ Len(rows) \in Nat /\ DOMAIN rows = 1..Len(rows)
        /\ rows'[Len(rows) + 1] = s /\ \A k \in DOMAIN rows : rows'[k] = rows[k]
    BY <1>3, <1>5 DEF IInv, TypeOK
  <2>. QED  BY <1>6, <2>1 DEF Parsed
<1>9. \A d, j : Pending(d, j)' => Pending(d, j) /\ j # m
  BY <1>3, <1>8 DEF Pending
<1>10. ASSUME c \notin closed', NEW j \in DOMAIN sent', Pending(c, j)' PROVE FALSE
  BY <1>3, <1>7, <1>9, <1>10 DEF Present, Pending
<1>11. ASSUME NEW d \in Clients, d # c, Underway(d) PROVE Underway(d)'
  <2>1. \A v \in CONN_THREADS \ {w} : Pushed(v) => Pushed(v)'
    BY <1>1, <1>3 DEF Pushed, IInv, TypeOK
  <2>. QED  BY <1>3, <1>7, <1>11, <2>1 DEF Underway, Reading
<1>. QED
  BY <1>3, <1>9, <1>10, <1>11 DEF Present

LEMMA PresentNext ==
    ASSUME PacedFit PROVE IInv /\ PacedInv /\ Present /\ [Next]_vars => Present'
<1> SUFFICES ASSUME IInv, PacedInv, Present, [Next]_vars PROVE Present'
  OBVIOUS
<1>1. CASE UNCHANGED vars
  BY <1>1, PresentQuiet DEF vars, connVars, clientVars, bufVars, parseVars
<1>2. ASSUME NEW c \in Clients, ClientStep(c) PROVE Present'
  <2>1. CASE Connect(c) \/ Close(c)
    BY <2>1, PresentQuiet DEF Connect, Close, clientVars, bufVars, parseVars
  <2>. QED  BY <1>2, <2>1, PresentSend DEF ClientStep
<1>3. CASE Accept
  BY <1>3, PresentQuiet DEF Accept, clientVars, bufVars, parseVars
<1>4. CASE AcceptFails
  BY <1>1, <1>4 DEF AcceptFails
<1>5. ASSUME NEW w \in CONN_THREADS, ConnStep(w) PROVE Present'
  BY <1>5, PresentServe, PresentStartRead, PresentCopy, PresentEndOfFile DEF ConnStep
<1>6. ASSUME NEW r \in READ_THREADS, ReadStep(r) \/ PushRow(r) PROVE Present'
  <2>1. CASE ParseCell(r)
    BY <2>1, PresentQuiet DEF ParseCell, clientVars, bufVars
  <2>. QED  BY <1>6, <2>1, PresentTakeBuffer, PacedRefuse, PresentPushRow DEF ReadStep
<1>. QED
  BY <1>1, <1>2, <1>3, <1>4, <1>5, <1>6 DEF Next, Receive

\* Whoever has sent something is connected, or closed; a socket holds something
\* of a connected client only.
SentConnected == \A c \in Clients :
    stream[c] # <<>> \/ (c \notin closed /\ \E m \in DOMAIN sent : sent[m] = c) => Connected(c)

\* Connections stay, accepted or not, and only who has one closes it.
LEMMA ConnectionsStay ==
    IInv /\ [Next]_vars => /\ \A c \in Clients : Connected(c) => Connected(c)'
                           /\ \A c \in closed' : c \in closed \/ Connected(c)
                           /\ closed \subseteq closed'
<1> SUFFICES ASSUME IInv, [Next]_vars
             PROVE  /\ \A c \in Clients : Connected(c) => Connected(c)'
                    /\ \A c \in closed' : c \in closed \/ Connected(c)
                    /\ closed \subseteq closed'
  OBVIOUS
<1>1. CASE UNCHANGED <<backlog, fds, closed>>
  BY <1>1 DEF Connected
<1>2. ASSUME NEW c \in Clients, Connect(c)
      PROVE  UNCHANGED <<fds, closed>> /\ ToSet(backlog) \subseteq ToSet(backlog')
  <2>1. backlog' = Append(backlog, c) /\ backlog \in Seq(Clients)
    BY <1>2 DEF Connect, IInv, TypeOK
  <2>. QED  BY <1>2, <2>1 DEF Connect, clientVars, ToSet
<1>3. ASSUME Accept
      PROVE  closed' = closed /\ \A c \in Clients : Connected(c) => Connected(c)'
  <2>1. PICK q \in Seq(Clients) : q = backlog
    BY DEF IInv, TypeOK
  <2>2. q # <<>> /\ backlog' = Tail(q) /\ fds' = fds \cup {Head(q)} /\ closed' = closed
    BY <1>3, <2>1 DEF Accept, clientVars
  <2>3. \A i \in DOMAIN q : q[i] = Head(q) \/ (i - 1 \in DOMAIN Tail(q) /\ Tail(q)[i - 1] = q[i])
    BY <2>2
  <2>4. ToSet(backlog) \subseteq ToSet(backlog') \cup {Head(q)}
    BY <2>1, <2>2, <2>3 DEF ToSet
  <2>. QED  BY <2>2, <2>4 DEF Connected
<1>4. ASSUME NEW c \in Clients, Close(c)
      PROVE  UNCHANGED <<backlog, fds>> /\ closed' = closed \cup {c} /\ Connected(c)
  BY <1>4 DEF Close, connVars
<1>5. ASSUME NEW c \in Clients, NEW n \in Sizes, Send(c, n)
      PROVE  UNCHANGED <<backlog, fds, closed>>
  BY <1>5 DEF Send, connVars
<1>6. ASSUME NEW w \in CONN_THREADS, ConnStep(w) PROVE UNCHANGED <<backlog, fds, closed>>
  BY <1>6 DEF ConnStep, Serve, StartRead, CopyPart, EndRead, EndOfFile, connVars, clientVars
<1>7. ASSUME NEW r \in READ_THREADS, ReadStep(r) \/ PushRow(r)
      PROVE  UNCHANGED <<backlog, fds, closed>>
  BY <1>7 DEF ReadStep, TakeBuffer, ParseCell, Refuse, PushRow, connVars, clientVars
<1>8. AcceptFails \/ UNCHANGED vars => UNCHANGED <<backlog, fds, closed>>
  BY DEF AcceptFails, vars, connVars, clientVars
<1>. QED
  BY <1>1, <1>2, <1>3, <1>4, <1>5, <1>6, <1>7, <1>8 DEF Next, Receive, ClientStep, Connected

LEMMA SentConnectedInit == Init => SentConnected
BY DEF Init, SentConnected

LEMMA SentConnectedNext == IInv /\ SentConnected /\ [Next]_vars => SentConnected'
<1> SUFFICES ASSUME IInv, SentConnected, [Next]_vars PROVE SentConnected'
  OBVIOUS
<1>1. /\ \A c \in Clients : Connected(c) => Connected(c)'
      /\ closed \subseteq closed'
  BY ConnectionsStay
<1>2. ASSUME sent' = sent, \A c \in Clients : stream'[c] # <<>> => stream[c] # <<>>
      PROVE  SentConnected'
  BY <1>1, <1>2 DEF SentConnected
<1>3. ASSUME NEW c \in Clients, NEW n \in Sizes, Send(c, n) PROVE SentConnected'
  <2>1. /\ Connected(c) /\ sent' = Append(sent, c) /\ sent \in Seq(Clients)
        /\ \A d \in Clients \ {c} : stream'[d] = stream[d]
    BY <1>3 DEF Send, IInv, TypeOK
  <2>2. \A m \in DOMAIN sent' : sent'[m] = c \/ (m \in DOMAIN sent /\ sent'[m] = sent[m])
    BY <2>1
  <2>. QED  BY <1>1, <2>1, <2>2 DEF SentConnected
<1>4. ASSUME NEW w \in CONN_THREADS, StartRead(w) PROVE SentConnected'
  <2>1. PICK c \in Clients : serving[w] = c
    BY <1>4 DEF StartRead, IInv, TypeOK
  <2>2. stream[c] # <<>>
    <3>1. stream[c] = <<>> => Len(stream[c]) = 0
      OBVIOUS
    <3>. QED  BY <1>4, <2>1, <3>1, IngestAssumption DEF StartRead
  <2>3. sent' = sent /\ \A d \in Clients \ {c} : stream'[d] = stream[d]
    BY <1>4, <2>1 DEF StartRead, clientVars, IInv, TypeOK
  <2>. QED  BY <1>2, <2>2, <2>3
<1>5. ASSUME UNCHANGED <<stream, sent>> PROVE SentConnected'
  BY <1>2, <1>5
<1>6. ASSUME NEW c \in Clients, Connect(c) \/ Close(c) PROVE UNCHANGED <<stream, sent>>
  BY <1>6 DEF Connect, Close, clientVars
<1>7. ASSUME NEW w \in CONN_THREADS, ConnStep(w), ~StartRead(w) PROVE UNCHANGED <<stream, sent>>
  BY <1>7 DEF ConnStep, Serve, CopyPart, EndRead, EndOfFile, clientVars
<1>8. ASSUME NEW r \in READ_THREADS, ReadStep(r) \/ PushRow(r) PROVE UNCHANGED <<stream, sent>>
  BY <1>8 DEF ReadStep, TakeBuffer, ParseCell, Refuse, PushRow, clientVars
<1>9. Accept \/ AcceptFails \/ UNCHANGED vars => UNCHANGED <<stream, sent>>
  BY DEF Accept, AcceptFails, vars, clientVars
<1>. QED
  BY <1>3, <1>4, <1>5, <1>6, <1>7, <1>8, <1>9 DEF Next, Receive, ClientStep

\* A paced client closes when all it has sent is a row, and what is sent is
\* sent by a client that has not closed.
LEMMA ClientsWait ==
    PacedFit /\ IInv /\ [Next]_vars =>
        /\ \A c \in closed' \ closed : Settled(c)
        /\ \/ sent' = sent
           \/ closed' = closed /\ \E c \in Clients \ closed : sent' = Append(sent, c)
<1> SUFFICES ASSUME PacedFit, IInv, [Next]_vars
             PROVE  /\ \A c \in closed' \ closed : Settled(c)
                    /\ \/ sent' = sent
                       \/ closed' = closed /\ \E c \in Clients \ closed : sent' = Append(sent, c)
  OBVIOUS
<1>1. ASSUME NEW c \in Clients, Connect(c) PROVE UNCHANGED clientVars
  BY <1>1 DEF Connect
<1>2. ASSUME NEW c \in Clients, Close(c)
      PROVE  closed' = closed \cup {c} /\ Settled(c) /\ sent' = sent
  BY <1>2 DEF Close, PacedFit
<1>3. ASSUME NEW c \in Clients, NEW n \in Sizes, Send(c, n)
      PROVE  closed' = closed /\ c \notin closed /\ sent' = Append(sent, c)
  BY <1>3 DEF Send
<1>4. ASSUME NEW w \in CONN_THREADS, ConnStep(w) PROVE UNCHANGED clientVars
  BY <1>4 DEF ConnStep, Serve, StartRead, CopyPart, EndRead, EndOfFile
<1>5. ASSUME NEW r \in READ_THREADS, ReadStep(r) \/ PushRow(r) PROVE UNCHANGED clientVars
  BY <1>5 DEF ReadStep, TakeBuffer, ParseCell, Refuse, PushRow
<1>6. Accept \/ AcceptFails \/ UNCHANGED vars => UNCHANGED clientVars
  BY DEF Accept, AcceptFails, vars
<1>. QED
  BY <1>1, <1>2, <1>3, <1>4, <1>5, <1>6 DEF Next, Receive, ClientStep, clientVars

LEMMA ArrivingIs ==
    \A m : Arriving(m) <=>
        \/ \E c \in Clients : \E i \in DOMAIN stream[c] : stream[c][i].msg = m
        \/ \E w \in CONN_THREADS : \/ \E i \in DOMAIN copying[w] : copying[w][i].cell.msg = m
                                   \/ buf[w][1].msg = m /\ Pushed(w)
BY DEF Arriving, Pushed, ToSet

\* The message of a connected client is on its way ...
LEMMA WhereItIs ==
    ASSUME PacedFit, IInv, PacedInv, Present, NEW m \in DOMAIN sent, ~Parsed(m),
           sent[m] \notin closed
    PROVE  Arriving(m)
<1>0. PICK c \in Clients : c = sent[m] /\ Pending(c, m) /\ c \notin closed
  BY DEF Pending, IInv, TypeOK
<1>1. \A j \in Nat : Pending(c, j) => j = m
  BY <1>0 DEF Present, Pending
<1>2. \A n \in Sizes : n \in Nat \ {0} /\ n \in 1..BUFFER_SIZE
  BY IngestAssumption DEF PacedFit
<1>3. \A n, i : PartOf(m, n, i).msg = m
  BY DEF PartOf
<1>4. CASE stream[c] # <<>>
  <2>1. PICK n \in Sizes : Len(stream[c]) = n /\ Starts(stream[c], m, n, n)
    BY <1>1, <1>4 DEF PacedInv, InSocket
  <2>2. 1 \in 1..n /\ DOMAIN stream[c] = 1..n
    BY <1>2, <2>1 DEF IInv, TypeOK
  <2>. QED  BY <1>3, <2>1, <2>2, ArrivingIs DEF Starts
<1>5. ASSUME NEW w \in CONN_THREADS, serving[w] = c, Reading(w)
      PROVE  Arriving(m)
  <2>0. PICK d \in Clients, j \in Nat, n \in Sizes, k \in Nat : Copied(w, d, j, n, k)
    BY <1>5 DEF PacedInv, InCopy
  <2>1. Copied(w, c, m, n, k)
    <3>1. d = c /\ Pending(c, j)
      BY <1>5, <2>0 DEF Copied
    <3>. QED  BY <1>1, <2>0, <3>1
  <2>2. 1 \in 1..Len(copying[w]) /\ 1 \in DOMAIN copying[w]
    BY <1>5, CopyingFacts
  <2>3. copying[w][1] = [at |-> k + 1, cell |-> PartOf(m, n, k + 1)]
    BY <2>1, <2>2 DEF Copied
  <2>. QED  BY <1>3, <2>2, <2>3, ArrivingIs
<1>6. ASSUME NEW w \in CONN_THREADS, serving[w] = c, Pushed(w)
      PROVE  Arriving(m)
  <2>1. PICK n \in Sizes : Parsing(w, c, m, n)
    BY <1>1, <1>6 DEF PacedInv, InBuffer, Parsing
  <2>2. 1 \in 1..n
    BY <1>2
  <2>3. buf[w][1].msg = m
    BY <1>3, <2>1, <2>2 DEF Parsing, Starts
  <2>. QED  BY <1>6, <2>3, ArrivingIs
<1>. QED
  BY <1>0, <1>4, <1>5, <1>6 DEF Present, Underway

\* ... and no other one is.
LEMMA NothingElse ==
    ASSUME IInv, PacedInv, SentConnected, NEW m \in DOMAIN sent, ~Parsed(m), Arriving(m)
    PROVE  sent[m] \notin closed
<1>1. \A n \in Sizes : n \in Nat \ {0}
  BY IngestAssumption
<1>2. \A j, n, i : PartOf(j, n, i).msg = j
  BY DEF PartOf
<1>3. ASSUME NEW c \in Clients, Pending(c, m), Connected(c) PROVE c \notin closed /\ sent[m] = c
  BY <1>3 DEF PacedInv, ClosedSettled, Settled, Pending
<1>4. ASSUME NEW c \in Clients, NEW i \in DOMAIN stream[c], stream[c][i].msg = m
      PROVE  sent[m] \notin closed
  <2>1. stream[c] # <<>>
    BY <1>4
  <2>2. PICK j \in Nat, n \in Sizes :
            Pending(c, j) /\ Len(stream[c]) = n /\ Starts(stream[c], j, n, n)
    BY <2>1 DEF PacedInv, InSocket
  <2>3. i \in 1..n
    BY <1>1, <2>2 DEF IInv, TypeOK
  <2>4. j = m
    BY <1>2, <1>4, <2>2, <2>3 DEF Starts
  <2>. QED  BY <1>3, <2>1, <2>2, <2>4 DEF SentConnected
<1>5. ASSUME NEW w \in CONN_THREADS, serving[w] \in Clients PROVE Connected(serving[w])
  BY <1>5, IngestAssumption DEF IInv, TypeOK, Connected
<1>6. ASSUME NEW w \in CONN_THREADS, NEW i \in DOMAIN copying[w], copying[w][i].cell.msg = m
      PROVE  sent[m] \notin closed
  <2>1. Reading(w)
    BY <1>6 DEF Reading
  <2>2. PICK c \in Clients, j \in Nat, n \in Sizes, k \in Nat : Copied(w, c, j, n, k)
    BY <2>1 DEF PacedInv, InCopy
  <2>3. i \in 1..Len(copying[w])
    BY <1>6 DEF IInv, TypeOK
  <2>4. copying[w][i] = [at |-> k + i, cell |-> PartOf(j, n, k + i)]
    BY <2>2, <2>3 DEF Copied
  <2>5. j = m
    BY <1>2, <1>6, <2>4
  <2>. QED  BY <1>3, <1>5, <2>2, <2>5 DEF Copied
<1>7. ASSUME NEW w \in CONN_THREADS, buf[w][1].msg = m, Pushed(w)
      PROVE  sent[m] \notin closed
  <2>1. PICK c \in Clients, j \in Nat, n \in Sizes : Parsing(w, c, j, n)
    BY <1>7 DEF PacedInv, InBuffer
  <2>2. 1 \in 1..n
    BY <1>1
  <2>3. j = m
    BY <1>2, <1>7, <2>1, <2>2 DEF Parsing, Starts
  <2>. QED  BY <1>3, <1>5, <2>1, <2>3 DEF Parsing
<1>. QED
  BY <1>4, <1>6, <1>7, ArrivingIs

\* A row is pushed of a message that was on its way until then.
LEMMA PushedRow ==
    ASSUME PacedFit, IInv, PacedInv, NEW r \in READ_THREADS, PushRow(r)
    PROVE  \E m \in DOMAIN sent : /\ Intact(got[r]) /\ got[r][1].msg = m
                                 /\ ~Parsed(m) /\ Arriving(m)
<1>1. PICK w \in CONN_THREADS : w = parsing[r]
  BY DEF PushRow, IInv, TypeOK
<1>2. w # None /\ Done(got[r])
  BY IngestAssumption DEF PushRow, Done
<1>3. PICK c \in Clients, m \in Nat, n \in Nat \ {0} :
          /\ Parsing(w, c, m, n) /\ Len(got[r]) = n /\ Starts(got[r], m, n, n)
  BY <1>1, <1>2, ParserFacts
<1>4. PICK s \in Seq(Cell) : s = got[r]
  BY DEF IInv, TypeOK
<1>5. Intact(s) /\ s[1].msg = m
  BY <1>3, <1>4, WholeMessage
<1>6. 1 \in 1..n
  OBVIOUS
<1>7. buf[w][1].msg = m
  <2>1. buf[w][1] = PartOf(m, n, 1)
    BY <1>3, <1>6 DEF Parsing, Starts
  <2>. QED  BY <2>1 DEF PartOf
<1>8. Pushed(w)
  BY <1>1 DEF Pushed
<1>. QED
  BY <1>3, <1>4, <1>5, <1>7, <1>8, ArrivingIs DEF Parsing, Pending

-----------------------------------------------------------------------------
(* The process terminates, and starts with nothing in memory.              *)

\* No row without a read.
LEMMA RowsBelowReads ==
    ASSUME IInv PROVE reads \in Nat /\ Len(rows) \in Nat /\ Len(rows) <= reads
<1>1. /\ Len(rows) \in Nat /\ dropped \in Nat /\ Len(read_queue) \in Nat /\ reads \in Nat
      /\ Len(rows) + dropped + Len(read_queue) + Cardinality(Parsers) + Cardinality(Readers)
           = reads
  BY ReadsAccountedIs DEF IInv, TypeOK
<1>. QED
  BY <1>1, ThreadCounts

LEMMA EmptiedInv == ASSUME IInv, LoseMemory PROVE IInv'
<1>1. TypeOK'
  <2>1. Junk \in Cell
    BY DEF Cell
  <2>2. fds' \subseteq Clients /\ Cardinality(fds') <= MaxFds /\ conn_queue' \in Seq(fds')
    BY FS_EmptySet, IngestAssumption DEF LoseMemory
  <2>3. /\ backlog' \in Seq(Clients) /\ Len(backlog') <= MAXIMUM_CONNECTIONS
        /\ closed' \subseteq Clients
        /\ sent' \in Seq(Clients) /\ Len(sent') <= MaxMessages
    BY IngestAssumption DEF LoseMemory, IInv, TypeOK
  <2>4. /\ serving' \in [CONN_THREADS -> fds' \cup {None}]
        /\ stream' \in [Clients -> Seq(Part)]
        /\ copying' \in [CONN_THREADS -> Seq([at : 1..BUFFER_SIZE, cell : Part])]
        /\ buf' \in [CONN_THREADS -> [1..BUFFER_SIZE -> Cell]]
    BY <2>1 DEF LoseMemory
  <2>5. /\ reads' \in Nat /\ read_queue' \in Seq(CONN_THREADS)
        /\ parsing' \in [READ_THREADS -> CONN_THREADS \cup {None}]
        /\ got' \in [READ_THREADS -> Seq(Cell)]
        /\ rows' \in Seq(Seq(Cell))
    BY DEF LoseMemory, IInv, TypeOK
  <2>6. dropped' \in Nat
    <3>1. reads \in Nat /\ Len(rows) \in Nat /\ Len(rows) <= reads
      BY RowsBelowReads
    <3>. QED  BY <3>1 DEF LoseMemory
  <2>. QED  BY <2>2, <2>3, <2>4, <2>5, <2>6 DEF TypeOK
<1>2. IsFiniteSet(fds')
  BY FS_EmptySet DEF LoseMemory
<1>3. Owners' /\ WithinBuffer'
  BY IngestAssumption DEF LoseMemory, Owners, WithinBuffer
<1>4. ReadsAccounted'
  <2>1. Parsers' = {} /\ Readers' = {}
    BY DEF LoseMemory, Parsers, Readers, Reading
  <2>2. /\ Len(rows) \in Nat /\ reads \in Nat
        /\ Len(rows') = Len(rows) /\ dropped' = reads - Len(rows) /\ reads' = reads
        /\ Len(read_queue') = 0 /\ Cardinality({}) = 0
    BY FS_EmptySet DEF LoseMemory, IInv, TypeOK
  <2>3. Len(rows') + dropped' + Len(read_queue') + Cardinality({}) + Cardinality({}) = reads'
    BY <2>2
  <2>4. Len(rows') + dropped' + Len(read_queue') + Cardinality(Parsers') + Cardinality(Readers')
          = reads'
    BY <2>1, <2>3
  <2>. QED  BY <2>4 DEF ReadsAccounted, Parsers, Readers
<1>. QED
  BY <1>1, <1>2, <1>3, <1>4 DEF IInv

LEMMA EmptiedPaced == ASSUME PacedInv, LoseMemory PROVE PacedInv'
<1>1. \A w \in CONN_THREADS : ~Pushed(w)'
  BY IngestAssumption DEF LoseMemory, Pushed
<1>2. PushedOnce' /\ WholeRows'
  BY DEF LoseMemory, PacedInv, PushedOnce, WholeRows, NoDoubleRow
<1>3. ClosedSettled'
  BY DEF LoseMemory, ClosedSettled, Connected, ToSet
<1>. QED
  BY <1>1, <1>2, <1>3 DEF LoseMemory, PacedInv, Reading

\* Who was connected is closed now, and the others have sent nothing.
LEMMA EmptiedPresent ==
    ASSUME SentConnected, LoseMemory PROVE Present' /\ SentConnected'
<1>1. \A c \in Clients \ closed' : ~\E m \in DOMAIN sent' : sent'[m] = c
  BY DEF LoseMemory, SentConnected
<1>. QED
  BY <1>1 DEF LoseMemory, Present, SentConnected, Pending

-----------------------------------------------------------------------------
(* The theorems.                                                           *)

LEMMA PacedNext ==
    ASSUME PacedFit PROVE IInv /\ PacedInv /\ [Next]_vars => PacedInv'
<1> SUFFICES ASSUME IInv, PacedInv, [Next]_vars PROVE PacedInv'
  OBVIOUS
<1>1. CASE UNCHANGED vars
  BY <1>1, QuietInv DEF vars, connVars, clientVars, bufVars, parseVars, PacedInv, ClosedSettled, Connected
<1>2. ASSUME NEW c \in Clients, ClientStep(c) PROVE PacedInv'
  BY <1>2, PacedConnect, PacedClose, PacedSend DEF ClientStep
<1>3. CASE Accept
  BY <1>3, PacedAccept
<1>4. CASE AcceptFails
  BY <1>1, <1>4 DEF AcceptFails
<1>5. ASSUME NEW w \in CONN_THREADS, ConnStep(w) PROVE PacedInv'
  BY <1>5, PacedServe, PacedStartRead, PacedCopyPart, PacedEndRead, PacedEndOfFile DEF ConnStep
<1>6. ASSUME NEW r \in READ_THREADS, ReadStep(r) \/ PushRow(r) PROVE PacedInv'
  BY <1>6, PacedTakeBuffer, PacedParseCell, PacedRefuse, PacedPushRow DEF ReadStep
<1>. QED
  BY <1>1, <1>2, <1>3, <1>4, <1>5, <1>6 DEF Next, Receive

LEMMA PacedInvariance == ASSUME PacedFit PROVE Spec => []PacedInv
BY InitInv, NextInv, PacedInit, PacedNext, PTL DEF Spec

\* IntactRows, of clients that wait for an answer: although a worker parses a
\* buffer that its owner goes on using, no row is pieced together.
THEOREM RowsWhole == ASSUME PacedFit PROVE Spec => []IntactRows
<1>1. PacedInv => IntactRows
  BY DEF PacedInv, WholeRows, IntactRows
<1>. QED
  BY <1>1, PacedInvariance, PTL

\* NoDoubleRow, of the same clients: a buffer is parsed once for a message.
THEOREM RowsSingle == ASSUME PacedFit PROVE Spec => []NoDoubleRow
<1>1. PacedInv => NoDoubleRow
  BY DEF PacedInv, WholeRows
<1>. QED
  BY <1>1, PacedInvariance, PTL

-----------------------------------------------------------------------------
(* The load on the stages between the halves.                              *)

LEMMA SameCount ==
    ASSUME NEW S, IsFiniteSet(S), NEW T, NEW f \in [S -> T],
           \A x, y \in S : f[x] = f[y] => x = y,
           \A z \in T : \E x \in S : f[x] = z
    PROVE  IsFiniteSet(T) /\ Cardinality(T) = Cardinality(S)
<1>1. f \in Bijection(S, T)
  BY DEF Bijection, Injection, Surjection, IsInjective
<1>2. ExistsBijection(S, T)
  BY <1>1 DEF ExistsBijection
<1>. QED
  BY <1>2, FS_Bijection

LEMMA DisjointCount ==
    ASSUME NEW S, NEW T, IsFiniteSet(S), IsFiniteSet(T), S \cap T = {}
    PROVE  IsFiniteSet(S \cup T) /\ Cardinality(S \cup T) = Cardinality(S) + Cardinality(T)
<1>1. Cardinality(S) \in Nat /\ Cardinality(T) \in Nat /\ Cardinality(S \cap T) = 0
  BY FS_CardinalityType, FS_EmptySet
<1>2. /\ IsFiniteSet(S \cup T)
      /\ Cardinality(S \cup T) = Cardinality(S) + Cardinality(T) - Cardinality(S \cap T)
  BY FS_Union
<1>. QED
  BY <1>1, <1>2

\* read_queue and the read workers owe a connection worker at most one buffer,
\* and none while it reads: the queue has no bound of its own and needs none.
OneBufferEach ==
    Len(read_queue) + Cardinality(Parsers) + Cardinality(Readers) <= Cardinality(CONN_THREADS)

LEMMA BufferCount == ASSUME IInv, PacedInv PROVE OneBufferEach
<1> DEFINE Q == {read_queue[i] : i \in DOMAIN read_queue}
           P == {parsing[r] : r \in Parsers}
<1>1. /\ read_queue \in Seq(CONN_THREADS) /\ DOMAIN read_queue = 1..Len(read_queue)
      /\ Len(read_queue) \in Nat
      /\ \A r \in Parsers : parsing[r] \in CONN_THREADS
  BY DEF IInv, TypeOK, Parsers
<1>2. /\ IsFiniteSet(1..Len(read_queue))
      /\ Cardinality(1..Len(read_queue)) = Len(read_queue)
  BY <1>1, FS_Interval
<1>3. IsFiniteSet(Q) /\ Cardinality(Q) = Len(read_queue)
  <2> DEFINE f == [i \in 1..Len(read_queue) |-> read_queue[i]]
  <2>1. f \in [1..Len(read_queue) -> Q]
    BY <1>1
  <2>2. \A i, j \in 1..Len(read_queue) : f[i] = f[j] => i = j
    BY <1>1 DEF PacedInv, PushedOnce
  <2>3. \A w \in Q : \E i \in 1..Len(read_queue) : f[i] = w
    BY <1>1
  <2> HIDE DEF f, Q
  <2>. QED  BY <1>2, <2>1, <2>2, <2>3, SameCount
<1>4. IsFiniteSet(P) /\ Cardinality(P) = Cardinality(Parsers)
  <2> DEFINE f == [r \in Parsers |-> parsing[r]]
  <2>1. IsFiniteSet(Parsers)
    BY ThreadCounts, FS_Subset DEF Parsers
  <2>2. f \in [Parsers -> P]
    OBVIOUS
  <2>3. \A q, r \in Parsers : f[q] = f[r] => q = r
    BY DEF Parsers, PacedInv, PushedOnce
  <2>4. \A w \in P : \E r \in Parsers : f[r] = w
    OBVIOUS
  <2> HIDE DEF f, P
  <2>. QED  BY <2>1, <2>2, <2>3, <2>4, SameCount
<1>5. IsFiniteSet(Readers) /\ Readers \subseteq CONN_THREADS
  BY ThreadCounts, FS_Subset DEF Readers
<1>6. Q \cap P = {}
  BY DEF Parsers, PacedInv, PushedOnce
<1>7. \A w \in Q \cup P : w \in CONN_THREADS /\ Pushed(w)
  BY <1>1 DEF Pushed, Parsers
<1>8. (Q \cup P) \cap Readers = {}
  <2> SUFFICES ASSUME NEW w \in CONN_THREADS, Pushed(w), Reading(w) PROVE FALSE
    BY <1>7 DEF Readers
  <2>. QED  BY DEF PacedInv, InBuffer, Parsing, Reading
<1>9. (Q \cup P) \cup Readers \subseteq CONN_THREADS
  BY <1>5, <1>7
<1> HIDE DEF Q, P
<1>10. /\ IsFiniteSet((Q \cup P) \cup Readers)
       /\ Cardinality((Q \cup P) \cup Readers)
            = (Cardinality(Q) + Cardinality(P)) + Cardinality(Readers)
  <2>1. IsFiniteSet(Q \cup P) /\ Cardinality(Q \cup P) = Cardinality(Q) + Cardinality(P)
    BY <1>3, <1>4, <1>6, DisjointCount
  <2>. QED  BY <2>1, <1>5, <1>8, DisjointCount
<1>11. Cardinality((Q \cup P) \cup Readers) <= Cardinality(CONN_THREADS)
  BY <1>9, ThreadCounts, FS_Subset
<1>. QED
  BY <1>3, <1>4, <1>10, <1>11 DEF OneBufferEach

\* ... so that the memory it takes is bounded by the number of workers.
THEOREM QueueBounded == ASSUME PacedFit PROVE Spec => []OneBufferEach
<1>1. IInv /\ PacedInv => OneBufferEach
  BY BufferCount
<1>. QED
  BY <1>1, Invariance, PacedInvariance, PTL
-----------------------------------------------------------------------------
(* Relay: with a saving half that does what Delivery says, and terminates  *)
(* the process now and then.                                               *)

States == {"new", "held", "stored", "lost"}

\* Whatever is a row has been accepted.
RowsAccepted == \A k \in DOMAIN rows : k \in 1..MaxRows /\ status[k] \in {"held", "stored", "lost"}

LossAfterCrash == ~crashed => \A k \in 1..MaxRows : status[k] # "lost"

RelayInv == IInv /\ RowsAccepted /\ LossAfterCrash

\* Until rows may be lost, nobody but the client closes a connection.
PacedRelayInv == /\ PacedInv /\ Present /\ SentConnected
                 /\ ~crashed => \A c \in closed : Connected(c)

LEMMA ReceiveKeepsRows == Receive => rows' = rows
BY DEF Receive, ClientStep, Connect, Close, Send, Accept, AcceptFails, ConnStep, Serve,
       StartRead, CopyPart, EndRead, EndOfFile, ReadStep, TakeBuffer, ParseCell, Refuse,
       parseVars, vars

\* The rows T, which were held, are stored or lost.
RowsGo(T, s) ==
    /\ \A k \in T : status[k] = "held"
    /\ \A k \in 1..MaxRows : status'[k] = IF k \in T THEN s ELSE status[k]
    /\ IF s = "lost" THEN crashed' = TRUE ELSE crashed' = crashed

\* What a step of Relay is: each moves statuses in one way.
LEMMA RelaySteps ==
    ASSUME [RelayNext]_relayVars
    PROVE  \/ Receive /\ rows' = rows /\ UNCHANGED <<status, crashed>>
           \/ \E r \in READ_THREADS : /\ PushRow(r) /\ crashed' = crashed
                                      /\ rows' = Append(rows, got[r])
                                      /\ Len(rows) + 1 \in 1..MaxRows
                                      /\ \A k \in 1..MaxRows : status'[k] =
                                            IF k = Len(rows) + 1 THEN "held" ELSE status[k]
           \/ \E T \in SUBSET (1..MaxRows), s \in {"stored", "lost"} :
                  RowsGo(T, s) /\ (UNCHANGED vars \/ (LoseMemory /\ s = "lost"))
           \/ UNCHANGED relayVars
<1>1. CASE Receive /\ UNCHANGED <<status, crashed>>
  BY <1>1, ReceiveKeepsRows
<1>2. ASSUME NEW r \in READ_THREADS, PushRow(r), NEW k \in 1..MaxRows,
             k = Len(rows) + 1, D!Accept(k)
      PROVE  /\ rows' = Append(rows, got[r]) /\ crashed' = crashed
             /\ \A j \in 1..MaxRows : status'[j] = IF j = k THEN "held" ELSE status[j]
  BY <1>2 DEF PushRow, D!Accept, D!Become
<1>3. ASSUME NEW T \in SUBSET D!InState("held")
      PROVE  /\ T \in SUBSET (1..MaxRows)
             /\ D!Store(T) => RowsGo(T, "stored")
             /\ D!Lose(T) => RowsGo(T, "lost")
  <2>1. T \in SUBSET (1..MaxRows) /\ \A k \in T : status[k] = "held"
    BY DEF D!InState
  <2>. QED  BY <2>1 DEF RowsGo, D!Store, D!Lose, D!Become
<1>. QED
  BY <1>1, <1>2, <1>3 DEF RelayNext

LEMMA RelayInitInv == RelayInit => RelayInv
<1>1. RelayInit => rows = <<>>
  BY DEF RelayInit, Init
<1>. QED
  BY <1>1, InitInv DEF RelayInit, D!Init, RelayInv, RowsAccepted, LossAfterCrash

LEMMA RelayNextInv == RelayInv /\ [RelayNext]_relayVars => RelayInv'
<1> SUFFICES ASSUME RelayInv, [RelayNext]_relayVars PROVE RelayInv'
  OBVIOUS
<1>1. CASE Receive /\ rows' = rows /\ UNCHANGED <<status, crashed>>
  BY <1>1, NextInv DEF Next, RelayInv, RowsAccepted, LossAfterCrash
<1>2. ASSUME NEW r \in READ_THREADS, PushRow(r), crashed' = crashed, rows' = Append(rows, got[r]),
             Len(rows) + 1 \in 1..MaxRows,
             \A k \in 1..MaxRows : status'[k] = IF k = Len(rows) + 1 THEN "held" ELSE status[k]
      PROVE  RelayInv'
  <2>1. IInv'
    BY <1>2, NextInv DEF Next, RelayInv
  <2>2. DOMAIN rows' = (DOMAIN rows) \cup {Len(rows) + 1}
    BY <1>2 DEF RelayInv, IInv, TypeOK
  <2>. QED  BY <1>2, <2>1, <2>2 DEF RelayInv, RowsAccepted, LossAfterCrash
<1>3. ASSUME NEW T \in SUBSET (1..MaxRows), NEW s \in {"stored", "lost"},
             RowsGo(T, s), UNCHANGED vars \/ (LoseMemory /\ s = "lost")
      PROVE  RelayInv'
  <2>1. IInv'
    BY <1>3, NextInv, EmptiedInv DEF RelayInv
  <2>2. rows' = rows
    BY <1>3 DEF LoseMemory, vars, parseVars
  <2>. QED  BY <1>3, <2>1, <2>2 DEF RelayInv, RowsAccepted, LossAfterCrash, RowsGo
<1>4. CASE UNCHANGED relayVars
  <2>1. UNCHANGED <<vars, rows, status, crashed>>
    BY <1>4 DEF relayVars, vars, parseVars
  <2>. QED  BY <2>1, NextInv DEF RelayInv, RowsAccepted, LossAfterCrash
<1>. QED
  BY <1>1, <1>2, <1>3, <1>4, RelaySteps

LEMMA RelayInitPaced == ASSUME PacedFit PROVE RelayInit => PacedRelayInv
<1> SUFFICES ASSUME RelayInit PROVE PacedRelayInv
  OBVIOUS
<1>1. closed = {}
  BY DEF RelayInit, Init
<1>. QED
  BY <1>1, PacedInit, PresentInit, SentConnectedInit DEF RelayInit, PacedRelayInv

LEMMA RelayNextPaced ==
    ASSUME PacedFit
    PROVE  RelayInv /\ PacedRelayInv /\ [RelayNext]_relayVars => PacedRelayInv'
<1> SUFFICES ASSUME RelayInv, PacedRelayInv, [RelayNext]_relayVars PROVE PacedRelayInv'
  OBVIOUS
<1>1. ASSUME [Next]_vars, crashed' = TRUE \/ crashed' = crashed PROVE PacedRelayInv'
  <2>1. PacedInv' /\ Present' /\ SentConnected'
    BY <1>1, PacedNext, PresentNext, SentConnectedNext DEF RelayInv, PacedRelayInv
  <2>2. /\ \A c \in Clients : Connected(c) => Connected(c)'
        /\ \A c \in closed' : c \in closed \/ Connected(c)
    BY <1>1, ConnectionsStay DEF RelayInv
  <2>3. closed' \subseteq Clients
    BY <1>1, NextInv DEF RelayInv, IInv, TypeOK
  <2>. QED  BY <1>1, <2>1, <2>2, <2>3 DEF PacedRelayInv
<1>2. CASE Receive /\ UNCHANGED <<status, crashed>>
  BY <1>1, <1>2 DEF Next
<1>3. ASSUME NEW r \in READ_THREADS, PushRow(r), crashed' = crashed PROVE PacedRelayInv'
  BY <1>1, <1>3 DEF Next
<1>4. CASE LoseMemory /\ crashed' = TRUE
  BY <1>4, EmptiedPaced, EmptiedPresent DEF PacedRelayInv
<1>5. CASE UNCHANGED vars /\ (crashed' = TRUE \/ crashed' = crashed)
  BY <1>1, <1>5
<1>6. CASE UNCHANGED relayVars
  BY <1>1, <1>6 DEF relayVars
<1>. QED
  BY <1>2, <1>3, <1>4, <1>5, <1>6, RelaySteps DEF RowsGo

LEMMA RelayInvariance == RelaySpec => []RelayInv
BY RelayInitInv, RelayNextInv, PTL DEF RelaySpec

LEMMA RelayPacedInvariance == ASSUME PacedFit PROVE RelaySpec => []PacedRelayInv
BY RelayInvariance, RelayInitPaced, RelayNextPaced, PTL DEF RelaySpec
-----------------------------------------------------------------------------
(* What they say of messages.  What has become of a message is what has    *)
(* become of the row that carries it, or, if there is none, of its         *)
(* connection.                                                             *)

\* A message that is no row yet is on its way, unless its connection is gone.
LEMMA Whereabouts ==
    ASSUME PacedFit, RelayInv, PacedRelayInv, NEW m \in DOMAIN sent, ~Parsed(m)
    PROVE  Arriving(m) <=> sent[m] \notin closed
BY WhereItIs, NothingElse DEF RelayInv, PacedRelayInv

LEMMA OneRowEach ==
    PacedInv => \A m : \A k \in CarriedBy(m) : m \in DOMAIN sent /\ CarriedBy(m) = {k}
<1> SUFFICES ASSUME PacedInv, NEW m, NEW k \in CarriedBy(m)
             PROVE  m \in DOMAIN sent /\ CarriedBy(m) = {k}
  OBVIOUS
<1>1. m \in DOMAIN sent
  BY DEF CarriedBy, PacedInv, WholeRows
<1>2. \A j \in CarriedBy(m) : j = k
  BY DEF CarriedBy, PacedInv, WholeRows, NoDoubleRow
<1>. QED
  BY <1>1, <1>2

StatusIs(m) ==
    /\ m \notin DOMAIN sent => CarriedBy(m) = {} /\ MessageStatus(m) = "new"
    /\ m \in DOMAIN sent /\ CarriedBy(m) = {} =>
           MessageStatus(m) = IF sent[m] \in closed THEN "lost" ELSE "held"
    /\ \A k \in CarriedBy(m) : /\ m \in DOMAIN sent
                               /\ k \in DOMAIN rows /\ k \in 1..MaxRows
                               /\ CarriedBy(m) = {k}
                               /\ MessageStatus(m) = status[k]

LEMMA StatusNow == ASSUME PacedFit PROVE RelayInv /\ PacedRelayInv => \A m : StatusIs(m)
<1> SUFFICES ASSUME RelayInv, PacedRelayInv, NEW m PROVE StatusIs(m)
  OBVIOUS
<1>1. m \notin DOMAIN sent => CarriedBy(m) = {}
  BY OneRowEach DEF PacedRelayInv
<1>2. m \notin DOMAIN sent => MessageStatus(m) = "new"
  BY DEF MessageStatus
<1>3. ASSUME m \in DOMAIN sent, CarriedBy(m) = {}
      PROVE  MessageStatus(m) = IF sent[m] \in closed THEN "lost" ELSE "held"
  <2>1. ~Parsed(m)
    BY <1>3 DEF CarriedBy, Parsed
  <2>. QED  BY <1>3, <2>1, Whereabouts DEF MessageStatus
<1>4. ASSUME NEW k \in CarriedBy(m)
      PROVE  /\ m \in DOMAIN sent /\ k \in DOMAIN rows /\ k \in 1..MaxRows
             /\ CarriedBy(m) = {k} /\ MessageStatus(m) = status[k]
  <2>1. k \in DOMAIN rows /\ k \in 1..MaxRows /\ status[k] \in {"held", "stored", "lost"}
    BY DEF CarriedBy, RelayInv, RowsAccepted
  <2>2. m \in DOMAIN sent /\ CarriedBy(m) = {k}
    BY OneRowEach DEF PacedRelayInv
  <2>3. MessageStatus(m) = status[k]
    BY <2>1, <2>2 DEF MessageStatus
  <2>. QED  BY <2>1, <2>2, <2>3
<1>. QED
  BY <1>1, <1>2, <1>3, <1>4 DEF StatusIs

LEMMA StatusThen ==
    ASSUME PacedFit PROVE RelayInv' /\ PacedRelayInv' => (\A m : StatusIs(m))'
BY StatusNow, PTL

\* Every message at every step: after it, its status is as given.
LEMMA MessageStep ==
    ASSUME PacedFit, RelayInv, PacedRelayInv, RelayInv', PacedRelayInv'
    PROVE  \A m : StatusIs(m) /\ StatusIs(m)'
BY StatusNow, StatusThen

LEMMA Unmoved ==
    ASSUME \A m \in 1..MaxMessages : MessageStatus(m)' = MessageStatus(m), crashed' = crashed
    PROVE  UNCHANGED M!deliveryVars
BY DEF M!deliveryVars

LEMMA Moved ==
    ASSUME NEW T \in SUBSET (1..MaxMessages),
           \A m \in T : MessageStatus(m) = "held",
           NEW s \in {"stored", "lost"},
           \A m \in 1..MaxMessages : MessageStatus(m)' = IF m \in T THEN s ELSE MessageStatus(m),
           IF s = "lost" THEN crashed' = TRUE ELSE crashed' = crashed
    PROVE  M!Next
<1>1. T \in SUBSET M!InState("held")
  BY DEF M!InState
<1>2. M!Become(T, s)
  BY DEF M!Become
<1>. QED
  BY <1>1, <1>2 DEF M!Next, M!Store, M!Lose

\* Rows are stored, or lost: so are the messages they carry.
LEMMA RowsMove ==
    ASSUME PacedFit, RelayInv, PacedRelayInv, RelayInv', PacedRelayInv', UNCHANGED vars,
           NEW K \in SUBSET (1..MaxRows), NEW s \in {"stored", "lost"}, RowsGo(K, s)
    PROVE  M!Next
<1> USE DEF RowsGo
<1> DEFINE T == {m \in 1..MaxMessages : \E k \in CarriedBy(m) : k \in K}
<1>1. rows' = rows /\ sent' = sent /\ closed' = closed
  BY DEF vars, parseVars, connVars, clientVars
<1>2. \A m : CarriedBy(m)' = CarriedBy(m)
  BY <1>1 DEF CarriedBy
<1>3. \A m \in T : MessageStatus(m) = "held"
  BY MessageStep DEF StatusIs
<1>4. ASSUME NEW m \in 1..MaxMessages
      PROVE  MessageStatus(m)' = IF m \in T THEN s ELSE MessageStatus(m)
  <2>1. StatusIs(m) /\ StatusIs(m)'
    BY MessageStep
  <2>2. CASE CarriedBy(m) = {}
    BY <1>1, <1>2, <2>1, <2>2 DEF StatusIs
  <2>3. ASSUME NEW k \in CarriedBy(m)
        PROVE  MessageStatus(m)' = IF m \in T THEN s ELSE MessageStatus(m)
    <3>1. /\ CarriedBy(m) = {k} /\ k \in 1..MaxRows
          /\ MessageStatus(m) = status[k] /\ MessageStatus(m)' = status'[k]
      BY <1>2, <2>1 DEF StatusIs
    <3>. QED  BY <3>1
  <2>. QED  BY <2>2, <2>3
<1>. QED
  BY <1>3, <1>4, Moved

\* The process terminates: of the messages that are no rows, those are lost
\* whose connections were open.
LEMMA MemoryMoves ==
    ASSUME PacedFit, RelayInv, PacedRelayInv, RelayInv', PacedRelayInv', LoseMemory,
           crashed' = TRUE,
           \A k \in 1..MaxRows : \/ status'[k] = status[k]
                                 \/ status[k] = "held" /\ status'[k] = "lost"
    PROVE  M!Next
<1>1. rows' = rows /\ sent' = sent /\ closed \subseteq closed'
  BY DEF LoseMemory
<1>2. \A m : CarriedBy(m)' = CarriedBy(m)
  BY <1>1 DEF CarriedBy
<1>3. ASSUME NEW m \in 1..MaxMessages
      PROVE  \/ MessageStatus(m)' = MessageStatus(m)
             \/ MessageStatus(m) = "held" /\ MessageStatus(m)' = "lost"
  <2>1. StatusIs(m) /\ StatusIs(m)'
    BY MessageStep
  <2>2. CASE CarriedBy(m) = {}
    BY <1>1, <1>2, <2>1, <2>2 DEF StatusIs
  <2>3. ASSUME NEW k \in CarriedBy(m)
        PROVE  \/ MessageStatus(m)' = MessageStatus(m)
               \/ MessageStatus(m) = "held" /\ MessageStatus(m)' = "lost"
    <3>1. /\ CarriedBy(m) = {k} /\ k \in 1..MaxRows
          /\ MessageStatus(m) = status[k] /\ MessageStatus(m)' = status'[k]
      BY <1>2, <2>1 DEF StatusIs
    <3>. QED  BY <3>1
  <2>. QED  BY <2>2, <2>3
<1> DEFINE T == {m \in 1..MaxMessages : MessageStatus(m) = "held" /\ MessageStatus(m)' = "lost"}
<1>4. \A m \in 1..MaxMessages : MessageStatus(m)' = IF m \in T THEN "lost" ELSE MessageStatus(m)
  BY <1>3
<1>. QED
  BY <1>4, Moved

\* The row that is pushed carries a message that was held until then.
LEMMA PushMoves ==
    ASSUME PacedFit, RelayInv, PacedRelayInv, RelayInv', PacedRelayInv',
           NEW r \in READ_THREADS, PushRow(r), crashed' = crashed,
           NEW j \in 1..MaxRows, j = Len(rows) + 1,
           \A k \in 1..MaxRows : status'[k] = IF k = j THEN "held" ELSE status[k]
    PROVE  UNCHANGED M!deliveryVars
<1>1. PICK n \in DOMAIN sent : /\ Intact(got[r]) /\ got[r][1].msg = n
                               /\ ~Parsed(n) /\ Arriving(n)
  BY PushedRow DEF RelayInv, PacedRelayInv
<1>2. rows \in Seq(Seq(Cell)) /\ got[r] \in Seq(Cell)
  BY DEF RelayInv, IInv, TypeOK
<1>3. rows' = Append(rows, got[r]) /\ sent' = sent /\ closed' = closed
  BY DEF PushRow, connVars, clientVars
<1>4. DOMAIN rows' = (DOMAIN rows) \cup {j} /\ j \notin DOMAIN rows
  BY <1>2, <1>3
<1>5. rows'[j] = got[r] /\ \A k \in DOMAIN rows : rows'[k] = rows[k]
  BY <1>2, <1>3
<1>6. \A m : CarriedBy(m)' = IF m = n THEN CarriedBy(m) \cup {j} ELSE CarriedBy(m)
  BY <1>1, <1>4, <1>5 DEF CarriedBy
<1>7. CarriedBy(n) = {} /\ MessageStatus(n) = "held"
  BY <1>1 DEF CarriedBy, Parsed, MessageStatus
<1>8. MessageStatus(n)' = "held"
  BY <1>6, MessageStep DEF StatusIs
<1>9. ASSUME NEW m \in 1..MaxMessages, m # n
      PROVE  MessageStatus(m)' = MessageStatus(m)
  <2>1. StatusIs(m) /\ StatusIs(m)' /\ CarriedBy(m)' = CarriedBy(m)
    BY <1>6, <1>9, MessageStep
  <2>2. CASE CarriedBy(m) = {}
    BY <1>3, <2>1, <2>2 DEF StatusIs
  <2>3. ASSUME NEW k \in CarriedBy(m) PROVE MessageStatus(m)' = MessageStatus(m)
    <3>1. /\ k \in 1..MaxRows /\ k # j
          /\ MessageStatus(m) = status[k] /\ MessageStatus(m)' = status'[k]
      BY <1>4, <2>1 DEF StatusIs, CarriedBy
    <3>. QED  BY <3>1
  <2>. QED  BY <2>2, <2>3
<1>. QED
  BY <1>7, <1>8, <1>9, Unmoved

\* The receiving half holds what a client sends, and closes a connection only
\* when everything that came over it is a row.
LEMMA ReceiveMoves ==
    ASSUME PacedFit, RelayInv, PacedRelayInv, RelayInv', PacedRelayInv', [Next]_vars,
           rows' = rows, UNCHANGED <<status, crashed>>
    PROVE  M!Next \/ UNCHANGED M!deliveryVars
<1>1. /\ \A c \in closed' \ closed : Settled(c)
      /\ closed \subseteq closed'
      /\ \/ sent' = sent
         \/ closed' = closed /\ \E c \in Clients \ closed : sent' = Append(sent, c)
  BY ClientsWait, ConnectionsStay DEF RelayInv
<1>2. \A m : CarriedBy(m)' = CarriedBy(m)
  BY DEF CarriedBy
<1>3. ASSUME NEW m, CarriedBy(m) # {} PROVE MessageStatus(m)' = MessageStatus(m)
  BY <1>2, <1>3, MessageStep DEF StatusIs
<1>4. ASSUME NEW m \in DOMAIN sent, CarriedBy(m) = {}, sent'[m] = sent[m], m \in DOMAIN sent'
      PROVE  MessageStatus(m)' = MessageStatus(m)
  <2>1. sent[m] \in closed' => sent[m] \in closed
    BY <1>1, <1>4 DEF Settled, Parsed, CarriedBy
  <2>. QED  BY <1>1, <1>2, <1>4, <2>1, MessageStep DEF StatusIs
<1>5. ASSUME NEW m, m \notin DOMAIN sent, m \notin DOMAIN sent'
      PROVE  MessageStatus(m)' = MessageStatus(m)
  BY <1>5, MessageStep DEF StatusIs
<1>6. CASE sent' = sent
  BY <1>3, <1>4, <1>5, <1>6, Unmoved
<1>7. ASSUME NEW c \in Clients \ closed, sent' = Append(sent, c), closed' = closed
      PROVE  M!Next
  <2>1. sent \in Seq(Clients)
    BY DEF RelayInv, IInv, TypeOK
  <2>2. PICK n \in Nat : n = Len(sent) + 1
    BY <2>1
  <2>3. /\ DOMAIN sent' = (DOMAIN sent) \cup {n} /\ n \notin DOMAIN sent
        /\ sent'[n] = c /\ \A m \in DOMAIN sent : sent'[m] = sent[m]
    BY <1>7, <2>1, <2>2
  <2>4. n \in 1..MaxMessages
    <3>1. Len(sent') <= MaxMessages /\ Len(sent') = n
      BY <1>7, <2>1, <2>2 DEF RelayInv, IInv, TypeOK
    <3>. QED  BY <2>1, <2>2, <3>1, IngestAssumption
  <2>5. CarriedBy(n) = {} /\ MessageStatus(n) = "new"
    BY <2>3, MessageStep DEF StatusIs
  <2>6. MessageStatus(n)' = "held"
    BY <1>2, <1>7, <2>3, <2>5, MessageStep DEF StatusIs
  <2>7. \A m \in 1..MaxMessages : m # n => MessageStatus(m)' = MessageStatus(m)
    BY <1>3, <1>4, <1>5, <2>3
  <2>8. M!Accept(n)
    BY <2>4, <2>5, <2>6, <2>7 DEF M!Accept, M!Become
  <2>. QED  BY <2>4, <2>8 DEF M!Next
<1>. QED
  BY <1>1, <1>6, <1>7

LEMMA NextMoves ==
    ASSUME PacedFit
    PROVE  RelayInv /\ PacedRelayInv /\ RelayInv' /\ PacedRelayInv' /\ [RelayNext]_relayVars
               => [M!Next]_(M!deliveryVars)
<1> SUFFICES ASSUME RelayInv, PacedRelayInv, RelayInv', PacedRelayInv', [RelayNext]_relayVars
             PROVE  M!Next \/ UNCHANGED M!deliveryVars
  OBVIOUS
<1>1. CASE Receive /\ rows' = rows /\ UNCHANGED <<status, crashed>>
  BY <1>1, ReceiveMoves DEF Next
<1>2. ASSUME NEW r \in READ_THREADS, PushRow(r), crashed' = crashed,
             Len(rows) + 1 \in 1..MaxRows,
             \A k \in 1..MaxRows : status'[k] = IF k = Len(rows) + 1 THEN "held" ELSE status[k]
      PROVE  UNCHANGED M!deliveryVars
  BY <1>2, PushMoves
<1>3. ASSUME NEW T \in SUBSET (1..MaxRows), NEW s \in {"stored", "lost"},
             RowsGo(T, s), UNCHANGED vars \/ (LoseMemory /\ s = "lost")
      PROVE  M!Next
  <2>1. CASE UNCHANGED vars
    BY <1>3, <2>1, RowsMove
  <2>2. CASE LoseMemory /\ s = "lost"
    BY <1>3, <2>2, MemoryMoves DEF RowsGo
  <2>. QED  BY <1>3, <2>1, <2>2
<1>4. CASE UNCHANGED relayVars
  <2>1. UNCHANGED vars /\ rows' = rows /\ UNCHANGED <<status, crashed>>
    BY <1>4 DEF relayVars, vars, parseVars
  <2>. QED  BY <2>1, ReceiveMoves
<1>. QED
  BY <1>1, <1>2, <1>3, <1>4, RelaySteps

LEMMA InitMoves == RelayInit => M!Init
<1> SUFFICES ASSUME RelayInit PROVE M!Init
  OBVIOUS
<1>1. sent = <<>> /\ crashed = FALSE
  BY DEF RelayInit, Init, D!Init
<1>2. \A m : MessageStatus(m) = "new"
  BY <1>1 DEF MessageStatus
<1>. QED
  BY <1>1, <1>2 DEF M!Init

\* EndToEnd: with any saving half that does what Delivery says of rows, the
\* collector does it of messages: from the moment a paced client has sent one
\* it is held, then stored or lost, and lost only when rows may be; over all
\* hand-overs between the client and the saving half.
THEOREM RelayDelivers == ASSUME PacedFit PROVE RelaySpec => EndToEnd
<1>1. RelayInit => M!Init
  BY InitMoves
<1>2. RelayInv /\ PacedRelayInv /\ RelayInv' /\ PacedRelayInv' /\ [RelayNext]_relayVars
          => [M!Next]_(M!deliveryVars)
  BY NextMoves
<1>. QED
  BY <1>1, <1>2, RelayInvariance, RelayPacedInvariance, PTL DEF RelaySpec, EndToEnd, M!Spec

LEMMA RelayOneRowEach ==
    ASSUME PacedFit
    PROVE  RelaySpec => [](\A m : \A k \in CarriedBy(m) : CarriedBy(m) = {k})
<1>1. PacedRelayInv => \A m : \A k \in CarriedBy(m) : CarriedBy(m) = {k}
  BY OneRowEach DEF PacedRelayInv
<1>. QED
  BY <1>1, RelayPacedInvariance, PTL

\* NoMessageLost: what has been sent is in the socket, in a buffer that will
\* be parsed, or it is a row that is held or stored.
THEOREM RelayLosesNothing == ASSUME PacedFit PROVE RelaySpec => []NoMessageLost
<1>1. RelayInv /\ PacedRelayInv => NoMessageLost
  <2> SUFFICES ASSUME RelayInv, PacedRelayInv, ~crashed, NEW m \in DOMAIN sent
               PROVE  Arriving(m) \/ \E k \in CarriedBy(m) : status[k] \in {"held", "stored"}
    BY DEF NoMessageLost
  <2>1. CASE Parsed(m)
    <3>1. PICK k \in DOMAIN rows : k \in CarriedBy(m)
      BY <2>1 DEF Parsed, CarriedBy
    <3>2. status[k] \in {"held", "stored"}
      BY <3>1 DEF RelayInv, RowsAccepted, LossAfterCrash
    <3>. QED  BY <3>1, <3>2
  <2>2. CASE ~Parsed(m)
    <3>1. sent[m] \notin closed
      BY <2>2 DEF PacedRelayInv, PacedInv, ClosedSettled, Settled
    <3>. QED  BY <2>2, <3>1, Whereabouts
  <2>. QED  BY <2>1, <2>2
<1>. QED
  BY <1>1, RelayInvariance, RelayPacedInvariance, PTL

\* Across crashes of the process a connection has one owner, and each read is
\* parsed once or gone with a process.
THEOREM CrashesKeepOwners == RelaySpec => [](OneOwner /\ ReadsAccounted)
<1>1. RelayInv => OneOwner /\ ReadsAccounted
  BY OneOwnerInv DEF RelayInv, IInv
<1>. QED
  BY <1>1, RelayInvariance, PTL

\* ... and no row of a paced client is torn by them.
THEOREM CrashesTearNothing == ASSUME PacedFit PROVE RelaySpec => []IntactRows
<1>1. PacedRelayInv => IntactRows
  BY DEF PacedRelayInv, PacedInv, WholeRows, IntactRows
<1>. QED
  BY <1>1, RelayPacedInvariance, PTL
===============================================================================
