------------------------------- MODULE Ingest --------------------------------
(***************************************************************************)
(* The receiving half of the collector: the accept loop, the connection    *)
(* workers that read() from a connection each, and the read workers that   *)
(* parse what was read.                                                    *)
(*                                                                         *)
(* conn_worker reads into a buffer on its own stack and pushes the ADDRESS *)
(* of that buffer to read_queue, so a read worker parses the buffer while  *)
(* its owner may be reading into it again.  The buffer is modelled as      *)
(* BUFFER_SIZE cells that read() and the parser touch one at a time.  A    *)
(* message is 1 or more parts that fill a cell each: part k of message m   *)
(* stands for the k-th slice of its JSON text, and the last part closes    *)
(* the object.                                                             *)
(*                                                                         *)
(* The two deques are used in single steps, as WaitQueue has it.           *)
(***************************************************************************)
EXTENDS Naturals, Sequences, FiniteSets, SequencesExt

CONSTANTS Clients,             \* processes that connect once each
          CONN_THREADS,        \* the connection workers
          READ_THREADS,        \* the read workers
          MAXIMUM_CONNECTIONS, \* backlog of listen()
          MaxFds,              \* descriptors the process may hold
          BUFFER_SIZE,         \* cells of a buffer
          Sizes,               \* the lengths of messages, in parts
          MaxMessages,         \* bound of the model: messages sent in all
          Paced,               \* clients wait for a message to be parsed
                               \* before they send or close
          None

ASSUME IngestAssumption ==
    /\ IsFiniteSet(CONN_THREADS) /\ IsFiniteSet(READ_THREADS)
    /\ MAXIMUM_CONNECTIONS \in Nat \ {0}
    /\ MaxFds \in Nat
    /\ BUFFER_SIZE \in Nat \ {0}
    /\ Sizes \subseteq Nat \ {0}
    /\ MaxMessages \in Nat
    /\ Paced \in BOOLEAN
    /\ None \notin Clients \cup CONN_THREADS

VARIABLES backlog,     \* connections the kernel holds for accept(), oldest first
          fds,         \* connections whose descriptor the process holds
          conn_queue,  \* accepted connections, front first
          serving,     \* the connection each connection worker reads from
          stream,      \* what is in each connection's socket, oldest part first
          closed,      \* the connections whose client has closed
          sent,        \* the client that sent each message; a message is its number
          copying,     \* the parts read() has yet to put into the worker's buffer
          buf,         \* the buffer on the stack of each connection worker
          reads,       \* history: number of successful reads
          read_queue,  \* addresses of buffers, front first; a worker names its buffer
          parsing,     \* the buffer each read worker has
          got,         \* the cells its parser has gone through
          rows,        \* history: the cells of each row handed to the writers
          dropped      \* history: number of reads that will be no row

connVars == <<backlog, fds, conn_queue>>
clientVars == <<closed, sent>>
bufVars == <<copying, buf, reads>>
parseVars == <<parsing, got, rows, dropped>>
vars == <<connVars, serving, stream, clientVars, bufVars, read_queue, parseVars>>

Part == [msg : 1..MaxMessages, part : Nat, size : Sizes]
Junk == [msg |-> 0, part |-> 0, size |-> 0]

Init == /\ backlog = <<>>
        /\ fds = {}
        /\ conn_queue = <<>>
        /\ serving = [w \in CONN_THREADS |-> None]
        /\ stream = [c \in Clients |-> <<>>]
        /\ closed = {}
        /\ sent = <<>>
        /\ copying = [w \in CONN_THREADS |-> <<>>]
        /\ buf = [w \in CONN_THREADS |-> [i \in 1..BUFFER_SIZE |-> Junk]]
        /\ reads = 0
        /\ read_queue = <<>>
        /\ parsing = [r \in READ_THREADS |-> None]
        /\ got = [r \in READ_THREADS |-> <<>>]
        /\ rows = <<>>
        /\ dropped = 0

-----------------------------------------------------------------------------
(* The clients.                                                            *)

Connected(c) == c \in ToSet(backlog) \cup fds

Intact(cells) == /\ cells # <<>>
                 /\ Len(cells) = cells[1].size
                 /\ \A i \in DOMAIN cells : cells[i] = [cells[1] EXCEPT !.part = i]

Parsed(m) == \E k \in DOMAIN rows : Intact(rows[k]) /\ rows[k][1].msg = m

\* All that the client has sent has become a row.
Settled(c) == \A m \in DOMAIN sent : sent[m] = c => Parsed(m)

Connect(c) == /\ ~Connected(c)
              /\ c \notin closed
              /\ Len(backlog) < MAXIMUM_CONNECTIONS
              /\ backlog' = Append(backlog, c)
              /\ UNCHANGED <<fds, conn_queue, serving, stream, clientVars, bufVars,
                             read_queue, parseVars>>

\* One write() of a whole message.
Send(c, n) == /\ Connected(c) /\ c \notin closed
              /\ Len(sent) < MaxMessages
              /\ Paced => Settled(c)
              /\ sent' = Append(sent, c)
              /\ stream' = [stream EXCEPT ![c] = @ \o
                     [i \in 1..n |-> [msg |-> Len(sent) + 1, part |-> i, size |-> n]]]
              /\ UNCHANGED <<connVars, serving, closed, bufVars, read_queue, parseVars>>

Close(c) == /\ Connected(c)
            /\ Paced => Settled(c)
            /\ closed' = closed \cup {c}
            /\ UNCHANGED <<connVars, serving, stream, sent, bufVars, read_queue, parseVars>>

-----------------------------------------------------------------------------
(* Socket::handle_message.                                                 *)

\* accept() succeeds and the connection is pushed to the front.
Accept == /\ backlog # <<>>
          /\ Cardinality(fds) < MaxFds
          /\ backlog' = Tail(backlog)
          /\ fds' = fds \cup {Head(backlog)}
          /\ conn_queue' = <<Head(backlog)>> \o conn_queue
          /\ UNCHANGED <<serving, stream, clientVars, bufVars, read_queue, parseVars>>

\* accept() fails, for want of a descriptor: a warning, and again.
AcceptFails == /\ backlog # <<>>
               /\ Cardinality(fds) >= MaxFds
               /\ UNCHANGED vars

-----------------------------------------------------------------------------
(* conn_worker.                                                            *)

\* Mutant: front() without pop_front().
Serve_Peek(w) == /\ serving[w] = None
                 /\ conn_queue # <<>>
                 /\ serving' = [serving EXCEPT ![w] = Head(conn_queue)]
                 /\ UNCHANGED <<connVars, stream, clientVars, bufVars, read_queue, parseVars>>

Serve(w) == /\ serving[w] = None
            /\ conn_queue # <<>>
            /\ serving' = [serving EXCEPT ![w] = Head(conn_queue)]
            /\ conn_queue' = Tail(conn_queue)
            /\ UNCHANGED <<backlog, fds, stream, clientVars, bufVars, read_queue, parseVars>>

\* A read() is over when copying[w] holds no part; it has then to be pushed.
Reading(w) == copying[w] # <<>>

\* Mutant: read() is given more room than the buffer has.
StartRead_Long(w) ==
    /\ serving[w] # None
    /\ ~Reading(w)
    /\ LET c == serving[w]
       IN  /\ stream[c] # <<>>
           /\ copying' = [copying EXCEPT ![w] = [i \in DOMAIN stream[c] |->
                             [at |-> i, cell |-> stream[c][i]]]]
           /\ stream' = [stream EXCEPT ![c] = <<>>]
    /\ reads' = reads + 1
    /\ UNCHANGED <<connVars, serving, clientVars, buf, read_queue, parseVars>>

\* read() takes what the socket has, up to BUFFER_SIZE, whatever the message
\* boundaries are.
StartRead(w) ==
    /\ serving[w] # None
    /\ ~Reading(w)
    /\ LET c == serving[w]
           n == IF Len(stream[c]) < BUFFER_SIZE THEN Len(stream[c]) ELSE BUFFER_SIZE
       IN  /\ n > 0
           /\ copying' = [copying EXCEPT ![w] =
                             [i \in 1..n |-> [at |-> i, cell |-> stream[c][i]]]]
           /\ stream' = [stream EXCEPT ![c] = SubSeq(@, n + 1, Len(@))]
    /\ reads' = reads + 1
    /\ UNCHANGED <<connVars, serving, clientVars, buf, read_queue, parseVars>>

\* read() stores a part into the buffer; cells beyond the last one keep what
\* an earlier read put there.
Store(w) == LET p == Head(copying[w])
            IN  buf' = [buf EXCEPT ![w][p.at] = p.cell]

\* Mutant: the address is pushed when the read is not over yet.
CopyPart_Push(w) ==
    /\ Len(copying[w]) > 1
    /\ Store(w)
    /\ copying' = [copying EXCEPT ![w] = Tail(@)]
    /\ read_queue' = <<w>> \o read_queue
    /\ UNCHANGED <<connVars, serving, stream, clientVars, reads, parseVars>>

CopyPart(w) ==
    /\ Len(copying[w]) > 1
    /\ Store(w)
    /\ copying' = [copying EXCEPT ![w] = Tail(@)]
    /\ UNCHANGED <<connVars, serving, stream, clientVars, reads, read_queue, parseVars>>

\* Mutant: an address that waits in the queue already is not pushed again.
EndRead_Once(w) ==
    /\ Len(copying[w]) = 1
    /\ Store(w)
    /\ copying' = [copying EXCEPT ![w] = <<>>]
    /\ read_queue' = IF w \in ToSet(read_queue) THEN read_queue ELSE <<w>> \o read_queue
    /\ UNCHANGED <<connVars, serving, stream, clientVars, reads, parseVars>>

\* The last part; then the buffer's address is pushed to the front.
EndRead(w) ==
    /\ Len(copying[w]) = 1
    /\ Store(w)
    /\ copying' = [copying EXCEPT ![w] = <<>>]
    /\ read_queue' = <<w>> \o read_queue
    /\ UNCHANGED <<connVars, serving, stream, clientVars, reads, parseVars>>

\* Mutant: a read() of 0 bytes does not end the loop.
EndOfFile_Spin(w) ==
    /\ serving[w] # None
    /\ ~Reading(w)
    /\ stream[serving[w]] = <<>>
    /\ serving[w] \in closed
    /\ UNCHANGED vars

\* read() returns 0: the connection object is deleted.  Its descriptor is
\* not closed and stays with the process.
EndOfFile(w) ==
    /\ serving[w] # None
    /\ ~Reading(w)
    /\ stream[serving[w]] = <<>>
    /\ serving[w] \in closed
    /\ serving' = [serving EXCEPT ![w] = None]
    /\ UNCHANGED <<connVars, stream, clientVars, bufVars, read_queue, parseVars>>

-----------------------------------------------------------------------------
(* read_worker.                                                            *)

\* Mutant: front() without pop_front().
TakeBuffer_Peek(r) ==
    /\ parsing[r] = None
    /\ read_queue # <<>>
    /\ parsing' = [parsing EXCEPT ![r] = Head(read_queue)]
    /\ UNCHANGED <<connVars, serving, stream, clientVars, bufVars, read_queue, got, rows,
                   dropped>>

TakeBuffer(r) ==
    /\ parsing[r] = None
    /\ read_queue # <<>>
    /\ parsing' = [parsing EXCEPT ![r] = Head(read_queue)]
    /\ read_queue' = Tail(read_queue)
    /\ UNCHANGED <<connVars, serving, stream, clientVars, bufVars, got, rows, dropped>>

\* The parser is done when the object is closed, when the text cannot be the
\* start of an object, or at the end of the buffer.
Closed(cells) == cells # <<>> /\ Last(cells).part = Last(cells).size /\ Last(cells) # Junk
NoObject(cells) == cells # <<>> /\ cells[1].part # 1
Done(cells) == Closed(cells) \/ NoObject(cells) \/ Len(cells) = BUFFER_SIZE

ParseCell(r) ==
    /\ parsing[r] # None
    /\ ~Done(got[r])
    /\ got' = [got EXCEPT ![r] = Append(@, buf[parsing[r]][Len(@) + 1])]
    /\ UNCHANGED <<connVars, serving, stream, clientVars, bufVars, read_queue, parsing, rows,
                   dropped>>

Release(r) == /\ parsing' = [parsing EXCEPT ![r] = None]
              /\ got' = [got EXCEPT ![r] = <<>>]

\* A complete message is a row.  What was pieced together from several may
\* pass as one, as its fields happen to fall.
PushRow(r) ==
    /\ parsing[r] # None
    /\ Closed(got[r]) /\ ~NoObject(got[r])
    /\ rows' = Append(rows, got[r])
    /\ Release(r)
    /\ UNCHANGED <<connVars, serving, stream, clientVars, bufVars, read_queue, dropped>>

\* cJSON or the serializer refuses the text: a warning, and no row.
Refuse(r) ==
    /\ parsing[r] # None
    /\ Done(got[r]) /\ ~Intact(got[r])
    /\ dropped' = dropped + 1
    /\ Release(r)
    /\ UNCHANGED <<connVars, serving, stream, clientVars, bufVars, read_queue, rows>>

-----------------------------------------------------------------------------
ConnStep(w) == Serve(w) \/ StartRead(w) \/ CopyPart(w) \/ EndRead(w) \/ EndOfFile(w)
ReadStep(r) == TakeBuffer(r) \/ ParseCell(r) \/ Refuse(r)
ClientStep(c) == Connect(c) \/ Close(c) \/ \E n \in Sizes : Send(c, n)

\* All but the hand-over to the writers.
Receive == \/ \E c \in Clients : ClientStep(c)
           \/ Accept \/ AcceptFails
           \/ \E w \in CONN_THREADS : ConnStep(w)
           \/ \E r \in READ_THREADS : ReadStep(r)

Next == Receive \/ \E r \in READ_THREADS : PushRow(r)

Spec == Init /\ [][Next]_vars

\* The threads run, and a client that has connected closes at some time:
\* without that a connection worker serves it for ever.
Fairness == /\ WF_vars(Accept)
            /\ \A w \in CONN_THREADS : WF_vars(ConnStep(w))
            /\ \A r \in READ_THREADS : WF_vars(ReadStep(r) \/ PushRow(r))
            /\ \A c \in Clients : WF_vars(Close(c))

FairSpec == Spec /\ Fairness

-----------------------------------------------------------------------------
Cell == Part \cup {Junk}

TypeOK == /\ backlog \in Seq(Clients) /\ Len(backlog) <= MAXIMUM_CONNECTIONS
          /\ fds \subseteq Clients /\ Cardinality(fds) <= MaxFds
          /\ conn_queue \in Seq(fds)
          /\ serving \in [CONN_THREADS -> fds \cup {None}]
          /\ stream \in [Clients -> Seq(Part)]
          /\ closed \subseteq Clients
          /\ sent \in Seq(Clients) /\ Len(sent) <= MaxMessages
          /\ copying \in [CONN_THREADS -> Seq([at : 1..BUFFER_SIZE, cell : Part])]
          /\ buf \in [CONN_THREADS -> [1..BUFFER_SIZE -> Cell]]
          /\ reads \in Nat
          /\ read_queue \in Seq(CONN_THREADS)
          /\ parsing \in [READ_THREADS -> CONN_THREADS \cup {None}]
          /\ got \in [READ_THREADS -> Seq(Cell)]
          /\ rows \in Seq(Seq(Cell))
          /\ dropped \in Nat

\* A connection has one owner: it waits in the backlog or in conn_queue, or
\* one worker serves it; two workers never read from the same connection.
OneOwner ==
    /\ \A c \in Clients :
           Cardinality({i \in DOMAIN backlog : backlog[i] = c})
             + Cardinality({i \in DOMAIN conn_queue : conn_queue[i] = c})
             + Cardinality({w \in CONN_THREADS : serving[w] = c}) <= 1

\* However buffers are overwritten and addresses queued twice, each read is
\* parsed once: it is being copied, is in the queue, is with a read worker,
\* has become one row or has been dropped, because the parser refused it or
\* the process terminated; none is passed over and none counts twice.
ReadsAccounted ==
    Len(rows) + dropped + Len(read_queue)
      + Cardinality({r \in READ_THREADS : parsing[r] # None})
      + Cardinality({w \in CONN_THREADS : Reading(w)}) = reads

\* A row is never pieced together from the cells of several messages.
IntactRows == \A k \in DOMAIN rows : Intact(rows[k])

\* No message becomes two rows.
NoDoubleRow == \A j, k \in DOMAIN rows :
    Intact(rows[j]) /\ Intact(rows[k]) /\ rows[j][1].msg = rows[k][1].msg => j = k

\* Every message that fits the buffer becomes a row.
EveryMessageParsed == \A m \in 1..MaxMessages : (m \in DOMAIN sent) ~> Parsed(m)
=============================================================================
