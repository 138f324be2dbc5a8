--------------------------------- MODULE Relay ---------------------------------
(***************************************************************************)
(* The collector on any database: the receiving half, and in the place of  *)
(* a saving half what one promises (Delivery).  A row that is pushed is    *)
(* held, then stored or lost; row number k is rows[k].  Only a termination *)
(* of the process, which a saving half causes, touches the receiving half: *)
(* the sockets are closed, and what they and the queues held is gone.      *)
(*                                                                         *)
(* Both collectors implement Relay; Relay implements Delivery, of messages *)
(* instead of rows, if clients are paced.                                  *)
(***************************************************************************)
EXTENDS Ingest

CONSTANT MaxRows   \* bound of the model: rows pushed in a behaviour

VARIABLES status,  \* what has become of each row
          crashed  \* something has happened that may lose rows

D == INSTANCE Delivery

relayVars == <<vars, status, crashed>>

RelayInit == Init /\ D!Init

\* The process terminates with all its threads, queues and descriptors.
LoseMemory ==
    /\ backlog' = <<>>
    /\ fds' = {}
    /\ conn_queue' = <<>>
    /\ serving' = [w \in CONN_THREADS |-> None]
    /\ stream' = [c \in Clients |-> <<>>]
    /\ copying' = [w \in CONN_THREADS |-> <<>>]
    /\ buf' = [w \in CONN_THREADS |-> [i \in 1..BUFFER_SIZE |-> Junk]]
    /\ read_queue' = <<>>
    /\ parsing' = [r \in READ_THREADS |-> None]
    /\ got' = [r \in READ_THREADS |-> <<>>]
    /\ closed' = closed \cup {c \in Clients : Connected(c)}
    /\ dropped' = reads - Len(rows)
    /\ UNCHANGED <<sent, reads, rows>>

RelayNext ==
    \/ Receive /\ UNCHANGED <<status, crashed>>
    \/ /\ \E r \in READ_THREADS : PushRow(r)
       /\ \E k \in 1..MaxRows : k = Len(rows) + 1 /\ D!Accept(k)
    \/ \E T \in SUBSET D!InState("held") :
           \/ (D!Store(T) \/ D!Lose(T)) /\ UNCHANGED vars
           \/ D!Lose(T) /\ LoseMemory

RelaySpec == RelayInit /\ [][RelayNext]_relayVars

-----------------------------------------------------------------------------
(* Messages, of paced clients.                                             *)

CarriedBy(m) == {k \in DOMAIN rows : Intact(rows[k]) /\ rows[k][1].msg = m}

\* Where a message can be before it is a row: in the socket, on its way into
\* a buffer, or at the start of a buffer that is queued or being parsed.
Arriving(m) ==
    \/ \E c \in Clients : \E i \in DOMAIN stream[c] : stream[c][i].msg = m
    \/ \E w \in CONN_THREADS :
           \/ \E i \in DOMAIN copying[w] : copying[w][i].cell.msg = m
           \/ /\ buf[w][1].msg = m
              /\ \/ w \in ToSet(read_queue)
                 \/ \E r \in READ_THREADS : parsing[r] = w

\* Until rows may be lost, no message is lost anywhere: it is on its way to a
\* parser, or it is a row that is held or stored.
NoMessageLost == ~crashed =>
    \A m \in DOMAIN sent :
        Arriving(m) \/ \E k \in CarriedBy(m) : status[k] \in {"held", "stored"}

\* A message is held from the moment it is sent, then it is in the table, or it
\* is lost, and only when rows may be; what is stored stays so, and what is
\* lost does not come back.  Once a message is a row, what has become of the
\* row has become of it.
MessageStatus(m) ==
    IF m \notin DOMAIN sent THEN "new"
    ELSE IF CarriedBy(m) = {} THEN IF Arriving(m) THEN "held" ELSE "lost"
    ELSE IF \E k \in CarriedBy(m) : status[k] = "stored" THEN "stored"
    ELSE IF \E k \in CarriedBy(m) : status[k] = "held" THEN "held"
    ELSE "lost"
M == INSTANCE Delivery WITH MaxRows <- MaxMessages,
                            status <- [m \in 1..MaxMessages |-> MessageStatus(m)]
EndToEnd == M!Spec
================================================================================
