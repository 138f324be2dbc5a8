\* Paced clients, messages that fit: two clients share a connection worker.
CONSTANTS
    Clients = {a, b}
    CONN_THREADS = {c1}
    READ_THREADS = {r1, r2}
    MAXIMUM_CONNECTIONS = 2
    MaxFds = 2
    BUFFER_SIZE = 2
    Sizes = {1, 2}
    MaxMessages = 4
    Paced = TRUE
    None = None
SPECIFICATION FairSpec
INVARIANTS IntactRows NoDoubleRow
PROPERTIES EveryMessageParsed
