\* A paced client end to end: one connection worker, two read workers, one
\* write worker and the sync worker.
CONSTANTS
    Clients = {a, b}
    CONN_THREADS = {c1}
    READ_THREADS = {r1, r2}
    MAXIMUM_CONNECTIONS = 1
    MaxFds = 2
    BUFFER_SIZE = 2
    Sizes = {2}
    MaxMessages = 3
    Paced = TRUE
    None = None
    WRITE_THREADS = 1
    SAVE_THRESHOLD = 2
    Sync = Sync
    MaxMixed = 0
    MaxRows = 3
SPECIFICATION FairSpec
INVARIANT StoredOnce
PROPERTIES ImplementsRelay EndToEnd EveryMessageStored
