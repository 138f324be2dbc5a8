\* Clients that send when they like, and a message longer than the buffer.
CONSTANTS
    Clients = {a, b, d}
    CONN_THREADS = {c1, c2}
    READ_THREADS = {r1, r2}
    MAXIMUM_CONNECTIONS = 2
    MaxFds = 2
    BUFFER_SIZE = 2
    Sizes = {1, 2, 3}
    MaxMessages = 2
    Paced = FALSE
    None = None
SPECIFICATION Spec
SYMMETRY Symmetry
INVARIANTS TypeOK OneOwner ReadsAccounted
