\* read_queue: CONN_THREADS = 2 producers, READ_THREADS = 4 consumers.
CONSTANTS
    Producers = {c1, c2}
    Consumers = {r1, r2, r3, r4}
    Flushers = {}
    NoThread = NoThread
    Threshold = 1
    TakeAll = FALSE
    MaxItems = 4
SPECIFICATION FairSpec
INVARIANTS TypeOK NoLostWakeup
PROPERTIES EverythingTaken
