\* insert_statements, with SAVE_THRESHOLD lowered from 1000 to 2.
CONSTANTS
    Producers = {r1, r2}
    Consumers = {w1, w2, w3}
    Flushers = {s}
    NoThread = NoThread
    Threshold = 2
    TakeAll = TRUE
    MaxItems = 5
SPECIFICATION FairSpec
INVARIANTS MutualExclusion TakeJustified
PROPERTIES ImplementsService
