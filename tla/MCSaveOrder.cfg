\* Two write workers and the sync worker on db[0] and db[1].
CONSTANTS
    WRITE_THREADS = 2
    SAVE_THRESHOLD = 2
    Sync = Sync
    None = None
    MaxMixed = 2
    MaxRows = 3
SPECIFICATION Spec
INVARIANTS TransactionOrder
