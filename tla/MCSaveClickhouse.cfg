\* Two write workers and the sync worker on two clients, of which one is
\* shared; 4 rows with a threshold of 2.
CONSTANTS
    WRITE_THREADS = 2
    SAVE_THRESHOLD = 2
    Sync = Sync
    None = None
    MaxRows = 4
SPECIFICATION FairSpec
INVARIANTS EventsAlive AtMostOnceUnlessShared
PROPERTIES SuccessUnlessShared EveryRowLeaves Implements
