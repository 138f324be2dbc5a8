\* Two write workers and the sync worker; 4 rows with a threshold of 2.
CONSTANTS
    WRITE_THREADS = 2
    SAVE_THRESHOLD = 2
    Sync = Sync
    None = None
    MaxMixed = 2
    MaxRows = 4
SPECIFICATION FairSpec
INVARIANTS TypeOK AtMostOnce NothingLost RaceNoticed
PROPERTIES  EveryRowLeaves Implements
