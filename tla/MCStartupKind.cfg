\* Either database, as the repository builds the client libraries.
CONSTANTS
    Processes = {p}
    Services = {p}
    None = None
    Files <- CompleteFiles
    WITH_OPENSSL = FALSE
    WRITE_THREADS = 4
    MaxFailures = 0
SPECIFICATION FairSpec
PROPERTIES EitherDatabaseServes
