\* A service and a process started by hand race for the socket file, with
\* any configuration file.
CONSTANTS
    Processes = {p, q}
    Services = {p}
    None = None
    Files <- MCFiles
    WITH_OPENSSL = FALSE
    WRITE_THREADS = 3
    MaxFailures = 3
SPECIFICATION FairSpec
INVARIANTS ConnectionBeforeUse ServingIsWhole
PROPERTIES SomeoneServes
