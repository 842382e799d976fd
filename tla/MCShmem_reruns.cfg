CONSTANTS
    TextLength = 3
    SHM_SIZE = 7
    Faults = {"fork", "shm"}
    MaxRuns = 2
SPECIFICATION FairSpec
INVARIANTS TypeOK MessagePresent
PROPERTIES PeersExchange BothEnd
\* The processes end, or wait for a peer that is gone.
CHECK_DEADLOCK FALSE
