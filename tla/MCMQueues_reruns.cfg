CONSTANTS
    TextLength = 3
    MAX_MSG_SIZE = 7
    MaxMsgCount = 2
    Faults = {"fork", "open"}
    MaxRuns = 3
SPECIFICATION FairSpec
INVARIANTS TypeOK Provenance
PROPERTY OpenedMeansDone
\* The processes end, or wait for each other for ever.
CHECK_DEADLOCK FALSE
