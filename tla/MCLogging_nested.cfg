CONSTANTS
    Thread = {t1, t2}
    NoThread = NoThread
    MaxCalls = 4
    MaxDepth = 2
    StdioCancels = TRUE
SPECIFICATION FairSpec
INVARIANTS TypeOK StreamsClean
PROPERTIES AtomicLines CallsReturn
\* A call nested in one that owns the mutex, or a cancelled owner, blocks.
CHECK_DEADLOCK FALSE
