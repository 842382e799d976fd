CONSTANTS
    Signal = {USR1}
    NoThread = NoThread
    Windows = {"quiet"}
    Faults = {}
    StdioCancels = FALSE
    StaleCancel = {"ignored"}
    MaxSignals = 2
    MaxTicks = 2
    MaxMatches = 1
SPECIFICATION FairSpec
INVARIANTS NeverCrashes HolderCanRun
PROPERTIES GracefulShutdown WorkerExits ReportsCatchUp
\* The process exits; without a signal it waits for the bounded timer.
CHECK_DEADLOCK FALSE
