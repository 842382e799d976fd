CONSTANTS
    Signal = {USR1}
    NoThread = NoThread
    Windows = {"quiet"}
    Faults = {}
    StdioCancels = TRUE
    StaleCancel = {"ignored"}
    MaxSignals = 1
    MaxTicks = 1
    MaxMatches = 1
SPECIFICATION FairSpec
PROPERTY GracefulShutdown
\* The process stops for good.
CHECK_DEADLOCK FALSE
