CONSTANTS
    Signal = {USR1, USR2}
    NoThread = NoThread
    Windows = {"quiet", "logging", "startup", "cleanup", "callback"}
    Faults = {"create", "log_open", "letter_open", "timer"}
    StdioCancels = TRUE
    StaleCancel = {"ignored", "crash"}
    MaxSignals = 2
    MaxTicks = 2
    MaxMatches = 1
SPECIFICATION Spec
INVARIANTS TypeOK MutexOwnership NoLeakAtDeath MainIsLast AllDoomed TickAccounting
SYMMETRY SignalSymmetry
\* The process exits, crashes, or blocks on a mutex whose owner is gone.
CHECK_DEADLOCK FALSE
