CONSTANTS
    TextLength = 3
    MAX_MSG_SIZE = 7
    MaxMsgCount = 10
    Faults = {}
    MaxRuns = 1
SPECIFICATION Spec
PROPERTY PeersExchange
\* The processes end, or wait for each other for ever.
CHECK_DEADLOCK FALSE
