CONSTANTS
    PipeFaults = {"fork"}
    MaxKills = 2
    TextLength = 3
    BUFFER_SIZE = 7
    Faults = {"fork", "socket", "bind", "receive"}
    MaxRuns = 3
SPECIFICATION BothSpec
INVARIANTS PipesTypeOK WholeUnlessKilled TypeOK
PROPERTIES BothEnd PeersExchange SentMeansDone
\* The processes end, or the server waits for a peer that is gone.
CHECK_DEADLOCK FALSE
