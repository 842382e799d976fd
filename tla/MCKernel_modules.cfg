\* hw4/p4: a record of 3 bytes does not divide the kfifo's 8, as the real one
\* does not divide its 1024.
\* hw4/p3: the root, process 1 and three more processes, any of which loads the
\* module at any time; three forks, enough for every tree of them, and for the
\* memory of one to be used again.  The counts of three generations do not fit
\* into a uint of 2.
CONSTANTS
    RecordSize = 3
    FifoSize = 8
    Faults = {"alloc", "kthread"}
    MaxTicks = 6
    init_task = init_task
    init = init
    Task = {init_task, init, a, b, c}
    UintMax = 2
    MaxForks = 3
SPECIFICATION KernelSpec
INVARIANTS TypeOK RecordsWhole NeverOops TreeTypeOK WalkExact
PROPERTIES TimerOfApes UnloadEnds WalkEnds
\* hw4/p4 is unloaded or not loaded, or its logger waits for a timer; the walk of
\* hw4/p3 ends.
CHECK_DEADLOCK FALSE
