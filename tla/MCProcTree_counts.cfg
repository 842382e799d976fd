\* Process 1, its child, and a child of that; no count comes near UintMax.
CONSTANTS
    init_task = init_task
    init = init
    Task = {init_task, init, a, b}
    UintMax = 7
    MaxForks = 2
SPECIFICATION TreeSpec
INVARIANT CountsOwnChildren
\* The walk ends.
CHECK_DEADLOCK FALSE
