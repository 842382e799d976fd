\* A list of one node, and another one to insert.
CONSTANTS
    Node = {a, b}
    NULL = NULL
    MaxOffset = 2
SPECIFICATION ReturnsSpec
INVARIANT ReturnsAsDocumented
