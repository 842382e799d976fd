\* Four nodes; for letter_counter() an alphabet of A to C in files of up to four
\* characters: a letter in both cases, the last one, and one on either side.
CONSTANTS
    Node = {n1, n2, n3, n4}
    NULL = NULL
    MaxOffset = 4
    LastLetter = 67
    Character = {64, 65, 97, 67, 100}
    LETTER_COUNT_TARGET = 2
    MaxFile = 4
SPECIFICATION AnySpec
INVARIANTS TypeOK WellLinked ReportsExact
PROPERTY SequenceSemantics
SYMMETRY NodeSymmetry
\* letter_counter() returns.
CHECK_DEADLOCK FALSE
