\* Freed memory is allocated again, under the database's policy.
SPECIFICATION Spec
SYMMETRY Symmetry
CONSTANTS
    FilterBytes = 1
    BaseSize = 4
    EmptyMatches = TRUE
    Tables = {t1, t2}
    Keys = {1, 2}
    Threads = {a}
    Addresses = {p1, p2}
    NoTable = NoTable
    NoAddress = NoAddress
    Capacity = 1
    BlockOffsets = {0, 4}
    Reuse = TRUE
    Internal = TRUE
INVARIANTS NoFalseNegative
CHECK_DEADLOCK FALSE
