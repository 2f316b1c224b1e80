\* Two threads and a cache of one table; memory is never allocated twice.  One
\* block offset is in the filter, one at the sentinel and one behind it.
SPECIFICATION Spec
SYMMETRY Symmetry
CONSTANTS
    FilterBytes = 1
    BaseSize = 4
    EmptyMatches = TRUE
    Tables = {t1, t2}
    Keys = {1, 2}
    Threads = {a, b}
    Addresses = {p1, p2, p3}
    NoTable = NoTable
    NoAddress = NoAddress
    Capacity = 1
    BlockOffsets = {0, 4, 8}
    Reuse = FALSE
    Internal = FALSE
INVARIANTS TypeOK NoFalseNegative HandlesStayValid
CHECK_DEADLOCK FALSE
