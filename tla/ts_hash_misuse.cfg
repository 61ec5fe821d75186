CONSTANTS
    th1 = th1  th2 = th2  th3 = th3  th4 = th4
    a = a  b = b  v = v  Empty = Empty  NoTable = NoTable
    Threads <- FourThreads
    Tables <- TwoTables
    Values <- TwoValues
    Ops <- UnorderedOps
    ReaderMod = 10
    MaxCalls = 1
SPECIFICATION Spec
INVARIANTS Exclusion StuckOnlyByMisuse
SYMMETRY ThreadSymmetry
CHECK_DEADLOCK FALSE
