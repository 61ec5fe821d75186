CONSTANTS
    th1 = th1  th2 = th2  th3 = th3  th4 = th4
    a = a  b = b  v = v  Empty = Empty  NoTable = NoTable
    Threads <- ThreeThreads
    Tables <- TwoTables
    Values <- TwoValues
    Ops <- OrderedOps
    ReaderMod = 8
    MaxCalls = 1
SPECIFICATION FairSpec
INVARIANTS TypeOK
PROPERTIES AtomicSpec AllServed
CHECK_DEADLOCK FALSE
