CONSTANTS
    p1 = p1  p2 = p2
    NoProc = NoProc  Old = Old
    Procs <- TwoProcs
    MaxIds = 2
    MaxCalls <- OneBusy
    Faulty <- OnFile
SPECIFICATION Spec
INVARIANTS TypeOK Serial Whole OwnData
