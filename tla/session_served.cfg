CONSTANTS
    p1 = p1  p2 = p2
    NoProc = NoProc  Old = Old
    Procs <- TwoProcs
    MaxIds = 2
    MaxCalls <- Simple
    Faulty <- OfControl
SPECIFICATION FairSpec
PROPERTIES Served
