CONSTANTS
    z1 = z1  z2 = z2  z3 = z3  o1 = o1
    MaxElems = 2
    MaxSlots = 3
    Zvals <- Zvals2
    Objs = {o1}
    Globals = {}
    Heaps <- SmallHeaps
    ExtCounts = {0, 1}
SPECIFICATION FairSpec
PROPERTIES Terminates CycleSpec
