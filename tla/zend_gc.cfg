SPECIFICATION Spec
CONSTANTS
    Vars = {v1, v2}
    MaxZvals = 4
    MaxObjs = 2
    BufSize = 1
    MaxSteps = 9
SYMMETRY Renamings
INVARIANTS TypeOK CountsExact NoDangling RootsSound GarbageKnown
PROPERTY DestructedFirst
