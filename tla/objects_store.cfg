CONSTANTS
    InitSize = 3
    MaxObjs = 3
    MaxSteps = 7
    MaxVars = 2
SPECIFICATION Spec
INVARIANTS TypeOK CountsExact NoDangling FreeListSound NoDanglingRoot Complete
PROPERTIES OnceOnly
