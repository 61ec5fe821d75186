CONSTANTS
    Kinds <- SomeKinds
    Vars = {v1, v2}
    MaxRsrc = 2
    MaxLevels = 2
    MaxSteps = 6
SPECIFICATION Spec
INVARIANTS TypeOK InOrder ResourcesSound CleanEnd
PROPERTY Ends
