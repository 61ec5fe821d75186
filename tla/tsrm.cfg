CONSTANTS
    main = main  w1 = w1  w2 = w2  near = near  far = far
    Threads <- ThreeThreads
    Main = main
    Buckets <- TwoBuckets
    Hash <- SharedBucket
    StartIds = 1
    MaxIds = 3
    MaxEntries = 4
    MaxCalls = 4
SPECIFICATION Spec
INVARIANTS TypeOK Own TableSound DestructedOnce
PROPERTY Served
