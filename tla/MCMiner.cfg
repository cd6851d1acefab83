SPECIFICATION Spec
CONSTANTS
    w1 = w1
    w2 = w2
    a = a
    b = b
    none = none
    Workers <- MCWorkers
    Post <- MCPost
    Pre <- MCNoJobs
    Malformed <- MCMalformed
    Default = none
    Winners <- MCWinners
    NonceMod = 4
    Lanes = 1
    Batch = 2
    MaxQueue = 1
    MaxPushes = 2
SYMMETRY WorkerSymmetry
INVARIANTS
    TypeOK
    SnapshotFresh
    HashesAccounted
