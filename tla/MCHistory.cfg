SPECIFICATION HSpec
CONSTANTS
    w1 = w1
    w2 = w2
    a = a
    b = b
    none = none
    Workers <- MCOneWorker
    Post <- MCPost
    Pre <- MCPre
    Malformed <- MCMalformed
    Default = none
    Winners <- MCWinners
    NonceMod = 12
    Lanes = 2
    Batch = 4
    MaxQueue = 2
    MaxPushes = 2
INVARIANTS
    SessionClean
    SharesCanonical
    StaleBound
    HashesAccounted
PROPERTIES
    KeepsSharePromise
    NoWorkRepeated
