SPECIFICATION FairSpec
CONSTANTS
    w1 = w1
    w2 = w2
    a = a
    b = b
    none = none
    Workers <- MCOneWorker
    Post <- MCPost
    Pre <- MCNoJobs
    Malformed <- MCMalformed
    Default = none
    Winners <- MCWinners
    NonceMod = 3
    Lanes = 1
    Batch = 2
    MaxQueue = 1
    MaxPushes = 2
PROPERTY
    NoHashWhileDisconnected
