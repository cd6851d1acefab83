SPECIFICATION MonitorFairSpec
CONSTANTS
    a = a
    none = none
    Workers <- MCNone
    Post <- MCPost
    Pre <- MCNone
    Malformed <- MCMalformed
    Default = none
    Winners <- MCNone
    NonceMod = 3
    MaxPushes = 1
    MaxHashes = 2
    Slots = 2
    MaxTicks = 3
    Tty = TRUE
INVARIANTS
    MonitorTypeOK
    RateExact
PROPERTIES
    StaleRowErased
