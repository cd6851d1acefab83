SPECIFICATION Spec
CONSTANTS
    Radix = 4
    HashBytes = 2
    HighDiffFactor = 9
    Pow16 <- MCPow16
    AstroBwtV3 <- MCAstroBwtV3
    MaxDifficulty = 18
    Works <- MCWorks
    Hf2 = 4
    MaxPayload = 65536
    BitXor <- MCBitXor
    Frames <- MCFrames
    Behind <- MCBehind
    Cuts <- MCCuts
    WordSize = 32768
    MaxGroups = 3
    LastGroup = 1
    Digest = 2
    PointBytes = 1
    Scalar = 1
    PayloadLimit = 2
    Rounds = 1
    IsPoint <- MCIsPoint
    GravitonSum <- MCGravitonSum
    UnmarshalBinary <- MCUnmarshal
    VarintValues <- MCVarintValues
    VarintBytes <- MCVarintBytes
    TimeBytes = 1
    HeightBytes = 1
    IntBytes = 2
    KeyBytes = 1
    StampBytes = 2
    BlockTime = 4
    AllocLimit = 20000
    HighDiff = 2
    SoftForkHeight = 2
    Sha3 <- MCSha3
    OrByte <- MCBitOr
    AndByte <- MCBitAnd
    Minis <- MCMinis
    Templates <- MCTemplates
    Randoms <- MCRandoms
    Tids <- MCTids
    Counters <- MCCounters
    Ways = 2
    MaxPasses = 2
    MaxMinis = 3
    TxSamples <- MCLooseSamples
    Heights <- MCHeights
INVARIANT
    ScdataVerbatim
CHECK_DEADLOCK FALSE
