SPECIFICATION Spec
CONSTANTS
    HashSpace = 251
    Xxh64 <- MCXxh64
    Windows <- MCWindows
    TextMax = 3
    WideBytes = 4
    NarrowBytes = 2
    Texts <- MCTexts
    MaxText = 8
    ShaBlock = 8
    ShaLength = 2
    ShaInitial <- MCNoBlocks
    Compress <- MCCompress
    Lengths <- MCLengths
    GroupBytes = 4
    Radix = 2
    WordBytes = 2
    CopyWords = 2
    ArenaCap = 16
    ShortRunMax = 3
    LiteralMax = 2
    SinkWords = 2
    First <- MCFirst
    FirstCalls = 2
    Later <- MCLater
    Chunk = 4
    MinTries = 1
    ExtraTries = 1
    Slack = 1
    TailZeros = 3
    Capacity = 15
    SaTail = 3
    MarkerRadix = 4
    MarkerSpace = 32
    BitOr <- MCBitOr
    MaxCalls = 2
INVARIANTS
    VectorOpsAgree
    SuffixArraysExact
    LanesPadded
    DescriptorExact
    CopiesFit
    PipelineTypeOK
    TailIsZero
    OutputCanonical
    BuffersStay
CHECK_DEADLOCK FALSE
