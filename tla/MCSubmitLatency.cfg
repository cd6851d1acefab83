SPECIFICATION SessionSpec
CONSTANTS
    MaxPayload = 125
    BitXor <- MCBitXor
    Payloads <- MCPayloads
    HeadLen = 1
    Chunk = 3
    MaxFrames = 2
    Timeout = 2
    MaxWait = 5
INVARIANT
    SubmitLatency
CHECK_DEADLOCK FALSE
