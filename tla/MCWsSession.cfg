SPECIFICATION SessionSpec
CONSTANTS
    MaxPayload = 125
    BitXor <- MCBitXor
    Payloads <- MCPayloads
    HeadLen = 2
    Chunk = 3
    MaxFrames = 3
    Timeout = 1
    MaxWait = 0
INVARIANTS
    WsTypeOK
    StreamOrder
    NothingHeldBack
PROPERTIES
    EverythingArrives
    ShareGoesOut
CHECK_DEADLOCK FALSE
