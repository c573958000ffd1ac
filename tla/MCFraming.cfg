SPECIFICATION FramingSpec
CONSTANTS
    net = net
    uart = uart
    Transport = {net, uart}
    Net = {net}
    Base = 8
    Xor <- MCXor
    SyncByte = 7
    FixedLen <- MCFixedLen
    CONTROL = 2
    CONFIG = 3
    OTA_BEGIN = 4
    OTA_DATA = 5
    OTA_END = 6
    MaxPayload = 3
    MaxChunk = 3
    Commands <- NetAndUart
    MaxFrames <- MCMaxFrames
    MaxWire = 8
    MaxCuts <- MCMaxCuts
INVARIANTS
    RoomForNextByte
    EachConnectionHeard
    CutCostsFewFrames
\* nothing need happen once the bounds are used up
CHECK_DEADLOCK FALSE
