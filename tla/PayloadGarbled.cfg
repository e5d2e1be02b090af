SPECIFICATION FramingSpec
CONSTANTS
    HeaderLen = 3
    RecvMax = 5
    SendMax = 5
    Garbage <- GarbageSizes
    Paced = FALSE
    Setups <- OneListener
    StringLen = 2
    MaxPackets = 3
INVARIANT DeliveredIsSent
CHECK_DEADLOCK FALSE
