SPECIFICATION MCSpec
CONSTANTS
    Byte = {a, b}
    buffer_size = 3
    MaxCount = 4
    Junk = Junk
    HeaderLen = 3
    RecvMax = 5
    SendMax = 5
    Garbage <- GarbageSizes
    Paced = TRUE
    Setups <- MCSetups
    StringLen = 2
    MaxPackets = 3
    ReadKinds = {"sock", "demux"}
    BufferSizes = {1, 4}
    ReadSizes = {1, 3}
    Marks = {2, 5}
    MarkLength = 2
    MaxBytes = 7
    DemuxIds = {0, 1}
    FilterIds = {0}
    Pids = {1, 2}
    SourceKinds = {"dev", "vbi"}
    SubtitleSizes = {0, 2}
    MaxSubtitles = 2
    Pages = {9}
    CLOSED_CAPTION_MAX = 17
    DEFAULT = 0
    Captions1 = {0}
    MAX_DETECT_COUNTS = 1
    PtsModulus = 8
    FarAhead = 2
    StartTimes = {7}
    MaxTime = 8
    MaxNodes = 2
    Leads = {1, 3}
    Paths <- MCPaths
    Sixty = 3
INVARIANTS
    RingInv
    StreamOK
    DeliveredInOrder
    DeliveredIsSent
    BytesInOrder
    SourcesSafe
    OnTime
PROPERTIES
    ImplementsFifo
    WaitingIsServed
CHECK_DEADLOCK FALSE
