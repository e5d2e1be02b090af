SPECIFICATION LifecycleSpec
CONSTANTS
    dvb = dvb
    ttx = ttx
    Streams = {dvb, ttx}
    Dvb = dvb
    Ttx = ttx
    Cc = Cc
    Ext = Ext
    BadType = BadType
    None = None
    PageTypes = {dvb, ttx, Cc}
    DirectTypes = {Cc}
    Sources = {"socket", "device", "file"}
    Announced = {dvb, ttx, BadType}
    Chosen = {dvb, None}
    Ops = {"page", "pip", "ttControl"}
    DefaultCc = TRUE
    RemoteDead = TRUE
    QueueCap = 2
INVARIANTS
    LifecycleTypeOK
    ThreadsHaveOwner
    QuietWhenClosed
    SubtitleWithSource
    ParserPaired
    ReaderHasSource
PROPERTIES
    ParserReplacedWhenStopped
CHECK_DEADLOCK FALSE
