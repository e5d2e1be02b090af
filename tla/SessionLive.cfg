SPECIFICATION LifecycleFairSpec
CONSTANTS
    dvb = dvb
    ttx = ttx
    Streams = {dvb, ttx}
    Dvb = dvb
    Ttx = ttx
    Cc = Cc
    Ext = Ext
    BadType = BadType
    None = None
    PageTypes = {dvb, ttx, Cc}
    DirectTypes = {Cc}
    Sources = {"device", "file"}
    Announced = {}
    Chosen = {dvb, ttx, Cc, None}
    Ops = {"page", "ttControl"}
    DefaultCc = TRUE
    RemoteDead = FALSE
    QueueCap = 2
PROPERTIES
    SetterReturns
    StopReturns
    PendingHandled
