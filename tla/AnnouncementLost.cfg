SPECIFICATION LifecycleSpec
CONSTANTS
    dvb = dvb
    ttx = ttx
    Streams = {dvb, ttx}
    Dvb = dvb
    Ttx = ttx
    Cc = Cc
    Ext = Ext
    BadType = BadType
    None = None
    PageTypes = {dvb, ttx, Cc}
    DirectTypes = {Cc}
    Sources = {"socket"}
    Announced = {dvb, ttx}
    Chosen = {}
    Ops = {}
    DefaultCc = FALSE
    RemoteDead = FALSE
    QueueCap = 1
INVARIANTS
    AnnouncedTypeKept
