SPECIFICATION LifecycleFairSpec
CONSTANTS
    dvb = dvb
    ttx = ttx
    Streams = {dvb, ttx}
    Dvb = dvb
    Ttx = ttx
    Cc = Cc
    Ext = Ext
    BadType = BadType
    None = None
    PageTypes = {dvb, ttx, Cc}
    DirectTypes = {Cc}
    Sources = {"device"}
    Announced = {dvb}
    Chosen = {None}
    Ops = {"pip"}
    DefaultCc = FALSE
    RemoteDead = FALSE
    QueueCap = 1
PROPERTIES
    StopReturns
