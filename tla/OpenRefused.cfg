SPECIFICATION IpcSpec
CONSTANTS
    a = a
    b = b
    Clients = {a, b}
    None = None
    Broken = Broken
    FaultSets <- NoFault
PROPERTIES
    OpenFindsService
CHECK_DEADLOCK FALSE
