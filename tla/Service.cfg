SPECIFICATION MCSpec
CONSTANTS
    a = a
    b = b
    Clients = {a, b}
    None = None
    Broken = Broken
    FaultSets <- MCFaultSets
    ApiHandles = {"h1", "h2"}
    OpenParams <- MCOpenParams
    CcChannels = {2}
    ApiEvents = {"goto"}
    MaxApiCalls = 3
    DtvKinds = {"scte27", "dvb", "teletext", "cc"}
    Values = {1, 2}
    MaxSettings = 5
    RenderItems = {"a", "b", "c"}
    Undrawable = {"c"}
    MaxMessages = 3
    EventKinds = {"available"}
    DisplayItems <- MCDisplayItems
    MaxPosts = 5
INVARIANTS
    IpcTypeOK
    AnswerIsOwn
    SessionHasClient
    OpenTakesEffect
    SourceHasParameters
    ScreenFollowsList
    EntriesHandedOver
PROPERTIES
    CallReturns
CHECK_DEADLOCK FALSE
