SPECIFICATION MCSpec
CONSTANTS
    RegionIds = {1, 2}
    ObjectIds = {1, 2}
    ClutIds = {1}
    PageIds = {7}
    Depths = {8}
    Heights = {1, 2}
    DvbWidth = 2
    MaxHeight = 1
    Rows = {0, 1}
    DdsVersions = {0}
    Listings <- MCListings
    Pictures <- MCPictures
    NoSpu = NoSpu
    PgsObjects = {1, 2}
    MaxFragments = 3
    PgsWidth = 2
    RleCodes <- MCRleCodes
    Pacings = {TRUE, FALSE}
    DvdLengths = {2, 3}
    DvdDelays <- MCDvdDelays
    MaxSubpictures = 3
    DvdRows <- MCDvdRows
    DvdRowWidth = 80
    OnAir <- MCOnAir
    FlofLinks <- MCLinks
    SubtitlePages = {101, 102}
    Sources = {"dtv"}
    Keys <- MCKeys
    MaxKeys = 2
    MaxEvents = 1
    MAX_BUFFERED_PAGES = 2
    TELETEXT_SUBTITLE_MAX_NUMBER = 5
    DOUBLE_HEIGHT_SCROLL_SECTION = 2
    TELETEXT_SUBPAGE_NUMBER_OF_DIGITS = 2
    PesKinds = {"dvb", "ttml", "smpte", "arib"}
    AribCaption = TRUE
    Forms = {"pts", "ptsdts", "none", "short", "wide", "soft"}
    PayloadSize = 9
    Stuffing = {0}
    LostBytes = {0, 4, 5}
    Buffers = {"one", "packet"}
    Formats <- MCFormats
    Cues <- MCCues
    Rates = {25}
    mMaxSpuItems = 2
    MaxSubtitles = 8
    LINE_LEN = 7
    Encodings = {"utf8", "utf16"}
    TextFiles <- MCFiles
    BackEncodings = {"utf8"}
    Recordings <- MCRecordings
    TrackIds <- MCTrackIds
    RequestedTracks <- MCRequested
    SubLength = 3
    LangIdx = 0
    VobPictures <- MCVobPictures
    VobWidth = 20
    SegmentCounts = {0, 1, 2, 3}
    MaxMessages = 3
    Losses = {TRUE, FALSE}
    MinSize = 2
    GlyphWidth = 6
    GlyphHeight = 7
    Glyphs <- MCGlyphs
    Styles <- MCStyles
    Paragraphs <- MCParagraphs
    Prefixed = {TRUE, FALSE}
    Images <- MCImages
    Regions <- MCRegions
    MaxElements = 2
    DisplayWidth = 4
    DisplayHeight = 2
    Streams <- MCStreams
    LostTypes = {"P", "B"}
    MAX_CC_NUM = 5
    USERDATA_BUF_SIZE = 25
    PackageSize = 6
INVARIANTS
    PicturesDrawn
    
    RunsDrawn
    SubtitlePagesSorted
    FilesRead
    StreamsInOrder
CHECK_DEADLOCK FALSE
