SPECIFICATION PresentationSpec
CONSTANTS
    Decodes <- MCDecodes
    Times <- MCTimes
    MaxSpuItems = 2
    MaxQueued = 3
    MaxDecoded = 3
    None = None
INVARIANTS
    PresentationTypeOK
    ScreenIsFading
    ExternalShown
PROPERTIES
    ExternalCatchesUp
    DueIsShown
    OverIsFaded
