SPECIFICATION FairTuiSpec
CONSTANTS
    Ids <- MCIds
    Names <- MCNames
    Targets <- MCTargets
    Abbrev <- MCAbbrev
    NoId = NoId
    NoName = NoName
    Snaggable <- MCSnaggable
    SocketGiven = FALSE
INVARIANTS
    TuiTypeOK
    IndexConsistent
    ResolvesToOneLive
    SomeoneMarked
    PreviewOfMarked
PROPERTIES
    TargetStable
    KeyHitsMarked
    CatchesUp
CHECK_DEADLOCK FALSE
