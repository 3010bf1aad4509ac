SPECIFICATION FairTuiSpec
CONSTANTS
    Ids <- MCIds
    Names <- MCNames
    Targets <- MCTargets
    Abbrev <- MCAbbrev
    NoId = NoId
    NoName = NoName
    Snaggable <- MCSnaggable
    SocketGiven = TRUE
PROPERTIES
    SocketOverrides
CHECK_DEADLOCK FALSE
