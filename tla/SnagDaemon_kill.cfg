SPECIFICATION FairSpec
CONSTANTS
    Ids = {s1}
    Names = {}
    Targets <- MCTargets
    Abbrev <- MCAbbrev
    NoId = NoId
    NoName = NoName
    Clients = {c1, c2}
    Terminals = {}
    Wrapped = {}
    Registrable = {}
    Slow = {}
    Codes = {0}
    Zero = 0
    Running = Running
    Sizes = {}
    NoSize = NoSize
    Outside = Outside
PROPERTIES
    KilledViewersLeave
CHECK_DEADLOCK FALSE
