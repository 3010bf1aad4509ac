SPECIFICATION FairSpec
CONSTANTS
    Ids = {s1}
    Names = {}
    Targets <- MCTargets
    Abbrev <- MCAbbrev
    NoId = NoId
    NoName = NoName
    Clients = {c1}
    Terminals = {}
    Wrapped = {}
    Registrable = {}
    Slow = {}
    Codes = {0}
    Zero = 0
    Running = Running
    Sizes = {}
    NoSize = NoSize
    Outside = Outside
PROPERTIES
    DaemonAutoExits
CHECK_DEADLOCK FALSE
