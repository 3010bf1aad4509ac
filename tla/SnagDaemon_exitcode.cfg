SPECIFICATION Spec
CONSTANTS
    Ids = {s1}
    Names = {}
    Targets <- MCTargets
    Abbrev <- MCAbbrev
    NoId = NoId
    NoName = NoName
    Clients = {c1}
    Terminals = {}
    Wrapped = {}
    Registrable = {}
    Slow = {}
    Codes = {0, 1}
    Zero = 0
    Running = Running
    Sizes = {}
    NoSize = NoSize
    Outside = Outside
INVARIANTS
    ExitCodeKept
CHECK_DEADLOCK FALSE
