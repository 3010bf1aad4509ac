SPECIFICATION Spec
CONSTANTS
    Ids = {s1, s2}
    Names = {}
    Targets <- MCTargets
    Abbrev <- MCAbbrev
    NoId = NoId
    NoName = NoName
    Clients = {c1, c2, c3}
    Terminals = {}
    Wrapped = {}
    Registrable = {}
    Slow = {}
    Codes = {0}
    Zero = 0
    Running = Running
    Sizes = {}
    NoSize = NoSize
    Outside = Outside
INVARIANTS
    NoAttachLoop
CHECK_DEADLOCK FALSE
