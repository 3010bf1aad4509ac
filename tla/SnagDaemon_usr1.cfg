SPECIFICATION Spec
CONSTANTS
    Ids = {s1}
    Names = {}
    Targets <- MCTargets
    Abbrev <- MCAbbrev
    NoId = NoId
    NoName = NoName
    Clients = {c1, c2}
    Terminals = {t1}
    Wrapped = {}
    Registrable = {t1}
    Slow = {}
    Codes = {0}
    Zero = 0
    Running = Running
    Sizes = {}
    NoSize = NoSize
    Outside = Outside
PROPERTIES
    AttachSparesShell
CHECK_DEADLOCK FALSE
