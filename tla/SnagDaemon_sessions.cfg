SPECIFICATION Spec
CONSTANTS
    Ids = {s1, s2}
    Names = {n1}
    Targets <- MCTargets
    Abbrev <- MCAbbrev
    NoId = NoId
    NoName = NoName
    Clients = {c1}
    Terminals = {t1}
    Wrapped = {}
    Registrable = {t1, s1, s2}
    Slow = {}
    Codes = {0, 1}
    Zero = 0
    Running = Running
    Sizes = {z1}
    NoSize = NoSize
    Outside = Outside
SYMMETRY IdSymmetry
INVARIANTS
    DaemonTypeOK
    ExitedIsDead
    GraceOnlyWhenIdle
    NoAbandonedShell
    CapturesOwned
PROPERTIES
    RegistrySpec
CHECK_DEADLOCK FALSE
