SPECIFICATION FairSpec
CONSTANTS
    Ids = {s1}
    Names = {}
    Targets <- MCTargets
    Abbrev <- MCAbbrev
    NoId = NoId
    NoName = NoName
    Clients = {c1, c2}
    Terminals = {t1}
    Wrapped = {t1}
    Registrable = {t1}
    Slow = {c1}
    Codes = {0}
    Zero = 0
    Running = Running
    Sizes = {}
    NoSize = NoSize
    Outside = Outside
INVARIANTS
    AttachConsistent
    OneTypist
    NoticeTruthful
    NoSelfAttach
PROPERTIES
    NoSilentEviction
    ExitRecorded
    ViewersReleased
CHECK_DEADLOCK FALSE
