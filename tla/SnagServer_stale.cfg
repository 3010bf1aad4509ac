SPECIFICATION Spec
CONSTANTS
    Daemons = {d1, d2}
    Clients = {c1, c2}
    Stoppers = {c2}
    Capacity = 1
    NoDaemon = NoDaemon
PROPERTIES
    OnlyStaleRemoved
CHECK_DEADLOCK FALSE
