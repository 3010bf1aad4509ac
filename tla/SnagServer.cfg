SPECIFICATION FairSpec
CONSTANTS
    Daemons = {d1, d2}
    Clients = {c1, c2}
    Stoppers = {c2}
    Capacity = 1
    NoDaemon = NoDaemon
INVARIANTS
    ServerTypeOK
    SocketOwned
    EventsInOrder
PROPERTIES
    ClientsAnswered
    StopEnds
    Forgotten
CHECK_DEADLOCK FALSE
