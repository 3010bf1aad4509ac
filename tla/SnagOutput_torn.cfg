SPECIFICATION OutputSpec
CONSTANTS
    NoClient = NoClient
    Clients = {a, b}
    Typists = {a}
    Newline = 10
    Mark = 65533
    Byte <- MCByte
    Width <- MCWidth
    Chunks <- MCBytes
    Capacity = 1
    Room = 1
    Backlog = 1
    Lines = {1}
    MaxStream = 1
INVARIANT FramesReadWhole
CHECK_DEADLOCK FALSE
