SPECIFICATION FairOutputSpec
CONSTANTS
    NoClient = NoClient
    Clients = {a, b}
    Typists = {a}
    Newline = 10
    Mark = 65533
    Byte <- MCByte
    Width <- MCWidth
    Chunks <- MCChunks
    Capacity = 4
    Room = 1
    Backlog = 1
    Lines = {1}
    MaxStream = 8
INVARIANTS OutputTypeOK ViewContiguous MarksAtEdges LinesAsAsked
PROPERTIES KeepsTail LoopGoesOn OutputShown
CHECK_DEADLOCK FALSE
