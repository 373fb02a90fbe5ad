SPECIFICATION Spec
CONSTANTS
    Path = {p1, p2}
    Name = {f, g}
    totScts = 6
    System = 1
    MapByte = 4
    sas = 2
    MaxSegs = 2
    MaxLen = 3
    Buffered = TRUE
INVARIANT BufferIsSector
CHECK_DEADLOCK FALSE
