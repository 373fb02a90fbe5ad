SPECIFICATION Spec
CONSTANTS
    Proc = {p1, p2}
    first = p1
    MAXUSRPATHS = 3
    MAXSYSPATHS = 5
    sysStdin = 1
    sysShared = {4}
    CloseErrors = FALSE
    MaxOpens = 2
INVARIANTS PathsTypeOK LinkCounts
PROPERTIES FilesImplemented
CHECK_DEADLOCK FALSE
