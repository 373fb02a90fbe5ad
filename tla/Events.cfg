SPECIFICATION FairSpec
CONSTANTS
    Proc = {p1, p2, p3}
    Name = {lock, gate}
    MAXEVENTS = 2
    IdMod = 16
    EvOffs = 5
    MaxCreat = 2
    MaxValue = 1
    MaxLinks = 1
INVARIANTS EventsTypeOK OneEventEach LockExclusive
PROPERTIES LocksImplemented WaitersServed
CHECK_DEADLOCK FALSE
