SPECIFICATION Spec
CONSTANTS
    Proc = {p1, p2}
    first = p1
    Name = {prog, lib}
    Programs = {prog}
    Disk = {prog, lib}
    Followed = {}
    Follower = lib
    MAXMODULES = 2
    MaxBlocks = 5
    MaxLinks = 2
INVARIANTS ModulesTypeOK OwnedOnce InUseStays LinkedStays
CHECK_DEADLOCK FALSE
