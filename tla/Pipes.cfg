SPECIFICATION FairSpec
CONSTANTS
    Proc = {p1, p2}
    size = 4
    SAFETY = 2
    Lens = {1, 3}
    MaxLinks = 3
    Word = 8
    Mixed = {"read"}
    MaxCuts = 1
INVARIANTS PipesTypeOK CountsInTurn NoPrematureEof NoDanglingCall
PROPERTIES PipeIsFifo WaitersGoOn
CHECK_DEADLOCK FALSE
