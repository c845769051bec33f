SPECIFICATION FairSpec
CONSTANTS
    N = 4
    Mod = 8
    MaxFdsOut = 2
    Lengths = {2, 4, 5}
    FdCounts = {0, 1, 2}
    MaxTried = 3
    Starts = {7}
    Room = 3
    SkipsFds = FALSE
    NULL = NULL
    fd1 = fd1
    fd2 = fd2
INVARIANTS
    ConnectionInv
    ClosuresArrive
    MessagesContained
    EmittedCodeAgrees
PROPERTIES
    DeliversWhole
    SentArrives
CHECK_DEADLOCK FALSE
