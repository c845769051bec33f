SPECIFICATION FairSpec
CONSTANTS
    Fds = {fd, sig, t}
    Timers = {t}
    Signals = {sig}
    Idles = {i1, i2}
    Head_ = Head_
    NoSource = NoSource
    MaxBatch = 2
    ChecksRemove = FALSE
INVARIANTS EventLoopInv
PROPERTIES CalledUntilRemoved NothingForgotten
