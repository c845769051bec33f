SPECIFICATION ServerSpec
CONSTANTS
    Clients = {c1, c2}
    listener = listener
    later = later
    Fds = {c1, c2, listener}
    Timers = {}
    Signals = {}
    Idles = {later}
    Head_ = Head_
    NoSource = NoSource
    MaxBatch = 2
    ChecksRemove = FALSE
    MaxOut = 2
    Room = 1
    MaxIn = 1
    ListenersPost = FALSE
INVARIANTS ServerInv FlushedBeforeBlocking
SYMMETRY ClientSymmetry
