SPECIFICATION ServerFairSpec
CONSTANTS
    Clients = {c1}
    listener = listener
    later = later
    Fds = {c1, listener}
    Timers = {}
    Signals = {}
    Idles = {later}
    Head_ = Head_
    NoSource = NoSource
    MaxBatch = 1
    ChecksRemove = FALSE
    MaxOut = 2
    Room = 2
    MaxIn = 2
    ListenersPost = FALSE
PROPERTIES EventsFlow RequestsRead ErroredClientGone
