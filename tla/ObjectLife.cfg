SPECIFICATION FairSpec
CONSTANTS
    WL_SERVER_ID_START = 10
    MaxObjects = 5
    MaxWire = 2
    MaxQueue = 2
    NamesOffers = FALSE
    SplitKinds = {"plain"}
INVARIANTS MessagesFindTheirObjects ProxyRefs TablesInv NoFailure
PROPERTIES IdComesBack
CHECK_DEADLOCK FALSE
