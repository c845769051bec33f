SPECIFICATION CursorSpec
CONSTANTS
    p1 = p1
    p2 = p2
    b1 = b1
    b2 = b2
    main = main
    t1 = t1
    Pools = {p1, p2}
    Buffers = {b1, b2}
    Threads = {main, t1}
    Main = main
    NoPool = NoPool
    INT32_MAX = 15
    Sizes <- MCSizes
    Lengths = {2}
    MaxRefs = 1
    MaxNesting = 2
    ImageSizes = {1, 2}
    MaxImages = 3
    Delays = {0, 1, 3, 15, 16}
    NoId = NoId
    MmapFails = FALSE
    ResizesHeld = FALSE
INVARIANTS PoolInv BuffersInPool FaultsContained CursorInv
SYMMETRY PoolsAndBuffers
CHECK_DEADLOCK FALSE
