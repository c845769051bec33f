SPECIFICATION RSpec
CONSTANTS
    t1 = t1  t2 = t2  t3 = t3  q1 = q1  q2 = q2  cb1 = cb1  cb2 = cb2
    Threads = {t1, t2, t3}
    Loopers = {t1, t2, t3}
    Queues = {q1, q2}
    Proxies = {cb1, cb2}
    Home <- ThreeHomes
    FirstQueue <- CallbackAndOther
    Movable = {}
    display = display
    display_queue = display_queue
    NoThread = NoThread
    MaxEvents = 2
    SerialMod = 4
    LocalFaults = FALSE
    Roundtrippers = {t1}
    Callback <- FirstThread
INVARIANTS ReturnsAfterAnswer
PROPERTIES SleeperReturns EventsDispatched LoopersStop DefaultRoundtripReturns
CHECK_DEADLOCK FALSE
