SPECIFICATION RSpec
CONSTANTS
    t1 = t1  t2 = t2  t3 = t3  q1 = q1  q2 = q2  cb1 = cb1  cb2 = cb2
    Threads = {t1, t2}
    Loopers = {t1, t2}
    Queues = {q1, q2}
    Proxies = {cb1}
    Home <- TwoHomes
    FirstQueue <- DefaultQueue1
    Movable = {}
    display = display
    display_queue = display_queue
    NoThread = NoThread
    MaxEvents = 1
    SerialMod = 4
    LocalFaults = FALSE
    Roundtrippers = {t2}
    Callback <- SecondThread
PROPERTIES EveryRoundtripReturns
CHECK_DEADLOCK FALSE
