SPECIFICATION Spec
CONSTANTS
    t1 = t1  t2 = t2  t3 = t3  q1 = q1  q2 = q2  p1 = p1  p2 = p2
    Threads = {t1, t2}
    Loopers = {t1}
    Queues = {q1, q2}
    Proxies = {p1, p2}
    Home <- TwoPrivate
    FirstQueue <- ProxyHome
    Movable = {p2}
    display = display
    display_queue = display_queue
    NoThread = NoThread
    MaxEvents = 2
    SerialMod = 4
    LocalFaults = TRUE
INVARIANTS ReadInv NoLostWakeup PreparedQueueEmpty
PROPERTIES DeliversInOrder
CHECK_DEADLOCK FALSE
