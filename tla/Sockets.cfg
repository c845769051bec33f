SPECIFICATION SocketsSpec
CONSTANTS
    a = a
    b = b
    s1 = s1
    s2 = s2
    s3 = s3
    Procs = {a, b}
    Sockets = {s1, s2, s3}
    Process <- Owners
    MAX_DISPLAYNO = 1
    NoFile = NoFile
    Writable = {a}
    QuitsMeet = FALSE
INVARIANTS NameInv NameRecovered
SYMMETRY SocketsOfA
CHECK_DEADLOCK FALSE
