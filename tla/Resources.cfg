SPECIFICATION Spec
CONSTANTS
    WL_SERVER_ID_START = 4
    MaxResources = 3
    Listeners = {l1, l2, l3}
    NoListener = NoListener
    Wild = Wild
    RemovesNext = FALSE
    AddsLate = FALSE
    CreatesLate = FALSE
SYMMETRY Symmetry
INVARIANTS NoDangling ToldOnce TableAgrees
CHECK_DEADLOCK FALSE
