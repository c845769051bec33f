SPECIFICATION Spec
CONSTANTS
    c1 = c1  c2 = c2  r1 = r1  r2 = r2 
    Clients = {c1, c2}
    Registries = {r1, r2}
    Owner <- OwnerOf
    Careful = {c1}
    NoClient = NoClient
    MaxGlobals = 2
    MaxVersion = 1
    MaxRequests <- Budget
    MaxDown = 3
INVARIANTS RegistriesAgree BindFindsItsGlobal
PROPERTIES SyncIsBarrier
CHECK_DEADLOCK FALSE
