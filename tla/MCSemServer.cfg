\* The server takes MAX_THREAD requests and exits.
SPECIFICATION Spec
CONSTANTS
    None = None
    c1 = c1
    c2 = c2
    c3 = c3
    Clients = {c1, c2, c3}
    MaxThread = 3
    Leftover = {0, 1, 2}
    MaxKills = 1
SYMMETRY Symmetry
CHECK_DEADLOCK FALSE
INVARIANTS
    TypeOK
    ReqExclusive
    FdwOwned
    RecordsWhole
    SemaphoresHeld
    ReleasedAfterServed
    ResultsOnce
    BrokenByOthers
    AllEndOrLost
PROPERTIES
    ThreadsJoined
