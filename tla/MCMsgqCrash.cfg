\* Bounded runs end: no server is left to start, or clients have stopped.
SPECIFICATION Spec
CONSTANTS
    None = None
    p1 = p1
    p2 = p2
    p3 = p3
    r1 = r1
    r2 = r2
    Pids = {p1, p2, p3}
    Requests = {r1, r2}
    MaxThread = 2
    QCap = 2
    NoWaitPids = {p1, p2, p3}
    MaxSessions = 3
    MaxCrashes = 1
    MaxKills = 1
    MaxReuse = 0
CHECK_DEADLOCK FALSE
INVARIANTS
    TypeOK
    OwnResult
    AtMostOnce
PROPERTIES
    ImplementsService
