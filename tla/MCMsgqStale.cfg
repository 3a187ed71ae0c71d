\* Bounded runs end: no server is left to start, or clients have stopped.
SPECIFICATION Spec
CONSTANTS
    None = None
    p1 = p1
    p2 = p2
    r1 = r1
    r2 = r2
    Pids = {p1, p2}
    Requests = {r1, r2}
    MaxThread = 2
    QCap = 2
    NoWaitPids = {}
    MaxSessions = 2
    MaxCrashes = 0
    MaxKills = 1
    MaxReuse = 1
CHECK_DEADLOCK FALSE
SYMMETRY Symmetry
INVARIANTS
    OwnResult
