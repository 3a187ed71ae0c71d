\* Bounded runs end: no server is left to start, or clients have stopped.
SPECIFICATION FairSpec
CONSTANTS
    None = None
    p1 = p1
    p2 = p2
    p3 = p3
    r1 = r1
    r2 = r2
    Pids = {p1, p2, p3}
    Requests = {r1, r2}
    MaxThread = 2
    QCap = 1
    NoWaitPids = {}
    MaxSessions = 2
    MaxCrashes = 0
    MaxKills = 0
    MaxReuse = 1
CHECK_DEADLOCK FALSE
INVARIANTS
    NothingLost
    OwnBlock
PROPERTIES
    TakenIsAnswered
