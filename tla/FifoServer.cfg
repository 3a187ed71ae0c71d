\* The programs end, or wait in open for a client that has gone.
SPECIFICATION FairSpec
CONSTANTS
    None = None
    N = 3
    Leftover = {0, 3, 5, 12}
    MaxKills = 1
CHECK_DEADLOCK FALSE
INVARIANTS
    TypeOK
    OwnOrKilled
    BrokenByKill
PROPERTIES
    EndOrMissed
