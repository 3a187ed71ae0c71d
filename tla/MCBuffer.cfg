\* The programs end, or wait for a process that was terminated.
SPECIFICATION MCSpec
CONSTANTS
    MAX = 3
    Loops = 10
    MAX_THREAD = 3
    MAX_MSG = 6
    Sessions = 2
    Lines = 2
    QCap = 2
    Killable = 1
CHECK_DEADLOCK FALSE
INVARIANTS
    TypeOK
    InOrder
    NoClash
    QueuesDeliver
PROPERTIES
    AllJoined
