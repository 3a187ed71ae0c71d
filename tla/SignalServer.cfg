\* The program ends, or its parent is killed by a signal.
SPECIFICATION FairSpec
CONSTANTS
    None = None
    N = 3
CHECK_DEADLOCK FALSE
INVARIANTS
    WholeMessages
    WakeFindsData
    EachOnce
PROPERTIES
    AllEnd
