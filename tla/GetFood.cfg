\* The program ends.
SPECIFICATION FairSpec
CONSTANTS
    Threads = {Ant, Bat, Cat, Dog}
    Calls = 2
    Places = 3
    Limit = 3
CHECK_DEADLOCK FALSE
INVARIANTS
    TypeOK
    NoRace
    EveryFourth
PROPERTIES
    AllJoin
