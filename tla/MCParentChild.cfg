\* The programs end, or wait for what nobody does any more.
SPECIFICATION MCSpec
CONSTANTS
    None = None
    N = 3
    Programs = {"parent_child1", "parent_child2", "parent_child3", "pipe1", "pipe2", "pipe3"}
CHECK_DEADLOCK FALSE
INVARIANTS
    TypeOK
    WholeMessages
    EachOnce
    PipesDeliver
    RightNeverEnds
PROPERTIES
    EndsOrLost
