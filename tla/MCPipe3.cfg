\* The program ends, or waits for a child that waits for operands.
SPECIFICATION MCSpec
CONSTANTS
    None = None
    N = 3
    Programs = {"pipe3"}
CHECK_DEADLOCK FALSE
PROPERTIES
    ChildrenTerminate
