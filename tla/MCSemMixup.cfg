\* The server takes MAX_THREAD requests and exits.
SPECIFICATION Spec
CONSTANTS
    None = None
    c1 = c1
    c2 = c2
    Clients = {c1, c2}
    MaxThread = 2
    Leftover = {0, 1, 2}
    MaxKills = 0
SYMMETRY Symmetry
CHECK_DEADLOCK FALSE
INVARIANTS
    OwnResult
