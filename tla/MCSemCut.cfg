\* The server waits for ever in the state that is shown, or ends as it should.
SPECIFICATION Spec
CONSTANTS
    None = None
    c1 = c1
    c2 = c2
    Clients = {c1, c2}
    MaxThread = 2
    Leftover = {0, 1, 2}
    MaxKills = 0
SYMMETRY Symmetry
CHECK_DEADLOCK FALSE
INVARIANTS
    WritesAtomic
