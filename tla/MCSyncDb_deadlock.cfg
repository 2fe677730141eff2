SPECIFICATION Spec
CONSTANTS
    Conns = {c1, c2}
    NoConn = NoConn
    MaxWrites = 3
    MaxDepth = 1
    MaxSavepoints = 0
    Faults = {"error", "deadlock"}
    c1 = c1
    c2 = c2
SYMMETRY ConnSymmetry
INVARIANT FailedLeavesNothing
CHECK_DEADLOCK FALSE
