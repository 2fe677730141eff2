SPECIFICATION Spec
CONSTANTS
    Conns = {c1, c2}
    NoConn = NoConn
    MaxWrites = 3
    MaxDepth = 2
    MaxSavepoints = 2
    Faults = {"error", "lost"}
    c1 = c1
    c2 = c2
SYMMETRY ConnSymmetry
INVARIANT FailedLeavesNothing
CHECK_DEADLOCK FALSE
