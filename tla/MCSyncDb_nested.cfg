SPECIFICATION Spec
CONSTANTS
    Conns = {c1, c2}
    NoConn = NoConn
    MaxWrites = 4
    MaxDepth = 3
    MaxSavepoints = 3
    Faults = {"error", "crash"}
    c1 = c1
    c2 = c2
SYMMETRY ConnSymmetry
INVARIANT TypeOK
INVARIANT FailedLeavesNothing
INVARIANT AckedIsDurable
INVARIANT OpenIsInvisible
INVARIANT DepthsAgree
INVARIANT IdleIsClean
PROPERTY Implements
CHECK_DEADLOCK FALSE
