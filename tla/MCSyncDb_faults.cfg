SPECIFICATION Spec
CONSTANTS
    Conns = {c1, c2}
    NoConn = NoConn
    MaxWrites = 4
    MaxDepth = 1
    MaxSavepoints = 1
    Faults = {"error", "crash", "lost", "timeout", "deadlock", "ddl"}
    c1 = c1
    c2 = c2
SYMMETRY ConnSymmetry
INVARIANT UnsureIsAtomic
 
CHECK_DEADLOCK FALSE
