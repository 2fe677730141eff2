SPECIFICATION Spec
CONSTANTS
    Jobs = {j1, j2}
    Coils = {c1, c2}
    NoCoil = NoCoil
    Whole = 2
    Stocked = {c1}
    Received <- InStock
    TailMax = 2
    MaxKg = 2
    MaxMoves = 1
    MaxPending = 1
    j1 = j1
    j2 = j2
    c1 = c1
    c2 = c2
INVARIANT TypeOK
INVARIANT ReservedFits
INVARIANT ReservedExact
INVARIANT BookExact
INVARIANT MovementsCover
PROPERTY NoSilentRestore
PROPERTY QueuedRecalcSettles
CHECK_DEADLOCK FALSE
