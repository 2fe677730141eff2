SPECIFICATION Spec
CONSTANTS
    Tokens = {t1, t2}
    Records = {r1, r2}
    Users = {clerk, bm1, bm2}
    Approvers = {bm1, bm2}
    Procs = {p1, p2}
    NoUser = NoUser
    NoRecord = NoRecord
    NoToken = NoToken
    MaxStatements = 2
    t1 = t1
    t2 = t2
    r1 = r1
    r2 = r2
    clerk = clerk
    bm1 = bm1
    bm2 = bm2
    p1 = p1
    p2 = p2
SYMMETRY Alike
INVARIANT TypeOK
INVARIANT SingleUse
INVARIANT ChangesAreApproved
PROPERTY Implements
CHECK_DEADLOCK FALSE
