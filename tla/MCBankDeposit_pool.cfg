SPECIFICATION Spec
CONSTANTS
    Deposits = {d1, d2}
    SameLine = {d1, d2}
    Entries = {e1, e2}
    Users = {u1, u2}
    NoUser = NoUser
    NoId = NoId
    Months = {1, 2}
    DepositAmounts = {2}
    EntryAmounts = {1, 2}
    PayoutAmounts = {2}
    Payouts = {p1}
    ForceUnlinked = TRUE
    u1 = u1
    u2 = u2
    d1 = d1
    d2 = d2
    e1 = e1
    e2 = e2
    p1 = p1
SYMMETRY Alike
INVARIANT TypeOK
INVARIANT LinksAddUp
INVARIANT StatusAgrees
INVARIANT SuspenseIsUnclaimed
INVARIANT NotBackedTwice
INVARIANT DepositCashOnce
INVARIANT StatementLineOnce
PROPERTY ReservationHolds
PROPERTY LockedLedgerIsFrozen
CHECK_DEADLOCK FALSE
