SPECIFICATION Spec
CONSTANTS
    Deposits = {d1}
    SameLine = {}
    Entries = {e1}
    Users = {u1}
    NoUser = NoUser
    NoId = NoId
    Payouts = {p1}
    Months = {1}
    DepositAmounts = {2}
    EntryAmounts = {1, 2}
    PayoutAmounts = {2}
    ForceUnlinked = FALSE
    u1 = u1
    d1 = d1
    e1 = e1
    p1 = p1
INVARIANT CashCountedOnce
CHECK_DEADLOCK FALSE
