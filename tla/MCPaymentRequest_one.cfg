SPECIFICATION Spec
CONSTANTS
    Requests = {"pr1"}
    Memos = {}
    Loans = {}
    Accounts = {acc1, acc2}
    Months = {1, 2}
    Users = {u1, u2, u3}
    NoUser = NoUser
    Exempt = {}
    DualControl = TRUE
    Opening = 3
    Amounts = {1, 2, 4}
    MaxMovements = 5
    MaxInsertUpdates = 2
    RolloutDelete = FALSE
    LinkFromList = FALSE
    u1 = u1
    u2 = u2
    u3 = u3
    acc1 = acc1
    acc2 = acc2
SYMMETRY PeopleAndAccounts
INVARIANT TypeOK
INVARIANT PaidIsLiveCash
INVARIANT WithinApproval
INVARIANT OffsetOnce
INVARIANT SeparationOfDuties
PROPERTY LockedBookIsFrozen
CHECK_DEADLOCK FALSE
