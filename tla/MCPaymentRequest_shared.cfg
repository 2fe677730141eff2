SPECIFICATION Spec
CONSTANTS
    Requests = {"pr1", "pr2"}
    Memos = {"memo"}
    Loans = {"pr1"}
    Accounts = {acc1}
    Months = {1, 2}
    Users = {u1}
    NoUser = NoUser
    Exempt = {u1}
    DualControl = TRUE
    Opening = 3
    Amounts = {2, 3}
    MaxMovements = 4
    MaxInsertUpdates = 3
    RolloutDelete = TRUE
    LinkFromList = TRUE
    u1 = u1
    acc1 = acc1
INVARIANT CashBookTotals
INVARIANT PaidIsLiveCash
INVARIANT DisbursedIsFunded
INVARIANT LinkedExpenseExists
CHECK_DEADLOCK FALSE
