SPECIFICATION Spec
CONSTANTS
    Requests = {"pr1"}
    Memos = {}
    Loans = {"pr1"}
    Accounts = {acc1}
    Months = {1}
    Users = {u1, u2}
    NoUser = NoUser
    Exempt = {}
    DualControl = TRUE
    Opening = 4
    Amounts = {2, 3}
    MaxMovements = 3
    MaxInsertUpdates = 1
    RolloutDelete = FALSE
    LinkFromList = FALSE
    u1 = u1
    u2 = u2
    acc1 = acc1
SYMMETRY PeopleAndAccounts
INVARIANT SettledLoanIsDisbursed
CHECK_DEADLOCK FALSE
