SPECIFICATION Spec
CONSTANTS
    Requests = {"pr1", "pr2"}
    Memos = {"memo"}
    Loans = {}
    Accounts = {acc1}
    Months = {1}
    Users = {u1, u2}
    NoUser = NoUser
    Exempt = {}
    DualControl = TRUE
    Opening = 4
    Amounts = {2}
    MaxMovements = 2
    MaxInsertUpdates = 4
    RolloutDelete = FALSE
    LinkFromList = TRUE
    u1 = u1
    u2 = u2
    acc1 = acc1
SYMMETRY PeopleAndAccounts
INVARIANT OnePayableRequestPerExpense
CHECK_DEADLOCK FALSE
