SPECIFICATION Spec
CONSTANTS
    Handlers = {h1}
    Clients = {c1, c2}
    Accounts = {a1, a2}
    BudgetIds = {b1}
    LastDay = 1
    MaxAmount = 1
    FieldSets = {{"client"}, {"account"}, {"amount"}, {"period"}, {"active"}, {"client", "account"}}
    Racing = {"patch"}
    NoAccount = NoAccount
    NoBudget = NoBudget
    Keep = Keep
    Idle = Idle
SYMMETRY Symmetry
INVARIANTS
    BudgetsFollowAccounts
