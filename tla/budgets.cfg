SPECIFICATION MCSpec
CONSTANTS
    Handlers = {h1}
    Clients = {c1, c2}
    Accounts = {a1, a2}
    BudgetIds = {b1, b2, b3}
    LastDay = 2
    MaxAmount = 2
    FieldSets = {{"client"}, {"account"}, {"amount"}, {"period"}, {"active"}, {"client", "account"}, {"period", "active"}}
    Racing = {"create", "patch", "account"}
    NoAccount = NoAccount
    NoBudget = NoBudget
    Keep = Keep
    Idle = Idle
SYMMETRY Symmetry
INVARIANTS
    TypeOK
    NoOverlap
    CapRespected
    BudgetsFollowAccounts
PROPERTIES
    TransferConserves
    CallsKeepToLiveAccounts
