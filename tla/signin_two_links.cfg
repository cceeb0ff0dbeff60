SPECIFICATION Spec
CONSTANTS
    Handlers = {h1, h2}
    Browsers = {b1, b2}
    Users = {u1}
    Clients = {c1}
    States = {t1, t2, t3}
    Facebook = {f1, f2}
    Legacy = {}
    Google = {o1}
    Envidicy = {}
    Emails = {}
    MigrationOn = FALSE
    NoUser = NoUser
    NoClient = NoClient
    NoSubject = NoSubject
    NoState = NoState
    NoEmail = NoEmail
    NoSession = NoSession
    Idle = Idle
CHECK_DEADLOCK FALSE
SYMMETRY Symmetry
INVARIANTS
    OnePrimarySubject
