SPECIFICATION Spec
CONSTANTS
    h1 = h1
    h2 = h2
    h3 = h3
    v1 = v1
    c1 = c1
    c2 = c2
    c3 = c3
    x1 = x1
    x2 = x2
    x3 = x3
    u1 = u1
    u2 = u2
    t1 = t1
    t2 = t2
    t3 = t3
    i1 = i1
    k1 = k1
    g1 = g1
    d1 = d1
    s1 = s1
    f1 = f1
    l1 = l1
    o1 = o1
    e1 = e1
    Platform = Platform
    NoAccount = NoAccount
    NoRow = NoRow
    NoCred = NoCred
    NoBinding = NoBinding
    NoOne = NoOne
    NoJob = NoJob
    NoUser = NoUser
    NoClient = NoClient
    NoSubject = NoSubject
    NoState = NoState
    NoEmail = NoEmail
    NoSession = NoSession
    NoInvite = NoInvite
    NoKey = NoKey
    Keep = Keep
    Idle = Idle
CHECK_DEADLOCK FALSE
SYMMETRY Symmetry
INVARIANTS
    AloneUnlessOvertaken
    FreshnessIsIngested
    BindingsEndWithStatus
    RowsStayReadable
    StateServesOnce
    SessionOfTheIdentity
    OneWorkspaceEach
    InviteWelcomesOnce
    WithdrawnInTimeStops
    PostedAsPreviewed
    RecoveryOutlivesSwitch
    RetriesNeverRevert
    QualityJudgesTotals
PROPERTIES
    NoNewContest
    OnlyShownBudgetsArchived
    BackoffHonoured
    GrantsOnlyGrow
    ClosedStaysClosed
