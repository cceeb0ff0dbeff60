SPECIFICATION OrderedSpec
CONSTANTS
    Procs = {p1, p2}
    Commands = {1, 2}
    Previews = {1, 2}
    Keys = {1, 2}
    Targets = {t1}
    Values = {x, y}
    NoCmd = NoCmd
    NoRequest = NoRequest
    NoPreview = NoPreview
    NoLock = NoLock
    NoValue = NoValue
    MaxAttempts = 2
    LapseWhileHeld = TRUE
    MayCrash = TRUE
SYMMETRY Symmetry
INVARIANT
    UnresolvedPostQuarantined
