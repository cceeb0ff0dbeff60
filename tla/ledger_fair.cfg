SPECIFICATION FairSparedSpec
CONSTANTS
    Procs = {p1, p2}
    Commands = {c1}
    Previews = {v1}
    Keys = {k1}
    Targets = {t1}
    Values = {x, y}
    NoCmd = NoCmd
    NoRequest = NoRequest
    NoPreview = NoPreview
    NoLock = NoLock
    NoValue = NoValue
    MaxAttempts = 3
    LapseWhileHeld = TRUE
    MayCrash = FALSE
PROPERTIES
    ClaimedCommandFinishes
    LockReleased
