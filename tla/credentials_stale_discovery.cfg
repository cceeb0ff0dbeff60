SPECIFICATION Spec
CONSTANTS
    Rows = {k1}
    Clients = {c1}
    Agencies = {}
    Accounts = {x1}
    Patches = {}
    Discoveries = {d1}
    Syncs = {}
    MaxGrant = 2
    LastKey = 1
    Platform = Platform
    NoRow = NoRow
    NoCred = NoCred
    NoBinding = NoBinding
    Keep = Keep
    Idle = Idle
CHECK_DEADLOCK FALSE
INVARIANTS
    BindingsAttestTheirGrant
