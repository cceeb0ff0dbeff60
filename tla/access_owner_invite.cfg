SPECIFICATION Spec
CONSTANTS
    Handlers = {h1}
    Users = {u1, u2}
    Agencies = {a1}
    Clients = {c1}
    Invites = {i1}
    UserRoles = {"admin", "agency", "client"}
    MemberRoles = {"owner", "member"}
    Racing = {}
    NoUser = NoUser
    NoMember = NoMember
    NoInvite = NoInvite
    Idle = Idle
SYMMETRY Symmetry
PROPERTIES
    OwnerStays
