SPECIFICATION Spec
CONSTANTS
    Handlers = {h1, h2}
    Users = {u1, u2}
    Agencies = {a1}
    Clients = {c1}
    Invites = {}
    UserRoles = {"admin", "agency", "client"}
    MemberRoles = {"owner", "member"}
    Racing = {"patch"}
    NoUser = NoUser
    NoMember = NoMember
    NoInvite = NoInvite
    Idle = Idle
SYMMETRY Symmetry
INVARIANTS
    GrantsFollowMembership
