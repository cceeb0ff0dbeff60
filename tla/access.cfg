SPECIFICATION MCSpec
CONSTANTS
    Handlers = {h1, h2}
    Users = {u1, u2}
    Agencies = {a1, a2}
    Clients = {c1}
    Invites = {i1, i2}
    UserRoles = {"admin", "agency", "client"}
    MemberRoles = {"owner", "member"}
    Racing = {"accept", "resend", "expire"}
    NoUser = NoUser
    NoMember = NoMember
    NoInvite = NoInvite
    Idle = Idle
SYMMETRY Symmetry
INVARIANTS
    GrantsFollowMembership
    InviteOneTime
PROPERTIES
    AdminStays
    ActiveAgencyKeepsOwner
