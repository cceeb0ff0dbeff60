------------------------- MODULE AgencyAccessProofs -------------------------
(* Theorems of AgencyAccess, for any users, agencies, clients and invites. *)
EXTENDS AgencyAccess, FiniteSetTheorems, TLAPS

InviteOf(h) == invite[local[h].invite]
Accepts(h)  == Doing(h) = "accept"
Entering(h) == Accepts(h) /\ local[h].stage = "entering"

\* Accepted and resent are invites that were issued, accepted for users who exist.
InvitesIssued ==
    \A h \in Handlers :
        /\ Doing(h) \in {"accept", "resend"} => InviteOf(h) # NoInvite
        /\ Accepts(h) => Exists(InviteOf(h).user)

\* Nobody else accepts for a user whom an acceptance created.
CreatorAlone ==
    \A h, g \in Handlers :
        /\ Accepts(h) /\ Accepts(g) /\ h # g
        /\ InviteOf(h).user = InviteOf(g).user
        => ~local[h].created

\* A membership that an acceptance remembers as there is there.
RowsThere ==
    \A h \in Handlers :
        Accepts(h) /\ local[h].there
        => member[InviteOf(h).agency][InviteOf(h).user] # NoMember

\* Memberships are of agencies that were not deleted and of users who exist.
MembersOfOpen ==
    \A a \in Agencies, u \in Users : member[a][u] # NoMember => Open(a) /\ Exists(u)

-----------------------------------------------------------------------------
(* What handlers remember *)

LEMMA LocalType ==
    ASSUME TypeOK, NEW h \in Handlers
    PROVE  /\ local[h] = Idle <=> Doing(h) = "idle"
           /\ Doing(h) \in {"idle"} \cup Operations
           /\ Doing(h) = "patch" =>
                local[h] \in [op: {"patch"}, agency: Agencies, was: {"active", "suspended"}]
           /\ Doing(h) = "accept" =>
                local[h] \in [op: {"accept"}, stage: {"checked", "entering", "undoing"},
                              invite: Invites, was: Member \cup {NoMember},
                              there: BOOLEAN, created: BOOLEAN]
           /\ Doing(h) = "resend" =>
                local[h] \in [op: {"resend"}, invite: Invites, revoke: BOOLEAN]
           /\ Doing(h) = "expire" => local[h] \in [op: {"expire"}, invite: Invites]
           /\ Doing(h) = "drop" => local[h] \in [op: {"drop"}, user: Users, client: Clients]
  <1>1. local[h] = Idle \/ local[h] \in Local
    BY DEF TypeOK
  <1>2. CASE local[h] = Idle
    BY <1>2 DEF Doing
  <1>3. CASE local[h] # Idle
    <2>1. Doing(h) = local[h].op
      BY <1>3 DEF Doing
    <2> QED
      BY <1>1, <1>3, <2>1 DEF Local, Operations
  <1> QED
    BY <1>2, <1>3

\* RowsGone forgets a row and changes nothing else.
LEMMA RowsGoneType ==
    ASSUME TypeOK, NEW a \in Agencies, NEW U \in SUBSET Users
    PROVE  /\ RowsGone(a, U) \in [Handlers -> Local \cup {Idle}]
           /\ \A h \in Handlers :
                /\ ~Accepts(h) => RowsGone(a, U)[h] = local[h]
                /\ Accepts(h) =>
                    \/ RowsGone(a, U)[h] = local[h]
                        /\ (InviteOf(h).agency = a => InviteOf(h).user \notin U)
                    \/ RowsGone(a, U)[h] = [local[h] EXCEPT !.there = FALSE]
  <1> SUFFICES ASSUME NEW h \in Handlers
               PROVE  /\ RowsGone(a, U)[h] \in Local \cup {Idle}
                      /\ ~Accepts(h) => RowsGone(a, U)[h] = local[h]
                      /\ Accepts(h) =>
                          \/ RowsGone(a, U)[h] = local[h]
                              /\ (InviteOf(h).agency = a => InviteOf(h).user \notin U)
                          \/ RowsGone(a, U)[h] = [local[h] EXCEPT !.there = FALSE]
    BY DEF RowsGone
  <1>1. local[h] \in Local \cup {Idle}
    BY DEF TypeOK
  <1>2. CASE ~Accepts(h)
    BY <1>1, <1>2 DEF RowsGone, Accepting, Accepts
  <1>3. CASE Accepts(h)
    <2>1. [local[h] EXCEPT !.there = FALSE] \in Local
      BY <1>3, LocalType DEF Accepts, Local
    <2> QED
      BY <1>1, <1>3, <2>1 DEF RowsGone, Accepting, Accepts, InviteOf
  <1> QED
    BY <1>2, <1>3

\* DropsForgotten forgets removals of grants and nothing else.
LEMMA DropsForgottenType ==
    ASSUME TypeOK, NEW u
    PROVE  /\ DropsForgotten(u) \in [Handlers -> Local \cup {Idle}]
           /\ \A h \in Handlers :
                \/ DropsForgotten(u)[h] = local[h]
                \/ Doing(h) = "drop" /\ DropsForgotten(u)[h] = Idle
  BY DEF TypeOK, DropsForgotten

\* What a rebuild leaves in user_client_access.
LEMMA RebuildType ==
    ASSUME TypeOK, NEW U, Rebuild(U)
    PROVE  grant' \in [Users -> [Clients -> {"none", "agency", "client"}]]
  <1>1. \A u \in Users : grant[u] \in [Clients -> {"none", "agency", "client"}]
    BY DEF TypeOK
  <1>2. \A u \in Users : RebuiltRow(u) \in [Clients -> {"none", "agency", "client"}]
    BY <1>1 DEF RebuiltRow
  <1> QED
    BY <1>1, <1>2 DEF Rebuild

\* One membership is written.
LEMMA MemberPut ==
    ASSUME TypeOK, NEW a \in Agencies, NEW u \in Users, NEW v \in Member \cup {NoMember},
           member' = [member EXCEPT ![a][u] = v]
    PROVE  /\ member' \in [Agencies -> [Users -> Member \cup {NoMember}]]
           /\ member'[a][u] = v
           /\ \A b \in Agencies, w \in Users :
                b # a \/ w # u => member'[b][w] = member[b][w]
  BY DEF TypeOK

LEMMA MarkType ==
    ASSUME TypeOK, NEW i \in Invites,
           NEW s \in {"pending", "accepted", "revoked", "expired", "deleted"}
    PROVE  /\ Mark(i, s) \in [Invites -> Invite \cup {NoInvite}]
           /\ \A j \in Invites : j # i => Mark(i, s)[j] = invite[j]
           /\ Present(i) => Mark(i, s)[i] = [invite[i] EXCEPT !.status = s]
           /\ ~Present(i) => Mark(i, s)[i] = invite[i]
  BY DEF TypeOK, Mark, Present, Invite

LEMMA IssueType ==
    ASSUME TypeOK, NEW a \in Agencies, NEW u \in Users, NEW r \in MemberRoles, Issue(a, u, r)
    PROVE  /\ invite' \in [Invites -> Invite \cup {NoInvite}]
           /\ \A j \in Invites :
                /\ invite[j] # NoInvite =>
                    \/ invite'[j] = invite[j]
                    \/ Pending(j) /\ invite'[j] = [invite[j] EXCEPT !.status = "revoked"]
  <1> DEFINE new == [agency |-> a, user |-> u, role |-> r, status |-> "pending"]
             val(i, j) ==
                IF j = i THEN new
                ELSE IF Pending(j) /\ invite[j].agency = a /\ invite[j].user = u
                THEN [invite[j] EXCEPT !.status = "revoked"]
                ELSE invite[j]
  <1>1. PICK i \in Unused : invite' = [j \in Invites |-> val(i, j)]
    BY DEF Issue
  <1>2. new \in Invite
    BY DEF Invite
  <1>3. \A j \in Invites :
            Pending(j) => invite[j] \in Invite
                            /\ [invite[j] EXCEPT !.status = "revoked"] \in Invite
    BY DEF TypeOK, Pending, Invite
  <1>4. \A j \in Invites : val(i, j) \in Invite \cup {NoInvite}
    <2> SUFFICES ASSUME NEW j \in Invites
                 PROVE  val(i, j) \in Invite \cup {NoInvite}
      OBVIOUS
    <2>1. invite[j] \in Invite \cup {NoInvite}
      BY DEF TypeOK
    <2> HIDE DEF new
    <2> QED
      BY <1>2, <1>3, <2>1
  <1> HIDE DEF new
  <1>5. \A j \in Invites : invite[j] # NoInvite => j # i
    BY <1>1 DEF Unused
  <1> QED
    BY <1>1, <1>4, <1>5

-----------------------------------------------------------------------------
(* Type correctness *)

LEMMA NewRow ==
    ASSUME NEW r \in UserRoles, NEW act \in BOOLEAN
    PROVE  [role |-> r, active |-> act] \in User
  BY DEF User

LEMMA EraseType ==
    ASSUME TypeOK, NEW u \in Users, Erase(u)
    PROVE  /\ user' \in [Users -> User \cup {NoUser}]
           /\ member' \in [Agencies -> [Users -> Member \cup {NoMember}]]
           /\ grant' \in [Users -> [Clients -> {"none", "agency", "client"}]]
  BY DEF TypeOK, Erase

LEMMA UserActionType == TypeOK /\ UserAction => TypeOK'
  <1> SUFFICES ASSUME TypeOK, NEW u \in Users,
                      \/ DeleteUser(u)
                      \/ \E r \in UserRoles, act \in BOOLEAN :
                            CreateUser(u, r, act) \/ PatchUser(u, r, act)
                      \/ \E c \in Clients : AssignDirect(u, c)
               PROVE  TypeOK'
    BY DEF UserAction
  <1>1. CASE DeleteUser(u)
    BY <1>1, EraseType, DropsForgottenType DEF DeleteUser, TypeOK
  <1>2. ASSUME NEW r \in UserRoles, NEW act \in BOOLEAN, CreateUser(u, r, act)
        PROVE  TypeOK'
    BY <1>2, NewRow DEF CreateUser, TypeOK
  <1>3. ASSUME NEW r \in UserRoles, NEW act \in BOOLEAN, PatchUser(u, r, act)
        PROVE  TypeOK'
    <2>1. grant' \in [Users -> [Clients -> {"none", "agency", "client"}]]
      <3>1. CASE Rebuild({u})
        BY <3>1, RebuildType
      <3>2. CASE grant' = [grant EXCEPT ![u] = [c \in Clients |-> "none"]]
        BY <3>2 DEF TypeOK
      <3>3. CASE UNCHANGED grant
        BY <3>3 DEF TypeOK
      <3> QED
        BY <1>3, <3>1, <3>2, <3>3 DEF PatchUser
    <2> QED
      BY <1>3, <2>1, NewRow DEF PatchUser, TypeOK
  <1>4. ASSUME NEW c \in Clients, AssignDirect(u, c)
        PROVE  TypeOK'
    BY <1>4 DEF AssignDirect, TypeOK
  <1> QED
    BY <1>1, <1>2, <1>3, <1>4

LEMMA AgencyActionType == TypeOK /\ AgencyAction => TypeOK'
  <1> SUFFICES ASSUME TypeOK, NEW a \in Agencies,
                      \/ DeleteAgency(a)
                      \/ \E s \in {"active", "suspended"} : CreateAgency(a, s)
                      \/ \E c \in Clients : AssignClient(a, c) \/ RevokeClient(a, c)
               PROVE  TypeOK'
    BY DEF AgencyAction
  <1>1. CASE DeleteAgency(a)
    <2>1. grant' \in [Users -> [Clients -> {"none", "agency", "client"}]]
      BY <1>1, RebuildType DEF DeleteAgency
    <2>2. local' \in [Handlers -> Local \cup {Idle}]
      BY <1>1, RowsGoneType DEF DeleteAgency
    <2>3. user' \in [Users -> User \cup {NoUser}]
      <3>1. \A u \in Demoted(a) : [user[u] EXCEPT !.role = "client"] \in User
        BY RoleAssumption DEF Demoted, Affected, MembersOf, IsUser, Exists, TypeOK, User
      <3> QED
        BY <1>1, <3>1 DEF DeleteAgency, TypeOK
    <2>4. invite' \in [Invites -> Invite \cup {NoInvite}]
      <3>1. \A i \in Invites : invite[i] # NoInvite =>
                [invite[i] EXCEPT !.status = "deleted"] \in Invite
        BY DEF TypeOK, Invite
      <3> QED
        BY <1>1, <3>1 DEF DeleteAgency, TypeOK
    <2>5. agency' \in [Agencies -> AgencyStatus]
      BY <1>1 DEF DeleteAgency, TypeOK, AgencyStatus
    <2> QED
      BY <1>1, <2>1, <2>2, <2>3, <2>4, <2>5 DEF DeleteAgency, TypeOK
  <1>2. ASSUME NEW s \in {"active", "suspended"}, CreateAgency(a, s)
        PROVE  TypeOK'
    BY <1>2 DEF CreateAgency, TypeOK, AgencyStatus
  <1>3. ASSUME NEW c \in Clients, AssignClient(a, c)
        PROVE  TypeOK'
    BY <1>3, RebuildType DEF AssignClient, TypeOK
  <1>4. ASSUME NEW c \in Clients, RevokeClient(a, c)
        PROVE  TypeOK'
    BY <1>4, RebuildType DEF RevokeClient, TypeOK
  <1> QED
    BY <1>1, <1>2, <1>3, <1>4

LEMMA MemberActionType == TypeOK /\ MemberAction => TypeOK'
  <1> SUFFICES ASSUME TypeOK, NEW a \in Agencies, NEW u \in Users,
                      \/ \E r \in MemberRoles, act \in BOOLEAN : UpsertMember(a, u, r, act)
                      \/ DeactivateMember(a, u)
                      \/ RemoveMember(a, u)
               PROVE  TypeOK'
    BY DEF MemberAction
  <1>1. ASSUME NEW r \in MemberRoles, NEW act \in BOOLEAN, UpsertMember(a, u, r, act)
        PROVE  TypeOK'
    <2>1. [role |-> r, active |-> act] \in Member
      BY DEF Member
    <2>2. member' \in [Agencies -> [Users -> Member \cup {NoMember}]]
      BY <1>1, <2>1, MemberPut DEF UpsertMember
    <2> QED
      BY <1>1, <2>2, RebuildType DEF UpsertMember, TypeOK
  <1>2. CASE DeactivateMember(a, u)
    <2>1. [member[a][u] EXCEPT !.active = FALSE] \in Member
      <3>1. member[a][u] \in Member
        BY <1>2 DEF DeactivateMember, TypeOK
      <3> QED
        BY <3>1 DEF Member
    <2>2. member' = [member EXCEPT ![a][u] = [member[a][u] EXCEPT !.active = FALSE]]
      BY <1>2 DEF DeactivateMember, TypeOK
    <2>3. member' \in [Agencies -> [Users -> Member \cup {NoMember}]]
      BY <2>1, <2>2, MemberPut
    <2> QED
      BY <1>2, <2>3, RebuildType DEF DeactivateMember, TypeOK
  <1>3. CASE RemoveMember(a, u)
    <2>1. member' \in [Agencies -> [Users -> Member \cup {NoMember}]]
      BY <1>3, MemberPut DEF RemoveMember
    <2> QED
      BY <1>3, <2>1, RebuildType, RowsGoneType DEF RemoveMember, TypeOK
  <1> QED
    BY <1>1, <1>2, <1>3

LEMMA InviteActionType == TypeOK /\ InviteAction => TypeOK'
  <1> SUFFICES ASSUME TypeOK, InviteAction
               PROVE  TypeOK'
    OBVIOUS
  <1>1. ASSUME NEW a \in Agencies, NEW u \in Users, NEW r \in MemberRoles,
               IssueInvite(a, u, r)
        PROVE  TypeOK'
    BY <1>1, IssueType DEF IssueInvite, TypeOK
  <1>2. ASSUME NEW i \in Invites, RevokeInvite(i)
        PROVE  TypeOK'
    BY <1>2, MarkType DEF RevokeInvite, TypeOK
  <1> QED
    BY <1>1, <1>2 DEF InviteAction

\* The operations of one handler, step by step.
HandlerStep(h) ==
    \/ \E u \in Users, c \in Clients : StartDrop(h, u, c)
    \/ Drop(h)
    \/ \E a \in Agencies : StartPatch(h, a)
    \/ \E s \in {"active", "suspended"} : WritePatch(h, s)
    \/ \E i \in Invites : StartResend(h, i) \/ StartExpire(h, i) \/ StartAccept(h, i)
    \/ ResendRevokes(h) \/ ResendIssues(h) \/ Expire(h)
    \/ AcceptFails(h) \/ AcceptTooLate(h) \/ Accept(h)
    \/ Enter(h) \/ Compensate(h) \/ Undo(h)

LEMMA HandlerSteps == HandlerAction <=> \E h \in Handlers : HandlerStep(h)
  BY DEF HandlerAction, HandlerStep

LEMMA RememberType ==
    ASSUME TypeOK, NEW h \in Handlers, NEW r \in Local \cup {Idle}, Remember(h, r)
    PROVE  /\ local' \in [Handlers -> Local \cup {Idle}]
           /\ local'[h] = r
           /\ \A g \in Handlers \ {h} : local'[g] = local[g]
  BY DEF TypeOK, Remember

\* The invite that is accepted or resent.
LEMMA InviteType ==
    ASSUME TypeOK, InvitesIssued, NEW h \in Handlers, Doing(h) \in {"accept", "resend"}
    PROVE  /\ InviteOf(h) \in Invite
           /\ InviteOf(h).user \in Users
           /\ InviteOf(h).agency \in Agencies
           /\ InviteOf(h).role \in MemberRoles
           /\ local[h].invite \in Invites
           /\ Accepts(h) => Exists(InviteOf(h).user)
  BY LocalType DEF InvitesIssued, InviteOf, Accepts, TypeOK, Invite

LEMMA SmallStepType ==
    ASSUME TypeOK, NEW h \in Handlers,
           \/ \E u \in Users, c \in Clients : StartDrop(h, u, c)
           \/ Drop(h)
           \/ \E a \in Agencies : StartPatch(h, a)
           \/ \E s \in {"active", "suspended"} : WritePatch(h, s)
           \/ \E i \in Invites : StartResend(h, i) \/ StartExpire(h, i)
           \/ ResendRevokes(h) \/ Expire(h)
    PROVE  TypeOK'
  <1>1. ASSUME NEW u \in Users, NEW c \in Clients, StartDrop(h, u, c)
        PROVE  TypeOK'
    <2>1. [op |-> "drop", user |-> u, client |-> c] \in Local
      BY DEF Local
    <2> QED
      BY <1>1, <2>1, RememberType DEF StartDrop, TypeOK, tables
  <1>2. CASE Drop(h)
    <2>1. local[h].user \in Users /\ local[h].client \in Clients
      BY <1>2, LocalType DEF Drop, Runs
    <2> QED
      BY <1>2, <2>1, RememberType DEF Drop, TypeOK
  <1>3. ASSUME NEW a \in Agencies, StartPatch(h, a)
        PROVE  TypeOK'
    <2>1. [op |-> "patch", agency |-> a, was |-> agency[a]] \in Local
      BY <1>3 DEF StartPatch, Open, Local
    <2> QED
      BY <1>3, <2>1, RememberType DEF StartPatch, TypeOK, tables
  <1>4. ASSUME NEW s \in {"active", "suspended"}, WritePatch(h, s)
        PROVE  TypeOK'
    <2>1. local[h].agency \in Agencies
      BY <1>4, LocalType DEF WritePatch, Runs
    <2>2. grant' \in [Users -> [Clients -> {"none", "agency", "client"}]]
      BY <1>4, RebuildType DEF WritePatch, TypeOK
    <2> QED
      BY <1>4, <2>1, <2>2, RememberType DEF WritePatch, TypeOK, AgencyStatus
  <1>5. ASSUME NEW i \in Invites, StartResend(h, i)
        PROVE  TypeOK'
    <2>1. [op |-> "resend", invite |-> i, revoke |-> Pending(i)] \in Local
      BY DEF Local, Pending
    <2> QED
      BY <1>5, <2>1, RememberType DEF StartResend, TypeOK, tables
  <1>6. ASSUME NEW i \in Invites, StartExpire(h, i)
        PROVE  TypeOK'
    <2>1. [op |-> "expire", invite |-> i] \in Local
      BY DEF Local
    <2> QED
      BY <1>6, <2>1, RememberType DEF StartExpire, TypeOK, tables
  <1>7. CASE ResendRevokes(h)
    <2>1. local[h].invite \in Invites /\ [local[h] EXCEPT !.revoke = FALSE] \in Local
      BY <1>7, LocalType DEF ResendRevokes, Runs, Local
    <2> QED
      BY <1>7, <2>1, RememberType, MarkType DEF ResendRevokes, TypeOK
  <1>8. CASE Expire(h)
    <2>1. local[h].invite \in Invites
      BY <1>8, LocalType DEF Expire, Runs
    <2> QED
      BY <1>8, <2>1, RememberType, MarkType DEF Expire, TypeOK
  <1> QED
    BY <1>1, <1>2, <1>3, <1>4, <1>5, <1>6, <1>7, <1>8

\* The records an acceptance leaves behind.
LEMMA AcceptRecords ==
    ASSUME TypeOK, NEW h \in Handlers, Accepts(h), NEW b \in BOOLEAN
    PROVE  /\ [local[h] EXCEPT !.stage = "undoing"] \in Local
           /\ [local[h] EXCEPT !.stage = "entering", !.there = b] \in Local
           /\ [local[h] EXCEPT !.stage = "undoing", !.there = FALSE] \in Local
  BY ZenonT(60), LocalType DEF Accepts, Local

LEMMA StartAcceptType ==
    ASSUME TypeOK, NEW h \in Handlers, NEW i \in Invites, StartAccept(h, i)
    PROVE  TypeOK'
  <1>1. invite[i] \in Invite
    BY DEF StartAccept, Pending, TypeOK
  <1>2. invite[i].agency \in Agencies /\ invite[i].user \in Users
    BY <1>1 DEF Invite
  <1>3. member[invite[i].agency][invite[i].user] \in Member \cup {NoMember}
    BY <1>2 DEF TypeOK
  <1>4. [role |-> "agency", active |-> TRUE] \in User
    BY RoleAssumption DEF User
  <1>5. user' \in [Users -> User \cup {NoUser}]
    BY <1>2, <1>4 DEF StartAccept, TypeOK
  <1>6. local' \in [Handlers -> Local \cup {Idle}]
    <2> DEFINE m == member[invite[i].agency][invite[i].user]
               r == [op |-> "accept", stage |-> "checked", invite |-> i, was |-> m,
                     there |-> m # NoMember, created |-> ~Exists(invite[i].user)]
    <2>1. r \in Local
      BY <1>3 DEF Local
    <2>2. Remember(h, r)
      BY DEF StartAccept
    <2> HIDE DEF r
    <2> QED
      BY <2>1, <2>2, RememberType
  <1> QED
    BY <1>5, <1>6 DEF StartAccept, TypeOK

\* What Accept and Compensate write, in terms of the membership concerned.
LEMMA AcceptWrites ==
    ASSUME TypeOK, InvitesIssued, NEW h \in Handlers, Accept(h)
    PROVE  /\ member' \in [Agencies -> [Users -> Member \cup {NoMember}]]
           /\ local' \in [Handlers -> Local \cup {Idle}]
           /\ \A b \in Agencies, w \in Users :
                b # InviteOf(h).agency \/ w # InviteOf(h).user => member'[b][w] = member[b][w]
           /\ local[h].was = NoMember \/ local[h].there =>
                member'[InviteOf(h).agency][InviteOf(h).user]
                    = [role |-> InviteOf(h).role, active |-> TRUE]
           /\ ~(local[h].was = NoMember \/ local[h].there) => member' = member
           /\ local'[h] = [local[h] EXCEPT !.stage = "entering",
                                !.there = (local[h].was = NoMember \/ local[h].there)]
           /\ \A g \in Handlers \ {h} : local'[g] = local[g]
  <1> DEFINE a == InviteOf(h).agency
             u == InviteOf(h).user
             new == [role |-> InviteOf(h).role, active |-> TRUE]
             joins == local[h].was = NoMember \/ local[h].there
  <1>0. Accepts(h)
    BY DEF Accept, Runs, Accepts
  <1>1. a \in Agencies /\ u \in Users /\ new \in Member
    BY <1>0, InviteType DEF Member, Accepts
  <1>2. joins \in BOOLEAN
    BY <1>0, LocalType DEF Accepts
  <1>3. member' = IF joins THEN [member EXCEPT ![a][u] = new] ELSE member
    BY DEF Accept, InviteOf
  <1>4. Remember(h, [local[h] EXCEPT !.stage = "entering", !.there = joins])
    BY DEF Accept
  <1>5. [local[h] EXCEPT !.stage = "entering", !.there = joins] \in Local
    BY <1>0, <1>2, AcceptRecords
  <1>6. /\ local' \in [Handlers -> Local \cup {Idle}]
        /\ local'[h] = [local[h] EXCEPT !.stage = "entering", !.there = joins]
        /\ \A g \in Handlers \ {h} : local'[g] = local[g]
    BY <1>4, <1>5, RememberType
  <1> HIDE DEF a, u, new, joins
  <1>7. CASE joins
    <2>1. member' = [member EXCEPT ![a][u] = new]
      BY <1>3, <1>7
    <2>2. /\ member' \in [Agencies -> [Users -> Member \cup {NoMember}]]
          /\ member'[a][u] = new
          /\ \A b \in Agencies, w \in Users : b # a \/ w # u => member'[b][w] = member[b][w]
      BY <1>1, <2>1 DEF TypeOK
    <2> QED
      BY <1>6, <1>7, <2>2 DEF a, u, new, joins
  <1>8. CASE ~joins
    <2>1. member' = member
      BY <1>3, <1>8
    <2> QED
      BY <1>1, <1>6, <1>8, <2>1 DEF a, u, new, joins, TypeOK
  <1> QED
    BY <1>7, <1>8

LEMMA CompensateWrites ==
    ASSUME TypeOK, InvitesIssued, NEW h \in Handlers, Compensate(h)
    PROVE  /\ member' \in [Agencies -> [Users -> Member \cup {NoMember}]]
           /\ local' \in [Handlers -> Local \cup {Idle}]
           /\ \A b \in Agencies, w \in Users :
                b # InviteOf(h).agency \/ w # InviteOf(h).user => member'[b][w] = member[b][w]
           /\ local[h].there => member'[InviteOf(h).agency][InviteOf(h).user] = local[h].was
           /\ ~local[h].there => member' = member
           /\ local'[h] = [local[h] EXCEPT !.stage = "undoing", !.there = FALSE]
           /\ \A g \in Handlers \ {h} :
                /\ ~Accepts(g) => local'[g] = local[g]
                /\ Accepts(g) =>
                    \/ /\ local'[g] = local[g]
                       /\ /\ local[h].there /\ local[h].was = NoMember
                          /\ InviteOf(g).agency = InviteOf(h).agency
                          => InviteOf(g).user # InviteOf(h).user
                    \/ local'[g] = [local[g] EXCEPT !.there = FALSE]
  <1> DEFINE a == InviteOf(h).agency
             u == InviteOf(h).user
             new == [local[h] EXCEPT !.stage = "undoing", !.there = FALSE]
             gone == local[h].there /\ local[h].was = NoMember
             L == IF gone THEN RowsGone(a, {u}) ELSE local
  <1>0. Accepts(h)
    BY DEF Compensate, Runs, Accepts
  <1>1. a \in Agencies /\ u \in Users
    BY <1>0, InviteType DEF Accepts
  <1>2. local[h].was \in Member \cup {NoMember} /\ local[h].there \in BOOLEAN
    BY <1>0, LocalType DEF Accepts
  <1>3. member' = IF local[h].there THEN [member EXCEPT ![a][u] = local[h].was] ELSE member
    BY DEF Compensate, PutBack, InviteOf
  <1>4. local' = [L EXCEPT ![h] = new]
    BY DEF Compensate, InviteOf
  <1>5. new \in Local
    BY <1>0, AcceptRecords
  <1>6. /\ L \in [Handlers -> Local \cup {Idle}]
        /\ \A g \in Handlers :
            /\ ~Accepts(g) => L[g] = local[g]
            /\ Accepts(g) =>
                \/ L[g] = local[g] /\ (gone /\ InviteOf(g).agency = a => InviteOf(g).user # u)
                \/ L[g] = [local[g] EXCEPT !.there = FALSE]
    <2>1. CASE gone
      <3>1. L = RowsGone(a, {u}) /\ {u} \in SUBSET Users
        BY <1>1, <2>1
      <3> HIDE DEF L, a, u, gone
      <3> QED
        BY <1>1, <3>1, RowsGoneType
    <2>2. CASE ~gone
      <3>1. L = local
        BY <2>2
      <3> HIDE DEF L, a, u, gone
      <3> QED
        BY <2>2, <3>1 DEF TypeOK
    <2> QED
      BY <2>1, <2>2
  <1> HIDE DEF a, u, new, L
  <1>7. /\ local' \in [Handlers -> Local \cup {Idle}]
        /\ local'[h] = new
        /\ \A g \in Handlers \ {h} : local'[g] = L[g]
    BY <1>4, <1>5, <1>6
  <1>8. /\ member' \in [Agencies -> [Users -> Member \cup {NoMember}]]
        /\ \A b \in Agencies, w \in Users : b # a \/ w # u => member'[b][w] = member[b][w]
        /\ local[h].there => member'[a][u] = local[h].was
        /\ ~local[h].there => member' = member
    <2>1. CASE local[h].there
      <3>1. member' = [member EXCEPT ![a][u] = local[h].was]
        BY <1>3, <2>1
      <3> QED
        BY <1>1, <1>2, <2>1, <3>1 DEF TypeOK
    <2>2. CASE ~local[h].there
      BY <1>3, <2>2 DEF TypeOK
    <2> QED
      BY <2>1, <2>2
  <1>9. \A g \in Handlers \ {h} :
            /\ ~Accepts(g) => local'[g] = local[g]
            /\ Accepts(g) =>
                \/ /\ local'[g] = local[g]
                   /\ gone /\ InviteOf(g).agency = a => InviteOf(g).user # u
                \/ local'[g] = [local[g] EXCEPT !.there = FALSE]
    BY <1>6, <1>7
  <1> QED
    BY <1>7, <1>8, <1>9 DEF a, u, new

LEMMA UndoWrites ==
    ASSUME TypeOK, InvitesIssued, NEW h \in Handlers, Undo(h)
    PROVE  /\ user' \in [Users -> User \cup {NoUser}]
           /\ member' \in [Agencies -> [Users -> Member \cup {NoMember}]]
           /\ grant' \in [Users -> [Clients -> {"none", "agency", "client"}]]
           /\ local' \in [Handlers -> Local \cup {Idle}]
           /\ local'[h] = Idle
           /\ \A g \in Handlers \ {h} :
                \/ local'[g] = local[g]
                \/ Doing(g) = "drop" /\ local'[g] = Idle
           /\ \/ UNCHANGED <<user, member, grant>>
              \/ local[h].created /\ MayErase(InviteOf(h).user) /\ Erase(InviteOf(h).user)
  <1> DEFINE u == InviteOf(h).user
             erases == local[h].created /\ MayErase(u)
  <1>0. Doing(h) = "accept"
    BY DEF Undo, Runs
  <1>1. u \in Users
    BY <1>0, InviteType
  <1>2. IF erases THEN Erase(u) /\ local' = [DropsForgotten(u) EXCEPT ![h] = Idle]
                  ELSE UNCHANGED <<user, member, grant>> /\ Remember(h, Idle)
    BY DEF Undo, InviteOf
  <1> HIDE DEF u
  <1>3. CASE erases
    <2>1. Erase(u) /\ local' = [DropsForgotten(u) EXCEPT ![h] = Idle]
      BY <1>2, <1>3
    <2>2. /\ user' \in [Users -> User \cup {NoUser}]
          /\ member' \in [Agencies -> [Users -> Member \cup {NoMember}]]
          /\ grant' \in [Users -> [Clients -> {"none", "agency", "client"}]]
      BY <1>1, <2>1 DEF TypeOK, Erase
    <2>3. /\ DropsForgotten(u) \in [Handlers -> Local \cup {Idle}]
          /\ \A g \in Handlers :
                \/ DropsForgotten(u)[g] = local[g]
                \/ Doing(g) = "drop" /\ DropsForgotten(u)[g] = Idle
      BY DEF TypeOK, DropsForgotten
    <2>4. /\ local' \in [Handlers -> Local \cup {Idle}]
          /\ local'[h] = Idle
          /\ \A g \in Handlers \ {h} : local'[g] = DropsForgotten(u)[g]
      BY <2>1, <2>3
    <2> QED
      BY <1>3, <2>1, <2>2, <2>3, <2>4 DEF u
  <1>4. CASE ~erases
    <2>1. UNCHANGED <<user, member, grant>> /\ Remember(h, Idle)
      BY <1>2, <1>4
    <2> QED
      BY <2>1, RememberType DEF TypeOK
  <1> QED
    BY <1>3, <1>4

LEMMA AcceptanceType ==
    ASSUME TypeOK, InvitesIssued, NEW h \in Handlers,
           \/ ResendIssues(h)
           \/ AcceptFails(h) \/ AcceptTooLate(h) \/ Accept(h)
           \/ Enter(h) \/ Compensate(h) \/ Undo(h)
    PROVE  TypeOK'
  <1>1. CASE ResendIssues(h)
    <2>1. Doing(h) = "resend"
      BY <1>1 DEF ResendIssues, Runs
    <2>2. /\ InviteOf(h).agency \in Agencies
          /\ InviteOf(h).user \in Users
          /\ InviteOf(h).role \in MemberRoles
      BY <2>1, InviteType
    <2>3. \/ Issue(InviteOf(h).agency, InviteOf(h).user, InviteOf(h).role)
          \/ UNCHANGED invite
      BY <1>1 DEF ResendIssues, InviteOf
    <2>4. invite' \in [Invites -> Invite \cup {NoInvite}]
      <3>1. CASE UNCHANGED invite
        BY <3>1 DEF TypeOK
      <3> QED
        BY <2>2, <2>3, <3>1, IssueType
    <2> QED
      BY <1>1, <2>4, RememberType DEF ResendIssues, TypeOK
  <1>2. CASE AcceptFails(h)
    BY <1>2, RememberType DEF AcceptFails, TypeOK, tables
  <1>3. CASE AcceptTooLate(h)
    <2>1. [local[h] EXCEPT !.stage = "undoing"] \in Local
      BY <1>3, AcceptRecords DEF AcceptTooLate, Runs, Accepts
    <2> QED
      BY <1>3, <2>1, RememberType DEF AcceptTooLate, TypeOK, tables
  <1>4. CASE Accept(h)
    <2>1. local[h].invite \in Invites
      BY <1>4, LocalType DEF Accept, Runs
    <2>2. grant' \in [Users -> [Clients -> {"none", "agency", "client"}]]
      BY <1>4, RebuildType DEF Accept
    <2>3. invite' \in [Invites -> Invite \cup {NoInvite}]
      BY <1>4, <2>1, MarkType DEF Accept
    <2> QED
      BY <1>4, <2>2, <2>3, AcceptWrites DEF Accept, TypeOK
  <1>5. CASE Enter(h)
    <2>1. local[h].invite \in Invites
      BY <1>5, LocalType DEF Enter, Runs
    <2>2. entered' \in [Invites -> Nat]
      BY <1>5, <2>1 DEF Enter, TypeOK
    <2> QED
      BY <1>5, <2>2, RememberType DEF Enter, TypeOK, tables
  <1>6. CASE Compensate(h)
    <2>1. local[h].invite \in Invites
      BY <1>6, LocalType DEF Compensate, Runs
    <2>2. grant' \in [Users -> [Clients -> {"none", "agency", "client"}]]
      BY <1>6, RebuildType DEF Compensate
    <2>3. invite' \in [Invites -> Invite \cup {NoInvite}]
      BY <1>6, <2>1, MarkType DEF Compensate, TypeOK
    <2> QED
      BY <1>6, <2>2, <2>3, CompensateWrites DEF Compensate, TypeOK
  <1>7. CASE Undo(h)
    BY <1>7, UndoWrites DEF Undo, TypeOK
  <1> QED
    BY <1>1, <1>2, <1>3, <1>4, <1>5, <1>6, <1>7

LEMMA TypeStep == TypeOK /\ InvitesIssued /\ [Next]_vars => TypeOK'
  <1> SUFFICES ASSUME TypeOK, InvitesIssued, [Next]_vars
               PROVE  TypeOK'
    OBVIOUS
  <1>1. CASE UNCHANGED vars
    BY <1>1 DEF TypeOK, vars, tables
  <1>2. CASE UserAction \/ AgencyAction \/ MemberAction \/ InviteAction
    BY <1>2, UserActionType, AgencyActionType, MemberActionType, InviteActionType
  <1>3. CASE HandlerAction
    <2>1. PICK h \in Handlers : HandlerStep(h)
      BY <1>3, HandlerSteps
    <2> QED
      BY <2>1, SmallStepType, StartAcceptType, AcceptanceType DEF HandlerStep
  <1>4. CASE Restart
    <2>1. \A u \in Users, c \in Clients : Reconciled(u, c) \in {"none", "agency", "client"}
      BY DEF Reconciled
    <2> QED
      BY <1>4, <2>1 DEF Restart, TypeOK
  <1> QED
    BY <1>1, <1>2, <1>3, <1>4 DEF Next

-----------------------------------------------------------------------------
(* Acceptances, memberships and the rows they rely on *)

\* An invite keeps what it says, all but its status.
InvitesKept ==
    \A i \in Invites : invite[i] # NoInvite =>
        /\ invite'[i] # NoInvite
        /\ invite'[i].agency = invite[i].agency
        /\ invite'[i].user = invite[i].user

\* What a handler does not do in a step that is not its own: take up a request,
\* or find a row that was gone.
HandlerKept(g) ==
    Doing(g)' \in {"accept", "resend"} =>
        /\ Doing(g)' = Doing(g)
        /\ local'[g].invite = local[g].invite
        /\ Doing(g) = "accept" => local'[g].created = local[g].created
                                    /\ (local'[g].there => local[g].there)

LEMMA StatusKept ==
    ASSUME TypeOK, NEW i \in Invites, NEW s \in {"accepted", "pending", "revoked", "expired"},
           invite' = Mark(i, s) \/ UNCHANGED invite
    PROVE  InvitesKept
  <1> SUFFICES ASSUME NEW j \in Invites, invite[j] # NoInvite
               PROVE  /\ invite'[j] # NoInvite
                      /\ invite'[j].agency = invite[j].agency
                      /\ invite'[j].user = invite[j].user
    BY DEF InvitesKept
  <1>1. invite[j] \in Invite /\ [invite[j] EXCEPT !.status = s] \in Invite
    BY DEF TypeOK, Invite
  <1>2. invite'[j] = invite[j] \/ invite'[j] = [invite[j] EXCEPT !.status = s]
    BY DEF Mark, TypeOK
  <1> QED
    BY <1>1, <1>2, NullAssumption DEF Invite

LEMMA IssueKeeps ==
    ASSUME TypeOK, NEW a \in Agencies, NEW u \in Users, NEW r \in MemberRoles, Issue(a, u, r)
    PROVE  InvitesKept
  <1> SUFFICES ASSUME NEW j \in Invites, invite[j] # NoInvite
               PROVE  /\ invite'[j] # NoInvite
                      /\ invite'[j].agency = invite[j].agency
                      /\ invite'[j].user = invite[j].user
    BY DEF InvitesKept
  <1>1. invite[j] \in Invite /\ [invite[j] EXCEPT !.status = "revoked"] \in Invite
    BY DEF TypeOK, Invite
  <1>2. invite'[j] = invite[j] \/ invite'[j] = [invite[j] EXCEPT !.status = "revoked"]
    BY IssueType
  <1> QED
    BY <1>1, <1>2, NullAssumption DEF Invite

\* A handler whose record is the same, or has only lost its row, is kept.
LEMMA SameRecord ==
    ASSUME TypeOK, NEW g \in Handlers,
           \/ local'[g] = local[g]
           \/ local'[g] = Idle
           \/ Accepts(g) /\ local'[g] = [local[g] EXCEPT !.there = FALSE]
    PROVE  HandlerKept(g)
  <1>1. CASE local'[g] = local[g]
    BY <1>1 DEF HandlerKept, Doing
  <1>2. CASE local'[g] = Idle
    BY <1>2 DEF HandlerKept, Doing
  <1>3. CASE Accepts(g) /\ local'[g] = [local[g] EXCEPT !.there = FALSE]
    <2>1. local[g] \in [op: {"accept"}, stage: {"checked", "entering", "undoing"},
                        invite: Invites, was: Member \cup {NoMember},
                        there: BOOLEAN, created: BOOLEAN]
      BY <1>3, LocalType DEF Accepts
    <2>2. /\ local'[g].invite = local[g].invite
          /\ local'[g].created = local[g].created
          /\ local'[g].there = FALSE
          /\ local'[g].op = "accept"
      BY <1>3, <2>1
    <2>3. Doing(g)' \in {"idle", "accept"}
      BY <2>2 DEF Doing
    <2> QED
      BY <1>3, <2>2, <2>3 DEF HandlerKept, Accepts
  <1> QED
    BY <1>1, <1>2, <1>3

\* What remains to be seen when every handler is kept.
LEMMA KeptInv ==
    ASSUME TypeOK, InvitesIssued, CreatorAlone, InvitesKept,
           \A g \in Handlers : HandlerKept(g),
           \A g \in Handlers :
                Accepts(g) /\ Accepts(g)' =>
                    /\ Exists(InviteOf(g).user)'
                    /\ local'[g].there => member'[InviteOf(g).agency][InviteOf(g).user] # NoMember
    PROVE  InvitesIssued' /\ CreatorAlone' /\ RowsThere'
  <1>1. ASSUME NEW g \in Handlers, Doing(g)' \in {"accept", "resend"}
        PROVE  /\ Doing(g)' = Doing(g)
               /\ local[g].invite \in Invites
               /\ InviteOf(g) # NoInvite
               /\ InviteOf(g)' # NoInvite
               /\ InviteOf(g)'.user = InviteOf(g).user
               /\ InviteOf(g)'.agency = InviteOf(g).agency
    <2>1. Doing(g)' = Doing(g) /\ local'[g].invite = local[g].invite
      BY <1>1 DEF HandlerKept
    <2>2. local[g].invite \in Invites /\ InviteOf(g) # NoInvite
      BY <1>1, <2>1, LocalType DEF InvitesIssued
    <2> QED
      BY <2>1, <2>2 DEF InvitesKept, InviteOf
  <1>2. InvitesIssued'
    <2> SUFFICES ASSUME NEW g \in Handlers
                 PROVE  /\ Doing(g)' \in {"accept", "resend"} => InviteOf(g)' # NoInvite
                        /\ Accepts(g)' => user'[InviteOf(g)'.user] # NoUser
      BY DEF InvitesIssued, Exists
    <2>1. ASSUME Accepts(g)' PROVE user'[InviteOf(g)'.user] # NoUser
      <3>1. Accepts(g) /\ InviteOf(g)'.user = InviteOf(g).user
        BY <1>1, <2>1 DEF Accepts
      <3>2. Exists(InviteOf(g).user)'
        BY <2>1, <3>1
      <3> QED
        BY <3>1, <3>2 DEF Exists
    <2> QED
      BY <1>1, <2>1
  <1>3. CreatorAlone'
    <2> SUFFICES ASSUME NEW h \in Handlers, NEW g \in Handlers,
                        Accepts(h)', Accepts(g)', h # g,
                        InviteOf(h)'.user = InviteOf(g)'.user
                 PROVE  ~local'[h].created
      BY DEF CreatorAlone
    <2>1. Accepts(h) /\ Accepts(g) /\ InviteOf(h).user = InviteOf(g).user
      BY <1>1 DEF Accepts
    <2>2. local'[h].created = local[h].created
      BY <2>1 DEF HandlerKept, Accepts
    <2> QED
      BY <2>1, <2>2 DEF CreatorAlone
  <1>4. RowsThere'
    <2> SUFFICES ASSUME NEW g \in Handlers, Accepts(g)', local'[g].there
                 PROVE  member'[InviteOf(g)'.agency][InviteOf(g)'.user] # NoMember
      BY DEF RowsThere
    <2> QED
      BY <1>1 DEF Accepts
  <1> QED
    BY <1>2, <1>3, <1>4

Rows == InvitesIssued /\ CreatorAlone /\ RowsThere /\ MembersOfOpen

\* A step that takes no row away and starts no request.
LEMMA QuietRows ==
    ASSUME TypeOK, Rows, InvitesKept,
           \A g \in Handlers : HandlerKept(g),
           \A u \in Users : Exists(u) => user'[u] # NoUser,
           \A a \in Agencies, u \in Users : member[a][u] # NoMember => member'[a][u] # NoMember,
           MembersOfOpen'
    PROVE  Rows'
  <1>1. ASSUME NEW g \in Handlers, Accepts(g), Accepts(g)'
        PROVE  /\ Exists(InviteOf(g).user)'
               /\ local'[g].there => member'[InviteOf(g).agency][InviteOf(g).user] # NoMember
    <2>1. /\ InviteOf(g).user \in Users
          /\ InviteOf(g).agency \in Agencies
          /\ Exists(InviteOf(g).user)
      BY <1>1, InviteType DEF Rows, Accepts
    <2>2. InviteOf(g)'.user = InviteOf(g).user
      <3>1. local[g].invite \in Invites /\ local'[g].invite = local[g].invite
        BY <1>1, LocalType DEF Accepts, HandlerKept
      <3>2. InviteOf(g) # NoInvite
        BY <1>1 DEF Rows, InvitesIssued, Accepts
      <3> QED
        BY <3>1, <3>2 DEF InvitesKept, InviteOf
    <2>3. local'[g].there => local[g].there
      BY <1>1 DEF HandlerKept, Accepts
    <2>4. local'[g].there => member[InviteOf(g).agency][InviteOf(g).user] # NoMember
      BY <1>1, <2>3 DEF Rows, RowsThere
    <2> QED
      BY <2>1, <2>2, <2>4 DEF Exists
  <1> QED
    BY <1>1, KeptInv DEF Rows

LEMMA UserRows ==
    ASSUME TypeOK, Rows, UserAction
    PROVE  Rows'
  <1>1. PICK u \in Users :
            \/ DeleteUser(u)
            \/ \E r \in UserRoles, act \in BOOLEAN : CreateUser(u, r, act) \/ PatchUser(u, r, act)
            \/ \E c \in Clients : AssignDirect(u, c)
    BY DEF UserAction
  <1>2. InvitesKept
    BY <1>1 DEF DeleteUser, CreateUser, PatchUser, AssignDirect, InvitesKept
  <1>3. CASE DeleteUser(u)
    <2>1. \A g \in Handlers : HandlerKept(g)
      BY <1>3, DropsForgottenType, SameRecord DEF DeleteUser
    <2>2. /\ user' = [user EXCEPT ![u] = NoUser]
          /\ \A a \in Agencies : \A w \in Users \ {u} : member'[a][w] = member[a][w]
          /\ \A a \in Agencies : member'[a][u] = NoMember
          /\ agency' = agency
      BY <1>3 DEF DeleteUser, Erase, TypeOK
    <2>3. ASSUME NEW g \in Handlers, Accepts(g), Accepts(g)'
          PROVE  /\ Exists(InviteOf(g).user)'
                 /\ local'[g].there => member'[InviteOf(g).agency][InviteOf(g).user] # NoMember
      <3>1. /\ InviteOf(g).user \in Users \ {u}
            /\ InviteOf(g).agency \in Agencies
            /\ Exists(InviteOf(g).user)
        BY <1>3, <2>3, InviteType DEF DeleteUser, Accepting, Rows, Accepts, InviteOf
      <3>2. user'[InviteOf(g).user] # NoUser
        BY <2>2, <3>1 DEF Exists, TypeOK
      <3>3. InviteOf(g)' = InviteOf(g)
        BY <2>1, <2>3, <1>3 DEF DeleteUser, InviteOf, HandlerKept, Accepts
      <3>4. local'[g].there => local[g].there
        BY <2>1, <2>3 DEF HandlerKept, Accepts
      <3>5. local'[g].there => member[InviteOf(g).agency][InviteOf(g).user] # NoMember
        BY <2>3, <3>4 DEF Rows, RowsThere
      <3> QED
        BY <2>2, <3>1, <3>2, <3>3, <3>5 DEF Exists
    <2>4. MembersOfOpen'
      BY <2>2 DEF Rows, MembersOfOpen, Open, Exists, TypeOK
    <2> QED
      BY <1>2, <2>1, <2>3, <2>4, KeptInv DEF Rows
  <1>4. CASE ~DeleteUser(u)
    <2>1. /\ local' = local /\ member' = member /\ agency' = agency
          /\ \/ user' = user
             \/ \E r \in UserRoles, act \in BOOLEAN :
                    user' = [user EXCEPT ![u] = [role |-> r, active |-> act]]
      BY <1>1, <1>4 DEF CreateUser, PatchUser, AssignDirect
    <2>2. \A w \in Users : Exists(w) => user'[w] # NoUser
      BY <2>1, NullAssumption DEF TypeOK, Exists
    <2>3. \A g \in Handlers : HandlerKept(g)
      BY <2>1, SameRecord
    <2>4. MembersOfOpen'
      BY <2>1, <2>2 DEF Rows, MembersOfOpen, Open, Exists
    <2> QED
      BY <1>2, <2>1, <2>2, <2>3, <2>4, QuietRows
  <1> QED
    BY <1>3, <1>4

LEMMA AgencyRows ==
    ASSUME TypeOK, Rows, AgencyAction
    PROVE  Rows'
  <1>1. PICK a \in Agencies :
            \/ DeleteAgency(a)
            \/ \E s \in {"active", "suspended"} : CreateAgency(a, s)
            \/ \E c \in Clients : AssignClient(a, c) \/ RevokeClient(a, c)
    BY DEF AgencyAction
  <1>2. CASE DeleteAgency(a)
    <2>1. InvitesKept
      <3> SUFFICES ASSUME NEW i \in Invites, invite[i] # NoInvite
                   PROVE  /\ invite'[i] # NoInvite
                          /\ invite'[i].agency = invite[i].agency
                          /\ invite'[i].user = invite[i].user
        BY DEF InvitesKept
      <3>1. invite[i] \in Invite /\ [invite[i] EXCEPT !.status = "deleted"] \in Invite
        BY DEF TypeOK, Invite
      <3>2. invite'[i] = invite[i] \/ invite'[i] = [invite[i] EXCEPT !.status = "deleted"]
        BY <1>2 DEF DeleteAgency
      <3> QED
        BY <3>1, <3>2, NullAssumption DEF Invite
    <2>2. \A g \in Handlers :
            /\ ~Accepts(g) => local'[g] = local[g]
            /\ Accepts(g) =>
                \/ local'[g] = local[g] /\ InviteOf(g).agency # a
                \/ local'[g] = [local[g] EXCEPT !.there = FALSE]
      <3>1. local' = RowsGone(a, Users) /\ Users \in SUBSET Users
        BY <1>2 DEF DeleteAgency
      <3>2. \A g \in Handlers : Accepts(g) => InviteOf(g).user \in Users
        BY InviteType DEF Rows, Accepts
      <3> QED
        BY <3>1, <3>2, RowsGoneType
    <2>3. \A g \in Handlers : HandlerKept(g)
      BY <2>2, SameRecord
    <2>4. /\ \A b \in Agencies \ {a} : member'[b] = member[b] /\ agency'[b] = agency[b]
          /\ \A u \in Users : member'[a][u] = NoMember
          /\ \A u \in Users : Exists(u) => user'[u] # NoUser
      <3>1. \A b \in Agencies \ {a} : member'[b] = member[b] /\ agency'[b] = agency[b]
        BY <1>2 DEF DeleteAgency, TypeOK
      <3>2. \A u \in Users : member'[a][u] = NoMember
        BY <1>2 DEF DeleteAgency, TypeOK
      <3>3. ASSUME NEW u \in Users, Exists(u)
            PROVE  user'[u] # NoUser
        <4>1. user[u] \in User /\ [user[u] EXCEPT !.role = "client"] \in User
          BY <3>3, RoleAssumption DEF TypeOK, Exists, User
        <4>2. user'[u] = user[u] \/ user'[u] = [user[u] EXCEPT !.role = "client"]
          BY <1>2 DEF DeleteAgency
        <4> QED
          BY <4>1, <4>2, NullAssumption DEF User
      <3> QED
        BY <3>1, <3>2, <3>3
    <2>5. ASSUME NEW g \in Handlers, Accepts(g), Accepts(g)'
          PROVE  /\ Exists(InviteOf(g).user)'
                 /\ local'[g].there => member'[InviteOf(g).agency][InviteOf(g).user] # NoMember
      <3>1. /\ InviteOf(g).user \in Users
            /\ InviteOf(g).agency \in Agencies
            /\ local[g].invite \in Invites
            /\ Exists(InviteOf(g).user)
        BY <2>5, InviteType DEF Rows, Accepts
      <3>2. InviteOf(g)'.user = InviteOf(g).user
        <4>1. local'[g].invite = local[g].invite
          BY <2>3, <2>5 DEF HandlerKept, Accepts
        <4>2. InviteOf(g) # NoInvite
          BY <2>5 DEF Rows, InvitesIssued, Accepts
        <4> QED
          BY <2>1, <3>1, <4>1, <4>2 DEF InvitesKept, InviteOf
      <3>3. ASSUME local'[g].there
            PROVE  member'[InviteOf(g).agency][InviteOf(g).user] # NoMember
        <4>1. [local[g] EXCEPT !.there = FALSE].there = FALSE
          BY <2>5, LocalType DEF Accepts
        <4>2. local'[g] = local[g] /\ InviteOf(g).agency # a
          BY <2>2, <2>5, <3>3, <4>1
        <4> QED
          BY <2>4, <2>5, <3>1, <3>3, <4>2 DEF Rows, RowsThere
      <3> QED
        BY <2>4, <3>1, <3>2, <3>3 DEF Exists
    <2>6. MembersOfOpen'
      BY <2>4 DEF Rows, MembersOfOpen, Open, Exists
    <2> QED
      BY <2>1, <2>3, <2>5, <2>6, KeptInv DEF Rows
  <1>3. CASE ~DeleteAgency(a)
    <2>1. /\ local' = local /\ member' = member /\ invite' = invite /\ user' = user
          /\ \A b \in Agencies : Open(b) => Open(b)'
      BY <1>1, <1>3 DEF CreateAgency, AssignClient, RevokeClient, Open, TypeOK
    <2>2. \A g \in Handlers : HandlerKept(g)
      BY <2>1, SameRecord
    <2>3. MembersOfOpen'
      BY <2>1 DEF Rows, MembersOfOpen, Exists
    <2> QED
      BY <2>1, <2>2, <2>3, QuietRows DEF InvitesKept, Exists
  <1> QED
    BY <1>2, <1>3

LEMMA MemberRows ==
    ASSUME TypeOK, Rows, MemberAction
    PROVE  Rows'
  <1>1. PICK a \in Agencies, u \in Users :
            \/ \E r \in MemberRoles, act \in BOOLEAN : UpsertMember(a, u, r, act)
            \/ DeactivateMember(a, u)
            \/ RemoveMember(a, u)
    BY DEF MemberAction
  <1>2. InvitesKept /\ agency' = agency /\ user' = user
    BY <1>1 DEF UpsertMember, DeactivateMember, RemoveMember, InvitesKept
  <1>3. CASE RemoveMember(a, u)
    <2>1. /\ \A b \in Agencies, w \in Users : b # a \/ w # u => member'[b][w] = member[b][w]
          /\ member'[a][u] = NoMember
      <3>1. member' = [member EXCEPT ![a][u] = NoMember]
        BY <1>3 DEF RemoveMember
      <3>2. NoMember \in Member \cup {NoMember}
        OBVIOUS
      <3> QED
        BY ZenonT(60), <3>1, <3>2, MemberPut
    <2>2. \A g \in Handlers :
            /\ ~Accepts(g) => local'[g] = local[g]
            /\ Accepts(g) =>
                \/ local'[g] = local[g] /\ (InviteOf(g).agency = a => InviteOf(g).user # u)
                \/ local'[g] = [local[g] EXCEPT !.there = FALSE]
      <3>1. local' = RowsGone(a, {u}) /\ {u} \in SUBSET Users
        BY <1>3 DEF RemoveMember
      <3> QED
        BY <3>1, RowsGoneType
    <2>3. \A g \in Handlers : HandlerKept(g)
      BY <2>2, SameRecord
    <2>4. ASSUME NEW g \in Handlers, Accepts(g), Accepts(g)'
          PROVE  /\ Exists(InviteOf(g).user)'
                 /\ local'[g].there => member'[InviteOf(g).agency][InviteOf(g).user] # NoMember
      <3>1. /\ InviteOf(g).user \in Users
            /\ InviteOf(g).agency \in Agencies
            /\ Exists(InviteOf(g).user)
        BY <2>4, InviteType DEF Rows, Accepts
      <3>2. InviteOf(g)' = InviteOf(g)
        BY <1>3, <2>3, <2>4 DEF RemoveMember, InviteOf, HandlerKept, Accepts
      <3>3. ASSUME local'[g].there
            PROVE  member'[InviteOf(g).agency][InviteOf(g).user] # NoMember
        <4>1. [local[g] EXCEPT !.there = FALSE].there = FALSE
          BY <2>4, LocalType DEF Accepts
        <4>2. local'[g] = local[g] /\ (InviteOf(g).agency = a => InviteOf(g).user # u)
          BY <2>2, <2>4, <3>3, <4>1
        <4>3. member[InviteOf(g).agency][InviteOf(g).user] # NoMember
          BY <2>4, <3>3, <4>2 DEF Rows, RowsThere
        <4> QED
          BY <2>1, <3>1, <4>2, <4>3
      <3> QED
        BY <1>2, <3>1, <3>2, <3>3 DEF Exists
    <2>5. MembersOfOpen'
      BY <1>2, <2>1 DEF Rows, MembersOfOpen, Open, Exists
    <2> QED
      BY <1>2, <2>3, <2>4, <2>5, KeptInv DEF Rows
  <1>4. CASE ~RemoveMember(a, u)
    <2>1. PICK v \in Member : member' = [member EXCEPT ![a][u] = v]
      <3>1. ASSUME NEW r \in MemberRoles, NEW act \in BOOLEAN, UpsertMember(a, u, r, act)
            PROVE  \E v \in Member : member' = [member EXCEPT ![a][u] = v]
        BY <3>1 DEF UpsertMember, Member
      <3>2. ASSUME DeactivateMember(a, u)
            PROVE  \E v \in Member : member' = [member EXCEPT ![a][u] = v]
        <4>1. member[a][u] \in Member
          BY <3>2 DEF DeactivateMember, TypeOK
        <4>2. [member[a][u] EXCEPT !.active = FALSE] \in Member
          BY <4>1 DEF Member
        <4>3. member' = [member EXCEPT ![a][u] = [member[a][u] EXCEPT !.active = FALSE]]
          BY <3>2 DEF DeactivateMember, TypeOK
        <4> QED
          BY <4>2, <4>3
      <3> QED
        BY <1>1, <1>4, <3>1, <3>2
    <2>2. v # NoMember
      BY NullAssumption DEF Member
    <2>3. /\ \A b \in Agencies, w \in Users : b # a \/ w # u => member'[b][w] = member[b][w]
          /\ member'[a][u] # NoMember
      <3>1. v \in Member \cup {NoMember}
        OBVIOUS
      <3> QED
        BY ZenonT(60), <2>1, <2>2, <3>1, MemberPut
    <2>4. Open(a) /\ Exists(u)
      BY <1>1, <1>4 DEF UpsertMember, DeactivateMember, IsUser, Rows, MembersOfOpen
    <2>5. local' = local
      BY <1>1, <1>4 DEF UpsertMember, DeactivateMember
    <2>6. \A g \in Handlers : HandlerKept(g)
      BY <2>5, SameRecord
    <2>7. MembersOfOpen'
      BY <1>2, <2>3, <2>4 DEF Rows, MembersOfOpen, Open, Exists
    <2> QED
      BY <1>2, <2>3, <2>6, <2>7, QuietRows DEF Exists
  <1> QED
    BY <1>3, <1>4

LEMMA InviteRows ==
    ASSUME TypeOK, Rows, InviteAction
    PROVE  Rows'
  <1>1. InvitesKept
    <2>1. ASSUME NEW i \in Invites, RevokeInvite(i)
          PROVE  InvitesKept
      BY <2>1, StatusKept DEF RevokeInvite
    <2> QED
      BY <2>1, IssueKeeps DEF InviteAction, IssueInvite
  <1>2. UNCHANGED <<user, agency, member, local>>
    BY DEF InviteAction, IssueInvite, RevokeInvite
  <1>3. \A g \in Handlers : HandlerKept(g)
    BY <1>2, SameRecord
  <1>4. MembersOfOpen'
    BY <1>2 DEF Rows, MembersOfOpen, Open, Exists
  <1> QED
    BY <1>1, <1>2, <1>3, <1>4, QuietRows DEF Exists

\* The steps of a handler that neither start an acceptance nor decide one.
QuietHandlerStep(h) ==
    \/ \E u \in Users, c \in Clients : StartDrop(h, u, c)
    \/ Drop(h)
    \/ \E a \in Agencies : StartPatch(h, a)
    \/ \E s \in {"active", "suspended"} : WritePatch(h, s)
    \/ \E i \in Invites : StartExpire(h, i)
    \/ ResendRevokes(h) \/ ResendIssues(h) \/ Expire(h)
    \/ AcceptFails(h) \/ AcceptTooLate(h) \/ Enter(h)

LEMMA QuietHandlerRecords ==
    ASSUME TypeOK, NEW h \in Handlers, QuietHandlerStep(h)
    PROVE  \A g \in Handlers : HandlerKept(g)
  <1>0. local \in [Handlers -> Local \cup {Idle}]
    BY DEF TypeOK
  <1>1. \A g \in Handlers \ {h} : local'[g] = local[g]
    BY <1>0 DEF QuietHandlerStep, StartDrop, Drop, StartPatch, WritePatch, StartExpire,
                ResendRevokes, ResendIssues, Expire, AcceptFails, AcceptTooLate, Enter, Remember
  <1>2. HandlerKept(h)
    <2>1. ASSUME \E u \in Users, c \in Clients : StartDrop(h, u, c)
          PROVE  HandlerKept(h)
      BY <1>0, <2>1 DEF StartDrop, Remember, HandlerKept, Doing
    <2>2. ASSUME \E a \in Agencies : StartPatch(h, a)
          PROVE  HandlerKept(h)
      BY <1>0, <2>2 DEF StartPatch, Remember, HandlerKept, Doing
    <2>3. ASSUME \E i \in Invites : StartExpire(h, i)
          PROVE  HandlerKept(h)
      BY <1>0, <2>3 DEF StartExpire, Remember, HandlerKept, Doing
    <2>4. CASE ResendRevokes(h)
      <3>1. Doing(h) = "resend" /\ local'[h] = [local[h] EXCEPT !.revoke = FALSE]
        BY <1>0, <2>4 DEF ResendRevokes, Runs, Remember
      <3>2. local[h] \in [op: {"resend"}, invite: Invites, revoke: BOOLEAN]
        BY <3>1, LocalType
      <3>3. local'[h].op = "resend" /\ local'[h].invite = local[h].invite
        BY <3>1, <3>2
      <3>4. Doing(h)' \in {"idle", "resend"}
        BY <3>3 DEF Doing
      <3> QED
        BY <3>1, <3>3, <3>4 DEF HandlerKept
    <2>5. CASE AcceptTooLate(h)
      <3>1. Doing(h) = "accept" /\ local'[h] = [local[h] EXCEPT !.stage = "undoing"]
        BY <1>0, <2>5 DEF AcceptTooLate, Runs, Remember
      <3>2. local[h] \in [op: {"accept"}, stage: {"checked", "entering", "undoing"},
                          invite: Invites, was: Member \cup {NoMember},
                          there: BOOLEAN, created: BOOLEAN]
        BY <3>1, LocalType
      <3>3. /\ local'[h].op = "accept" /\ local'[h].invite = local[h].invite
            /\ local'[h].there = local[h].there /\ local'[h].created = local[h].created
        BY <3>1, <3>2
      <3>4. Doing(h)' \in {"idle", "accept"}
        BY <3>3 DEF Doing
      <3> QED
        BY <3>1, <3>3, <3>4 DEF HandlerKept
    <2>6. ASSUME \/ Drop(h) \/ Expire(h) \/ ResendIssues(h) \/ AcceptFails(h) \/ Enter(h)
                 \/ \E s \in {"active", "suspended"} : WritePatch(h, s)
          PROVE  HandlerKept(h)
      <3>1. local'[h] = Idle
        BY <1>0, <2>6 DEF Drop, Expire, ResendIssues, AcceptFails, Enter, WritePatch, Remember
      <3> QED
        BY <3>1, SameRecord
    <2> QED
      BY <2>1, <2>2, <2>3, <2>4, <2>5, <2>6 DEF QuietHandlerStep
  <1> QED
    BY <1>1, <1>2, SameRecord

LEMMA QuietHandlerRows ==
    ASSUME TypeOK, Rows, NEW h \in Handlers, QuietHandlerStep(h)
    PROVE  Rows'
  <1>1. \A g \in Handlers : HandlerKept(g)
    BY QuietHandlerRecords
  <1>2. UNCHANGED <<user, member>>
    BY DEF QuietHandlerStep, StartDrop, Drop, StartPatch, WritePatch, StartExpire, ResendRevokes,
           ResendIssues, Expire, AcceptFails, AcceptTooLate, Enter, tables
  <1>3. InvitesKept
    <2>1. CASE ResendIssues(h)
      <3>1. /\ InviteOf(h).agency \in Agencies
            /\ InviteOf(h).user \in Users
            /\ InviteOf(h).role \in MemberRoles
        BY <2>1, InviteType DEF ResendIssues, Runs, Rows
      <3>2. \/ Issue(InviteOf(h).agency, InviteOf(h).user, InviteOf(h).role)
            \/ UNCHANGED invite
        BY <2>1 DEF ResendIssues, InviteOf
      <3> QED
        BY <3>1, <3>2, IssueKeeps DEF InvitesKept
    <2>2. CASE ResendRevokes(h)
      BY <2>2, LocalType, StatusKept DEF ResendRevokes, Runs
    <2>3. CASE Expire(h)
      BY <2>3, LocalType, StatusKept DEF Expire, Runs
    <2>4. CASE UNCHANGED invite
      BY <2>4 DEF InvitesKept
    <2>5. ResendIssues(h) \/ ResendRevokes(h) \/ Expire(h) \/ UNCHANGED invite
      BY DEF QuietHandlerStep, StartDrop, Drop, StartPatch, WritePatch, StartExpire,
             AcceptFails, AcceptTooLate, Enter, tables
    <2> QED
      BY <2>1, <2>2, <2>3, <2>4, <2>5
  <1>4. \A a \in Agencies : Open(a) => Open(a)'
    <2>1. CASE UNCHANGED agency
      BY <2>1 DEF Open
    <2>2. ASSUME NEW s \in {"active", "suspended"}, WritePatch(h, s)
          PROVE  \A a \in Agencies : Open(a) => Open(a)'
      BY <2>2 DEF WritePatch, Open, TypeOK
    <2>3. UNCHANGED agency \/ \E s \in {"active", "suspended"} : WritePatch(h, s)
      BY DEF QuietHandlerStep, StartDrop, Drop, StartPatch, StartExpire, ResendRevokes,
             ResendIssues, Expire, AcceptFails, AcceptTooLate, Enter, tables
    <2> QED
      BY <2>1, <2>2, <2>3
  <1>5. MembersOfOpen'
    BY <1>2, <1>4 DEF Rows, MembersOfOpen, Exists
  <1> QED
    BY <1>1, <1>2, <1>3, <1>5, QuietRows DEF Exists

LEMMA StartResendRows ==
    ASSUME TypeOK, Rows, NEW h \in Handlers, NEW i \in Invites, StartResend(h, i)
    PROVE  Rows'
  <1>1. UNCHANGED <<user, agency, member, invite>>
    BY DEF StartResend, tables
  <1>2. /\ local'[h].op = "resend" /\ local'[h].invite = i
        /\ \A g \in Handlers \ {h} : local'[g] = local[g]
    BY DEF StartResend, Remember, TypeOK
  <1>3. Doing(h)' \in {"idle", "resend"} /\ \A g \in Handlers \ {h} : Doing(g)' = Doing(g)
    BY <1>2 DEF Doing
  <1>4. invite[i] # NoInvite
    BY DEF StartResend, Present
  <1>5. InvitesIssued'
    BY <1>1, <1>2, <1>3, <1>4 DEF Rows, InvitesIssued, InviteOf, Accepts, Exists
  <1>6. CreatorAlone'
    BY <1>1, <1>2, <1>3 DEF Rows, CreatorAlone, InviteOf, Accepts
  <1>7. RowsThere'
    BY <1>1, <1>2, <1>3 DEF Rows, RowsThere, InviteOf, Accepts
  <1>8. MembersOfOpen'
    BY <1>1 DEF Rows, MembersOfOpen, Open, Exists
  <1> QED
    BY <1>5, <1>6, <1>7, <1>8 DEF Rows

LEMMA StartAcceptRows ==
    ASSUME TypeOK, Rows, NEW h \in Handlers, NEW i \in Invites, StartAccept(h, i)
    PROVE  Rows'
  <1> DEFINE u == invite[i].user
  <1>1. UNCHANGED <<agency, member, invite>>
    BY DEF StartAccept
  <1>2. invite[i] \in Invite /\ invite[i] # NoInvite
    BY DEF StartAccept, Pending, TypeOK
  <1>3. u \in Users /\ invite[i].agency \in Agencies
    BY <1>2 DEF Invite
  <1>4. /\ local'[h].op = "accept" /\ local'[h].invite = i
        /\ local'[h].there <=> member[invite[i].agency][u] # NoMember
        /\ local'[h].created <=> ~Exists(u)
        /\ \A g \in Handlers \ {h} : local'[g] = local[g]
    BY DEF StartAccept, Remember, TypeOK
  <1>5. Doing(h)' \in {"idle", "accept"} /\ \A g \in Handlers \ {h} : Doing(g)' = Doing(g)
    BY <1>4 DEF Doing
  <1>6. /\ user'[u] # NoUser
        /\ \A w \in Users : Exists(w) => user'[w] # NoUser
    <2>1. [role |-> "agency", active |-> TRUE] # NoUser
      <3>1. [role |-> "agency", active |-> TRUE] \in [role: UserRoles, active: BOOLEAN]
        BY RoleAssumption
      <3> QED
        BY <3>1, NullAssumption
    <2> QED
      BY <1>3, <2>1 DEF StartAccept, Exists, TypeOK
  <1>7. \A g \in Handlers :
            Accepts(g) /\ InviteOf(g).user = u => Exists(u) /\ ~local[g].created
    <2> SUFFICES ASSUME NEW g \in Handlers, Accepts(g), InviteOf(g).user = u
                 PROVE  Exists(u) /\ ~local[g].created
      OBVIOUS
    <2>1. Exists(u)
      BY DEF Rows, InvitesIssued
    <2>2. g \in Accepting(u)
      BY DEF Accepting, Accepts, InviteOf
    <2> QED
      BY <2>1, <2>2 DEF StartAccept
  <1>8. Doing(h) = "idle"
    BY LocalType DEF StartAccept, Starts
  <1> HIDE DEF u
  <1>9. InvitesIssued'
    <2> SUFFICES ASSUME NEW g \in Handlers
                 PROVE  /\ Doing(g)' \in {"accept", "resend"} => InviteOf(g)' # NoInvite
                        /\ Accepts(g)' => user'[InviteOf(g)'.user] # NoUser
      BY DEF InvitesIssued, Exists
    <2>1. CASE g = h
      <3>1. InviteOf(g)' = invite[i]
        BY <1>1, <1>4, <2>1 DEF InviteOf
      <3> QED
        BY <1>2, <1>6, <3>1 DEF u
    <2>2. CASE g # h
      <3>1. /\ InviteOf(g)' = InviteOf(g) /\ Doing(g)' = Doing(g) /\ Accepts(g)' = Accepts(g)
        BY <1>1, <1>4, <1>5, <2>2 DEF InviteOf, Accepts
      <3>2. Accepts(g) => InviteOf(g).user \in Users
        BY InviteType DEF Rows, Accepts
      <3> QED
        BY <1>6, <3>1, <3>2 DEF Rows, InvitesIssued
    <2> QED
      BY <2>1, <2>2
  <1>10. CreatorAlone'
    <2> SUFFICES ASSUME NEW f \in Handlers, NEW g \in Handlers,
                        Accepts(f)', Accepts(g)', f # g,
                        InviteOf(f)'.user = InviteOf(g)'.user
                 PROVE  ~local'[f].created
      BY DEF CreatorAlone
    <2>1. InviteOf(h)'.user = u
      BY <1>1, <1>4 DEF InviteOf, u
    <2>2. \A k \in Handlers \ {h} :
            /\ InviteOf(k)' = InviteOf(k) /\ (Accepts(k)' <=> Accepts(k))
            /\ local'[k] = local[k]
      BY <1>1, <1>4, <1>5 DEF InviteOf, Accepts
    <2>3. CASE f = h
      BY <1>4, <1>7, <2>1, <2>2, <2>3
    <2>4. CASE g = h
      BY <1>7, <2>1, <2>2, <2>4
    <2>5. CASE f # h /\ g # h
      BY <2>2, <2>5 DEF Rows, CreatorAlone
    <2> QED
      BY <2>3, <2>4, <2>5
  <1>11. RowsThere'
    <2>1. Accepts(h)' /\ local'[h].there
            => member'[InviteOf(h)'.agency][InviteOf(h)'.user] # NoMember
      BY <1>1, <1>4 DEF InviteOf, u
    <2>2. \A k \in Handlers \ {h} :
            InviteOf(k)' = InviteOf(k) /\ (Accepts(k)' <=> Accepts(k)) /\ local'[k] = local[k]
      BY <1>1, <1>4, <1>5 DEF InviteOf, Accepts
    <2> QED
      BY <1>1, <2>1, <2>2 DEF Rows, RowsThere
  <1>12. MembersOfOpen'
    BY <1>1, <1>6 DEF Rows, MembersOfOpen, Open, Exists
  <1> QED
    BY <1>9, <1>10, <1>11, <1>12 DEF Rows

LEMMA AcceptRows ==
    ASSUME TypeOK, Rows, NEW h \in Handlers, Accept(h)
    PROVE  Rows'
  <1> DEFINE a == InviteOf(h).agency
             u == InviteOf(h).user
             joins == local[h].was = NoMember \/ local[h].there
  <1>0. Accepts(h)
    BY DEF Accept, Runs, Accepts
  <1>1. a \in Agencies /\ u \in Users /\ Exists(u) /\ local[h].invite \in Invites
    BY <1>0, InviteType DEF Accepts, Rows
  <1>2. UNCHANGED <<user, agency>> /\ InvitesKept
    BY <1>1, StatusKept DEF Accept
  <1>3. /\ \A b \in Agencies, w \in Users : b # a \/ w # u => member'[b][w] = member[b][w]
        /\ joins => member'[a][u] # NoMember
        /\ ~joins => member' = member
    <2>1. [role |-> InviteOf(h).role, active |-> TRUE] # NoMember
      <3>1. [role |-> InviteOf(h).role, active |-> TRUE]
                \in [role: MemberRoles, active: BOOLEAN]
        BY <1>0, InviteType DEF Accepts, Rows
      <3> QED
        BY <3>1, NullAssumption
    <2> QED
      BY <2>1, AcceptWrites DEF Rows
  <1>4. joins => Open(a)
    <2>1. CASE local[h].was = NoMember
      BY <2>1 DEF Accept, InsertFails, InviteOf
    <2>2. CASE local[h].there
      BY <1>0, <1>1, <2>2 DEF Rows, RowsThere, MembersOfOpen
    <2> QED
      BY <2>1, <2>2
  <1>5. /\ local'[h].op = "accept"
        /\ local'[h].invite = local[h].invite
        /\ local'[h].created = local[h].created
        /\ local'[h].there <=> joins
        /\ \A g \in Handlers \ {h} : local'[g] = local[g]
    <2>1. local[h] \in [op: {"accept"}, stage: {"checked", "entering", "undoing"},
                        invite: Invites, was: Member \cup {NoMember},
                        there: BOOLEAN, created: BOOLEAN]
      BY <1>0, LocalType DEF Accepts
    <2>2. /\ local'[h] = [local[h] EXCEPT !.stage = "entering", !.there = joins]
          /\ \A g \in Handlers \ {h} : local'[g] = local[g]
      BY AcceptWrites DEF Rows
    <2> HIDE DEF joins
    <2> QED
      BY <2>1, <2>2
  <1> HIDE DEF a, u, joins
  <1>6. Doing(h)' \in {"idle", "accept"} /\ \A g \in Handlers \ {h} : Doing(g)' = Doing(g)
    BY <1>5 DEF Doing
  <1>7. \A g \in Handlers : Doing(g)' \in {"accept", "resend"} =>
            /\ Doing(g)' = Doing(g)
            /\ InviteOf(g)' # NoInvite
            /\ InviteOf(g)'.user = InviteOf(g).user
            /\ InviteOf(g)'.agency = InviteOf(g).agency
            /\ local'[g].created = local[g].created
    <2> SUFFICES ASSUME NEW g \in Handlers, Doing(g)' \in {"accept", "resend"}
                 PROVE  /\ Doing(g)' = Doing(g)
                        /\ InviteOf(g)' # NoInvite
                        /\ InviteOf(g)'.user = InviteOf(g).user
                        /\ InviteOf(g)'.agency = InviteOf(g).agency
                        /\ local'[g].created = local[g].created
      OBVIOUS
    <2>1. /\ Doing(g)' = Doing(g) /\ local'[g].invite = local[g].invite
          /\ local'[g].created = local[g].created
      BY <1>0, <1>5, <1>6 DEF Accepts
    <2>2. InviteOf(g) # NoInvite /\ local[g].invite \in Invites
      BY <2>1, InviteType DEF Rows, InvitesIssued
    <2> QED
      BY <1>2, <2>1, <2>2 DEF InvitesKept, InviteOf
  <1>8. InvitesIssued'
    <2> SUFFICES ASSUME NEW g \in Handlers
                 PROVE  /\ Doing(g)' \in {"accept", "resend"} => InviteOf(g)' # NoInvite
                        /\ Accepts(g)' => user'[InviteOf(g)'.user] # NoUser
      BY DEF InvitesIssued, Exists
    <2> QED
      BY <1>2, <1>7 DEF Accepts, Rows, InvitesIssued, Exists
  <1>9. CreatorAlone'
    BY <1>7 DEF CreatorAlone, Rows, Accepts
  <1>10. RowsThere'
    <2> SUFFICES ASSUME NEW g \in Handlers, Accepts(g)', local'[g].there
                 PROVE  member'[InviteOf(g)'.agency][InviteOf(g)'.user] # NoMember
      BY DEF RowsThere
    <2>1. Accepts(g) /\ InviteOf(g)'.user = InviteOf(g).user
                     /\ InviteOf(g)'.agency = InviteOf(g).agency
      BY <1>7 DEF Accepts
    <2>2. InviteOf(g).user \in Users /\ InviteOf(g).agency \in Agencies
      BY <2>1, InviteType DEF Accepts, Rows
    <2>3. CASE g = h
      BY <1>3, <1>5, <2>1, <2>3 DEF a, u
    <2>4. CASE g # h
      <3>1. member[InviteOf(g).agency][InviteOf(g).user] # NoMember
        BY <1>5, <2>1, <2>4 DEF Rows, RowsThere
      <3> QED
        BY <1>3, <2>1, <2>2, <3>1
    <2> QED
      BY <2>3, <2>4
  <1>11. MembersOfOpen'
    <2> SUFFICES ASSUME NEW b \in Agencies, NEW w \in Users, member'[b][w] # NoMember
                 PROVE  agency'[b] \in {"active", "suspended"} /\ user'[w] # NoUser
      BY DEF MembersOfOpen, Open, Exists
    <2>1. CASE b = a /\ w = u /\ joins
      BY <1>1, <1>2, <1>4, <2>1 DEF Open, Exists
    <2>2. CASE ~(b = a /\ w = u /\ joins)
      <3>1. member[b][w] # NoMember
        BY <1>3, <2>2
      <3> QED
        BY <1>2, <3>1 DEF Rows, MembersOfOpen, Open, Exists
    <2> QED
      BY <2>1, <2>2
  <1> QED
    BY <1>8, <1>9, <1>10, <1>11 DEF Rows

LEMMA CompensateRows ==
    ASSUME TypeOK, Rows, NEW h \in Handlers, Compensate(h)
    PROVE  Rows'
  <1> DEFINE a == InviteOf(h).agency
             u == InviteOf(h).user
  <1>0. Accepts(h)
    BY DEF Compensate, Runs, Accepts
  <1>1. a \in Agencies /\ u \in Users /\ Exists(u) /\ local[h].invite \in Invites
    BY <1>0, InviteType DEF Accepts, Rows
  <1>2. UNCHANGED <<user, agency>> /\ InvitesKept
    BY <1>1, StatusKept DEF Compensate
  <1>3. /\ \A b \in Agencies, w \in Users : b # a \/ w # u => member'[b][w] = member[b][w]
        /\ local[h].there => member'[a][u] = local[h].was
        /\ ~local[h].there => member' = member
    BY CompensateWrites DEF Rows
  <1>4. /\ local'[h] = [local[h] EXCEPT !.stage = "undoing", !.there = FALSE]
        /\ \A g \in Handlers \ {h} :
            /\ ~Accepts(g) => local'[g] = local[g]
            /\ Accepts(g) =>
                \/ /\ local'[g] = local[g]
                   /\ /\ local[h].there /\ local[h].was = NoMember
                      /\ InviteOf(g).agency = a
                      => InviteOf(g).user # u
                \/ local'[g] = [local[g] EXCEPT !.there = FALSE]
    BY CompensateWrites DEF Rows
  <1> HIDE DEF a, u
  <1>5. local'[h].there = FALSE /\ HandlerKept(h)
    <2>1. local[h] \in [op: {"accept"}, stage: {"checked", "entering", "undoing"},
                        invite: Invites, was: Member \cup {NoMember},
                        there: BOOLEAN, created: BOOLEAN]
      BY <1>0, LocalType DEF Accepts
    <2>2. /\ local'[h].op = "accept" /\ local'[h].invite = local[h].invite
          /\ local'[h].there = FALSE /\ local'[h].created = local[h].created
      BY <1>4, <2>1
    <2>3. Doing(h)' \in {"idle", "accept"}
      BY <2>2 DEF Doing
    <2> QED
      BY <1>0, <2>2, <2>3 DEF HandlerKept, Accepts
  <1>6. \A g \in Handlers : HandlerKept(g)
    BY <1>4, <1>5, SameRecord
  <1>7. ASSUME NEW g \in Handlers, Accepts(g), Accepts(g)'
        PROVE  /\ Exists(InviteOf(g).user)'
               /\ local'[g].there => member'[InviteOf(g).agency][InviteOf(g).user] # NoMember
    <2>1. /\ InviteOf(g).user \in Users
          /\ InviteOf(g).agency \in Agencies
          /\ local[g].invite \in Invites
          /\ Exists(InviteOf(g).user)
      BY <1>7, InviteType DEF Rows, Accepts
    <2>2. InviteOf(g)'.user = InviteOf(g).user
      <3>1. local'[g].invite = local[g].invite
        BY <1>6, <1>7 DEF HandlerKept, Accepts
      <3>2. InviteOf(g) # NoInvite
        BY <1>7 DEF Rows, InvitesIssued, Accepts
      <3> QED
        BY <1>2, <2>1, <3>1, <3>2 DEF InvitesKept, InviteOf
    <2>3. ASSUME local'[g].there
          PROVE  member'[InviteOf(g).agency][InviteOf(g).user] # NoMember
      <3>1. g # h
        BY <1>5, <2>3
      <3>2. [local[g] EXCEPT !.there = FALSE].there = FALSE
        BY <1>7, LocalType DEF Accepts
      <3>3. /\ local'[g] = local[g]
            /\ /\ local[h].there /\ local[h].was = NoMember
               /\ InviteOf(g).agency = a
               => InviteOf(g).user # u
        BY <1>4, <1>7, <2>3, <3>1, <3>2
      <3>4. member[InviteOf(g).agency][InviteOf(g).user] # NoMember
        BY <1>7, <2>3, <3>3 DEF Rows, RowsThere
      <3> QED
        BY <1>3, <2>1, <3>3, <3>4
    <2> QED
      BY <1>2, <2>1, <2>2, <2>3 DEF Exists
  <1>8. MembersOfOpen'
    <2> SUFFICES ASSUME NEW b \in Agencies, NEW w \in Users, member'[b][w] # NoMember
                 PROVE  agency'[b] \in {"active", "suspended"} /\ user'[w] # NoUser
      BY DEF MembersOfOpen, Open, Exists
    <2>1. member[b][w] # NoMember
      <3>1. local[h].there => member[a][u] # NoMember
        BY <1>0 DEF Rows, RowsThere, a, u
      <3> QED
        BY <1>1, <1>3, <3>1
    <2> QED
      BY <1>2, <2>1 DEF Rows, MembersOfOpen, Open, Exists
  <1> QED
    BY <1>2, <1>6, <1>7, <1>8, KeptInv DEF Rows

LEMMA UndoRows ==
    ASSUME TypeOK, Rows, NEW h \in Handlers, Undo(h)
    PROVE  Rows'
  <1> DEFINE u == InviteOf(h).user
  <1>0. Accepts(h)
    BY DEF Undo, Runs, Accepts
  <1>1. u \in Users
    BY <1>0, InviteType DEF Accepts, Rows
  <1>2. UNCHANGED <<agency, invite>>
    BY DEF Undo
  <1>3. /\ local'[h] = Idle
        /\ \A g \in Handlers \ {h} : local'[g] = local[g] \/ local'[g] = Idle
        /\ \/ UNCHANGED <<user, member>>
           \/ local[h].created /\ Erase(u)
    BY UndoWrites DEF Rows
  <1>4. \A g \in Handlers : HandlerKept(g)
    BY <1>3, SameRecord
  <1>5. InvitesKept
    BY <1>2 DEF InvitesKept
  <1>6. CASE UNCHANGED <<user, member>>
    <2>1. MembersOfOpen'
      BY <1>2, <1>6 DEF Rows, MembersOfOpen, Open, Exists
    <2> QED
      BY <1>4, <1>5, <1>6, <2>1, QuietRows DEF Exists
  <1>7. CASE local[h].created /\ Erase(u)
    <2>1. /\ user' = [user EXCEPT ![u] = NoUser]
          /\ \A b \in Agencies : \A w \in Users \ {u} : member'[b][w] = member[b][w]
          /\ \A b \in Agencies : member'[b][u] = NoMember
      BY <1>1, <1>7 DEF Erase, TypeOK
    <2>2. ASSUME NEW g \in Handlers, Accepts(g), Accepts(g)'
          PROVE  /\ Exists(InviteOf(g).user)'
                 /\ local'[g].there => member'[InviteOf(g).agency][InviteOf(g).user] # NoMember
      <3>1. g # h
        BY <1>3, <2>2 DEF Accepts, Doing
      <3>2. local'[g] = local[g]
        BY <1>3, <2>2, <3>1 DEF Accepts, Doing
      <3>3. InviteOf(g).user # u
        BY <1>0, <1>7, <2>2, <3>1 DEF Rows, CreatorAlone
      <3>4. /\ InviteOf(g).user \in Users
            /\ InviteOf(g).agency \in Agencies
            /\ Exists(InviteOf(g).user)
        BY <2>2, InviteType DEF Rows, Accepts
      <3>5. InviteOf(g)' = InviteOf(g)
        BY <1>2, <3>2 DEF InviteOf
      <3>6. user'[InviteOf(g).user] # NoUser
        BY <2>1, <3>3, <3>4 DEF Exists, TypeOK
      <3>7. local'[g].there => member[InviteOf(g).agency][InviteOf(g).user] # NoMember
        BY <2>2, <3>2 DEF Rows, RowsThere
      <3> QED
        BY <2>1, <3>3, <3>4, <3>5, <3>6, <3>7 DEF Exists
    <2>3. MembersOfOpen'
      <3> SUFFICES ASSUME NEW b \in Agencies, NEW w \in Users, member'[b][w] # NoMember
                   PROVE  agency'[b] \in {"active", "suspended"} /\ user'[w] # NoUser
        BY DEF MembersOfOpen, Open, Exists
      <3>1. w # u /\ member[b][w] # NoMember
        BY <2>1
      <3> QED
        BY <1>2, <2>1, <3>1 DEF Rows, MembersOfOpen, Open, Exists, TypeOK
    <2> QED
      BY <1>4, <1>5, <2>2, <2>3, KeptInv DEF Rows
  <1> QED
    BY <1>3, <1>6, <1>7

LEMMA RowsStep == TypeOK /\ Rows /\ [Next]_vars => Rows'
  <1> SUFFICES ASSUME TypeOK, Rows, [Next]_vars
               PROVE  Rows'
    OBVIOUS
  <1>1. CASE UNCHANGED <<user, agency, member, invite>> /\ (UNCHANGED local \/ Restart)
    <2>1. \A g \in Handlers : HandlerKept(g)
      BY <1>1, SameRecord DEF Restart
    <2>2. MembersOfOpen' /\ InvitesKept
      BY <1>1 DEF Rows, MembersOfOpen, Open, Exists, InvitesKept
    <2> QED
      BY <1>1, <2>1, <2>2, QuietRows DEF Exists
  <1>2. CASE HandlerAction
    <2>1. PICK h \in Handlers : HandlerStep(h)
      BY <1>2, HandlerSteps
    <2>2. QuietHandlerStep(h) => Rows'
      BY QuietHandlerRows
    <2>3. QuietHandlerStep(h) \/ Accept(h) \/ Compensate(h) \/ Undo(h)
            \/ \E i \in Invites : StartResend(h, i) \/ StartAccept(h, i)
      BY <2>1 DEF HandlerStep, QuietHandlerStep
    <2> QED
      BY <2>2, <2>3, StartResendRows, StartAcceptRows, AcceptRows, CompensateRows, UndoRows
  <1>3. CASE UserAction \/ AgencyAction \/ MemberAction \/ InviteAction
    BY <1>3, UserRows, AgencyRows, MemberRows, InviteRows
  <1>4. UNCHANGED vars \/ Restart
        => UNCHANGED <<user, agency, member, invite>> /\ (UNCHANGED local \/ Restart)
    BY DEF vars, tables, Restart
  <1> QED
    BY <1>1, <1>2, <1>3, <1>4 DEF Next

LEMMA InitRows == Init => TypeOK /\ Rows
  <1> SUFFICES ASSUME Init
               PROVE  TypeOK /\ Rows
    OBVIOUS
  <1>1. TypeOK
    <2>1. [role: UserRoles \cap {"admin"}, active: {TRUE}] \subseteq User
      BY DEF User
    <2> QED
      BY <2>1 DEF Init, TypeOK, AgencyStatus
  <1>2. \A h \in Handlers : Doing(h) = "idle"
    BY DEF Init, Doing
  <1> QED
    BY <1>1, <1>2 DEF Init, Rows, InvitesIssued, CreatorAlone, RowsThere, MembersOfOpen, Accepts

\* Types, and the rows that acceptances and memberships rely on: an acceptance
\* under way keeps its user, a row it means to put back is there, and no
\* membership outlives its agency or its user.
THEOREM RowsCorrect == Spec => [](TypeOK /\ Rows)
  <1>1. Init => TypeOK /\ Rows
    BY InitRows
  <1>2. TypeOK /\ Rows /\ [Next]_vars => (TypeOK /\ Rows)'
    BY TypeStep, RowsStep DEF Rows
  <1> QED
    BY <1>1, <1>2, PTL DEF Spec

-----------------------------------------------------------------------------
(* Grants follow memberships *)

Follows(u) ==
    /\ AgencyGrants(u) = Entitled(u)
    /\ ~IsUser(u, {"client"}) => \A c \in Clients : grant[u][c] # "client"

\* A patch writes over the status it read, a removal drops what no agency backs.
InTime ==
    \A h \in Handlers :
        /\ Doing(h) = "patch" => agency[local[h].agency] = local[h].was
        /\ Doing(h) = "drop" => local[h].client \notin Entitled(local[h].user)

NoRace == Racing \cap {"patch", "drop"} = {}

\* A user whose rows and whose agencies stay as they are.
LEMMA FollowsKept ==
    ASSUME NEW u \in Users, Follows(u), user'[u] = user[u], grant'[u] = grant[u],
           \A a \in Agencies :
                /\ member'[a][u] = member[a][u]
                /\ member[a][u] # NoMember => agency'[a] = agency[a] /\ bound'[a] = bound[a]
    PROVE  Follows(u)'
  <1>1. ServedBy(u)' = ServedBy(u)
    BY DEF ServedBy, ActiveMember
  <1>2. \A a \in ServedBy(u) : bound'[a] = bound[a]
    BY DEF ServedBy, ActiveMember
  <1>3. {bound[a] : a \in ServedBy(u)}' = {bound[a] : a \in ServedBy(u)}
    BY <1>1, <1>2
  <1>4. Entitled(u)' = Entitled(u)
    BY <1>3 DEF Entitled, ActiveUser, IsUser, Exists
  <1> QED
    BY <1>4 DEF Follows, AgencyGrants, IsUser, Exists

LEMMA EntitledType == ASSUME TypeOK, NEW u \in Users PROVE Entitled(u) \subseteq Clients
  BY DEF TypeOK, Entitled, ServedBy

LEMMA EntitledAgencyUsers ==
    ASSUME NEW u \in Users, Entitled(u) # {}
    PROVE  IsUser(u, {"agency"}) /\ user[u].active
  BY DEF Entitled, ActiveUser

\* A user whose rows are rebuilt.
LEMMA FollowsRebuilt ==
    ASSUME TypeOK, TypeOK', NEW U, NEW u \in Users, u \in U, Rebuild(U), user'[u] # NoUser
    PROVE  Follows(u)'
  <1>1. user'[u].role \in {"admin", "agency", "client"}
    BY RoleAssumption DEF TypeOK, User
  <1>2. grant'[u] = RebuiltRow(u)
    BY DEF Rebuild, Exists
  <1>3. \A c \in Clients : grant[u][c] \in {"none", "agency", "client"}
    BY DEF TypeOK
  <1>4. Entitled(u)' \subseteq Clients
    <2>1. bound' \in [Agencies -> SUBSET Clients]
      BY DEF TypeOK
    <2> QED
      BY <2>1 DEF Entitled, ServedBy
  <1>5. CASE user'[u].role \in {"admin", "agency"}
    <2>1. IsUser(u, {"agency", "admin"})' /\ ~IsUser(u, {"client"})'
      BY <1>5 DEF IsUser, Exists
    <2>2. \A c \in Clients : grant'[u][c] = IF c \in Entitled(u)' THEN "agency" ELSE "none"
      BY <1>2, <2>1 DEF RebuiltRow
    <2> QED
      BY <1>4, <2>1, <2>2 DEF Follows, AgencyGrants
  <1>6. CASE user'[u].role = "client"
    <2>1. ~IsUser(u, {"agency", "admin"})' /\ IsUser(u, {"client"})'
      BY <1>6 DEF IsUser, Exists
    <2>2. \A c \in Clients :
            grant'[u][c] = IF grant[u][c] = "agency" THEN "none" ELSE grant[u][c]
      BY <1>2, <2>1 DEF RebuiltRow
    <2>3. Entitled(u)' = {}
      BY <1>6 DEF Entitled, ActiveUser, IsUser, Exists
    <2> QED
      BY <2>1, <2>2, <2>3 DEF Follows, AgencyGrants
  <1> QED
    BY <1>1, <1>5, <1>6

\* Nobody, and a new client, has no rows at all.
LEMMA FollowsNone ==
    ASSUME NEW u \in Users, user'[u] = NoUser \/ user'[u].role = "client",
           \A c \in Clients : grant'[u][c] = "none"
    PROVE  Follows(u)'
  <1>1. Entitled(u)' = {}
    BY DEF Entitled, ActiveUser, IsUser, Exists
  <1> QED
    BY <1>1 DEF Follows, AgencyGrants

\* Whose rows are rebuilt and whose are not.
LEMMA RebuildFollows ==
    ASSUME TypeOK, TypeOK', NEW U, Rebuild(U),
           \A u \in Users : Follows(u),
           \A u \in Users : u \in U => user'[u] # NoUser,
           \A u \in Users : u \notin U =>
                /\ user'[u] = user[u]
                /\ \A a \in Agencies :
                    /\ member'[a][u] = member[a][u]
                    /\ member[a][u] # NoMember => agency'[a] = agency[a] /\ bound'[a] = bound[a]
    PROVE  \A u \in Users : Follows(u)'
  <1> SUFFICES ASSUME NEW u \in Users
               PROVE  Follows(u)'
    OBVIOUS
  <1>1. CASE u \in U
    BY <1>1, FollowsRebuilt
  <1>2. CASE u \notin U
    <2>1. grant'[u] = grant[u]
      BY <1>2 DEF Rebuild
    <2> QED
      BY <1>2, <2>1, FollowsKept
  <1> QED
    BY <1>1, <1>2

LEMMA UserFollows ==
    ASSUME TypeOK, TypeOK', Rows, \A u \in Users : Follows(u), UserAction
    PROVE  \A u \in Users : Follows(u)'
  <1>1. PICK u \in Users :
            \/ DeleteUser(u)
            \/ \E r \in UserRoles, act \in BOOLEAN : CreateUser(u, r, act) \/ PatchUser(u, r, act)
            \/ \E c \in Clients : AssignDirect(u, c)
    BY DEF UserAction
  <1>2. UNCHANGED <<agency, bound>>
    BY <1>1 DEF DeleteUser, CreateUser, PatchUser, AssignDirect
  <1>3. \A w \in Users \ {u} : user'[w] = user[w] /\ \A a \in Agencies : member'[a][w] = member[a][w]
    BY <1>1 DEF DeleteUser, Erase, CreateUser, PatchUser, AssignDirect, TypeOK
  <1>4. ASSUME \A w \in Users \ {u} : grant'[w] = grant[w], Follows(u)'
        PROVE  \A w \in Users : Follows(w)'
    BY <1>2, <1>3, <1>4, FollowsKept
  <1>5. CASE DeleteUser(u)
    <2>1. /\ user'[u] = NoUser
          /\ \A c \in Clients : grant'[u][c] = "none"
          /\ \A w \in Users \ {u} : grant'[w] = grant[w]
      BY <1>5 DEF DeleteUser, Erase, TypeOK
    <2> QED
      BY <1>4, <2>1, FollowsNone
  <1>6. ASSUME NEW r \in UserRoles, NEW act \in BOOLEAN, CreateUser(u, r, act)
        PROVE  \A w \in Users : Follows(w)'
    <2>1. UNCHANGED <<grant, member>> /\ user[u] = NoUser
      BY <1>6 DEF CreateUser
    <2>2. \A a \in Agencies : member[a][u] = NoMember
      BY <2>1 DEF Rows, MembersOfOpen, Exists
    <2>3. Entitled(u) = {} /\ Entitled(u)' = {}
      BY <2>1, <2>2 DEF Entitled, ServedBy, ActiveMember, ActiveUser, IsUser, Exists
    <2>4. Follows(u)'
      BY <2>1, <2>3 DEF Follows, AgencyGrants, IsUser, Exists
    <2> QED
      BY <1>4, <2>1, <2>4
  <1>7. ASSUME NEW r \in UserRoles, NEW act \in BOOLEAN, PatchUser(u, r, act)
        PROVE  \A w \in Users : Follows(w)'
    <2>1. user'[u] = [role |-> r, active |-> act] /\ UNCHANGED member
      BY <1>7 DEF PatchUser, TypeOK
    <2>2. [role |-> r, active |-> act] # NoUser
      <3>1. [role |-> r, active |-> act] \in [role: UserRoles, active: BOOLEAN]
        OBVIOUS
      <3> QED
        BY <3>1, NullAssumption
    <2>3. CASE r = "client" /\ user[u].role # "client"
      <3>1. grant' = [grant EXCEPT ![u] = [c \in Clients |-> "none"]]
        BY <1>7, <2>3 DEF PatchUser
      <3>2. /\ \A c \in Clients : grant'[u][c] = "none"
            /\ \A w \in Users \ {u} : grant'[w] = grant[w]
        BY <3>1 DEF TypeOK
      <3>3. user'[u].role = "client"
        BY <2>1, <2>3
      <3> QED
        BY <1>4, <3>2, <3>3, FollowsNone
    <2>4. CASE r = "client" /\ user[u].role = "client"
      <3>1. UNCHANGED grant
        BY <1>7, <2>4 DEF PatchUser
      <3>2. Entitled(u) = {} /\ Entitled(u)' = {}
        BY <2>1, <2>4 DEF Entitled, ActiveUser, IsUser
      <3>3. IsUser(u, {"client"})'
        BY <2>1, <2>2, <2>4 DEF IsUser, Exists
      <3>4. Follows(u)'
        BY <3>1, <3>2, <3>3 DEF Follows, AgencyGrants
      <3> QED
        BY <1>4, <3>1, <3>4
    <2>5. CASE r # "client"
      <3>1. Rebuild({u})
        BY <1>7, <2>5 DEF PatchUser
      <3> QED
        BY <1>2, <1>3, <2>1, <2>2, <3>1, RebuildFollows
    <2> QED
      BY <2>3, <2>4, <2>5
  <1>8. ASSUME NEW c \in Clients, AssignDirect(u, c)
        PROVE  \A w \in Users : Follows(w)'
    <2>1. UNCHANGED <<user, member>> /\ IsUser(u, {"client"}) /\ user[u].role = "client"
      BY <1>8 DEF AssignDirect, ActiveUser, IsUser
    <2>2. /\ \A w \in Users \ {u} : grant'[w] = grant[w]
          /\ \A d \in Clients : grant'[u][d] = IF d = c THEN "client" ELSE grant[u][d]
      BY <1>8 DEF AssignDirect, TypeOK
    <2>3. Entitled(u) = {} /\ Entitled(u)' = {}
      BY <2>1 DEF Entitled, ActiveUser, IsUser
    <2>4. Follows(u)'
      <3>1. \A d \in Clients : grant[u][d] # "agency"
        BY <2>3 DEF Follows, AgencyGrants
      <3>2. IsUser(u, {"client"})'
        BY <2>1 DEF IsUser, Exists
      <3> QED
        BY <2>2, <2>3, <3>1, <3>2 DEF Follows, AgencyGrants
    <2> QED
      BY <1>4, <2>2, <2>4
  <1> QED
    BY <1>1, <1>5, <1>6, <1>7, <1>8

LEMMA AgencyFollows ==
    ASSUME TypeOK, TypeOK', Rows, Rows', \A u \in Users : Follows(u), AgencyAction
    PROVE  \A u \in Users : Follows(u)'
  <1>1. PICK a \in Agencies :
            \/ DeleteAgency(a)
            \/ \E s \in {"active", "suspended"} : CreateAgency(a, s)
            \/ \E c \in Clients : AssignClient(a, c) \/ RevokeClient(a, c)
    BY DEF AgencyAction
  <1>2. CASE DeleteAgency(a)
    <2>1. Rebuild(MembersOf(a))
      BY <1>2 DEF DeleteAgency, Affected
    <2>2. ASSUME NEW u \in Users, u \in MembersOf(a)
          PROVE  user'[u] # NoUser
      <3>1. user[u] \in User
        BY <2>2 DEF MembersOf, Rows, MembersOfOpen, Exists, TypeOK
      <3>2. user[u] \in [role: UserRoles, active: BOOLEAN]
        BY <3>1 DEF User
      <3>3. [user[u] EXCEPT !.role = "client"] \in [role: UserRoles, active: BOOLEAN]
        BY <3>2, RoleAssumption
      <3>4. user'[u] = user[u] \/ user'[u] = [user[u] EXCEPT !.role = "client"]
        BY <1>2 DEF DeleteAgency
      <3> QED
        BY <3>2, <3>3, <3>4, NullAssumption
    <2>3. ASSUME NEW u \in Users, u \notin MembersOf(a)
          PROVE  /\ user'[u] = user[u]
                 /\ \A b \in Agencies :
                    /\ member'[b][u] = member[b][u]
                    /\ member[b][u] # NoMember => agency'[b] = agency[b] /\ bound'[b] = bound[b]
      <3>1. member[a][u] = NoMember
        BY <2>3 DEF MembersOf
      <3>2. user'[u] = user[u]
        BY <1>2, <2>3 DEF DeleteAgency, Demoted, Affected
      <3>3. \A b \in Agencies \ {a} :
                member'[b] = member[b] /\ agency'[b] = agency[b] /\ bound'[b] = bound[b]
        BY <1>2 DEF DeleteAgency, TypeOK
      <3>4. member'[a][u] = NoMember
        BY <1>2 DEF DeleteAgency, TypeOK
      <3> QED
        BY <3>1, <3>2, <3>3, <3>4
    <2> QED
      BY <2>1, <2>2, <2>3, RebuildFollows
  <1>3. ASSUME NEW s \in {"active", "suspended"}, CreateAgency(a, s)
        PROVE  \A u \in Users : Follows(u)'
    <2>1. \A u \in Users : member[a][u] = NoMember
      BY <1>3 DEF CreateAgency, Rows, MembersOfOpen, Open
    <2>2. \A b \in Agencies \ {a} : agency'[b] = agency[b]
      BY <1>3 DEF CreateAgency, TypeOK
    <2>3. UNCHANGED <<user, member, bound, grant>>
      BY <1>3 DEF CreateAgency
    <2> QED
      BY <2>1, <2>2, <2>3, FollowsKept
  <1>4. ASSUME NEW c \in Clients, AssignClient(a, c) \/ RevokeClient(a, c)
        PROVE  \A u \in Users : Follows(u)'
    <2>1. UNCHANGED <<user, member, agency>> /\ Rebuild(MembersOf(a))
      BY <1>4 DEF AssignClient, RevokeClient
    <2>2. \A b \in Agencies \ {a} : bound'[b] = bound[b]
      BY <1>4 DEF AssignClient, RevokeClient, TypeOK
    <2>3. \A u \in Users : u \in MembersOf(a) => user'[u] # NoUser
      BY <2>1 DEF MembersOf, Rows, MembersOfOpen, Exists
    <2>4. \A u \in Users : u \notin MembersOf(a) => member[a][u] = NoMember
      BY DEF MembersOf
    <2> QED
      BY <2>1, <2>2, <2>3, <2>4, RebuildFollows
  <1> QED
    BY <1>1, <1>2, <1>3, <1>4

\* The membership of one user in one agency changes and his rows are rebuilt.
LEMMA OneRebuilt ==
    ASSUME TypeOK, TypeOK', \A u \in Users : Follows(u), UNCHANGED <<user, agency, bound>>,
           NEW a \in Agencies, NEW u \in Users, Exists(u), Rebuild({u}),
           \A b \in Agencies, w \in Users : b # a \/ w # u => member'[b][w] = member[b][w]
    PROVE  \A w \in Users : Follows(w)'
  BY RebuildFollows DEF Exists

LEMMA MemberFollows ==
    ASSUME TypeOK, TypeOK', Rows, \A u \in Users : Follows(u), MemberAction
    PROVE  \A u \in Users : Follows(u)'
  <1>1. PICK a \in Agencies, u \in Users :
            \/ \E r \in MemberRoles, act \in BOOLEAN : UpsertMember(a, u, r, act)
            \/ DeactivateMember(a, u)
            \/ RemoveMember(a, u)
    BY DEF MemberAction
  <1>2. /\ UNCHANGED <<user, agency, bound>>
        /\ Rebuild({u})
        /\ Exists(u)
    BY <1>1 DEF UpsertMember, DeactivateMember, RemoveMember, IsUser, Rows, MembersOfOpen
  <1>3. \A b \in Agencies, w \in Users : b # a \/ w # u => member'[b][w] = member[b][w]
    <2>1. \/ \E v : member' = [member EXCEPT ![a][u] = v]
          \/ member' = [member EXCEPT ![a][u].active = FALSE]
      BY <1>1 DEF UpsertMember, DeactivateMember, RemoveMember
    <2> QED
      BY <2>1 DEF TypeOK
  <1> QED
    BY <1>2, <1>3, OneRebuilt

LEMMA HandlerFollows ==
    ASSUME TypeOK, TypeOK', Rows, InTime, \A u \in Users : Follows(u),
           NEW h \in Handlers, HandlerStep(h)
    PROVE  \A u \in Users : Follows(u)'
  <1>1. CASE UNCHANGED <<user, agency, member, bound, grant>>
    BY <1>1, FollowsKept
  <1>2. CASE Drop(h)
    <2>1. PICK u \in Users, c \in Clients :
            u = local[h].user /\ c = local[h].client /\ c \notin Entitled(u)
      BY <1>2, LocalType DEF Drop, Runs, InTime
    <2>2. /\ \A w \in Users \ {u} : grant'[w] = grant[w]
          /\ \A d \in Clients : grant'[u][d] = IF d = c THEN "none" ELSE grant[u][d]
          /\ UNCHANGED <<user, agency, member, bound>>
      BY <1>2, <2>1 DEF Drop, TypeOK
    <2>3. Entitled(u)' = Entitled(u)
      BY <2>2 DEF Entitled, ServedBy, ActiveMember, ActiveUser, IsUser, Exists
    <2>4. Follows(u)'
      <3>1. AgencyGrants(u) = Entitled(u) /\ grant[u][c] # "agency"
        BY <2>1 DEF Follows, AgencyGrants
      <3>2. AgencyGrants(u)' = AgencyGrants(u)
        BY <2>2, <3>1 DEF AgencyGrants
      <3>3. ~IsUser(u, {"client"})' => \A d \in Clients : grant'[u][d] # "client"
        BY <2>1, <2>2 DEF Follows, IsUser, Exists
      <3> QED
        BY <2>3, <3>1, <3>2, <3>3 DEF Follows
    <2> QED
      BY <2>1, <2>2, <2>4, FollowsKept
  <1>3. ASSUME NEW s \in {"active", "suspended"}, WritePatch(h, s)
        PROVE  \A u \in Users : Follows(u)'
    <2> DEFINE a == local[h].agency
    <2>1. a \in Agencies /\ agency[a] = local[h].was /\ local[h].was \in {"active", "suspended"}
      BY <1>3, LocalType DEF WritePatch, Runs, InTime
    <2>2. UNCHANGED <<user, member, bound>>
      BY <1>3 DEF WritePatch
    <2>3. agency'[a] = s /\ \A b \in Agencies \ {a} : agency'[b] = agency[b]
      BY <1>3, <2>1 DEF WritePatch, Open, TypeOK
    <2>4. IF s # local[h].was THEN Rebuild(MembersOf(a)) ELSE UNCHANGED grant
      BY <1>3 DEF WritePatch
    <2> HIDE DEF a
    <2>5. CASE s = agency[a]
      BY <2>1, <2>2, <2>3, <2>4, <2>5, FollowsKept
    <2>6. CASE s # agency[a]
      <3>1. \A u \in Users : u \in MembersOf(a) => user'[u] # NoUser
        BY <2>1, <2>2 DEF MembersOf, Rows, MembersOfOpen, Exists
      <3>2. \A u \in Users : u \notin MembersOf(a) => member[a][u] = NoMember
        BY DEF MembersOf
      <3>3. Rebuild(MembersOf(a))
        BY <2>1, <2>4, <2>6
      <3> QED
        BY <2>2, <2>3, <3>1, <3>2, <3>3, RebuildFollows
    <2> QED
      BY <2>5, <2>6
  <1>4. ASSUME NEW i \in Invites, StartAccept(h, i)
        PROVE  \A u \in Users : Follows(u)'
    <2>1. UNCHANGED <<agency, member, bound, grant>>
      BY <1>4 DEF StartAccept
    <2>2. CASE Exists(invite[i].user)
      BY <1>4, <2>1, <2>2, FollowsKept DEF StartAccept
    <2>3. CASE ~Exists(invite[i].user)
      <3>0. PICK u \in Users : u = invite[i].user
        <4>1. invite[i] \in Invite
          BY <1>4 DEF StartAccept, Pending, TypeOK
        <4> QED
          BY <4>1 DEF Invite
      <3>1. /\ \A w \in Users \ {u} : user'[w] = user[w]
            /\ user'[u] = [role |-> "agency", active |-> TRUE]
        BY <1>4, <2>3, <3>0 DEF StartAccept, TypeOK
      <3>2. ~Exists(u) /\ \A b \in Agencies : member[b][u] = NoMember
        BY <2>3, <3>0 DEF Rows, MembersOfOpen
      <3>3. Entitled(u) = {} /\ Entitled(u)' = {}
        BY <2>1, <3>2 DEF Entitled, ServedBy, ActiveMember, ActiveUser, IsUser
      <3>4. \A c \in Clients : grant[u][c] # "client"
        BY <3>2 DEF Follows, IsUser
      <3>5. Follows(u)'
        BY <2>1, <3>1, <3>3, <3>4 DEF Follows, AgencyGrants
      <3> QED
        BY <2>1, <3>1, <3>5, FollowsKept
    <2> QED
      BY <2>2, <2>3
  <1>5. CASE Accept(h) \/ Compensate(h)
    <2> DEFINE a == InviteOf(h).agency
               u == InviteOf(h).user
    <2>1. Accepts(h)
      BY <1>5 DEF Accept, Compensate, Runs, Accepts
    <2>2. a \in Agencies /\ u \in Users /\ Exists(u)
      BY <2>1, InviteType DEF Accepts, Rows
    <2>3. \A b \in Agencies, w \in Users : b # a \/ w # u => member'[b][w] = member[b][w]
      BY <1>5, AcceptWrites, CompensateWrites DEF Rows
    <2>4. UNCHANGED <<user, agency, bound>> /\ Rebuild({u})
      BY <1>5 DEF Accept, Compensate, InviteOf
    <2> HIDE DEF a, u
    <2> QED
      BY <2>2, <2>3, <2>4, OneRebuilt
  <1>6. CASE Undo(h)
    <2>1. PICK u \in Users : u = InviteOf(h).user
      BY <1>6, InviteType DEF Undo, Runs, Rows
    <2>2. UNCHANGED <<agency, bound>>
      BY <1>6 DEF Undo
    <2>3. UNCHANGED <<user, member, grant>> \/ Erase(u)
      BY <1>6, <2>1, UndoWrites DEF Rows
    <2>4. CASE UNCHANGED <<user, member, grant>>
      BY <2>2, <2>4, <1>1
    <2>5. CASE Erase(u)
      <3>1. /\ user'[u] = NoUser
            /\ \A c \in Clients : grant'[u][c] = "none"
            /\ \A w \in Users \ {u} : grant'[w] = grant[w] /\ user'[w] = user[w]
            /\ \A b \in Agencies : \A w \in Users \ {u} : member'[b][w] = member[b][w]
        BY <2>1, <2>5 DEF Erase, TypeOK
      <3>2. Follows(u)'
        BY <2>1, <3>1, FollowsNone
      <3> QED
        BY <2>2, <3>1, <3>2, FollowsKept
    <2> QED
      BY <2>3, <2>4, <2>5
  <1>7. \/ UNCHANGED <<user, agency, member, bound, grant>>
        \/ Drop(h) \/ Accept(h) \/ Compensate(h) \/ Undo(h)
        \/ \E s \in {"active", "suspended"} : WritePatch(h, s)
        \/ \E i \in Invites : StartAccept(h, i)
    BY DEF HandlerStep, StartDrop, StartPatch, StartResend, StartExpire, ResendRevokes,
           ResendIssues, Expire, AcceptFails, AcceptTooLate, Enter, tables
  <1> QED
    BY <1>1, <1>2, <1>3, <1>4, <1>5, <1>6, <1>7

\* What a step leaves a handler that does not take it.
Bystander(g) ==
    \/ local'[g] = local[g]
    \/ local'[g] = Idle
    \/ Accepts(g) /\ local'[g] = [local[g] EXCEPT !.there = FALSE]

LEMMA BystanderDoes ==
    ASSUME TypeOK, NEW g \in Handlers, Bystander(g)
    PROVE  /\ Doing(g)' \in {Doing(g), "idle"}
           /\ Entering(g)' => Entering(g) /\ local'[g].invite = local[g].invite
  <1>1. CASE local'[g] = local[g]
    BY <1>1 DEF Doing, Entering, Accepts
  <1>2. CASE local'[g] = Idle
    BY <1>2 DEF Doing, Entering, Accepts
  <1>3. CASE Accepts(g) /\ local'[g] = [local[g] EXCEPT !.there = FALSE]
    <2>1. local[g] \in [op: {"accept"}, stage: {"checked", "entering", "undoing"},
                        invite: Invites, was: Member \cup {NoMember},
                        there: BOOLEAN, created: BOOLEAN]
      BY <1>3, LocalType DEF Accepts
    <2>2. local'[g].op = "accept" /\ local'[g].invite = local[g].invite
            /\ local'[g].stage = local[g].stage
      BY <1>3, <2>1
    <2>3. Doing(g)' \in {"accept", "idle"}
      BY <2>2 DEF Doing
    <2> QED
      BY <1>3, <2>2, <2>3 DEF Entering, Accepts
  <1> QED
    BY <1>1, <1>2, <1>3 DEF Bystander

LEMMA Bystanders ==
    ASSUME TypeOK, Rows, UserAction \/ AgencyAction \/ MemberAction \/ InviteAction
    PROVE  Undisturbed /\ \A g \in Handlers : Bystander(g)
  <1>1. Undisturbed
    BY DEF UserAction, DeleteUser, CreateUser, PatchUser, AssignDirect, AgencyAction,
           DeleteAgency, CreateAgency, AssignClient, RevokeClient, MemberAction, UpsertMember,
           DeactivateMember, RemoveMember, InviteAction, IssueInvite, RevokeInvite
  <1>2. ASSUME NEW a \in Agencies, NEW U \in SUBSET Users, local' = RowsGone(a, U)
        PROVE  \A g \in Handlers : Bystander(g)
    BY <1>2, RowsGoneType DEF Bystander
  <1>3. ASSUME NEW u \in Users, local' = DropsForgotten(u)
        PROVE  \A g \in Handlers : Bystander(g)
    BY <1>3, DropsForgottenType DEF Bystander
  <1>4. \/ UNCHANGED local
        \/ \E u \in Users : local' = DropsForgotten(u)
        \/ \E a \in Agencies, U \in SUBSET Users : local' = RowsGone(a, U)
    BY DEF UserAction, DeleteUser, CreateUser, PatchUser, AssignDirect, AgencyAction,
           DeleteAgency, CreateAgency, AssignClient, RevokeClient, MemberAction, UpsertMember,
           DeactivateMember, RemoveMember, InviteAction, IssueInvite, RevokeInvite
  <1> QED
    BY <1>1, <1>2, <1>3, <1>4 DEF Bystander

LEMMA HandlerBystanders ==
    ASSUME TypeOK, Rows, NEW h \in Handlers, HandlerStep(h)
    PROVE  Others(h) /\ \A g \in Handlers \ {h} : Bystander(g)
  <1>1. Others(h)
    BY DEF HandlerStep, StartDrop, Drop, StartPatch, WritePatch, StartExpire, StartResend,
           StartAccept, ResendRevokes, ResendIssues, Expire, AcceptFails, AcceptTooLate,
           Accept, Enter, Compensate, Undo, Starts, Runs, Undisturbed, Others, UndisturbedBy
  <1>2. ASSUME NEW r, Remember(h, r)
        PROVE  \A g \in Handlers \ {h} : Bystander(g)
    BY <1>2 DEF Remember, Bystander, TypeOK
  <1>3. Compensate(h) => \A g \in Handlers \ {h} : Bystander(g)
    BY CompensateWrites DEF Bystander, Rows
  <1>4. Undo(h) => \A g \in Handlers \ {h} : Bystander(g)
    BY UndoWrites DEF Bystander, Rows
  <1>5. Compensate(h) \/ Undo(h) \/ \E r : Remember(h, r)
    BY DEF HandlerStep, StartDrop, Drop, StartPatch, WritePatch, StartExpire, StartResend,
           StartAccept, ResendRevokes, ResendIssues, Expire, AcceptFails, AcceptTooLate,
           Accept, Enter
  <1> QED
    BY <1>1, <1>2, <1>3, <1>4, <1>5

\* Neither patches nor removals are overtaken: what they read is still so.
LEMMA InTimeStep == NoRace /\ TypeOK /\ Rows /\ InTime /\ [Next]_vars => InTime'
  <1> SUFFICES ASSUME NoRace, TypeOK, Rows, InTime, [Next]_vars, NEW h \in Handlers
               PROVE  /\ Doing(h)' = "patch" => agency'[local'[h].agency] = local'[h].was
                      /\ Doing(h)' = "drop" =>
                            local'[h].client \notin Entitled(local[h].user)'
    BY DEF InTime
  <1>1. CASE UNCHANGED vars
    BY <1>1 DEF InTime, vars, tables, Doing, Entitled, ServedBy, ActiveMember, ActiveUser, IsUser,
                Exists
  <1>2. CASE Restart
    BY <1>2 DEF Restart, Doing
  <1>3. CASE UndisturbedBy({h}) /\ Bystander(h)
    <2>1. Doing(h) \in Racing \cup {"idle"}
      BY <1>3 DEF UndisturbedBy
    <2> QED
      BY <1>3, <2>1, BystanderDoes DEF NoRace
  <1>4. CASE UserAction \/ AgencyAction \/ MemberAction \/ InviteAction
    BY <1>3, <1>4, Bystanders DEF Undisturbed, UndisturbedBy
  <1>5. ASSUME NEW k \in Handlers, HandlerStep(k), k # h
        PROVE  UndisturbedBy({h}) /\ Bystander(h)
    BY <1>5, HandlerBystanders DEF Others, UndisturbedBy
  <1>6. ASSUME NEW a \in Agencies, StartPatch(h, a)
        PROVE  /\ Doing(h)' \in {"idle", "patch"}
               /\ agency'[local'[h].agency] = local'[h].was
    <2>1. local'[h] = [op |-> "patch", agency |-> a, was |-> agency[a]]
      BY <1>6 DEF StartPatch, Remember, TypeOK
    <2> QED
      BY <1>6, <2>1 DEF StartPatch, Doing, tables
  <1>7. ASSUME NEW u \in Users, NEW c \in Clients, StartDrop(h, u, c)
        PROVE  /\ Doing(h)' \in {"idle", "drop"}
               /\ local'[h].client \notin Entitled(local[h].user)'
    <2>1. local'[h] = [op |-> "drop", user |-> u, client |-> c]
      BY <1>7 DEF StartDrop, Remember, TypeOK
    <2>2. local'[h].op = "drop" /\ local'[h].user = u /\ local'[h].client = c
      BY <2>1
    <2>3. c \notin Entitled(u)
      BY <1>7 DEF StartDrop, Entitled
    <2>4. UNCHANGED <<user, agency, member, bound>>
      BY <1>7 DEF StartDrop, tables
    <2>5. c \notin Entitled(local[h].user)'
      BY <2>2, <2>3, <2>4 DEF Entitled, ServedBy, ActiveMember, ActiveUser, IsUser, Exists
    <2> QED
      BY <2>2, <2>5 DEF Doing
  <1>8. CASE HandlerStep(h)
    <2>1. CASE QuietHandlerStep(h) /\ ~(\E a \in Agencies : StartPatch(h, a))
                    /\ ~(\E u \in Users, c \in Clients : StartDrop(h, u, c))
      <3>1. \/ local'[h] = Idle
            \/ \E i \in Invites : StartExpire(h, i)
            \/ ResendRevokes(h) \/ AcceptTooLate(h)
        BY <2>1 DEF QuietHandlerStep, Drop, Expire, ResendIssues, AcceptFails, Enter, WritePatch,
                    Remember, TypeOK
      <3>2. Doing(h)' \notin {"patch", "drop"}
        <4>1. CASE local'[h] = Idle
          BY <4>1 DEF Doing
        <4>2. CASE \E i \in Invites : StartExpire(h, i)
          BY <4>2 DEF StartExpire, Remember, TypeOK, Doing
        <4>3. CASE ResendRevokes(h)
          <5>1. Doing(h) = "resend" /\ local'[h] = [local[h] EXCEPT !.revoke = FALSE]
            BY <4>3 DEF ResendRevokes, Runs, Remember, TypeOK
          <5>2. local'[h].op = "resend"
            BY <5>1, LocalType
          <5> QED
            BY <5>2 DEF Doing
        <4>4. CASE AcceptTooLate(h)
          <5>1. Doing(h) = "accept" /\ local'[h] = [local[h] EXCEPT !.stage = "undoing"]
            BY <4>4 DEF AcceptTooLate, Runs, Remember, TypeOK
          <5>2. local'[h].op = "accept"
            BY <5>1, LocalType
          <5> QED
            BY <5>2 DEF Doing
        <4> QED
          BY <3>1, <4>1, <4>2, <4>3, <4>4
      <3> QED
        BY <3>2
    <2>2. CASE Accept(h) \/ Compensate(h)
      <3>1. Doing(h) = "accept"
        BY <2>2 DEF Accept, Compensate, Runs
      <3>2. local[h] \in [op: {"accept"}, stage: {"checked", "entering", "undoing"},
                          invite: Invites, was: Member \cup {NoMember},
                          there: BOOLEAN, created: BOOLEAN]
        BY <3>1, LocalType
      <3>3. local'[h].op = "accept"
        <4>1. CASE Accept(h)
          <5>1. local'[h] = [local[h] EXCEPT !.stage = "entering",
                                !.there = (local[h].was = NoMember \/ local[h].there)]
            BY <4>1, AcceptWrites DEF Rows
          <5> QED
            BY <3>2, <5>1
        <4>2. CASE Compensate(h)
          <5>1. local'[h] = [local[h] EXCEPT !.stage = "undoing", !.there = FALSE]
            BY <4>2, CompensateWrites DEF Rows
          <5> QED
            BY <3>2, <5>1
        <4> QED
          BY <2>2, <4>1, <4>2
      <3> QED
        BY <3>3 DEF Doing
    <2>3. CASE Undo(h)
      BY <2>3, UndoWrites DEF Rows, Doing
    <2>4. CASE \E i \in Invites : StartResend(h, i) \/ StartAccept(h, i)
      BY <2>4 DEF StartResend, StartAccept, Remember, TypeOK, Doing
    <2> QED
      BY <1>6, <1>7, <1>8, <2>1, <2>2, <2>3, <2>4 DEF HandlerStep, QuietHandlerStep
  <1> QED
    BY <1>1, <1>2, <1>3, <1>4, <1>5, <1>8, HandlerSteps DEF Next

LEMMA FollowsStep ==
    TypeOK /\ TypeOK' /\ Rows /\ Rows' /\ InTime /\ GrantsFollowMembership /\ [Next]_vars
    => GrantsFollowMembership'
  <1> SUFFICES ASSUME TypeOK, TypeOK', Rows, Rows', InTime,
                      \A u \in Users : Follows(u), [Next]_vars
               PROVE  \A u \in Users : Follows(u)'
    BY DEF GrantsFollowMembership, Follows
  <1>1. CASE UNCHANGED vars
    BY <1>1, FollowsKept DEF vars, tables
  <1>2. CASE InviteAction
    <2>1. UNCHANGED <<user, agency, member, bound, grant>>
      BY <1>2 DEF InviteAction, IssueInvite, RevokeInvite
    <2> QED
      BY <2>1, FollowsKept
  <1>3. CASE Restart
    <2> SUFFICES ASSUME NEW u \in Users
                 PROVE  Follows(u)'
      OBVIOUS
    <2>1. UNCHANGED <<user, agency, member, bound>>
      BY <1>3 DEF Restart
    <2>2. \A c \in Clients : grant'[u][c] = Reconciled(u, c)
      BY <1>3 DEF Restart
    <2>3. Entitled(u)' = Entitled(u)
      BY <2>1 DEF Entitled, ServedBy, ActiveMember, ActiveUser, IsUser, Exists
    <2>4. /\ \A c \in Clients : grant[u][c] = "agency" <=> c \in Entitled(u)
          /\ Entitled(u) \subseteq Clients
          /\ \A c \in Clients : grant[u][c] \in {"none", "agency", "client"}
      BY EntitledType DEF Follows, AgencyGrants, TypeOK
    <2>5. CASE IsUser(u, {"admin"}) \/ ~Exists(u)
      <3>1. Entitled(u) = {}
        BY <2>5 DEF Entitled, ActiveUser, IsUser
      <3>2. ~IsUser(u, {"client"}) /\ ~IsUser(u, {"agency"})
        BY <2>5 DEF IsUser
      <3>3. \A c \in Clients : grant[u][c] = "none" \/ IsUser(u, {"admin"})
        BY <2>4, <2>5, <3>1, <3>2 DEF Follows
      <3>4. ASSUME NEW c \in Clients
            PROVE  grant'[u][c] = "none"
        <4>1. Reconciled(u, c) = "none"
          BY <3>2, <3>3 DEF Reconciled
        <4> QED
          BY <2>2, <4>1
      <3> QED
        BY <2>3, <3>1, <3>4 DEF Follows, AgencyGrants
    <2>6. CASE IsUser(u, {"agency"})
      <3>1. ~IsUser(u, {"admin"}) /\ ~IsUser(u, {"client"}) /\ ~IsUser(u, {"client"})'
        BY <2>1, <2>6 DEF IsUser, Exists
      <3>2. \A c \in Clients : grant'[u][c] = IF c \in Entitled(u) THEN "agency" ELSE "none"
        BY <2>2, <2>4, <2>6, <3>1 DEF Reconciled
      <3> QED
        BY <2>3, <2>4, <3>2 DEF Follows, AgencyGrants
    <2>7. CASE IsUser(u, {"client"})
      <3>1. ~IsUser(u, {"admin"}) /\ ~IsUser(u, {"agency"}) /\ IsUser(u, {"client"})'
        BY <2>1, <2>7 DEF IsUser, Exists
      <3>2. Entitled(u) = {}
        BY <3>1 DEF Entitled, ActiveUser
      <3>3. \A c \in Clients : grant'[u][c] # "agency"
        BY <2>2, <3>1 DEF Reconciled
      <3> QED
        BY <2>3, <3>1, <3>2, <3>3 DEF Follows, AgencyGrants
    <2> QED
      <3>1. Exists(u) => user[u].role \in {"admin", "agency", "client"}
        BY RoleAssumption DEF TypeOK, Exists, User
      <3> QED
        BY <2>5, <2>6, <2>7, <3>1 DEF IsUser
  <1>4. CASE UserAction \/ AgencyAction \/ MemberAction
    BY <1>4, UserFollows, AgencyFollows, MemberFollows
  <1>5. CASE HandlerAction
    BY <1>5, HandlerSteps, HandlerFollows
  <1> QED
    BY <1>1, <1>2, <1>3, <1>4, <1>5 DEF Next

\* GrantsFollowMembership: user_client_access says what memberships and bindings
\* say, however acceptances, compensations, resends and restarts interleave, as
\* long as no other transaction overtakes the patch of an agency or the removal
\* of a direct grant.
THEOREM GrantsFollow ==
    ASSUME NoRace
    PROVE  Spec => []GrantsFollowMembership
  <1>1. Init => TypeOK /\ Rows /\ InTime /\ GrantsFollowMembership
    <2> SUFFICES ASSUME Init
                 PROVE  InTime /\ GrantsFollowMembership
      BY InitRows
    <2>1. InTime
      BY DEF Init, InTime, Doing
    <2>2. \A u \in Users : Entitled(u) = {}
      BY DEF Init, Entitled, ServedBy
    <2>3. \A u \in Users, c \in Clients : grant[u][c] = "none"
      BY DEF Init
    <2> QED
      BY <2>1, <2>2, <2>3 DEF GrantsFollowMembership, AgencyGrants
  <1>2. /\ TypeOK /\ Rows /\ InTime /\ GrantsFollowMembership
        /\ [Next]_vars
        => (TypeOK /\ Rows /\ InTime /\ GrantsFollowMembership)'
    BY TypeStep, RowsStep, InTimeStep, FollowsStep DEF Rows
  <1> QED
    BY <1>1, <1>2, PTL DEF Spec

-----------------------------------------------------------------------------
(* An invite is for one *)

Closed(i) == invite[i] # NoInvite /\ ~Pending(i)

\* Who is about to enter holds an invite nobody has used and nobody else may use.
EntryInv ==
    /\ \A h \in Handlers :
        Entering(h) => Closed(local[h].invite) /\ entered[local[h].invite] = 0
    /\ \A h, g \in Handlers :
        Entering(h) /\ Entering(g) /\ local[h].invite = local[g].invite => h = g
    /\ \A i \in Invites : entered[i] # 0 => entered[i] = 1 /\ Closed(i)

\* A step in which nobody enters or starts to, and no invite is opened again.
LEMMA EntryKept ==
    ASSUME TypeOK, EntryInv, entered' = entered,
           \A i \in Invites : Closed(i) => Closed(i)',
           \A g \in Handlers :
                Entering(g)' => Entering(g) /\ local'[g].invite = local[g].invite
    PROVE  EntryInv'
  <1>1. \A g \in Handlers : Entering(g) => local[g].invite \in Invites
    BY LocalType DEF Entering, Accepts
  <1>2. ASSUME NEW h \in Handlers, Entering(h)'
        PROVE  Closed(local[h].invite)' /\ entered'[local'[h].invite] = 0
    <2>1. PICK i \in Invites : i = local[h].invite
      BY <1>1, <1>2
    <2>2. i = local'[h].invite /\ Entering(h)
      BY <1>2, <2>1
    <2>3. Closed(i)' /\ entered'[i] = 0
      BY <2>1, <2>2 DEF EntryInv
    <2> QED
      BY <2>2, <2>3 DEF Closed, Pending
  <1>3. ASSUME NEW h \in Handlers, NEW g \in Handlers, Entering(h)', Entering(g)',
               local'[h].invite = local'[g].invite
        PROVE  h = g
    BY <1>3 DEF EntryInv
  <1>4. \A i \in Invites : entered'[i] # 0 => entered'[i] = 1 /\ Closed(i)'
    BY DEF EntryInv
  <1> QED
    BY <1>2, <1>3, <1>4 DEF EntryInv

\* Marking closes or keeps closed, unless it marks 'pending'.
LEMMA MarkCloses ==
    ASSUME TypeOK, NEW i \in Invites, NEW s \in {"accepted", "revoked", "expired"},
           invite' = Mark(i, s)
    PROVE  \A j \in Invites : Closed(j) => Closed(j)'
  <1> SUFFICES ASSUME NEW j \in Invites, Closed(j)
               PROVE  invite'[j] # NoInvite /\ invite'[j].status # "pending"
    BY DEF Closed, Pending
  <1>1. invite[j] \in Invite /\ [invite[j] EXCEPT !.status = s] \in Invite
    BY DEF Closed, TypeOK, Invite
  <1>2. invite'[j] = invite[j] \/ invite'[j] = [invite[j] EXCEPT !.status = s]
    BY DEF Mark, TypeOK
  <1>3. invite[j].status # "pending" /\ [invite[j] EXCEPT !.status = s].status = s
    BY <1>1 DEF Closed, Pending, Invite
  <1> QED
    BY <1>1, <1>2, <1>3, NullAssumption DEF Invite

LEMMA IssueCloses ==
    ASSUME TypeOK, NEW a \in Agencies, NEW u \in Users, NEW r \in MemberRoles, Issue(a, u, r)
    PROVE  \A j \in Invites : Closed(j) => Closed(j)'
  BY IssueType DEF Closed, Pending

LEMMA EntryStep == TypeOK /\ Rows /\ EntryInv /\ [Next]_vars => EntryInv'
  <1> SUFFICES ASSUME TypeOK, Rows, EntryInv, [Next]_vars
               PROVE  EntryInv'
    OBVIOUS
  <1>1. CASE UNCHANGED vars
    BY <1>1 DEF vars, tables, EntryInv, Entering, Accepts, Doing, Closed, Pending
  <1>2. CASE Restart
    BY <1>2, EntryKept DEF Restart, Entering, Accepts, Doing, Closed, Pending
  <1>3. CASE UserAction \/ AgencyAction \/ MemberAction \/ InviteAction
    <2>1. \A g \in Handlers : Entering(g)' => Entering(g) /\ local'[g].invite = local[g].invite
      BY <1>3, Bystanders, BystanderDoes
    <2>2. entered' = entered
      BY <1>3 DEF UserAction, DeleteUser, CreateUser, PatchUser, AssignDirect, AgencyAction,
             DeleteAgency, CreateAgency, AssignClient, RevokeClient, MemberAction, UpsertMember,
             DeactivateMember, RemoveMember, InviteAction, IssueInvite, RevokeInvite
    <2>3. \A j \in Invites : Closed(j) => Closed(j)'
      <3>1. CASE UNCHANGED invite
        BY <3>1 DEF Closed, Pending
      <3>2. ASSUME NEW a \in Agencies, DeleteAgency(a)
            PROVE  \A j \in Invites : Closed(j) => Closed(j)'
        <4> SUFFICES ASSUME NEW j \in Invites, Closed(j)
                     PROVE  invite'[j] # NoInvite /\ invite'[j].status # "pending"
          BY DEF Closed, Pending
        <4>1. invite[j] \in Invite /\ [invite[j] EXCEPT !.status = "deleted"] \in Invite
          BY DEF Closed, TypeOK, Invite
        <4>2. invite'[j] = invite[j] \/ invite'[j] = [invite[j] EXCEPT !.status = "deleted"]
          BY <3>2 DEF DeleteAgency
        <4>3. /\ invite[j].status # "pending"
              /\ [invite[j] EXCEPT !.status = "deleted"].status = "deleted"
          BY <4>1 DEF Closed, Pending, Invite
        <4> QED
          BY <4>1, <4>2, <4>3, NullAssumption DEF Invite
      <3>3. CASE InviteAction
        BY <3>3, IssueCloses, MarkCloses DEF InviteAction, IssueInvite, RevokeInvite
      <3>4. UNCHANGED invite \/ (\E a \in Agencies : DeleteAgency(a)) \/ InviteAction
        BY <1>3 DEF UserAction, DeleteUser, CreateUser, PatchUser, AssignDirect, AgencyAction,
               CreateAgency, AssignClient, RevokeClient, MemberAction, UpsertMember,
               DeactivateMember, RemoveMember
      <3> QED
        BY <3>1, <3>2, <3>3, <3>4
    <2> QED
      BY <2>1, <2>2, <2>3, EntryKept
  <1>4. ASSUME NEW h \in Handlers, HandlerStep(h)
        PROVE  EntryInv'
    <2>1. \A g \in Handlers \ {h} :
            Entering(g)' => Entering(g) /\ local'[g].invite = local[g].invite
      BY <1>4, HandlerBystanders, BystanderDoes
    <2>2. CASE Accept(h)
      <3>1. PICK i \in Invites : i = local[h].invite
        BY <2>2, LocalType DEF Accept, Runs
      <3>2. invite' = Mark(i, "accepted") /\ Pending(i) /\ entered' = entered
        BY <2>2, <3>1 DEF Accept, StillOpen
      <3>3. \A j \in Invites : Closed(j) => Closed(j)'
        BY <3>2, MarkCloses
      <3>4. Closed(i)' /\ entered[i] = 0
        <4>1. invite[i] \in Invite /\ Present(i)
          BY <3>2 DEF TypeOK, Pending, Present
        <4>2. invite'[i] = [invite[i] EXCEPT !.status = "accepted"]
          BY <3>2, <4>1 DEF Mark, TypeOK
        <4>3. invite'[i] \in Invite /\ invite'[i].status = "accepted"
          BY <4>1, <4>2 DEF Invite
        <4> QED
          BY <3>2, <4>3, NullAssumption DEF Invite, Closed, Pending, EntryInv
      <3>5. local'[h].invite = i
        <4>1. local[h] \in [op: {"accept"}, stage: {"checked", "entering", "undoing"},
                            invite: Invites, was: Member \cup {NoMember},
                            there: BOOLEAN, created: BOOLEAN]
          BY <2>2, LocalType DEF Accept, Runs
        <4>2. local'[h] = [local[h] EXCEPT !.stage = "entering",
                                !.there = (local[h].was = NoMember \/ local[h].there)]
          BY <2>2, AcceptWrites DEF Rows
        <4> QED
          BY <3>1, <4>1, <4>2
      <3>6. \A g \in Handlers \ {h} : Entering(g) => local[g].invite # i
        BY <3>2 DEF EntryInv, Closed
      <3>7. \A g \in Handlers \ {h} : Entering(g)' =>
                /\ invite'[local'[g].invite] # NoInvite
                /\ invite'[local'[g].invite].status # "pending"
                /\ entered'[local'[g].invite] = 0
        <4> SUFFICES ASSUME NEW g \in Handlers \ {h}, Entering(g)'
                     PROVE  /\ invite'[local'[g].invite] # NoInvite
                            /\ invite'[local'[g].invite].status # "pending"
                            /\ entered'[local'[g].invite] = 0
          OBVIOUS
        <4>1. PICK j \in Invites : j = local[g].invite
          BY <2>1, LocalType DEF Entering, Accepts
        <4>2. Closed(j) /\ entered[j] = 0 /\ local'[g].invite = j
          BY <2>1, <4>1 DEF EntryInv
        <4> QED
          BY <3>2, <3>3, <4>2 DEF Closed, Pending
      <3>8. \A k \in Handlers :
                Entering(k)' => Closed(local[k].invite)' /\ entered'[local'[k].invite] = 0
        BY <3>2, <3>4, <3>5, <3>7 DEF Closed, Pending
      <3>9. \A k, g \in Handlers :
                Entering(k)' /\ Entering(g)' /\ local'[k].invite = local'[g].invite => k = g
        BY <2>1, <3>5, <3>6 DEF EntryInv
      <3>10. \A j \in Invites : entered'[j] # 0 => entered'[j] = 1 /\ Closed(j)'
        BY <3>2, <3>3 DEF EntryInv
      <3> QED
        BY <3>8, <3>9, <3>10 DEF EntryInv
    <2>3. CASE Enter(h)
      <3>1. PICK i \in Invites : i = local[h].invite
        BY <2>3, LocalType DEF Enter, Runs
      <3>2. entered' = [entered EXCEPT ![i] = @ + 1] /\ UNCHANGED invite
        BY <2>3, <3>1 DEF Enter, tables
      <3>3. Entering(h) /\ Closed(i) /\ entered[i] = 0
        BY <2>3, <3>1 DEF Enter, Runs, Entering, Accepts, EntryInv
      <3>4. /\ entered'[i] = 1
            /\ \A j \in Invites \ {i} : entered'[j] = entered[j]
            /\ \A j \in Invites : Closed(j)' <=> Closed(j)
        BY <3>2, <3>3 DEF TypeOK, Closed, Pending
      <3>5. ~Entering(h)'
        BY <2>3 DEF Enter, Remember, TypeOK, Entering, Accepts, Doing
      <3>6. ASSUME NEW g \in Handlers, Entering(g)'
            PROVE  Closed(local[g].invite)' /\ entered'[local'[g].invite] = 0
        <4>1. PICK j \in Invites : j = local[g].invite
          BY <2>1, <3>5, <3>6, LocalType DEF Entering, Accepts
        <4>2. Entering(g) /\ local'[g].invite = j /\ Closed(j) /\ entered[j] = 0
          BY <2>1, <3>5, <3>6, <4>1 DEF EntryInv
        <4>3. j # i
          BY <3>1, <3>3, <3>5, <3>6, <4>1, <4>2 DEF EntryInv
        <4> QED
          BY <3>2, <3>4, <4>2, <4>3 DEF Closed, Pending
      <3>7. \A k, g \in Handlers :
                Entering(k)' /\ Entering(g)' /\ local'[k].invite = local'[g].invite => k = g
        BY <2>1, <3>5 DEF EntryInv
      <3>8. \A j \in Invites : entered'[j] # 0 => entered'[j] = 1 /\ Closed(j)'
        BY <3>3, <3>4 DEF EntryInv
      <3> QED
        BY <3>6, <3>7, <3>8 DEF EntryInv
    <2>4. CASE Compensate(h)
      <3>1. PICK i \in Invites : i = local[h].invite
        BY <2>4, LocalType DEF Compensate, Runs
      <3>2. (invite' = Mark(i, "pending") \/ UNCHANGED invite) /\ entered' = entered
        BY <2>4, <3>1 DEF Compensate
      <3>3. Entering(h) /\ entered[i] = 0
        BY <2>4, <3>1 DEF Compensate, Runs, Entering, Accepts, EntryInv
      <3>4. \A j \in Invites \ {i} : invite'[j] = invite[j]
        BY <3>2 DEF Mark, TypeOK
      <3>5. ~Entering(h)'
        <4>1. local[h] \in [op: {"accept"}, stage: {"checked", "entering", "undoing"},
                            invite: Invites, was: Member \cup {NoMember},
                            there: BOOLEAN, created: BOOLEAN]
          BY <2>4, LocalType DEF Compensate, Runs
        <4>2. local'[h] = [local[h] EXCEPT !.stage = "undoing", !.there = FALSE]
          BY <2>4, CompensateWrites DEF Rows
        <4>3. local'[h].stage = "undoing"
          BY <4>1, <4>2
        <4> QED
          BY <4>3 DEF Entering
      <3>6. ASSUME NEW g \in Handlers, Entering(g)'
            PROVE  Closed(local[g].invite)' /\ entered'[local'[g].invite] = 0
        <4>1. PICK j \in Invites : j = local[g].invite
          BY <2>1, <3>5, <3>6, LocalType DEF Entering, Accepts
        <4>2. Entering(g) /\ local'[g].invite = j /\ Closed(j) /\ entered[j] = 0
          BY <2>1, <3>5, <3>6, <4>1 DEF EntryInv
        <4>3. j # i
          BY <3>1, <3>3, <3>5, <3>6, <4>1, <4>2 DEF EntryInv
        <4> QED
          BY <3>2, <3>4, <4>2, <4>3 DEF Closed, Pending
      <3>7. \A k, g \in Handlers :
                Entering(k)' /\ Entering(g)' /\ local'[k].invite = local'[g].invite => k = g
        BY <2>1, <3>5 DEF EntryInv
      <3>8. \A j \in Invites : entered'[j] # 0 => entered'[j] = 1 /\ Closed(j)'
        BY <3>2, <3>3, <3>4 DEF EntryInv, Closed, Pending
      <3> QED
        BY <3>6, <3>7, <3>8 DEF EntryInv
    <2>5. CASE ~(Accept(h) \/ Enter(h) \/ Compensate(h))
      <3>1. entered' = entered
        BY <1>4, <2>5 DEF HandlerStep, StartDrop, Drop, StartPatch, WritePatch, StartExpire,
               StartResend, StartAccept, ResendRevokes, ResendIssues, Expire, AcceptFails,
               AcceptTooLate, Undo
      <3>2. \A j \in Invites : Closed(j) => Closed(j)'
        <4>1. CASE UNCHANGED invite
          BY <4>1 DEF Closed, Pending
        <4>2. CASE ResendRevokes(h)
          BY <4>2, LocalType, MarkCloses DEF ResendRevokes, Runs
        <4>3. CASE Expire(h)
          BY <4>3, LocalType, MarkCloses DEF Expire, Runs
        <4>4. CASE ResendIssues(h)
          <5>1. /\ InviteOf(h).agency \in Agencies
                /\ InviteOf(h).user \in Users
                /\ InviteOf(h).role \in MemberRoles
            BY <4>4, InviteType DEF ResendIssues, Runs, Rows
          <5>2. \/ Issue(InviteOf(h).agency, InviteOf(h).user, InviteOf(h).role)
                \/ UNCHANGED invite
            BY <4>4 DEF ResendIssues, InviteOf
          <5> QED
            BY <4>1, <5>1, <5>2, IssueCloses
        <4>5. UNCHANGED invite \/ ResendRevokes(h) \/ Expire(h) \/ ResendIssues(h)
          BY <1>4, <2>5 DEF HandlerStep, StartDrop, Drop, StartPatch, WritePatch, StartExpire,
               StartResend, StartAccept, AcceptFails, AcceptTooLate, Undo, tables
        <4> QED
          BY <4>1, <4>2, <4>3, <4>4, <4>5
      <3>3. ~Entering(h)'
        <4>1. CASE \E i \in Invites : StartAccept(h, i)
          BY <4>1 DEF StartAccept, Remember, TypeOK, Entering
        <4>2. CASE \E i \in Invites : StartResend(h, i)
          BY <4>2 DEF StartResend, Remember, TypeOK, Entering, Accepts, Doing
        <4>3. CASE Undo(h)
          BY <4>3, UndoWrites DEF Rows, Entering, Accepts, Doing
        <4>4. CASE AcceptTooLate(h)
          <5>1. Doing(h) = "accept" /\ local'[h] = [local[h] EXCEPT !.stage = "undoing"]
            BY <4>4 DEF AcceptTooLate, Runs, Remember, TypeOK
          <5>2. local'[h].stage = "undoing"
            BY <5>1, LocalType
          <5> QED
            BY <5>2 DEF Entering
        <4>5. CASE QuietHandlerStep(h) /\ ~AcceptTooLate(h)
          <5>1. ~Accepts(h) \/ AcceptFails(h)
            BY <2>5, <4>5 DEF QuietHandlerStep, StartDrop, Drop, StartPatch, WritePatch,
                 StartExpire, ResendRevokes, ResendIssues, Expire, Runs, Starts, Doing, Accepts
          <5>2. CASE AcceptFails(h)
            BY <5>2 DEF AcceptFails, Remember, TypeOK, Entering, Accepts, Doing
          <5>3. CASE ~Accepts(h)
            BY <4>5, <5>3, QuietHandlerRecords DEF HandlerKept, Entering, Accepts
          <5> QED
            BY <5>1, <5>2, <5>3
        <4> QED
          BY <1>4, <2>5, <4>1, <4>2, <4>3, <4>4, <4>5 DEF HandlerStep, QuietHandlerStep
      <3> QED
        BY <2>1, <3>1, <3>2, <3>3, EntryKept
    <2> QED
      BY <2>2, <2>3, <2>4, <2>5
  <1> QED
    BY <1>1, <1>2, <1>3, <1>4, HandlerSteps DEF Next

\* InviteOneTime: one invite token issues at most one session, although a failed
\* entry opens the invite again and several requests hold it at a time.
THEOREM OneSessionPerInvite == Spec => []InviteOneTime
  <1>1. Init => TypeOK /\ Rows /\ EntryInv
    <2> SUFFICES ASSUME Init
                 PROVE  EntryInv
      BY InitRows
    <2> QED
      BY DEF Init, EntryInv, Entering, Accepts, Doing
  <1>2. TypeOK /\ Rows /\ EntryInv /\ [Next]_vars => (TypeOK /\ Rows /\ EntryInv)'
    BY TypeStep, RowsStep, EntryStep DEF Rows
  <1>3. TypeOK /\ EntryInv => InviteOneTime
    BY DEF TypeOK, EntryInv, InviteOneTime
  <1> QED
    BY <1>1, <1>2, <1>3, PTL DEF Spec

-----------------------------------------------------------------------------
(* Who may leave *)

\* A step changes one user, as patches and deletions do, or leaves everybody
\* the role he has.
UserChanges ==
    \/ \A w \in Users : ActiveUser(w, {"admin"}) => ActiveUser(w, {"admin"})'
    \/ \E u \in Users :
        /\ ActiveUser(u, {"admin"})' \/ AdminMayExit(u)
        /\ \A w \in Users \ {u} : user'[w] = user[w]

LEMMA EraseChanges ==
    ASSUME TypeOK, NEW u \in Users, Erase(u), MayErase(u)
    PROVE  UserChanges
  <1>1. \A w \in Users \ {u} : user'[w] = user[w]
    BY DEF Erase, TypeOK
  <1> QED
    BY <1>1 DEF UserChanges, MayErase

LEMMA UsersStep == TypeOK /\ Rows /\ [Next]_vars => UserChanges
  <1> SUFFICES ASSUME TypeOK, Rows, [Next]_vars
               PROVE  UserChanges
    OBVIOUS
  <1>1. CASE UNCHANGED user
    BY <1>1 DEF UserChanges, ActiveUser, IsUser, Exists
  <1>2. ASSUME NEW u \in Users, DeleteUser(u)
        PROVE  UserChanges
    BY <1>2, EraseChanges DEF DeleteUser
  <1>3. ASSUME NEW u \in Users, NEW r \in UserRoles, NEW act \in BOOLEAN, CreateUser(u, r, act)
        PROVE  UserChanges
    <2>1. ~ActiveUser(u, {"admin"}) /\ \A w \in Users \ {u} : user'[w] = user[w]
      BY <1>3 DEF CreateUser, TypeOK, ActiveUser, IsUser, Exists
    <2> QED
      BY <2>1 DEF UserChanges, AdminMayExit
  <1>4. ASSUME NEW u \in Users, NEW r \in UserRoles, NEW act \in BOOLEAN, PatchUser(u, r, act)
        PROVE  UserChanges
    <2>1. /\ user'[u] = [role |-> r, active |-> act]
          /\ \A w \in Users \ {u} : user'[w] = user[w]
      BY <1>4 DEF PatchUser, TypeOK
    <2>2. [role |-> r, active |-> act] # NoUser
      <3>1. [role |-> r, active |-> act] \in [role: UserRoles, active: BOOLEAN]
        OBVIOUS
      <3> QED
        BY <3>1, NullAssumption
    <2>3. CASE r = "admin" /\ act
      BY <2>1, <2>2, <2>3 DEF UserChanges, ActiveUser, IsUser, Exists
    <2>4. CASE ~(r = "admin" /\ act)
      BY <1>4, <2>1, <2>4 DEF PatchUser, MayBecome, UserChanges
    <2> QED
      BY <2>3, <2>4
  <1>5. ASSUME NEW a \in Agencies, DeleteAgency(a)
        PROVE  UserChanges
    <2>1. ASSUME NEW w \in Users, ActiveUser(w, {"admin"})
          PROVE  user'[w] = user[w]
      BY <1>5, <2>1 DEF DeleteAgency, Demoted, ActiveUser, IsUser
    <2> QED
      BY <2>1 DEF UserChanges, ActiveUser, IsUser, Exists
  <1>6. ASSUME NEW h \in Handlers, NEW i \in Invites, StartAccept(h, i)
        PROVE  UserChanges
    <2>1. ASSUME NEW w \in Users, ActiveUser(w, {"admin"})
          PROVE  user'[w] = user[w]
      BY <1>6, <2>1 DEF StartAccept, ActiveUser, IsUser, Exists, TypeOK
    <2> QED
      BY <2>1 DEF UserChanges, ActiveUser, IsUser, Exists
  <1>7. ASSUME NEW h \in Handlers, Undo(h)
        PROVE  UserChanges
    <2>1. PICK u \in Users : u = InviteOf(h).user
      BY <1>7, InviteType DEF Undo, Runs, Rows
    <2>2. UNCHANGED user \/ (MayErase(u) /\ Erase(u))
      BY <1>7, <2>1, UndoWrites DEF Rows
    <2> QED
      BY <1>1, <2>1, <2>2, EraseChanges
  <1>8. \/ UNCHANGED user
        \/ \E u \in Users : DeleteUser(u)
        \/ \E u \in Users, r \in UserRoles, act \in BOOLEAN :
                CreateUser(u, r, act) \/ PatchUser(u, r, act)
        \/ \E a \in Agencies : DeleteAgency(a)
        \/ \E h \in Handlers, i \in Invites : StartAccept(h, i)
        \/ \E h \in Handlers : Undo(h)
    <2>1. CASE UserAction
      BY <2>1 DEF UserAction, AssignDirect
    <2>2. CASE AgencyAction
      BY <2>2 DEF AgencyAction, CreateAgency, AssignClient, RevokeClient
    <2>3. CASE MemberAction \/ InviteAction \/ Restart \/ UNCHANGED vars
      BY <2>3 DEF MemberAction, UpsertMember, DeactivateMember, RemoveMember, InviteAction,
             IssueInvite, RevokeInvite, Restart, vars, tables
    <2>4. CASE HandlerAction
      BY <2>4, HandlerSteps DEF HandlerStep, StartDrop, Drop, StartPatch, WritePatch, StartExpire,
             StartResend, ResendRevokes, ResendIssues, Expire, AcceptFails, AcceptTooLate,
             Accept, Enter, Compensate, tables
    <2> QED
      BY <2>1, <2>2, <2>3, <2>4 DEF Next
  <1> QED
    BY <1>1, <1>2, <1>3, <1>4, <1>5, <1>6, <1>7, <1>8

\* AdminStays: whichever way users are patched, deleted, demoted or undone, an
\* active administrator remains once there is one.
THEOREM AdminRemains == Spec => AdminStays
  <1>1. ASSUME TypeOK, Rows, [Next]_vars, ActiveAdmins # {}
        PROVE  (ActiveAdmins # {})'
    <2>1. UserChanges
      BY <1>1, UsersStep
    <2>2. PICK w \in Users : ActiveUser(w, {"admin"})
      BY <1>1 DEF ActiveAdmins
    <2>3. \E v \in Users : ActiveUser(v, {"admin"})'
      <3>1. CASE \A v \in Users : ActiveUser(v, {"admin"}) => ActiveUser(v, {"admin"})'
        BY <2>2, <3>1
      <3>2. ASSUME NEW u \in Users, ActiveUser(u, {"admin"})' \/ AdminMayExit(u),
                   \A v \in Users \ {u} : user'[v] = user[v]
            PROVE  \E v \in Users : ActiveUser(v, {"admin"})'
        <4>1. CASE ActiveUser(u, {"admin"})'
          BY <4>1
        <4>2. ASSUME NEW v \in Users \ {u}, ActiveUser(v, {"admin"})
              PROVE  ActiveUser(v, {"admin"})'
          BY <3>2, <4>2 DEF ActiveUser, IsUser, Exists
        <4>3. CASE AdminMayExit(u)
          BY <2>2, <4>2, <4>3 DEF AdminMayExit, ActiveAdmins
        <4> QED
          BY <3>2, <4>1, <4>3
      <3> QED
        BY <2>1, <3>1, <3>2 DEF UserChanges
    <2> QED
      BY <2>3 DEF ActiveAdmins
  <1>2. TypeOK /\ Rows /\ [Next]_vars => [ActiveAdmins # {} => (ActiveAdmins # {})']_vars
    BY <1>1
  <1> QED
    BY <1>2, RowsCorrect, PTL DEF Spec, AdminStays

\* An owner who may not go unless there is another one.
LEMMA OtherOwner ==
    ASSUME NEW a \in Agencies, NEW u \in OwnersOf(a), Cardinality(OwnersOf(a)) > 1
    PROVE  \E w \in OwnersOf(a) : w # u
  <1> SUFFICES ASSUME \A w \in OwnersOf(a) : w = u
               PROVE  FALSE
    OBVIOUS
  <1>1. OwnersOf(a) = {u}
    OBVIOUS
  <1>2. Cardinality(OwnersOf(a)) = 1
    BY <1>1, FS_Singleton
  <1> QED
    BY <1>2

\* Who keeps his membership and his place among agency users stays an owner.
LEMMA OwnerKept ==
    ASSUME NEW a \in Agencies, NEW w \in OwnersOf(a),
           user'[w] = user[w], member'[a][w] = member[a][w]
    PROVE  w \in OwnersOf(a)'
  BY DEF OwnersOf, ActiveMember, ActiveUser, IsUser, Exists

\* One membership in a changes, and the rule about the last owner is kept.
LEMMA OwnerLeaves ==
    ASSUME NEW a \in Agencies, NEW u \in Users, OwnersOf(a) # {},
           UNCHANGED user,
           \A w \in Users \ {u} : member'[a][w] = member[a][w],
           u \in OwnersOf(a) => u \in OwnersOf(a)' \/ Cardinality(OwnersOf(a)) > 1
    PROVE  OwnersOf(a)' # {}
  <1>1. OwnersOf(a) \subseteq Users
    BY DEF OwnersOf
  <1>2. CASE u \in OwnersOf(a)'
    BY <1>2
  <1>3. CASE u \notin OwnersOf(a)'
    <2>1. PICK w \in OwnersOf(a) : w # u
      BY <1>3, OtherOwner
    <2> QED
      BY <1>1, <2>1, OwnerKept
  <1> QED
    BY <1>2, <1>3

\* One user leaves, who may: every agency has another owner.
LEMMA UserLeaves ==
    ASSUME NEW a \in Agencies, NEW u \in Users, OwnersOf(a) # {},
           ActiveUser(u, {"agency", "admin"}) => OwnerMayExit(u),
           \A w \in Users \ {u} : user'[w] = user[w] /\ member'[a][w] = member[a][w]
    PROVE  OwnersOf(a)' # {}
  <1>1. OwnersOf(a) \subseteq Users
    BY DEF OwnersOf
  <1>2. PICK w \in OwnersOf(a) : w # u
    BY DEF OwnersOf, OwnerMayExit
  <1> QED
    BY <1>1, <1>2, OwnerKept

\* Nobody accepts an invite, or puts a membership back, in this step.
NoAcceptance == \A h \in Handlers : ~Accept(h) /\ ~Compensate(h)

LEMMA OwnersStep ==
    ASSUME TypeOK, Rows, [Next]_vars, NoAcceptance, NEW a \in Agencies,
           OwnersOf(a) # {}, agency[a] = "active", agency'[a] = "active"
    PROVE  OwnersOf(a)' # {}
  <1>1. CASE UNCHANGED <<user, member>>
    BY <1>1, OwnerKept DEF OwnersOf
  <1>2. ASSUME NEW u \in Users, MayErase(u), Erase(u)
        PROVE  OwnersOf(a)' # {}
    BY <1>2, UserLeaves DEF MayErase, Erase, TypeOK
  <1>3. ASSUME NEW u \in Users, NEW r \in UserRoles, NEW act \in BOOLEAN, CreateUser(u, r, act)
        PROVE  OwnersOf(a)' # {}
    <2>1. /\ ~ActiveUser(u, {"agency", "admin"})
          /\ \A w \in Users \ {u} : user'[w] = user[w] /\ member'[a][w] = member[a][w]
      BY <1>3 DEF CreateUser, TypeOK, ActiveUser, IsUser, Exists
    <2> QED
      BY <2>1, UserLeaves
  <1>4. ASSUME NEW u \in Users, NEW r \in UserRoles, NEW act \in BOOLEAN, PatchUser(u, r, act)
        PROVE  OwnersOf(a)' # {}
    <2>1. /\ user'[u] = [role |-> r, active |-> act] /\ UNCHANGED member
          /\ \A w \in Users \ {u} : user'[w] = user[w] /\ member'[a][w] = member[a][w]
      BY <1>4 DEF PatchUser, TypeOK
    <2>2. [role |-> r, active |-> act] # NoUser
      <3>1. [role |-> r, active |-> act] \in [role: UserRoles, active: BOOLEAN]
        OBVIOUS
      <3> QED
        BY <3>1, NullAssumption
    <2>3. CASE r \in {"agency", "admin"} /\ act
      <3>1. u \in OwnersOf(a) => u \in OwnersOf(a)'
        BY <2>1, <2>2, <2>3 DEF OwnersOf, ActiveMember, ActiveUser, IsUser, Exists
      <3>2. PICK w \in OwnersOf(a) : TRUE
        OBVIOUS
      <3>3. w \in Users
        BY DEF OwnersOf
      <3> QED
        BY <2>1, <3>1, <3>2, <3>3, OwnerKept
    <2>4. CASE ~(r \in {"agency", "admin"} /\ act)
      BY <1>4, <2>1, <2>4, UserLeaves DEF PatchUser, MayBecome
    <2> QED
      BY <2>3, <2>4
  <1>5. ASSUME NEW b \in Agencies, DeleteAgency(b)
        PROVE  OwnersOf(a)' # {}
    <2>1. b # a /\ UNCHANGED member[a]
      BY <1>5 DEF DeleteAgency, TypeOK
    <2>2. PICK w \in OwnersOf(a) : TRUE
      OBVIOUS
    <2>3. w \in Users /\ a \in ServedBy(w)
      BY DEF OwnersOf, ServedBy
    <2>4. user'[w] = user[w]
      BY <1>5, <2>1, <2>3 DEF DeleteAgency, Demoted
    <2>5. member'[a][w] = member[a][w]
      BY <2>1
    <2> QED
      BY <2>2, <2>4, <2>5, OwnerKept
  <1>6. ASSUME NEW b \in Agencies, NEW u \in Users,
               UNCHANGED user,
               \A c \in Agencies, w \in Users : c # b \/ w # u => member'[c][w] = member[c][w],
               b = a /\ u \in OwnersOf(a) =>
                    u \in OwnersOf(a)' \/ Cardinality(OwnersOf(a)) > 1
        PROVE  OwnersOf(a)' # {}
    <2>1. CASE b = a
      BY <1>6, <2>1, OwnerLeaves
    <2>2. CASE b # a
      <3>1. UNCHANGED user /\ \A w \in Users : member'[a][w] = member[a][w]
        BY <1>6, <2>2
      <3> QED
        BY <3>1, OwnerKept DEF OwnersOf
    <2> QED
      BY <2>1, <2>2
  <1>7. ASSUME NEW b \in Agencies, NEW u \in Users, NEW r \in MemberRoles, NEW act \in BOOLEAN,
               UpsertMember(b, u, r, act)
        PROVE  OwnersOf(a)' # {}
    <2>1. /\ member'[b][u] = [role |-> r, active |-> act]
          /\ UNCHANGED user
          /\ \A c \in Agencies, w \in Users : c # b \/ w # u => member'[c][w] = member[c][w]
      BY <1>7 DEF UpsertMember, TypeOK
    <2>2. [role |-> r, active |-> act] # NoMember
      <3>1. [role |-> r, active |-> act] \in [role: MemberRoles, active: BOOLEAN]
        OBVIOUS
      <3> QED
        BY <3>1, NullAssumption
    <2>3. ASSUME b = a, u \in OwnersOf(a)
          PROVE  u \in OwnersOf(a)' \/ Cardinality(OwnersOf(a)) > 1
      <3>1. CASE r = "owner" /\ act
        BY <2>1, <2>2, <2>3, <3>1 DEF OwnersOf, ActiveMember, ActiveUser, IsUser, Exists
      <3>2. CASE ~(r = "owner" /\ act)
        BY <1>7, <2>3, <3>2 DEF UpsertMember, KeepsAnOwner, OwnersOf, ActiveMember
      <3> QED
        BY <3>1, <3>2
    <2> QED
      BY <1>6, <2>1, <2>3
  <1>8. ASSUME NEW b \in Agencies, NEW u \in Users, DeactivateMember(b, u) \/ RemoveMember(b, u)
        PROVE  OwnersOf(a)' # {}
    <2>1. /\ UNCHANGED user
          /\ \A c \in Agencies, w \in Users : c # b \/ w # u => member'[c][w] = member[c][w]
      <3>1. \/ member' = [member EXCEPT ![b][u].active = FALSE]
            \/ member' = [member EXCEPT ![b][u] = NoMember]
        BY <1>8 DEF DeactivateMember, RemoveMember
      <3>2. UNCHANGED user
        BY <1>8 DEF DeactivateMember, RemoveMember
      <3> QED
        BY <3>1, <3>2 DEF TypeOK
    <2>2. u \in OwnersOf(b) => Cardinality(OwnersOf(b)) > 1
      BY <1>8 DEF DeactivateMember, RemoveMember, KeepsAnOwner
    <2> QED
      BY <1>6, <2>1, <2>2
  <1>9. ASSUME NEW h \in Handlers, NEW i \in Invites, StartAccept(h, i)
        PROVE  OwnersOf(a)' # {}
    <2>1. UNCHANGED member
      BY <1>9 DEF StartAccept
    <2>2. \A w \in OwnersOf(a) : w \in Users /\ Exists(w)
      BY DEF OwnersOf, ActiveUser, IsUser
    <2>3. \A w \in OwnersOf(a) : user'[w] = user[w]
      BY <1>9, <2>2 DEF StartAccept, Exists, TypeOK
    <2> QED
      BY <2>1, <2>3, OwnerKept
  <1>10. ASSUME NEW h \in Handlers, Undo(h)
         PROVE  OwnersOf(a)' # {}
    <2>1. PICK u \in Users : u = InviteOf(h).user
      BY <1>10, InviteType DEF Undo, Runs, Rows
    <2>2. UNCHANGED <<user, member>> \/ (MayErase(u) /\ Erase(u))
      BY <1>10, <2>1, UndoWrites DEF Rows
    <2> QED
      BY <1>1, <1>2, <2>1, <2>2
  <1>11. \/ UNCHANGED <<user, member>>
         \/ \E u \in Users : MayErase(u) /\ Erase(u)
         \/ \E u \in Users, r \in UserRoles, act \in BOOLEAN :
                CreateUser(u, r, act) \/ PatchUser(u, r, act)
         \/ \E b \in Agencies : DeleteAgency(b)
         \/ \E b \in Agencies, u \in Users, r \in MemberRoles, act \in BOOLEAN :
                UpsertMember(b, u, r, act)
         \/ \E b \in Agencies, u \in Users : DeactivateMember(b, u) \/ RemoveMember(b, u)
         \/ \E h \in Handlers, i \in Invites : StartAccept(h, i)
         \/ \E h \in Handlers : Undo(h)
    <2>1. CASE UserAction
      BY <2>1 DEF UserAction, DeleteUser, AssignDirect
    <2>2. CASE AgencyAction
      BY <2>2 DEF AgencyAction, CreateAgency, AssignClient, RevokeClient
    <2>3. CASE MemberAction
      BY <2>3 DEF MemberAction
    <2>4. CASE InviteAction \/ Restart \/ UNCHANGED vars
      BY <2>4 DEF InviteAction, IssueInvite, RevokeInvite, Restart, vars, tables
    <2>5. CASE HandlerAction
      BY <2>5, HandlerSteps DEF HandlerStep, StartDrop, Drop, StartPatch, WritePatch, StartExpire,
             StartResend, ResendRevokes, ResendIssues, Expire, AcceptFails, AcceptTooLate,
             Enter, NoAcceptance, tables
    <2> QED
      BY <2>1, <2>2, <2>3, <2>4, <2>5 DEF Next
  <1> QED
    BY <1>1, <1>2, <1>3, <1>4, <1>5, <1>7, <1>8, <1>9, <1>10, <1>11

\* Whatever member, user and agency operations do, in whatever order, an active
\* agency keeps its owner: only the acceptance of an invite, or the undoing of one,
\* may demote him.
THEOREM OwnersLeaveByInviteOnly ==
    Spec => [][NoAcceptance => \A a \in Agencies :
                OwnersOf(a) # {} /\ agency[a] = "active" /\ (agency[a] = "active")'
                => OwnersOf(a)' # {}]_vars
  <1>1. TypeOK /\ Rows /\ [Next]_vars =>
            [NoAcceptance => \A a \in Agencies :
                OwnersOf(a) # {} /\ agency[a] = "active" /\ (agency[a] = "active")'
                => OwnersOf(a)' # {}]_vars
    BY OwnersStep
  <1> QED
    BY <1>1, RowsCorrect, PTL DEF Spec

\* ActiveAgencyKeepsOwner holds where no invites are issued.
THEOREM ActiveAgencyOwned ==
    ASSUME Invites = {}
    PROVE  Spec => ActiveAgencyKeepsOwner
  <1>1. TypeOK => NoAcceptance
    <2> SUFFICES ASSUME TypeOK, NEW h \in Handlers, Accepts(h)
                 PROVE  FALSE
      BY DEF NoAcceptance, Accept, Compensate, Runs, Accepts
    <2> QED
      BY LocalType DEF Accepts
  <1>2. TypeOK /\ Rows /\ [Next]_vars =>
            [\A a \in Agencies :
                OwnersOf(a) # {} /\ agency[a] = "active" /\ (agency[a] = "active")'
                => OwnersOf(a)' # {}]_vars
    BY <1>1, OwnersStep
  <1> QED
    BY <1>2, RowsCorrect, PTL DEF Spec, ActiveAgencyKeepsOwner
=============================================================================
