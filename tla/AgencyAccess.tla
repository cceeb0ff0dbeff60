---------------------------- MODULE AgencyAccess ----------------------------
(***************************************************************************)
(* Who may see which client: users, agencies, memberships, client          *)
(* bindings, member invites, and user_client_access, the table the rest of *)
(* the service asks.  Its 'agency' rows are materialized from the others.  *)
(*                                                                         *)
(* An operation that opens its transaction with BEGIN IMMEDIATE, or that   *)
(* reads nothing it depends on before its first write, is one action.  The *)
(* others are split where another transaction can commit: handlers hold    *)
(* what they read.  Racing names the operations that can be overtaken.     *)
(* A platform administrator may call every operation and is above the      *)
(* hierarchy of owners and managers, so who calls is left out; the rule    *)
(* about the last owner binds him too.  'solo_client' users follow the     *)
(* branches of 'client'.                                                   *)
(***************************************************************************)
EXTENDS Naturals, FiniteSets

CONSTANTS
    Handlers, Users, Agencies, Clients,
    Invites,        \* bound: rows agency_invites may come to hold
    UserRoles,      \* {"agency", "client"}, with or without "admin"
    MemberRoles,    \* subset of {"owner", "manager", "member"}
    Racing,         \* subset of the Operations below
    NoUser, NoMember, NoInvite, Idle

Operations == {"patch", "accept", "resend", "expire", "drop"}

\* An acceptance creates an 'agency' user, a deleted agency leaves 'client' users.
ASSUME RoleAssumption ==
    /\ UserRoles \subseteq {"admin", "agency", "client"}
    /\ {"agency", "client"} \subseteq UserRoles
    /\ MemberRoles \subseteq {"owner", "manager", "member"}
ASSUME RacingAssumption == Racing \subseteq Operations
ASSUME NullAssumption ==
    /\ NoUser \notin [role: UserRoles, active: BOOLEAN]
    /\ NoMember \notin [role: MemberRoles, active: BOOLEAN]
    /\ NoInvite \notin [agency: Agencies, user: Users, role: MemberRoles,
                       status: {"pending", "accepted", "revoked", "expired", "deleted"}]

VARIABLES
    user,      \* users, by the identity their e-mail names
    agency,    \* agencies.status
    member,    \* agency_members, one row per agency and user
    bound,     \* agency_client_access
    grant,     \* user_client_access: the row's role, or "none"
    invite,    \* agency_invites
    entered,   \* entered[i]: sessions that invite i led to
    local      \* what a handler between two transactions remembers

tables == <<user, agency, member, bound, grant, invite>>
vars   == <<tables, entered, local>>

\* Ids are never used twice: a deleted agency or invite keeps its place.
User   == [role: UserRoles, active: BOOLEAN]
Member == [role: MemberRoles, active: BOOLEAN]
Invite == [agency: Agencies, user: Users, role: MemberRoles,
           status: {"pending", "accepted", "revoked", "expired", "deleted"}]
AgencyStatus == {"none", "active", "suspended", "deleted"}

Local ==
    [op: {"patch"}, agency: Agencies, was: {"active", "suspended"}]
    \cup [op: {"accept"}, stage: {"checked", "entering", "undoing"}, invite: Invites,
          was: Member \cup {NoMember}, there: BOOLEAN, created: BOOLEAN]
    \cup [op: {"resend"}, invite: Invites, revoke: BOOLEAN]
    \cup [op: {"expire"}, invite: Invites]
    \cup [op: {"drop"}, user: Users, client: Clients]

TypeOK ==
    /\ user \in [Users -> User \cup {NoUser}]
    /\ agency \in [Agencies -> AgencyStatus]
    /\ member \in [Agencies -> [Users -> Member \cup {NoMember}]]
    /\ bound \in [Agencies -> SUBSET Clients]
    /\ grant \in [Users -> [Clients -> {"none", "agency", "client"}]]
    /\ invite \in [Invites -> Invite \cup {NoInvite}]
    /\ entered \in [Invites -> Nat]
    /\ local \in [Handlers -> Local \cup {Idle}]

-----------------------------------------------------------------------------
(* What the tables say *)

Exists(u)        == user[u] # NoUser
IsUser(u, roles) == Exists(u) /\ user[u].role \in roles
ActiveUser(u, roles) == IsUser(u, roles) /\ user[u].active
ActiveMember(a, u) == member[a][u] # NoMember /\ member[a][u].active
Open(a)          == agency[a] \in {"active", "suspended"}
MembersOf(a)     == {u \in Users : member[a][u] # NoMember}

\* _active_owner_count: the role and the status of membership and user count,
\* the status of the agency does not.
OwnersOf(a) ==
    {u \in Users : ActiveMember(a, u) /\ member[a][u].role = "owner"
                    /\ ActiveUser(u, {"agency", "admin"})}

ActiveAdmins == {u \in Users : ActiveUser(u, {"admin"})}

ServedBy(u) == {a \in Agencies : agency[a] = "active" /\ ActiveMember(a, u)}

\* The canonical union of bindings over active memberships of active agencies.
Entitled(u) ==
    IF ActiveUser(u, {"agency"}) THEN UNION {bound[a] : a \in ServedBy(u)} ELSE {}

AgencyGrants(u) == {c \in Clients : grant[u][c] = "agency"}

\* Mutant: the row gets the role of the membership.
RebuiltRowOfMember(u) ==
    [c \in Clients |-> IF c \in Entitled(u)' THEN "member" ELSE "none"]

\* _rebuild_user_agency_access, after the other tables were written.  A client's
\* direct grants survive, everybody else's rows are replaced.
RebuiltRow(u) ==
    [c \in Clients |->
        IF IsUser(u, {"agency", "admin"})'
        THEN IF c \in Entitled(u)' THEN "agency" ELSE "none"
        ELSE IF grant[u][c] = "agency" THEN "none" ELSE grant[u][c]]

Rebuild(U) ==
    grant' = [u \in Users |-> IF u \in U /\ Exists(u)' THEN RebuiltRow(u) ELSE grant[u]]

\* No handler stands between two transactions of an operation that is not racing.
Doing(h) == IF local[h] = Idle THEN "idle" ELSE local[h].op
UndisturbedBy(H) == \A g \in H : Doing(g) \in Racing \cup {"idle"}
Undisturbed      == UndisturbedBy(Handlers)
Others(h)        == UndisturbedBy(Handlers \ {h})

Remember(h, r) == local' = [local EXCEPT ![h] = r]

Starts(h) == local[h] = Idle /\ Undisturbed
Runs(h, op) == Doing(h) = op /\ Others(h)

\* Handlers that accept an invite for user u.
Accepting(u) ==
    {g \in Handlers : Doing(g) = "accept" /\ invite[local[g].invite].user = u}

\* The membership rows of U in a are gone: who remembers an id will not find it.
RowsGone(a, U) ==
    [g \in Handlers |->
        IF \E u \in U : g \in Accepting(u) /\ invite[local[g].invite].agency = a
        THEN [local[g] EXCEPT !.there = FALSE]
        ELSE local[g]]

\* The grants of u are gone: a DELETE by user id will not find any.
DropsForgotten(u) ==
    [g \in Handlers |->
        IF Doing(g) = "drop" /\ local[g].user = u THEN Idle ELSE local[g]]

Init ==
    /\ user \in [Users -> [role: UserRoles \cap {"admin"}, active: {TRUE}] \cup {NoUser}]
    /\ agency = [a \in Agencies |-> "none"]
    /\ member = [a \in Agencies |-> [u \in Users |-> NoMember]]
    /\ bound = [a \in Agencies |-> {}]
    /\ grant = [u \in Users |-> [c \in Clients |-> "none"]]
    /\ invite = [i \in Invites |-> NoInvite]
    /\ entered = [i \in Invites |-> 0]
    /\ local = [h \in Handlers |-> Idle]

-----------------------------------------------------------------------------
(* Users *)

CreateUser(u, r, act) ==
    /\ Undisturbed
    /\ user[u] = NoUser
    /\ user' = [user EXCEPT ![u] = [role |-> r, active |-> act]]
    /\ UNCHANGED <<agency, member, bound, grant, invite, entered, local>>

\* Mutant: the guard counts the owner who leaves.
OwnerMayExitCountingHimself(u) ==
    \A a \in Agencies : ActiveMember(a, u) /\ member[a][u].role = "owner" => OwnersOf(a) # {}

\* _assert_agency_owner_exit_allowed: every agency u owns has another owner.
OwnerMayExit(u) ==
    \A a \in Agencies :
        ActiveMember(a, u) /\ member[a][u].role = "owner" => OwnersOf(a) \ {u} # {}

\* Mutant: a demoted administrator is not counted as leaving.
AdminMayExitAlways(u) == TRUE

AdminMayExit(u) == ActiveUser(u, {"admin"}) => ActiveAdmins \ {u} # {}

\* What a user may become: the last active admin and the last owner stay.
MayBecome(u, r, act) ==
    /\ r # "admin" \/ ~act => AdminMayExit(u)
    /\ ActiveUser(u, {"agency", "admin"}) /\ (r \notin {"agency", "admin"} \/ ~act)
        => OwnerMayExit(u)

PatchUser(u, r, act) ==
    /\ Undisturbed
    /\ Exists(u)
    /\ user[u] # [role |-> r, active |-> act]
    /\ MayBecome(u, r, act)
    /\ user' = [user EXCEPT ![u] = [role |-> r, active |-> act]]
    /\ UNCHANGED <<agency, member, bound, invite, entered, local>>
    /\ IF r = "client" /\ user[u].role # "client"
       THEN grant' = [grant EXCEPT ![u] = [c \in Clients |-> "none"]]
       ELSE IF r = "client" THEN UNCHANGED grant ELSE Rebuild({u})

Erase(u) ==
    /\ user' = [user EXCEPT ![u] = NoUser]
    /\ member' = [a \in Agencies |-> [member[a] EXCEPT ![u] = NoMember]]
    /\ grant' = [grant EXCEPT ![u] = [c \in Clients |-> "none"]]

MayErase(u) ==
    /\ Exists(u)
    /\ AdminMayExit(u)
    /\ ActiveUser(u, {"agency", "admin"}) => OwnerMayExit(u)

\* Nobody deletes the user of an acceptance under way but the handler itself.
DeleteUser(u) ==
    /\ Undisturbed
    /\ Accepting(u) = {}
    /\ MayErase(u)
    /\ Erase(u)
    /\ local' = DropsForgotten(u)
    /\ UNCHANGED <<agency, bound, invite, entered>>

\* The admin's direct assignment, refused for admins and agency users.
AssignDirect(u, c) ==
    /\ Undisturbed
    /\ ActiveUser(u, {"client"})
    /\ grant' = [grant EXCEPT ![u][c] = "client"]
    /\ UNCHANGED <<user, agency, member, bound, invite, entered, local>>

\* Its removal: the route refuses a grant an active agency backs, then deletes.
StartDrop(h, u, c) ==
    /\ Starts(h)
    /\ Exists(u)
    /\ grant[u][c] # "none"
    /\ ActiveUser(u, {"agency"}) => \A a \in ServedBy(u) : c \notin bound[a]
    /\ Remember(h, [op |-> "drop", user |-> u, client |-> c])
    /\ UNCHANGED <<tables, entered>>

Drop(h) ==
    /\ Runs(h, "drop")
    /\ grant' = [grant EXCEPT ![local[h].user][local[h].client] = "none"]
    /\ Remember(h, Idle)
    /\ UNCHANGED <<user, agency, member, bound, invite, entered>>

-----------------------------------------------------------------------------
(* Agencies and bindings *)

CreateAgency(a, s) ==
    /\ Undisturbed
    /\ agency[a] = "none"
    /\ agency' = [agency EXCEPT ![a] = s]
    /\ UNCHANGED <<user, member, bound, grant, invite, entered, local>>

\* The row is read first: what the payload leaves out is written back from it.
StartPatch(h, a) ==
    /\ Starts(h)
    /\ Open(a)
    /\ Remember(h, [op |-> "patch", agency |-> a, was |-> agency[a]])
    /\ UNCHANGED <<tables, entered>>

\* Grants are rebuilt when the status written differs from the status read.
WritePatch(h, s) ==
    LET a == local[h].agency IN
    /\ Runs(h, "patch")
    /\ agency' = [agency EXCEPT ![a] = IF Open(a) THEN s ELSE @]
    /\ UNCHANGED <<user, member, bound, invite, entered>>
    /\ IF s # local[h].was THEN Rebuild(MembersOf(a)) ELSE UNCHANGED grant
    /\ Remember(h, Idle)

\* Mutant: users of a deleted agency keep their grants.
AffectedNobody(a) == {}

Affected(a) == MembersOf(a)

\* Members left without an active agency become clients.
Demoted(a) ==
    {u \in Affected(a) : IsUser(u, {"agency"}) /\ ServedBy(u) \ {a} = {}}

DeleteAgency(a) ==
    /\ Undisturbed
    /\ Open(a)
    /\ agency' = [agency EXCEPT ![a] = "deleted"]
    /\ member' = [member EXCEPT ![a] = [u \in Users |-> NoMember]]
    /\ bound' = [bound EXCEPT ![a] = {}]
    /\ invite' = [i \in Invites |->
            IF invite[i] # NoInvite /\ invite[i].agency = a
            THEN [invite[i] EXCEPT !.status = "deleted"] ELSE invite[i]]
    /\ user' = [u \in Users |->
            IF u \in Demoted(a) THEN [user[u] EXCEPT !.role = "client"] ELSE user[u]]
    /\ local' = RowsGone(a, Users)
    /\ UNCHANGED entered
    /\ Rebuild(Affected(a))

\* Both write first what they then rebuild from; their earlier reads only refuse.
AssignClient(a, c) ==
    /\ Undisturbed
    /\ Open(a)
    /\ bound' = [bound EXCEPT ![a] = @ \cup {c}]
    /\ UNCHANGED <<user, agency, member, invite, entered, local>>
    /\ Rebuild(MembersOf(a))

\* Mutant: the members' grants are left for the next rebuild.
RevokeWithoutRebuild(a, c) ==
    /\ Undisturbed
    /\ c \in bound[a]
    /\ bound' = [bound EXCEPT ![a] = @ \ {c}]
    /\ UNCHANGED <<user, agency, member, grant, invite, entered, local>>

RevokeClient(a, c) ==
    /\ Undisturbed
    /\ c \in bound[a]
    /\ bound' = [bound EXCEPT ![a] = @ \ {c}]
    /\ UNCHANGED <<user, agency, member, invite, entered, local>>
    /\ Rebuild(MembersOf(a))

-----------------------------------------------------------------------------
(* Members *)

\* The owner who does not stay one must not be the last.
KeepsAnOwner(a, u, role, act) ==
    u \in OwnersOf(a) /\ ~(role = "owner" /\ act) => Cardinality(OwnersOf(a)) > 1

UpsertMember(a, u, role, act) ==
    /\ Undisturbed
    /\ Open(a)
    /\ IsUser(u, {"agency", "admin"})
    /\ member[a][u] # NoMember => KeepsAnOwner(a, u, role, act)
    /\ member' = [member EXCEPT ![a][u] = [role |-> role, active |-> act]]
    /\ UNCHANGED <<user, agency, bound, invite, entered, local>>
    /\ Rebuild({u})

DeactivateMember(a, u) ==
    /\ Undisturbed
    /\ member[a][u] # NoMember
    /\ KeepsAnOwner(a, u, member[a][u].role, FALSE)
    /\ member' = [member EXCEPT ![a][u].active = FALSE]
    /\ UNCHANGED <<user, agency, bound, invite, entered, local>>
    /\ Rebuild({u})

RemoveMember(a, u) ==
    /\ Undisturbed
    /\ member[a][u] # NoMember
    /\ KeepsAnOwner(a, u, "none", FALSE)
    /\ member' = [member EXCEPT ![a][u] = NoMember]
    /\ local' = RowsGone(a, {u})
    /\ UNCHANGED <<user, agency, bound, invite, entered>>
    /\ Rebuild({u})

-----------------------------------------------------------------------------
(* Invites *)

Present(i) == invite[i] # NoInvite /\ invite[i].status # "deleted"
Pending(i) == invite[i] # NoInvite /\ invite[i].status = "pending"
Unused     == {i \in Invites : invite[i] = NoInvite}

Mark(i, s) == IF Present(i) THEN [invite EXCEPT ![i].status = s] ELSE invite

\* issue_invite: earlier pending invites of that address are revoked.
Issue(a, u, role) ==
    /\ Open(a)
    /\ \E i \in Unused :
        invite' = [j \in Invites |->
            IF j = i
            THEN [agency |-> a, user |-> u, role |-> role, status |-> "pending"]
            ELSE IF Pending(j) /\ invite[j].agency = a /\ invite[j].user = u
            THEN [invite[j] EXCEPT !.status = "revoked"]
            ELSE invite[j]]

IssueInvite(a, u, role) ==
    /\ Undisturbed
    /\ Issue(a, u, role)
    /\ UNCHANGED <<user, agency, member, bound, grant, entered, local>>

RevokeInvite(i) ==
    /\ Undisturbed
    /\ Pending(i)
    /\ invite' = Mark(i, "revoked")
    /\ UNCHANGED <<user, agency, member, bound, grant, entered, local>>

\* resend_invite reads the row, revokes it if it was pending when read, commits,
\* and then issues a new one, unless the agency is gone.
StartResend(h, i) ==
    /\ Starts(h)
    /\ Present(i)
    /\ Remember(h, [op |-> "resend", invite |-> i, revoke |-> Pending(i)])
    /\ UNCHANGED <<tables, entered>>

ResendRevokes(h) ==
    /\ Runs(h, "resend")
    /\ local[h].revoke
    /\ invite' = Mark(local[h].invite, "revoked")
    /\ Remember(h, [local[h] EXCEPT !.revoke = FALSE])
    /\ UNCHANGED <<user, agency, member, bound, grant, entered>>

ResendIssues(h) ==
    LET r == invite[local[h].invite] IN
    /\ Runs(h, "resend")
    /\ ~local[h].revoke
    /\ \/ Issue(r.agency, r.user, r.role)
       \/ (~Open(r.agency) \/ Unused = {}) /\ UNCHANGED invite
    /\ Remember(h, Idle)
    /\ UNCHANGED <<user, agency, member, bound, grant, entered>>

\* The token is presented after the deadline: the row that was read as pending
\* becomes expired.
StartExpire(h, i) ==
    /\ Starts(h)
    /\ Pending(i)
    /\ Remember(h, [op |-> "expire", invite |-> i])
    /\ UNCHANGED <<tables, entered>>

Expire(h) ==
    /\ Runs(h, "expire")
    /\ invite' = Mark(local[h].invite, "expired")
    /\ Remember(h, Idle)
    /\ UNCHANGED <<user, agency, member, bound, grant, entered>>

-----------------------------------------------------------------------------
(* accept_invite *)

\* The checks.  An unknown address becomes a user at once, in a transaction of
\* its own; a known one must be signed in, active and of role 'agency'.
StartAccept(h, i) ==
    LET u == invite[i].user
        m == member[invite[i].agency][u] IN
    /\ Starts(h)
    /\ Pending(i)
    /\ agency[invite[i].agency] = "active"
    /\ Exists(u) => ActiveUser(u, {"agency"}) /\ \A g \in Accepting(u) : ~local[g].created
    /\ user' = IF Exists(u) THEN user
               ELSE [user EXCEPT ![u] = [role |-> "agency", active |-> TRUE]]
    /\ Remember(h, [op |-> "accept", stage |-> "checked", invite |-> i, was |-> m,
                    there |-> m # NoMember, created |-> ~Exists(u)])
    /\ UNCHANGED <<agency, member, bound, grant, invite, entered>>

\* Mutant: the last UPDATE lacks its condition on 'pending'.
StillOpenAlways(i) == Present(i)

\* UPDATE agency_invites .. WHERE id=? AND status='pending'
StillOpen(i) == Pending(i)

\* A new row meets another one (UNIQUE) or no agency (FOREIGN KEY).
InsertFails(r) ==
    LET i == invite[r.invite] IN
    r.was = NoMember /\ (member[i.agency][i.user] # NoMember \/ ~Open(i.agency))

\* The transaction raises: nothing changes, a user created for it remains.
AcceptFails(h) ==
    /\ Runs(h, "accept")
    /\ local[h].stage = "checked"
    /\ InsertFails(local[h])
    /\ Remember(h, Idle)
    /\ UNCHANGED <<tables, entered>>

AcceptTooLate(h) ==
    /\ Runs(h, "accept")
    /\ local[h].stage = "checked"
    /\ ~InsertFails(local[h])
    /\ ~StillOpen(local[h].invite)
    /\ Remember(h, [local[h] EXCEPT !.stage = "undoing"])
    /\ UNCHANGED <<tables, entered>>

\* Whatever the membership was, it becomes active with the invite's role; an
\* UPDATE of a row that is no longer there changes nothing.
Accept(h) ==
    LET r == local[h]
        i == invite[r.invite]
        joins == r.was = NoMember \/ r.there IN
    /\ Runs(h, "accept")
    /\ r.stage = "checked"
    /\ ~InsertFails(r)
    /\ StillOpen(r.invite)
    /\ member' = IF joins
                 THEN [member EXCEPT ![i.agency][i.user] = [role |-> i.role, active |-> TRUE]]
                 ELSE member
    /\ invite' = Mark(r.invite, "accepted")
    /\ Remember(h, [r EXCEPT !.stage = "entering", !.there = joins])
    /\ UNCHANGED <<user, agency, bound, entered>>
    /\ Rebuild({i.user})

\* issue_session, for an active user.
Enter(h) ==
    /\ Runs(h, "accept")
    /\ local[h].stage = "entering"
    /\ user[invite[local[h].invite].user].active
    /\ entered' = [entered EXCEPT ![local[h].invite] = @ + 1]
    /\ Remember(h, Idle)
    /\ UNCHANGED tables

\* The membership as it was read, if its row is still there.
PutBack(r) ==
    LET i == invite[r.invite] IN
    IF r.there THEN [member EXCEPT ![i.agency][i.user] = r.was] ELSE member

\* No session could be issued: the invite is pending again, the membership is put
\* back; a row that was inserted is deleted.
Compensate(h) ==
    LET r == local[h]
        i == invite[r.invite] IN
    /\ Runs(h, "accept")
    /\ r.stage = "entering"
    /\ invite' = IF i.status = "accepted" THEN Mark(r.invite, "pending") ELSE invite
    /\ member' = PutBack(r)
    /\ local' = [IF r.there /\ r.was = NoMember THEN RowsGone(i.agency, {i.user}) ELSE local
                 EXCEPT ![h] = [r EXCEPT !.stage = "undoing", !.there = FALSE]]
    /\ UNCHANGED <<user, agency, bound, entered>>
    /\ Rebuild({i.user})

\* A user created for a failed acceptance is deleted again, if that is allowed.
Undo(h) ==
    LET u == invite[local[h].invite].user IN
    /\ Runs(h, "accept")
    /\ local[h].stage = "undoing"
    /\ IF local[h].created /\ MayErase(u)
       THEN Erase(u) /\ local' = [DropsForgotten(u) EXCEPT ![h] = Idle]
       ELSE UNCHANGED <<user, member, grant>> /\ Remember(h, Idle)
    /\ UNCHANGED <<agency, bound, invite, entered>>

-----------------------------------------------------------------------------
(* The process starts anew: what handlers remembered is lost, and init_sqlite *)
(* reconciles the grants it finds.                                            *)

Reconciled(u, c) ==
    CASE grant[u][c] = "none" \/ IsUser(u, {"admin"}) -> "none"
      [] IsUser(u, {"agency"}) -> IF c \in Entitled(u) THEN "agency" ELSE "none"
      [] OTHER -> "client"

Restart ==
    /\ local' = [h \in Handlers |-> Idle]
    /\ grant' = [u \in Users |-> [c \in Clients |-> Reconciled(u, c)]]
    /\ UNCHANGED <<user, agency, member, bound, invite, entered>>

-----------------------------------------------------------------------------

UserAction ==
    \E u \in Users :
        \/ DeleteUser(u)
        \/ \E r \in UserRoles, act \in BOOLEAN : CreateUser(u, r, act) \/ PatchUser(u, r, act)
        \/ \E c \in Clients : AssignDirect(u, c)

AgencyAction ==
    \E a \in Agencies :
        \/ DeleteAgency(a)
        \/ \E s \in {"active", "suspended"} : CreateAgency(a, s)
        \/ \E c \in Clients : AssignClient(a, c) \/ RevokeClient(a, c)

MemberAction ==
    \E a \in Agencies, u \in Users :
        \/ \E r \in MemberRoles, act \in BOOLEAN : UpsertMember(a, u, r, act)
        \/ DeactivateMember(a, u) \/ RemoveMember(a, u)

InviteAction ==
    \/ \E a \in Agencies, u \in Users, r \in MemberRoles : IssueInvite(a, u, r)
    \/ \E i \in Invites : RevokeInvite(i)

HandlerAction ==
    \E h \in Handlers :
        \/ \E u \in Users, c \in Clients : StartDrop(h, u, c)
        \/ Drop(h)
        \/ \E a \in Agencies : StartPatch(h, a)
        \/ \E s \in {"active", "suspended"} : WritePatch(h, s)
        \/ \E i \in Invites : StartResend(h, i) \/ StartExpire(h, i) \/ StartAccept(h, i)
        \/ ResendRevokes(h) \/ ResendIssues(h) \/ Expire(h)
        \/ AcceptFails(h) \/ AcceptTooLate(h) \/ Accept(h)
        \/ Enter(h) \/ Compensate(h) \/ Undo(h)

Next == UserAction \/ AgencyAction \/ MemberAction \/ InviteAction \/ HandlerAction \/ Restart

Spec == Init /\ [][Next]_vars

-----------------------------------------------------------------------------
(* Properties *)

\* user_client_access says what memberships and bindings say: an active agency
\* user has exactly the clients of his active agencies, an inactive one or an
\* administrator has no row, and a client has no row an agency gave him.
GrantsFollowMembership ==
    \A u \in Users :
        /\ AgencyGrants(u) = Entitled(u)
        /\ ~IsUser(u, {"client"}) => \A c \in Clients : grant[u][c] # "client"

\* An invite to the agency has been accepted and its session is not issued yet:
\* the membership may still be put back.
EntryPending(a) ==
    \E h \in Handlers :
        /\ Doing(h) = "accept"
        /\ local[h].stage = "entering"
        /\ invite[local[h].invite].agency = a

\* An agency that has an active owner keeps one for as long as it exists,
\* whichever way memberships and users change.
OwnerStays ==
    [][\A a \in Agencies :
            OwnersOf(a) # {} /\ Open(a)' /\ ~EntryPending(a) => OwnersOf(a)' # {}]_vars

\* The same for active agencies alone: without invites, member and user operations
\* and the demotion of a deleted agency's members leave an active agency its owner.
ActiveAgencyKeepsOwner ==
    [][\A a \in Agencies :
            OwnersOf(a) # {} /\ agency[a] = "active" /\ (agency[a] = "active")'
            => OwnersOf(a)' # {}]_vars

\* The platform keeps an active administrator once it has one.
AdminStays == [][ActiveAdmins # {} => (ActiveAdmins # {})']_vars

\* One invite token lets at most one person in, once, although a failed entry
\* makes the invite pending again and several requests present it at a time.
InviteOneTime == \A i \in Invites : entered[i] <= 1
=============================================================================
