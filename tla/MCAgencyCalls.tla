---------------------------- MODULE MCAgencyCalls ----------------------------
(***************************************************************************)
(* Two ways to look at one instance.  "calls": every operation but those   *)
(* on invites, one after the other: for one agency, or for two and active  *)
(* users other than administrators.  "invites": one agency whose members   *)
(* have no rank, one user at a time, invites accepted, resent and expired  *)
(* by two requests that overtake each other.                               *)
(***************************************************************************)
EXTENDS MCAgencyAccess

VARIABLE focus

MCInit ==
    /\ Init
    /\ \/ focus = "calls"
       \/ focus = "invites" /\ \A u \in Users : user[u] = NoUser

OneAgency == Cardinality({a \in Agencies : agency[a] # "none"}) <= 1
OneUser   == Cardinality({u \in Users : Exists(u)}) <= 1
NoAdmin   == \A u \in Users : ~IsUser(u, {"admin"})
AllActive == \A u \in Users : Exists(u) => user[u].active

Calls == UserAction \/ AgencyAction \/ MemberAction \/ HandlerAction \/ Restart

Invitations ==
    \/ UserAction \/ AgencyAction \/ HandlerAction \/ Restart
    \/ \E a \in Agencies, u \in Users :
        \/ \E act \in BOOLEAN : UpsertMember(a, u, "member", act)
        \/ DeactivateMember(a, u) \/ RemoveMember(a, u)
        \/ IssueInvite(a, u, "member")
    \/ \E i \in Invites : RevokeInvite(i)

InviteCalls == \A h \in Handlers : Doing(h) \notin {"patch", "drop"}

MCNext ==
    /\ \/ focus = "calls" /\ Calls /\ (OneAgency \/ (NoAdmin /\ AllActive))'
       \/ focus = "invites" /\ Invitations /\ (OneAgency /\ OneUser /\ NoAdmin /\ InviteCalls)'
    /\ UNCHANGED focus

MCSpec == MCInit /\ [][MCNext]_<<vars, focus>>
=============================================================================
