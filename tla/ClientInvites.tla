---------------------------- MODULE ClientInvites ----------------------------
(***************************************************************************)
(* Invitations to the workspace of a client.                               *)
(*                                                                         *)
(* Accepting one takes many transactions: read it, find or create the      *)
(* invited user, claim the invite under the write lock, grant access, issue *)
(* a session; and, when the last two fail, take all of it back.  Meanwhile *)
(* the invite may be accepted again, revoked, sent anew or run out, the    *)
(* client archived and the user disabled.                                  *)
(***************************************************************************)
EXTENDS Integers, FiniteSets

CONSTANTS
    Handlers, Clients, Emails, Invites,
    NoInvite, NoOne, Idle

VARIABLES
    live,       \* clients that are active
    invite,     \* client_invites
    user,       \* the users with the invited addresses
    access,     \* user_client_access
    accept,     \* what a call of _accept_client_invite remembers
    welcomed    \* history: how many calls ended with a session, for each invite

inviteVars == <<live, invite, user, access, accept, welcomed>>

Statuses == {"pending", "accepted", "revoked", "expired"}
Closed   == {"revoked", "expired"}

\* late: expires_at is over.  by: accepted_user_id and accepted_at, which no two
\* calls share.
Invite == [client: Clients, email: Emails, status: Statuses, late: BOOLEAN, by: Handlers \cup {NoOne}]

\* Someone of another role has the address, or a client user does.
User == {"none", "staff", "active", "inactive"}

TypeOK ==
    /\ live \subseteq Clients
    /\ invite \in [Invites -> Invite \cup {NoInvite}]
    /\ user \in [Emails -> User]
    /\ access \subseteq Emails \X Clients
    /\ \A h \in Handlers : accept[h] # Idle => accept[h].invite \in Invites
    /\ welcomed \in [Invites -> 0 .. 2]

Init ==
    /\ live = Clients
    /\ invite = [i \in Invites |-> NoInvite]
    /\ user \in [Emails -> {"none", "staff", "active"}]
    /\ access = {}
    /\ accept = [h \in Handlers |-> Idle]
    /\ welcomed = [i \in Invites |-> 0]

Sent(i) == invite[i] # NoInvite

At(h, stage) == accept[h] # Idle /\ accept[h].stage = stage
Goto(h, stage) == accept' = [accept EXCEPT ![h].stage = stage]
Leave(h) == accept' = [accept EXCEPT ![h] = Idle]

TheInvite(h) == invite[accept[h].invite]
Grant(h) == <<TheInvite(h).email, TheInvite(h).client>>

-----------------------------------------------------------------------------
(* Issuing and revoking *)

\* Invites with the given ones revoked, as far as they are pending.
Revoked(is) ==
    [i \in Invites |-> IF i \in is /\ Sent(i) /\ invite[i].status = "pending"
                       THEN [invite[i] EXCEPT !.status = "revoked"] ELSE invite[i]]

\* _issue_client_invite: a new one takes the place of those that are pending.
Issue(i, c, e) ==
    /\ ~Sent(i) /\ c \in live
    /\ LET same == {j \in Invites : Sent(j) /\ invite[j].client = c /\ invite[j].email = e}
       IN  invite' = [Revoked(same) EXCEPT
               ![i] = [client |-> c, email |-> e, status |-> "pending", late |-> FALSE, by |-> NoOne]]
    /\ UNCHANGED <<live, user, access, accept, welcomed>>

Revoke(i) ==
    /\ Sent(i)
    /\ invite' = Revoked({i})
    /\ UNCHANGED <<live, user, access, accept, welcomed>>

\* _list_client_invites marks those of the client that ran out.
List(c) ==
    /\ invite' = [i \in Invites |->
           IF Sent(i) /\ invite[i].client = c /\ invite[i].status = "pending" /\ invite[i].late
           THEN [invite[i] EXCEPT !.status = "expired"] ELSE invite[i]]
    /\ UNCHANGED <<live, user, access, accept, welcomed>>

RunOut(i) ==
    /\ Sent(i) /\ ~invite[i].late
    /\ invite' = [invite EXCEPT ![i].late = TRUE]
    /\ UNCHANGED <<live, user, access, accept, welcomed>>

\* Archiving and, in another transaction, _revoke_pending_client_invites.
ArchiveClient(c) ==
    /\ c \in live
    /\ live' = live \ {c}
    /\ UNCHANGED <<invite, user, access, accept, welcomed>>

RevokeAll(c) ==
    /\ c \notin live
    /\ invite' = Revoked({i \in Invites : Sent(i) /\ invite[i].client = c})
    /\ UNCHANGED <<live, user, access, accept, welcomed>>

RestoreClient(c) ==
    /\ c \notin live
    /\ live' = live \cup {c}
    /\ UNCHANGED <<invite, user, access, accept, welcomed>>

-----------------------------------------------------------------------------
(* Accepting *)

\* Whoever holds the token, signed in as the user of an address or as nobody.
StartAccept(h, i, signedIn) ==
    /\ accept[h] = Idle
    /\ Sent(i) /\ invite[i].status \notin {"accepted", "revoked"}
    /\ invite[i].late \/ invite[i].client \in live
    /\ accept' = [accept EXCEPT ![h] =
           [stage |-> IF invite[i].late THEN "expire" ELSE "user", invite |-> i,
            signedIn |-> signedIn, created |-> FALSE, had |-> FALSE]]
    /\ UNCHANGED <<live, invite, user, access, welcomed>>

\* Whatever became of the invite since it was read.
Expire(h) ==
    /\ At(h, "expire")
    /\ invite' = [invite EXCEPT ![accept[h].invite].status = "expired"]
    /\ Leave(h)
    /\ UNCHANGED <<live, user, access, welcomed>>

\* An existing user has to be signed in, a new one must not be.
FindUser(h) ==
    /\ At(h, "user")
    /\ LET e == TheInvite(h).email
       IN  \/ /\ user[e] = "active" /\ accept[h].signedIn = e
              /\ Goto(h, "snapshot")
              /\ UNCHANGED user
           \/ /\ user[e] = "none" /\ accept[h].signedIn = NoOne
              /\ user' = [user EXCEPT ![e] = "active"]
              /\ accept' = [accept EXCEPT ![h].stage = "snapshot", ![h].created = TRUE]
    /\ UNCHANGED <<live, invite, access, welcomed>>

Refuse(h) ==
    /\ At(h, "user")
    /\ Leave(h)
    /\ UNCHANGED <<live, invite, user, access, welcomed>>

\* had_client_access
Snapshot(h) ==
    /\ At(h, "snapshot")
    /\ accept' = [accept EXCEPT ![h].stage = "claim", ![h].had = Grant(h) \in access]
    /\ UNCHANGED <<live, invite, user, access, welcomed>>

\* Mutant: under the lock, only the client is looked at again.
ClaimableWhileLive(i) == invite[i].client \in live

Claimable(i) == invite[i].status = "pending" /\ invite[i].client \in live

Claim(h) ==
    /\ At(h, "claim")
    /\ LET i == accept[h].invite
       IN  IF Claimable(i)
           THEN invite' = [invite EXCEPT ![i].status = "accepted", ![i].by = h] /\ Goto(h, "assign")
           ELSE UNCHANGED invite /\ IF accept[h].created THEN Goto(h, "delete") ELSE Leave(h)
    /\ UNCHANGED <<live, user, access, welcomed>>

AssignAccess(h) ==
    /\ At(h, "assign")
    /\ user[TheInvite(h).email] = "active"
    /\ access' = access \cup {Grant(h)}
    /\ Goto(h, "session")
    /\ UNCHANGED <<live, invite, user, welcomed>>

IssueSession(h) ==
    /\ At(h, "session")
    /\ user[TheInvite(h).email] = "active"
    /\ welcomed[accept[h].invite] < 2          \* bound
    /\ welcomed' = [welcomed EXCEPT ![accept[h].invite] = @ + 1]
    /\ Leave(h)
    /\ UNCHANGED <<live, invite, user, access>>

\* Either of them fails: the user is not active, or the database is in the way.
ProvisioningFails(h) ==
    /\ At(h, "assign") \/ At(h, "session")
    /\ Goto(h, IF accept[h].had THEN "reopen" ELSE "remove")
    /\ UNCHANGED <<live, invite, user, access, welcomed>>

RemoveAccess(h) ==
    /\ At(h, "remove")
    /\ access' = access \ {Grant(h)}
    /\ Goto(h, "reopen")
    /\ UNCHANGED <<live, invite, user, welcomed>>

\* status, accepted_user_id and accepted_at of the WHERE clause.
StillOurs(h) == TheInvite(h).status = "accepted" /\ TheInvite(h).by = h

Reopen(h) ==
    /\ At(h, "reopen")
    /\ IF StillOurs(h)
       THEN invite' = [invite EXCEPT ![accept[h].invite].status = "pending", ![accept[h].invite].by = NoOne]
       ELSE UNCHANGED invite
    /\ IF accept[h].created THEN Goto(h, "delete") ELSE Leave(h)
    /\ UNCHANGED <<live, user, access, welcomed>>

\* delete_user takes the access rows of the user along.
DeleteUser(h) ==
    /\ At(h, "delete")
    /\ LET e == TheInvite(h).email
       IN  /\ user' = [user EXCEPT ![e] = "none"]
           /\ access' = {a \in access : a[1] # e}
    /\ Leave(h)
    /\ UNCHANGED <<live, invite, welcomed>>

\* The process stops within a call.
Crash(h) ==
    /\ accept[h] # Idle
    /\ Leave(h)
    /\ UNCHANGED <<live, invite, user, access, welcomed>>

SwitchUser(e) ==
    /\ user[e] \in {"active", "inactive"}
    /\ user' = [user EXCEPT ![e] = IF @ = "active" THEN "inactive" ELSE "active"]
    /\ UNCHANGED <<live, invite, access, accept, welcomed>>

-----------------------------------------------------------------------------
Next ==
    \/ \E i \in Invites, c \in Clients, e \in Emails : Issue(i, c, e)
    \/ \E i \in Invites : Revoke(i) \/ RunOut(i)
    \/ \E c \in Clients : List(c) \/ ArchiveClient(c) \/ RevokeAll(c) \/ RestoreClient(c)
    \/ \E h \in Handlers, i \in Invites, e \in Emails \cup {NoOne} : StartAccept(h, i, e)
    \/ \E h \in Handlers :
           \/ Expire(h) \/ FindUser(h) \/ Refuse(h) \/ Snapshot(h) \/ Claim(h)
           \/ AssignAccess(h) \/ IssueSession(h) \/ ProvisioningFails(h)
           \/ RemoveAccess(h) \/ Reopen(h) \/ DeleteUser(h) \/ Crash(h)
    \/ \E e \in Emails : SwitchUser(e)

Spec == Init /\ [][Next]_inviteVars

-----------------------------------------------------------------------------
\* An invite lets one call in, ever: not two that overlap, and no other after a
\* failure was taken back.  (the claim of _accept_client_invite)
InviteWelcomesOnce == \A i \in Invites : welcomed[i] <= 1

\* A revoked or expired invite never opens again: no claim and no compensation
\* that was under way brings it back.  (the claim and the rollback of
\* _accept_client_invite)
KeepsClosed ==
    \A i \in Invites : Sent(i) /\ invite[i].status \in Closed => invite'[i].status \in Closed

ClosedStaysClosed == [][KeepsClosed]_inviteVars
=============================================================================
