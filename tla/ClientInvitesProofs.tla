-------------------------- MODULE ClientInvitesProofs --------------------------
(***************************************************************************)
(* What invitations to a client keep for every set of calls, clients,      *)
(* addresses and invites, with calls that stop anywhere.                   *)
(***************************************************************************)
EXTENDS ClientInvites, TLAPS

\* A call that has claimed its invite and has not yet ended.
Claiming == {"assign", "session", "remove", "reopen"}

Stages == {"expire", "user", "snapshot", "claim", "delete"} \cup Claiming

Accept == [stage: Stages, invite: Invites, signedIn: Emails \cup {NoOne},
           created: BOOLEAN, had: BOOLEAN]

\* The values that stand for nothing differ from what they stand beside.
Nulls == NoInvite \notin Invite /\ Idle \notin Accept

Typed ==
    /\ live \subseteq Clients
    /\ invite \in [Invites -> Invite \cup {NoInvite}]
    /\ user \in [Emails -> User]
    /\ access \subseteq Emails \X Clients
    /\ accept \in [Handlers -> Accept \cup {Idle}]
    /\ welcomed \in [Invites -> 0 .. 2]
    /\ \A h \in Handlers : accept[h] # Idle => Sent(accept[h].invite)

Holds(h, i) == accept[h] # Idle /\ accept[h].invite = i /\ accept[h].stage \in Claiming

\* Who has claimed an invite is on record, even when the invite ran out meanwhile;
\* so two calls never hold the same one.
HoldersRecorded ==
    \A h \in Handlers, i \in Invites : Holds(h, i) =>
        invite[i].status \in {"accepted", "expired"} /\ invite[i].by = h

\* Once somebody got in, nobody holds the invite, and nobody can claim it.
WelcomedIsOver ==
    \A i \in Invites :
        /\ welcomed[i] <= 1
        /\ welcomed[i] = 1 =>
            /\ Sent(i) /\ invite[i].status \in {"accepted", "expired"}
            /\ \A h \in Handlers : ~Holds(h, i)

Inv == HoldersRecorded /\ WelcomedIsOver

-----------------------------------------------------------------------------
(* The steps of a call *)

HandlerSteps(h) ==
    \/ Expire(h) \/ FindUser(h) \/ Refuse(h) \/ Snapshot(h) \/ Claim(h)
    \/ AssignAccess(h) \/ IssueSession(h) \/ ProvisioningFails(h)
    \/ RemoveAccess(h) \/ Reopen(h) \/ DeleteUser(h) \/ Crash(h)

\* The call of h goes on at a stage, or it ends; the others stay where they are.
After(h, stage) ==
    /\ accept' \in [Handlers -> Accept \cup {Idle}]
    /\ accept'[h] \in Accept /\ accept'[h] # Idle
    /\ accept'[h].stage = stage /\ accept'[h].invite = accept[h].invite
    /\ \A g \in Handlers \ {h} : accept'[g] = accept[g]

Gone(h) ==
    /\ accept' \in [Handlers -> Accept \cup {Idle}]
    /\ accept'[h] = Idle
    /\ \A g \in Handlers \ {h} : accept'[g] = accept[g]

LEMMA Moves ==
    ASSUME Nulls, Typed, NEW h \in Handlers, accept[h] # Idle
    PROVE  /\ accept[h] \in Accept /\ accept[h].invite \in Invites
           /\ TheInvite(h) \in Invite
           /\ Grant(h) \in Emails \X Clients
           /\ Leave(h) => Gone(h)
           /\ \A stage \in Stages : Goto(h, stage) => After(h, stage)
<1>1. accept[h] \in Accept /\ accept[h].invite \in Invites
  BY DEF Typed, Accept
<1>2. TheInvite(h) \in Invite
  BY <1>1 DEF Typed, TheInvite, Sent
<1>3. Grant(h) \in Emails \X Clients
  BY <1>2 DEF Grant, Invite
<1>4. Leave(h) => Gone(h)
  BY DEF Typed, Leave, Gone
<1>5. ASSUME NEW stage \in Stages, Goto(h, stage)
      PROVE  After(h, stage)
  <2>1. [accept[h] EXCEPT !.stage = stage] \in Accept
    BY <1>1 DEF Accept
  <2> QED
    BY <1>1, <1>5, <2>1 DEF Goto, Typed, After, Accept, Nulls
<1> QED
  BY <1>1, <1>2, <1>3, <1>4, <1>5

\* Where each step leads, and what it does to invites.
LEMMA Effects ==
    ASSUME Nulls, Typed, NEW h \in Handlers, HandlerSteps(h)
    PROVE  LET i == accept[h].invite IN
           /\ accept[h] # Idle
           /\ \/ Gone(h)
              \/ \E stage \in {"snapshot", "claim", "delete"} : After(h, stage)
              \/ /\ \E stage \in Claiming : After(h, stage)
                 /\ accept[h].stage \in Claiming \/ (accept[h].stage = "claim" /\ Claimable(i))
           /\ \/ UNCHANGED invite /\ ~(accept[h].stage = "claim" /\ Claimable(i) /\ ~Gone(h))
              \/ invite' = [invite EXCEPT ![i].status = "expired"] /\ Gone(h)
              \/ /\ invite' = [invite EXCEPT ![i].status = "accepted", ![i].by = h]
                 /\ accept[h].stage = "claim" /\ Claimable(i)
              \/ /\ invite' = [invite EXCEPT ![i].status = "pending", ![i].by = NoOne]
                 /\ accept[h].stage = "reopen" /\ StillOurs(h)
                 /\ Gone(h) \/ After(h, "delete")
           /\ \/ UNCHANGED welcomed
              \/ /\ welcomed' = [welcomed EXCEPT ![i] = @ + 1] /\ welcomed[i] < 2
                 /\ accept[h].stage = "session" /\ Gone(h) /\ UNCHANGED invite
<1> DEFINE i == accept[h].invite
<1>1. CASE Expire(h)
  BY <1>1, Moves DEF Expire, At
<1>2. CASE FindUser(h)
  <2>1. accept[h] # Idle /\ accept[h].stage = "user" /\ UNCHANGED <<invite, welcomed>>
    BY <1>2 DEF FindUser, At
  <2>2. After(h, "snapshot")
    <3>1. CASE Goto(h, "snapshot")
      BY <2>1, <3>1, Moves DEF Stages
    <3>2. CASE accept' = [accept EXCEPT ![h].stage = "snapshot", ![h].created = TRUE]
      <4>1. accept'[h] \in Accept
        BY <2>1, <3>2, Moves DEF Typed, Accept, Stages
      <4> QED
        BY <2>1, <3>2, <4>1, Moves DEF Typed, Accept, After, Nulls
    <3> QED
      BY <1>2, <3>1, <3>2 DEF FindUser
  <2> QED
    BY <2>1, <2>2
<1>3. CASE Refuse(h)
  BY <1>3, Moves DEF Refuse, At
<1>4. CASE Snapshot(h)
  <2> DEFINE had == Grant(h) \in access
  <2>0. had \in BOOLEAN
    OBVIOUS
  <2>1. accept[h] # Idle /\ accept[h].stage = "snapshot" /\ UNCHANGED <<invite, welcomed>>
        /\ accept' = [accept EXCEPT ![h].stage = "claim", ![h].had = had]
    BY <1>4 DEF Snapshot, At
  <2> HIDE DEF had
  <2>2. accept'[h] \in Accept
    BY <2>0, <2>1, Moves DEF Typed, Accept, Stages
  <2>3. After(h, "claim")
    BY <2>1, <2>2, Moves DEF Typed, Accept, After, Nulls
  <2> QED
    BY <2>1, <2>3
<1>5. CASE Claim(h)
  <2>1. accept[h] # Idle /\ accept[h].stage = "claim" /\ UNCHANGED welcomed
    BY <1>5 DEF Claim, At
  <2>2. CASE Claimable(i)
    <3>1. /\ invite' = [invite EXCEPT ![i].status = "accepted", ![i].by = h]
          /\ Goto(h, "assign")
      BY <1>5, <2>2 DEF Claim
    <3>2. After(h, "assign")
      BY <2>1, <3>1, Moves DEF Stages, Claiming
    <3> QED
      BY <2>1, <2>2, <3>1, <3>2 DEF Claiming
  <2>3. CASE ~Claimable(i)
    <3>1. UNCHANGED invite /\ (Leave(h) \/ Goto(h, "delete"))
      BY <1>5, <2>3 DEF Claim
    <3>2. Gone(h) \/ After(h, "delete")
      BY <2>1, <3>1, Moves DEF Stages
    <3> QED
      BY <2>1, <2>3, <3>1, <3>2
  <2> QED
    BY <2>2, <2>3
<1>6. CASE AssignAccess(h)
  BY <1>6, Moves DEF AssignAccess, At, Stages, Claiming
<1>7. CASE IssueSession(h)
  BY <1>7, Moves DEF IssueSession, At
<1>8. CASE ProvisioningFails(h)
  BY <1>8, Moves DEF ProvisioningFails, At, Stages, Claiming
<1>9. CASE RemoveAccess(h)
  BY <1>9, Moves DEF RemoveAccess, At, Stages, Claiming
<1>10. CASE Reopen(h)
  <2>1. accept[h] # Idle /\ accept[h].stage = "reopen" /\ UNCHANGED welcomed
    BY <1>10 DEF Reopen, At
  <2>2. Gone(h) \/ After(h, "delete")
    BY <1>10, <2>1, Moves DEF Reopen, Stages
  <2> QED
    BY <1>10, <2>1, <2>2 DEF Reopen
<1>11. CASE DeleteUser(h)
  BY <1>11, Moves DEF DeleteUser, At
<1>12. CASE Crash(h)
  BY <1>12, Moves DEF Crash
<1> QED
  BY <1>1, <1>2, <1>3, <1>4, <1>5, <1>6, <1>7, <1>8, <1>9, <1>10, <1>11, <1>12 DEF HandlerSteps

\* What becomes of an invite otherwise: it is sent, revoked while it is pending, or
\* runs out; nobody's claim changes.
LEMMA OthersOnInvites ==
    ASSUME Nulls, Typed,
           \/ \E i \in Invites, c \in Clients, e \in Emails : Issue(i, c, e)
           \/ \E i \in Invites : Revoke(i) \/ RunOut(i)
           \/ \E c \in Clients : List(c) \/ ArchiveClient(c) \/ RevokeAll(c) \/ RestoreClient(c)
           \/ \E e \in Emails : SwitchUser(e)
    PROVE  /\ UNCHANGED <<accept, welcomed, access>>
           /\ live' \subseteq Clients
           /\ user' \in [Emails -> User]
           /\ invite' \in [Invites -> Invite \cup {NoInvite}]
           /\ \A i \in Invites : Sent(i) =>
                /\ invite'[i] # NoInvite /\ invite'[i].by = invite[i].by
                /\ \/ invite'[i].status = invite[i].status
                   \/ invite[i].status = "pending" /\ invite'[i].status \in Closed
<1> DEFINE Quiet(f) ==
      /\ f \in [Invites -> Invite \cup {NoInvite}]
      /\ \A i \in Invites : Sent(i) =>
                /\ f[i] # NoInvite /\ f[i].by = invite[i].by
                /\ \/ f[i].status = invite[i].status
                   \/ invite[i].status = "pending" /\ f[i].status \in Closed
<1>1. ASSUME NEW is PROVE Quiet(Revoked(is))
  <2>1. ASSUME NEW i \in Invites
        PROVE  /\ Revoked(is)[i] \in Invite \cup {NoInvite}
               /\ Sent(i) =>
                    /\ Revoked(is)[i] # NoInvite /\ Revoked(is)[i].by = invite[i].by
                    /\ \/ Revoked(is)[i].status = invite[i].status
                       \/ invite[i].status = "pending" /\ Revoked(is)[i].status \in Closed
    <3>1. CASE i \in is /\ Sent(i) /\ invite[i].status = "pending"
      <4>1. invite[i] \in Invite /\ Revoked(is)[i] = [invite[i] EXCEPT !.status = "revoked"]
        BY <3>1 DEF Revoked, Typed, Sent
      <4>2. Revoked(is)[i] \in Invite
        BY <4>1 DEF Invite, Statuses
      <4> QED
        BY <3>1, <4>1, <4>2 DEF Invite, Closed, Nulls
    <3>2. CASE ~(i \in is /\ Sent(i) /\ invite[i].status = "pending")
      <4>1. Revoked(is)[i] = invite[i]
        BY <3>2 DEF Revoked
      <4> QED
        BY <4>1 DEF Typed, Sent
    <3> QED
      BY <3>1, <3>2
  <2>2. Revoked(is) \in [Invites -> Invite \cup {NoInvite}]
    BY <2>1, Zenon DEF Revoked
  <2> QED
    BY <2>1, <2>2
<1>2. ASSUME NEW i \in Invites, NEW c \in Clients, NEW e \in Emails, Issue(i, c, e)
      PROVE  Quiet(invite')
  <2>1. PICK is : invite' = [Revoked(is) EXCEPT
               ![i] = [client |-> c, email |-> e, status |-> "pending", late |-> FALSE, by |-> NoOne]]
    BY <1>2 DEF Issue
  <2>2. [client |-> c, email |-> e, status |-> "pending", late |-> FALSE, by |-> NoOne] \in Invite
    BY DEF Invite, Statuses
  <2>3. ~Sent(i) /\ Quiet(Revoked(is))
    BY <1>1, <1>2 DEF Issue
  <2> HIDE DEF Quiet
  <2>4. invite' \in [Invites -> Invite \cup {NoInvite}]
    BY <2>1, <2>2, <2>3 DEF Quiet
  <2>5. \A j \in Invites \ {i} : invite'[j] = Revoked(is)[j]
    BY <2>1, <2>3 DEF Quiet
  <2> QED
    BY <2>3, <2>4, <2>5 DEF Quiet
<1>3. ASSUME NEW c \in Clients, List(c)
      PROVE  Quiet(invite')
  <2>1. ASSUME NEW i \in Invites
        PROVE  /\ invite'[i] \in Invite \cup {NoInvite}
               /\ Sent(i) =>
                    /\ invite'[i] # NoInvite /\ invite'[i].by = invite[i].by
                    /\ \/ invite'[i].status = invite[i].status
                       \/ invite[i].status = "pending" /\ invite'[i].status \in Closed
    <3>1. CASE Sent(i) /\ invite[i].client = c /\ invite[i].status = "pending" /\ invite[i].late
      <4>1. invite[i] \in Invite /\ invite'[i] = [invite[i] EXCEPT !.status = "expired"]
        BY <1>3, <3>1 DEF List, Typed, Sent
      <4>2. invite'[i] \in Invite
        BY <4>1 DEF Invite, Statuses
      <4> QED
        BY <3>1, <4>1, <4>2 DEF Invite, Closed, Nulls
    <3>2. CASE ~(Sent(i) /\ invite[i].client = c /\ invite[i].status = "pending" /\ invite[i].late)
      <4>1. invite'[i] = invite[i]
        BY <1>3, <3>2 DEF List
      <4> QED
        BY <4>1 DEF Typed, Sent
    <3> QED
      BY <3>1, <3>2
  <2>2. invite' \in [Invites -> Invite \cup {NoInvite}]
    BY <1>3, <2>1, Zenon DEF List
  <2> QED
    BY <2>1, <2>2
<1>4. ASSUME NEW i \in Invites, RunOut(i)
      PROVE  Quiet(invite')
  <2>1. invite[i] \in Invite /\ invite' = [invite EXCEPT ![i].late = TRUE]
    BY <1>4 DEF RunOut, Typed, Sent
  <2>2. [invite[i] EXCEPT !.late = TRUE] \in Invite
    BY <2>1 DEF Invite
  <2> QED
    BY <2>1, <2>2 DEF Typed, Sent, Invite, Nulls
<1>5. Quiet(invite)
  BY DEF Typed, Sent
<1>6. ASSUME NEW e \in Emails, SwitchUser(e)
      PROVE  user' \in [Emails -> User]
  BY <1>6 DEF SwitchUser, Typed, User
<1> HIDE DEF Quiet
<1>7. Quiet(invite')
  BY <1>1, <1>2, <1>3, <1>4, <1>5 DEF Revoke, ArchiveClient, RevokeAll, RestoreClient, SwitchUser
<1>8. user' \in [Emails -> User]
  BY <1>6 DEF Issue, Revoke, RunOut, List, ArchiveClient, RevokeAll, RestoreClient, Typed
<1>9. live' \subseteq Clients /\ UNCHANGED <<accept, welcomed, access>>
  BY DEF Issue, Revoke, RunOut, List, ArchiveClient, RevokeAll, RestoreClient, SwitchUser, Typed
<1> QED
  BY <1>7, <1>8, <1>9 DEF Quiet

LEMMA StartEffect ==
    ASSUME Nulls, Typed, NEW h \in Handlers, NEW i \in Invites, NEW e \in Emails \cup {NoOne},
           StartAccept(h, i, e)
    PROVE  /\ accept' \in [Handlers -> Accept \cup {Idle}]
           /\ accept'[h] \in Accept /\ accept'[h].invite = i /\ Sent(i)
           /\ accept'[h].stage \in {"expire", "user"}
           /\ \A g \in Handlers \ {h} : accept'[g] = accept[g]
           /\ UNCHANGED <<live, invite, user, access, welcomed>>
<1> DEFINE r == [stage |-> IF invite[i].late THEN "expire" ELSE "user", invite |-> i,
                 signedIn |-> e, created |-> FALSE, had |-> FALSE]
<1>1. r \in Accept /\ r.invite = i /\ r.stage \in {"expire", "user"}
  BY DEF Accept, Stages
<1>2. accept' = [accept EXCEPT ![h] = r]
  BY DEF StartAccept
<1> HIDE DEF r
<1> QED
  BY <1>1, <1>2 DEF StartAccept, Typed

LEMMA HandlerTyped ==
    ASSUME Nulls, Typed, NEW h \in Handlers, HandlerSteps(h)
    PROVE  Typed'
<1> DEFINE i == accept[h].invite
<1>1. accept[h] # Idle /\ accept[h] \in Accept /\ i \in Invites /\ TheInvite(h) \in Invite
      /\ Grant(h) \in Emails \X Clients
  BY Effects, Moves
<1>2. accept' \in [Handlers -> Accept \cup {Idle}]
      /\ \A g \in Handlers : accept'[g] # Idle =>
            accept[g] # Idle /\ accept'[g].invite = accept[g].invite
  BY <1>1, Effects DEF Gone, After
<1>3. invite' \in [Invites -> Invite \cup {NoInvite}] /\ \A j \in Invites : Sent(j) => invite'[j] # NoInvite
  <2>1. invite[i] \in Invite
    BY <1>1 DEF TheInvite
  <2>2. /\ [invite[i] EXCEPT !.status = "expired"] \in Invite
        /\ [invite[i] EXCEPT !.status = "accepted", !.by = h] \in Invite
        /\ [invite[i] EXCEPT !.status = "pending", !.by = NoOne] \in Invite
    BY <2>1 DEF Invite, Statuses
  <2>3. \/ UNCHANGED invite
        \/ invite' = [invite EXCEPT ![i] = [invite[i] EXCEPT !.status = "expired"]]
        \/ invite' = [invite EXCEPT ![i] = [invite[i] EXCEPT !.status = "accepted", !.by = h]]
        \/ invite' = [invite EXCEPT ![i] = [invite[i] EXCEPT !.status = "pending", !.by = NoOne]]
    <3>1. \/ UNCHANGED invite
          \/ invite' = [invite EXCEPT ![i].status = "expired"]
          \/ invite' = [invite EXCEPT ![i].status = "accepted", ![i].by = h]
          \/ invite' = [invite EXCEPT ![i].status = "pending", ![i].by = NoOne]
      BY Effects
    <3>2. invite \in [Invites -> Invite \cup {NoInvite}]
      BY DEF Typed
    <3> QED
      BY <1>1, <2>1, <3>1, <3>2 DEF Invite
  <2> QED
    BY <1>1, <2>2, <2>3 DEF Typed, Sent, Nulls
<1>4. welcomed' \in [Invites -> 0 .. 2]
  <2>1. \/ UNCHANGED welcomed
        \/ welcomed' = [welcomed EXCEPT ![i] = welcomed[i] + 1] /\ welcomed[i] < 2
    BY Effects
  <2>2. welcomed \in [Invites -> 0 .. 2] /\ welcomed[i] \in 0 .. 2
    BY <1>1 DEF Typed
  <2>3. welcomed[i] < 2 => welcomed[i] + 1 \in 0 .. 2
    BY <2>2
  <2> QED
    BY <2>1, <2>2, <2>3
<1>5. user' \in [Emails -> User] /\ access' \subseteq Emails \X Clients /\ UNCHANGED live
  <2>1. TheInvite(h).email \in Emails
    BY <1>1 DEF Invite
  <2> QED
    BY <1>1, <2>1 DEF HandlerSteps, Expire, FindUser, Refuse, Snapshot, Claim, AssignAccess, IssueSession,
       ProvisioningFails, RemoveAccess, Reopen, DeleteUser, Crash, Typed, User
<1>6. \A g \in Handlers : accept[g] # Idle => accept[g].invite \in Invites
  BY DEF Typed, Accept
<1> QED
  BY <1>2, <1>3, <1>4, <1>5, <1>6 DEF Typed, Sent

LEMMA TypedStep == Nulls /\ Typed /\ [Next]_inviteVars => Typed'
<1> SUFFICES ASSUME Nulls, Typed, [Next]_inviteVars
             PROVE  Typed'
  OBVIOUS
<1>0. \A g \in Handlers : accept[g] # Idle => accept[g].invite \in Invites
  BY DEF Typed, Accept
<1>1. CASE UNCHANGED inviteVars
  BY <1>1 DEF inviteVars, Typed, Sent
<1>2. CASE \/ \E i \in Invites, c \in Clients, e \in Emails : Issue(i, c, e)
           \/ \E i \in Invites : Revoke(i) \/ RunOut(i)
           \/ \E c \in Clients : List(c) \/ ArchiveClient(c) \/ RevokeAll(c) \/ RestoreClient(c)
           \/ \E e \in Emails : SwitchUser(e)
  BY <1>0, <1>2, OthersOnInvites DEF Typed, Sent
<1>3. ASSUME NEW h \in Handlers, NEW i \in Invites, NEW e \in Emails \cup {NoOne}, StartAccept(h, i, e)
      PROVE  Typed'
  <2>1. UNCHANGED <<live, invite, user, access, welcomed>>
    BY <1>3, StartEffect
  <2>2. accept' \in [Handlers -> Accept \cup {Idle}]
    BY <1>3, StartEffect
  <2>3. \A g \in Handlers : accept'[g] # Idle => invite[accept'[g].invite] # NoInvite
    BY <1>3, StartEffect DEF Typed, Sent
  <2> QED
    BY <2>1, <2>2, <2>3 DEF Typed, Sent
<1>4. CASE \E h \in Handlers : HandlerSteps(h)
  BY <1>4, HandlerTyped
<1> QED
  BY <1>1, <1>2, <1>3, <1>4 DEF Next, HandlerSteps

-----------------------------------------------------------------------------
(* One welcome for each invite *)

LEMMA HandlerInv ==
    ASSUME Nulls, Typed, Inv, NEW h \in Handlers, HandlerSteps(h)
    PROVE  Inv'
<1>0. PICK i : i = accept[h].invite
  OBVIOUS
<1>e. /\ \/ Gone(h)
         \/ \E stage \in {"snapshot", "claim", "delete"} : After(h, stage)
         \/ /\ \E stage \in Claiming : After(h, stage)
            /\ accept[h].stage \in Claiming \/ (accept[h].stage = "claim" /\ Claimable(i))
      /\ \/ UNCHANGED invite /\ ~(accept[h].stage = "claim" /\ Claimable(i) /\ ~Gone(h))
         \/ invite' = [invite EXCEPT ![i].status = "expired"] /\ Gone(h)
         \/ /\ invite' = [invite EXCEPT ![i].status = "accepted", ![i].by = h]
            /\ accept[h].stage = "claim" /\ Claimable(i)
         \/ /\ invite' = [invite EXCEPT ![i].status = "pending", ![i].by = NoOne]
            /\ accept[h].stage = "reopen" /\ StillOurs(h)
            /\ Gone(h) \/ After(h, "delete")
      /\ \/ UNCHANGED welcomed
         \/ /\ welcomed' = [welcomed EXCEPT ![i] = @ + 1]
            /\ accept[h].stage = "session" /\ Gone(h) /\ UNCHANGED invite
  BY <1>0, Effects
<1>1. accept[h] # Idle /\ accept[h].invite = i /\ i \in Invites /\ invite[i] \in Invite
  BY <1>0, Effects, Moves DEF TheInvite
<1>2. \A g \in Handlers \ {h}, j \in Invites : Holds(g, j)' <=> Holds(g, j)
  BY <1>1, <1>e DEF Gone, After, Holds
<1>3. \A j \in Invites \ {i} : invite'[j] = invite[j] /\ welcomed'[j] = welcomed[j] /\ ~Holds(h, j) /\ ~Holds(h, j)'
  BY <1>1, <1>e DEF Typed, Holds, Gone, After
<1>4. \A g \in Handlers \ {h} : Holds(g, i) => invite[i].by = g
  BY <1>1 DEF Inv, HoldersRecorded
\* What h does to its own invite.
<1>5. /\ \A g \in Handlers : Holds(g, i)' => invite'[i].status \in {"accepted", "expired"} /\ invite'[i].by = g
      /\ welcomed'[i] <= 1
      /\ welcomed'[i] = 1 =>
            /\ invite'[i] # NoInvite /\ invite'[i].status \in {"accepted", "expired"}
            /\ \A g \in Handlers : ~Holds(g, i)'
  <2>0. welcomed[i] \in 0 .. 2 /\ welcomed[i] <= 1
    BY <1>1 DEF Typed, Inv, WelcomedIsOver
  <2>1. CASE UNCHANGED invite /\ ~(accept[h].stage = "claim" /\ Claimable(i) /\ ~Gone(h))
    <3>1. Holds(h, i)' => Holds(h, i)
      BY <1>1, <2>1, <1>e DEF Holds, Gone, After, Claiming
    <3>2. CASE UNCHANGED welcomed
      BY <1>1, <1>2, <2>1, <3>1, <3>2 DEF Inv, HoldersRecorded, WelcomedIsOver, Sent
    <3>3. CASE /\ welcomed' = [welcomed EXCEPT ![i] = @ + 1]
               /\ accept[h].stage = "session" /\ Gone(h)
      <4>1. Holds(h, i)
        BY <1>1, <3>3 DEF Holds, Claiming
      <4>2. welcomed[i] = 0
        BY <1>1, <2>0, <4>1 DEF Inv, WelcomedIsOver
      <4>3. welcomed'[i] = 1
        BY <1>1, <3>3, <4>2 DEF Typed
      <4>4. invite[i].by = h /\ invite[i].status \in {"accepted", "expired"}
        BY <1>1, <4>1 DEF Inv, HoldersRecorded
      <4>5. \A g \in Handlers : ~Holds(g, i)'
        BY <1>2, <1>4, <3>3, <4>4 DEF Holds, Gone
      <4> QED
        BY <1>1, <2>1, <4>3, <4>4, <4>5 DEF Nulls
    <3> QED
      BY <3>2, <3>3, <1>e
  <2>2. CASE invite' = [invite EXCEPT ![i].status = "expired"] /\ Gone(h)
    <3>1. invite'[i] \in Invite /\ invite'[i].status = "expired" /\ invite'[i].by = invite[i].by
      BY <1>1, <2>2 DEF Typed, Invite, Statuses
    <3>2. ~Holds(h, i)'
      BY <2>2 DEF Holds, Gone
    <3>3. CASE UNCHANGED welcomed
      BY <1>1, <1>2, <1>4, <3>1, <3>2, <3>3 DEF Inv, WelcomedIsOver, Nulls
    <3>4. CASE UNCHANGED invite /\ accept[h].stage = "session"
      BY <2>1, <3>4
    <3> QED
      BY <3>3, <3>4, <1>e
  <2>3. CASE /\ invite' = [invite EXCEPT ![i].status = "accepted", ![i].by = h]
             /\ accept[h].stage = "claim" /\ Claimable(i)
    <3>1. invite'[i] \in Invite /\ invite'[i].status = "accepted" /\ invite'[i].by = h
      BY <1>1, <2>3 DEF Typed, Invite, Statuses
    <3>2. \A g \in Handlers : ~Holds(g, i)
      BY <1>1, <2>3 DEF Inv, HoldersRecorded, Claimable
    <3>3. welcomed[i] # 1 /\ UNCHANGED welcomed
      BY <1>1, <2>3, <1>e DEF Inv, WelcomedIsOver, Claimable
    <3> QED
      BY <1>1, <1>2, <2>0, <3>1, <3>2, <3>3 DEF Nulls
  <2>4. CASE /\ invite' = [invite EXCEPT ![i].status = "pending", ![i].by = NoOne]
             /\ accept[h].stage = "reopen" /\ StillOurs(h)
             /\ Gone(h) \/ After(h, "delete")
    <3>1. Holds(h, i)
      BY <1>1, <2>4 DEF Holds, Claiming
    <3>2. \A g \in Handlers \ {h} : ~Holds(g, i)
      BY <1>1, <1>4, <3>1 DEF Inv, HoldersRecorded
    <3>3. ~Holds(h, i)'
      BY <2>4 DEF Holds, Gone, After, Claiming
    <3>4. welcomed[i] # 1 /\ UNCHANGED welcomed
      BY <1>1, <2>4, <3>1, <1>e DEF Inv, WelcomedIsOver
    <3> QED
      BY <1>1, <1>2, <2>0, <3>2, <3>3, <3>4
  <2> QED
    BY <2>1, <2>2, <2>3, <2>4, <1>e
<1>6. HoldersRecorded'
  BY <1>2, <1>3, <1>5 DEF Inv, HoldersRecorded
<1>7. WelcomedIsOver'
  BY <1>2, <1>3, <1>5 DEF Inv, WelcomedIsOver, Sent
<1> QED
  BY <1>6, <1>7 DEF Inv

LEMMA InvStep == Nulls /\ Typed /\ Inv /\ [Next]_inviteVars => Inv'
<1> SUFFICES ASSUME Nulls, Typed, Inv, [Next]_inviteVars
             PROVE  Inv'
  OBVIOUS
<1> DEFINE Quietly ==
      /\ UNCHANGED welcomed
      /\ \A h \in Handlers, i \in Invites : Holds(h, i)' => Holds(h, i)
      /\ \A i \in Invites : Sent(i) =>
                /\ invite'[i] # NoInvite /\ invite'[i].by = invite[i].by
                /\ \/ invite'[i].status = invite[i].status
                   \/ invite[i].status = "pending" /\ invite'[i].status \in Closed
<1>0. \A h \in Handlers, i \in Invites : Holds(h, i) => Sent(i)
  BY DEF Holds, Typed
<1>1. ASSUME Quietly PROVE Inv'
  BY <1>0, <1>1 DEF Inv, HoldersRecorded, WelcomedIsOver, Sent, Closed
<1>2. CASE UNCHANGED inviteVars
  BY <1>1, <1>2 DEF inviteVars, Holds, Sent
<1>3. CASE \/ \E i \in Invites, c \in Clients, e \in Emails : Issue(i, c, e)
           \/ \E i \in Invites : Revoke(i) \/ RunOut(i)
           \/ \E c \in Clients : List(c) \/ ArchiveClient(c) \/ RevokeAll(c) \/ RestoreClient(c)
           \/ \E e \in Emails : SwitchUser(e)
  BY <1>1, <1>3, OthersOnInvites DEF Holds
<1>4. ASSUME NEW h \in Handlers, NEW i \in Invites, NEW e \in Emails \cup {NoOne}, StartAccept(h, i, e)
      PROVE  Inv'
  <2>1. /\ UNCHANGED <<invite, welcomed>>
        /\ accept'[h].stage \in {"expire", "user"}
        /\ \A g \in Handlers \ {h} : accept'[g] = accept[g]
    BY <1>4, StartEffect
  <2>2. \A g \in Handlers, j \in Invites : Holds(g, j)' => Holds(g, j)
    BY <2>1 DEF Holds, Claiming
  <2> QED
    BY <1>1, <2>1, <2>2 DEF Sent
<1>5. CASE \E h \in Handlers : HandlerSteps(h)
  BY <1>5, HandlerInv
<1> QED
  BY <1>2, <1>3, <1>4, <1>5 DEF Next, HandlerSteps

LEMMA InitTyped == Init => Typed
  BY DEF Init, Typed, User

\* An invite lets one call in, ever: not two that overlap, and no other after a
\* failure was taken back.  (the claim of _accept_client_invite)
THEOREM WelcomesOnce == ASSUME Nulls PROVE Spec => []InviteWelcomesOnce
<1>1. Init => Inv
  BY DEF Init, Inv, HoldersRecorded, WelcomedIsOver, Holds
<1>2. Inv => InviteWelcomesOnce
  BY DEF Inv, WelcomedIsOver, InviteWelcomesOnce
<1> QED
  BY InitTyped, TypedStep, InvStep, <1>1, <1>2, PTL DEF Spec

\* A revoked or expired invite never opens again: no claim and no compensation
\* that was under way brings it back.  (the claim and the rollback of
\* _accept_client_invite)
THEOREM StaysClosed == ASSUME Nulls PROVE Spec => ClosedStaysClosed
<1>1. Typed /\ [Next]_inviteVars => [KeepsClosed]_inviteVars
  <2> SUFFICES ASSUME Typed, [Next]_inviteVars, NEW k \in Invites, Sent(k), invite[k].status \in Closed
               PROVE  invite'[k].status \in Closed
    BY DEF KeepsClosed
  <2>1. CASE UNCHANGED inviteVars
    BY <2>1 DEF inviteVars
  <2>2. CASE \/ \E i \in Invites, c \in Clients, e \in Emails : Issue(i, c, e)
             \/ \E i \in Invites : Revoke(i) \/ RunOut(i)
             \/ \E c \in Clients : List(c) \/ ArchiveClient(c) \/ RevokeAll(c) \/ RestoreClient(c)
             \/ \E e \in Emails : SwitchUser(e)
    BY <2>2, OthersOnInvites DEF Closed
  <2>3. ASSUME NEW h \in Handlers, NEW i \in Invites, NEW e \in Emails \cup {NoOne}, StartAccept(h, i, e)
        PROVE  invite'[k].status \in Closed
    BY <2>3, StartEffect
  <2>4. ASSUME NEW h \in Handlers, HandlerSteps(h)
        PROVE  invite'[k].status \in Closed
    <3>1. CASE k # accept[h].invite
      <4>1. invite'[k] = invite[k]
        BY <2>4, <3>1, Effects DEF Typed
      <4> QED
        BY <4>1
    <3>2. CASE k = accept[h].invite
      <4>1. invite[k] \in Invite
        BY DEF Typed, Sent
      <4>2. ~Claimable(accept[h].invite) /\ ~StillOurs(h)
        BY <3>2 DEF Closed, Claimable, StillOurs, TheInvite
      <4>3. UNCHANGED invite \/ invite' = [invite EXCEPT ![accept[h].invite].status = "expired"]
        BY <2>4, <4>2, Effects
      <4> QED
        BY <3>2, <4>1, <4>3 DEF Typed, Invite, Closed
    <3> QED
      BY <3>1, <3>2
  <2> QED
    BY <2>1, <2>2, <2>3, <2>4 DEF Next, HandlerSteps
<1> QED
  BY InitTyped, TypedStep, <1>1, PTL DEF Spec, ClosedStaysClosed

\* The types of invitations.
THEOREM InvitesTyped == ASSUME Nulls PROVE Spec => []TypeOK
<1>1. Typed => TypeOK
  BY DEF Typed, TypeOK, Accept
<1> QED
  BY InitTyped, TypedStep, <1>1, PTL DEF Spec
=============================================================================
