------------------------------- MODULE SignIn -------------------------------
(***************************************************************************)
(* Sign-in through Facebook, another provider or Envidicy ID: the round    *)
(* trip, identities, the workspace of an owner, and sessions.              *)
(*                                                                         *)
(* A round trip starts with a state row and a cookie in the browser, and   *)
(* ends in a callback that may consume the row once.  The callback then    *)
(* works in many transactions: find or create the user, the workspace and  *)
(* the identity, issue a session, and undo what a failure left behind.     *)
(* Callbacks overlap each other and administrators who disable users.      *)
(*                                                                         *)
(* Connecting an advertising account ends in Credentials, invitations are  *)
(* in ClientInvites.  The switch to Envidicy ID only is not modelled.      *)
(***************************************************************************)
EXTENDS Integers, FiniteSets

CONSTANTS
    Handlers, Browsers, Users, Clients, States,
    Facebook,      \* subjects of the primary Facebook application
    Legacy,        \* subjects of the application before it
    Google,        \* subjects of another provider
    Envidicy,      \* subjects of Envidicy ID
    Emails,        \* bound: addresses that providers report
    MigrationOn,   \* FACEBOOK_LEGACY_MIGRATION_ENABLED
    NoUser, NoClient, NoSubject, NoState, NoEmail, NoSession, Idle

VARIABLES
    user,          \* users
    workspaces,    \* clients that are active
    grants,        \* user_client_access
    identity,      \* auth_identities and envidicy_id_principals: subject to user
    state,         \* oauth_states and envidicy_login_transactions
    cookie,        \* the nonce a browser holds
    session,       \* the session a browser holds
    callback       \* what a callback remembers

signInVars == <<user, workspaces, grants, identity, state, cookie, session, callback>>

Subjects == Facebook \cup Legacy \cup Google \cup Envidicy
Intents  == {"login", "link", "connect", "migrate", "primary", "id"}

User    == [role: {"solo", "client"}, active: BOOLEAN, email: Emails \cup {NoEmail}]
Session == [user: Users, revoked: BOOLEAN]
State   == [intent: Intents, initiator: Users \cup {NoUser}, used: BOOLEAN]

TypeOK ==
    /\ user \in [Users -> User \cup {NoUser}]
    /\ workspaces \subseteq Clients
    /\ grants \subseteq Users \X Clients
    /\ identity \in [Subjects -> Users \cup {NoUser}]
    /\ state \in [States -> State \cup {NoState}]
    /\ cookie \in [Browsers -> States \cup {NoState}]
    /\ session \in [Browsers -> Session \cup {NoSession}]
    /\ \A h \in Handlers : callback[h] # Idle =>
           callback[h].user \in Users \cup {NoUser} /\ callback[h].client \in Clients \cup {NoClient}

\* A legacy identity, if there is one, has its owner and workspace.
Init ==
    /\ IF Legacy = {}
       THEN /\ user = [u \in Users |-> NoUser]
            /\ identity = [s \in Subjects |-> NoUser]
            /\ workspaces = {} /\ grants = {}
       ELSE \E u \in Users, c \in Clients :
            /\ user = [v \in Users |-> IF v = u
                                       THEN [role |-> "solo", active |-> TRUE, email |-> NoEmail]
                                       ELSE NoUser]
            /\ identity = [s \in Subjects |-> IF s \in Legacy THEN u ELSE NoUser]
            /\ workspaces = {c} /\ grants = {<<u, c>>}
    /\ state = [t \in States |-> NoState]
    /\ cookie = [b \in Browsers |-> NoState]
    /\ session = [b \in Browsers |-> NoSession]
    /\ callback = [h \in Handlers |-> Idle]

-----------------------------------------------------------------------------
Known(u)  == u # NoUser /\ user[u] # NoUser
Active(u) == Known(u) /\ user[u].active

\* get_session_context: the user of the session of a browser.
SignedIn(b) ==
    IF session[b] # NoSession /\ ~session[b].revoked /\ Active(session[b].user)
    THEN session[b].user ELSE NoUser

EmailOwners(email) == {u \in Users : Known(u) /\ email # NoEmail /\ user[u].email = email}

ClientsOf(u) == {c \in Clients : <<u, c>> \in grants}

At(h, stage) == callback[h] # Idle /\ callback[h].stage = stage

Goto(h, stage) == callback' = [callback EXCEPT ![h].stage = stage]
Leave(h) == callback' = [callback EXCEPT ![h] = Idle]

-----------------------------------------------------------------------------
(* The round trip *)

\* A new state; the cookie of an earlier one in the same browser is replaced.
Issued(b, t, intent, u) ==
    /\ state[t] = NoState
    /\ state' = [state EXCEPT ![t] = [intent |-> intent, initiator |-> u, used |-> FALSE]]
    /\ cookie' = [cookie EXCEPT ![b] = t]

Start(b, t, intent) ==
    /\ intent # "primary"
    /\ IF intent \in {"connect", "link"}
       THEN SignedIn(b) # NoUser /\ Issued(b, t, intent, SignedIn(b))
       ELSE Issued(b, t, intent, NoUser)
    /\ UNCHANGED <<user, workspaces, grants, identity, session, callback>>

\* Mutant: whether the state was used is read before the lock.
ClaimableByCookie(b, t) == state[t] # NoState /\ cookie[b] = t

\* consume_state and consume_transaction, each under the write lock.
Claimable(b, t) == state[t] # NoState /\ ~state[t].used /\ cookie[b] = t

\* Connecting and linking go on only for the user who started them.
Consume(h, b, t) ==
    /\ callback[h] = Idle
    /\ Claimable(b, t)
    /\ state' = [state EXCEPT ![t].used = TRUE]
    /\ callback' = [callback EXCEPT ![h] =
           IF state[t].intent \in {"connect", "link"}
              /\ (SignedIn(b) = NoUser \/ SignedIn(b) # state[t].initiator)
           THEN Idle
           ELSE [stage |-> "exchange", browser |-> b, state |-> t, intent |-> state[t].intent,
                 subject |-> NoSubject, email |-> NoEmail, verified |-> FALSE, user |-> state[t].initiator,
                 client |-> NoClient, token |-> "none"]]
    /\ UNCHANGED <<user, workspaces, grants, identity, cookie, session>>

\* Whoever answered at the provider, with an address that may be verified.
Exchange(h, s, email, verified) ==
    /\ At(h, "exchange")
    /\ LET next == CASE callback[h].intent = "login" /\ s \in Facebook \cup Google -> "find"
                     [] callback[h].intent = "migrate" /\ s \in Legacy -> "migrate"
                     [] callback[h].intent \in {"link", "primary"} /\ s \in Facebook -> "prove"
                     [] callback[h].intent = "id" /\ s \in Envidicy -> "resolve"
                     [] OTHER -> "none"
       IN  /\ next # "none"
           /\ callback' = [callback EXCEPT ![h].stage = next, ![h].subject = s,
                                       ![h].email = email, ![h].verified = verified]
    /\ UNCHANGED <<user, workspaces, grants, identity, state, cookie, session>>

\* Connecting ends here; and any exchange may fail.
EndExchange(h) ==
    /\ At(h, "exchange")
    /\ Leave(h)
    /\ UNCHANGED <<user, workspaces, grants, identity, state, cookie, session>>

-----------------------------------------------------------------------------
(* Finding or creating the user *)

FindIdentity(h) ==
    /\ At(h, "find")
    /\ LET s == callback[h].subject
           u == identity[s]
       IN  CASE u # NoUser -> IF Active(u)
                              THEN callback' = [callback EXCEPT ![h].user = u, ![h].stage = "check"]
                              ELSE Leave(h)
             [] u = NoUser /\ (EmailOwners(callback[h].email) # {} \/ (s \in Facebook /\ MigrationOn)) -> Leave(h)
             [] OTHER -> Goto(h, "user")
    /\ UNCHANGED <<user, workspaces, grants, identity, state, cookie, session>>

\* Facebook's address becomes the user's only if it is verified.
OwnEmail(h) ==
    IF callback[h].subject \in Facebook /\ ~callback[h].verified THEN NoEmail ELSE callback[h].email

\* create_user; an address taken meanwhile is a conflict.
CreateUser(h) ==
    /\ At(h, "user")
    /\ LET s == callback[h].subject
           email == OwnEmail(h)
       IN  IF EmailOwners(email) # {}
           THEN /\ IF s \in Facebook THEN Goto(h, "concurrent") ELSE Leave(h)
                /\ UNCHANGED user
           ELSE \E u \in Users :
                /\ user[u] = NoUser
                /\ user' = [user EXCEPT ![u] = [role |-> "solo", active |-> TRUE, email |-> email]]
                /\ callback' = [callback EXCEPT ![h].user = u,
                       ![h].stage = IF s \in Facebook THEN "client" ELSE "identity"]
    /\ UNCHANGED <<workspaces, grants, identity, state, cookie, session>>

CreateClient(h) ==
    /\ At(h, "client")
    /\ \E c \in Clients \ workspaces :
           /\ \A o \in Handlers : callback[o] # Idle => callback[o].client # c
           /\ \A u \in Users : <<u, c>> \notin grants
           /\ workspaces' = workspaces \cup {c}
           /\ callback' = [callback EXCEPT ![h].client = c, ![h].stage = "grant"]
    /\ UNCHANGED <<user, grants, identity, state, cookie, session>>

\* assign_client_access, for an active owner without another client.
AssignClient(h) ==
    /\ At(h, "grant")
    /\ LET u == callback[h].user
           c == callback[h].client
       IN  IF Active(u) /\ c \in workspaces /\ ClientsOf(u) \subseteq {c}
           THEN grants' = grants \cup {<<u, c>>} /\ Goto(h, "identity")
           ELSE UNCHANGED grants /\ Goto(h, "undo")
    /\ UNCHANGED <<user, workspaces, identity, state, cookie, session>>

\* Mutant: the last one to link a subject takes it over.
NeverLinked(s, u) == TRUE

\* The row that is there belongs to this user, or there is none.
Linkable(s, u) == identity[s] \in {u, NoUser}

LinkIdentity(h) ==
    /\ At(h, "identity")
    /\ LET u == callback[h].user
           s == callback[h].subject
       IN  IF Known(u) /\ Linkable(s, u)
           THEN identity' = [identity EXCEPT ![s] = u]
                /\ IF callback[h].intent = "link" THEN Leave(h) ELSE Goto(h, "check")
           ELSE UNCHANGED identity
                /\ IF callback[h].client # NoClient THEN Goto(h, "undo") ELSE Leave(h)
    /\ UNCHANGED <<user, workspaces, grants, state, cookie, session>>

\* The compensation of Facebook's provisioning: delete the user, archive the
\* client, and go on with the user of whoever was faster.
UndoUser(h) ==
    /\ At(h, "undo")
    /\ LET u == callback[h].user
       IN  /\ user' = [user EXCEPT ![u] = NoUser]
           /\ grants' = {g \in grants : g[1] # u}
           /\ identity' = [s \in Subjects |-> IF identity[s] = u THEN NoUser ELSE identity[s]]
           /\ session' = [b \in Browsers |-> IF session[b] # NoSession /\ session[b].user = u
                                             THEN NoSession ELSE session[b]]
    /\ Goto(h, "archive")
    /\ UNCHANGED <<workspaces, state, cookie>>

UndoClient(h) ==
    /\ At(h, "archive")
    /\ workspaces' = workspaces \ {callback[h].client}
    /\ callback' = [callback EXCEPT ![h].stage = "concurrent", ![h].client = NoClient]
    /\ UNCHANGED <<user, grants, identity, state, cookie, session>>

FindConcurrent(h) ==
    /\ At(h, "concurrent")
    /\ LET u == identity[callback[h].subject]
       IN  IF Active(u) THEN callback' = [callback EXCEPT ![h].user = u, ![h].stage = "check"] ELSE Leave(h)
    /\ UNCHANGED <<user, workspaces, grants, identity, state, cookie, session>>

-----------------------------------------------------------------------------
(* Migrating, linking, Envidicy ID *)

\* The legacy identity proves the user for whom the primary one may be linked.
MigrateLegacy(h) ==
    /\ At(h, "migrate")
    /\ LET u == identity[callback[h].subject]
       IN  IF Active(u)
           THEN \E t \in States : Issued(callback[h].browser, t, "primary", u)
           ELSE UNCHANGED <<state, cookie>>
    /\ Leave(h)
    /\ UNCHANGED <<user, workspaces, grants, identity, session>>

\* The checks of _link_facebook_identity_to_proven_user, before it links.
ProveUser(h) ==
    /\ At(h, "prove")
    /\ LET u == callback[h].user
           s == callback[h].subject
       IN  IF /\ Active(u)
              /\ \A p \in Envidicy : identity[p] # u
              /\ identity[s] \in {u, NoUser}
              /\ \A p \in Facebook \ {s} : identity[p] # u
              /\ EmailOwners(callback[h].email) \subseteq {u}
           THEN Goto(h, "identity") ELSE Leave(h)
    /\ UNCHANGED <<user, workspaces, grants, identity, state, cookie, session>>

\* resolve_identity, in one transaction; a new principal has neither email nor access.
ResolvePrincipal(h) ==
    /\ At(h, "resolve")
    /\ LET s == callback[h].subject
       IN  IF identity[s] # NoUser
           THEN /\ UNCHANGED <<user, identity>>
                /\ IF Active(identity[s])
                   THEN callback' = [callback EXCEPT ![h].user = identity[s], ![h].stage = "check"]
                   ELSE Leave(h)
           ELSE \E u \in Users :
                /\ user[u] = NoUser
                /\ user' = [user EXCEPT ![u] = [role |-> "client", active |-> TRUE, email |-> NoEmail]]
                /\ identity' = [identity EXCEPT ![s] = u]
                /\ callback' = [callback EXCEPT ![h].user = u, ![h].stage = "check"]
    /\ UNCHANGED <<workspaces, grants, state, cookie, session>>

\* The operator's migration: a reviewed row of a manifest links an existing user.
MigratePrincipal(s, u) ==
    /\ s \in Envidicy /\ identity[s] = NoUser
    /\ Active(u) /\ \A p \in Envidicy : identity[p] # u
    /\ identity' = [identity EXCEPT ![s] = u]
    /\ UNCHANGED <<user, workspaces, grants, state, cookie, session, callback>>

-----------------------------------------------------------------------------
(* Sessions *)

\* _issue_session reads the user first, and inserts the session after that.
CheckUser(h) ==
    /\ At(h, "check")
    /\ IF Active(callback[h].user) THEN Goto(h, "session") ELSE Leave(h)
    /\ UNCHANGED <<user, workspaces, grants, identity, state, cookie, session>>

InsertSession(h) ==
    /\ At(h, "session")
    /\ Known(callback[h].user)
    /\ callback' = [callback EXCEPT ![h].token = "live",
           ![h].stage = IF callback[h].subject \in Google THEN "workspace" ELSE "respond"]
    /\ UNCHANGED <<user, workspaces, grants, identity, state, cookie, session>>

\* Mutant: a workspace that was archived does not count.
NeedsActiveWorkspace(u) == ClientsOf(u) \cap workspaces = {}

NeedsWorkspace(u) == ClientsOf(u) = {}

\* _ensure_solo_client_workspace, in one transaction; a failure revokes the session.
EnsureWorkspace(h) ==
    /\ At(h, "workspace")
    /\ LET u == callback[h].user
       IN  CASE ~Active(u) \/ user[u].role # "solo" -> Leave(h) /\ UNCHANGED <<workspaces, grants>>
             [] Active(u) /\ user[u].role = "solo" /\ NeedsWorkspace(u) ->
                   \E c \in Clients \ workspaces :
                       /\ \A v \in Users : <<v, c>> \notin grants
                       /\ workspaces' = workspaces \cup {c}
                       /\ grants' = grants \cup {<<u, c>>}
                       /\ Goto(h, "respond")
             [] OTHER ->
                   /\ IF Cardinality(ClientsOf(u) \cap workspaces) = 1 THEN Goto(h, "respond") ELSE Leave(h)
                   /\ UNCHANGED <<workspaces, grants>>
    /\ UNCHANGED <<user, identity, state, cookie, session>>

\* The browser gets the session; for Envidicy ID only once its context was valid.
Respond(h) ==
    /\ At(h, "respond")
    /\ LET t == callback[h]
       IN  session' = IF t.intent = "id" /\ (t.token = "revoked" \/ ~Active(t.user))
                      THEN session
                      ELSE [session EXCEPT ![t.browser] = [user |-> t.user, revoked |-> t.token = "revoked"]]
    /\ Leave(h)
    /\ UNCHANGED <<user, workspaces, grants, identity, state, cookie>>

Logout(b) ==
    /\ session[b] # NoSession
    /\ session' = [session EXCEPT ![b] = NoSession]
    /\ UNCHANGED <<user, workspaces, grants, identity, state, cookie, callback>>

\* patch_user: a user who is no longer active loses every session there is.
DeactivateUser(u) ==
    /\ Active(u)
    /\ user' = [user EXCEPT ![u].active = FALSE]
    /\ session' = [b \in Browsers |-> IF session[b] # NoSession /\ session[b].user = u
                                      THEN [session[b] EXCEPT !.revoked = TRUE] ELSE session[b]]
    /\ callback' = [h \in Handlers |->
           IF callback[h] # Idle /\ callback[h].user = u /\ callback[h].token = "live"
           THEN [callback[h] EXCEPT !.token = "revoked"] ELSE callback[h]]
    /\ UNCHANGED <<workspaces, grants, identity, state, cookie>>

ReactivateUser(u) ==
    /\ Known(u) /\ ~user[u].active
    /\ user' = [user EXCEPT ![u].active = TRUE]
    /\ UNCHANGED <<workspaces, grants, identity, state, cookie, session, callback>>

ArchiveWorkspace(c) ==
    /\ c \in workspaces /\ \E u \in Users : <<u, c>> \in grants
    /\ workspaces' = workspaces \ {c}
    /\ UNCHANGED <<user, grants, identity, state, cookie, session, callback>>

\* The process stops within a callback.
Crash(h) ==
    /\ callback[h] # Idle
    /\ Leave(h)
    /\ UNCHANGED <<user, workspaces, grants, identity, state, cookie, session>>

-----------------------------------------------------------------------------
Next ==
    \/ \E b \in Browsers, t \in States, intent \in Intents : Start(b, t, intent)
    \/ \E h \in Handlers, b \in Browsers, t \in States : Consume(h, b, t)
    \/ \E h \in Handlers, s \in Subjects : Exchange(h, s, NoEmail, FALSE)
    \/ \E h \in Handlers, s \in Subjects, email \in Emails, verified \in BOOLEAN : Exchange(h, s, email, verified)
    \/ \E h \in Handlers :
           \/ EndExchange(h) \/ FindIdentity(h) \/ CreateUser(h) \/ CreateClient(h) \/ AssignClient(h)
           \/ LinkIdentity(h) \/ UndoUser(h) \/ UndoClient(h) \/ FindConcurrent(h)
           \/ MigrateLegacy(h) \/ ProveUser(h) \/ ResolvePrincipal(h)
           \/ CheckUser(h) \/ InsertSession(h) \/ EnsureWorkspace(h) \/ Respond(h) \/ Crash(h)
    \/ \E s \in Subjects, u \in Users : MigratePrincipal(s, u)
    \/ \E b \in Browsers : Logout(b)
    \/ \E u \in Users : DeactivateUser(u) \/ ReactivateUser(u)
    \/ \E c \in Clients : ArchiveWorkspace(c)

Spec == Init /\ [][Next]_signInVars

-----------------------------------------------------------------------------
\* One state serves one callback, however often and from wherever it is called.
\* (consume_state: claim under the write lock)
StateServesOnce ==
    \A g, h \in Handlers : g # h /\ callback[g] # Idle /\ callback[h] # Idle
        => callback[g].state # callback[h].state

\* Whoever signs in with a subject gets a session of the user that subject is
\* linked to, also when two first sign-ins race and one of them is undone.
\* (link_identity; _auto_provision_facebook_client; AuthFacadeService)
SessionOfTheIdentity ==
    \A h \in Handlers : callback[h] # Idle /\ callback[h].stage \in {"check", "session", "workspace", "respond"}
        => identity[callback[h].subject] = callback[h].user

\* An owner never gets a second workspace, however sign-ins race and whether or
\* not the first one was archived.  (_ensure_solo_client_workspace, assign_client_access)
OneWorkspaceEach == \A u \in Users : Cardinality(ClientsOf(u)) <= 1

\* A user who was disabled receives no session.  The code does not keep this: the
\* user is read before, and not in, the transaction that inserts the session.
\* (AuthFacadeService; _issue_session; patch_user)
DisabledGetNoSession ==
    [][\A h \in Handlers : callback[h] # Idle /\ callback'[h] # Idle
           /\ callback[h].token = "none" /\ callback'[h].token = "live" => Active(callback[h].user)]_signInVars

\* A user has one subject of the primary Facebook application.  The code does not
\* keep this: two links read the list before either of them is inserted.
\* (_link_facebook_identity_to_proven_user)
OnePrimarySubject ==
    \A r, s \in Facebook : identity[r] = identity[s] /\ r # s => identity[r] = NoUser
=============================================================================
