---------------------------- MODULE SignInProofs ----------------------------
(***************************************************************************)
(* What sign-in keeps for every set of handlers, browsers, users, clients  *)
(* and subjects, with callbacks that stop anywhere.                        *)
(***************************************************************************)
EXTENDS SignIn, FiniteSetTheorems, TLAPS

Stages == {"exchange", "find", "user", "client", "grant", "identity", "undo", "archive",
           "concurrent", "migrate", "prove", "resolve", "check", "session", "workspace",
           "respond"}

Callback ==
    [stage: Stages, browser: Browsers, state: States, intent: Intents,
     subject: Subjects \cup {NoSubject}, email: Emails \cup {NoEmail}, verified: BOOLEAN,
     user: Users \cup {NoUser}, client: Clients \cup {NoClient},
     token: {"none", "live", "revoked"}]

\* The values that stand for nothing differ from what they stand beside.
Nulls ==
    /\ NoUser \notin Users \cup User
    /\ NoClient \notin Clients
    /\ NoState \notin States \cup State
    /\ NoSession \notin Session
    /\ Idle \notin Callback

\* From the session check on.
Signing == {"check", "session", "workspace", "respond"}

Typed ==
    /\ user \in [Users -> User \cup {NoUser}]
    /\ workspaces \subseteq Clients
    /\ grants \subseteq Users \X Clients
    /\ identity \in [Subjects -> Users \cup {NoUser}]
    /\ state \in [States -> State \cup {NoState}]
    /\ cookie \in [Browsers -> States \cup {NoState}]
    /\ session \in [Browsers -> Session \cup {NoSession}]
    /\ callback \in [Handlers -> Callback \cup {Idle}]
    /\ \A h \in Handlers : callback[h] # Idle =>
        /\ callback[h].stage # "exchange" => callback[h].subject \in Subjects
        /\ callback[h].stage \in Signing => callback[h].user \in Users

\* A callback runs on a state that it has consumed, which no other callback has.
Consumed ==
    /\ \A h \in Handlers : callback[h] # Idle =>
        state[callback[h].state] # NoState /\ state[callback[h].state].used
    /\ StateServesOnce

\* These stages are over with their user, who may be deleted.
Past == {"archive", "concurrent"}
Concerned(h) == callback[h] # Idle /\ callback[h].stage \notin Past

\* No row and no callback names a user who is gone.
NoneMissing ==
    /\ \A s \in Subjects : identity[s] # NoUser => Known(identity[s])
    /\ \A t \in States : state[t] # NoState /\ state[t].initiator # NoUser
                         => Known(state[t].initiator)
    /\ \A b \in Browsers : session[b] # NoSession => Known(session[b].user)
    /\ \A h \in Handlers : Concerned(h) /\ callback[h].user # NoUser => Known(callback[h].user)

\* A user whom Facebook's provisioning may still undo.
Provisioning(h) ==
    /\ callback[h] # Idle
    /\ \/ callback[h].stage \in {"client", "grant", "undo"}
       \/ callback[h].stage = "identity" /\ callback[h].client # NoClient

\* Nobody else has to do with the user of h.
Private(h) ==
    LET u == callback[h].user IN
    /\ \A s \in Subjects : identity[s] # u
    /\ \A t \in States : state[t] # NoState => state[t].initiator # u
    /\ \A b \in Browsers : session[b] # NoSession => session[b].user # u
    /\ \A g \in Handlers \ {h} : Concerned(g) => callback[g].user # u

ProvisionedApart ==
    \A h \in Handlers : Provisioning(h) =>
        /\ callback[h].user # NoUser
        /\ Private(h)

\* What a callback knows at each stage.
Stagewise ==
    \A h \in Handlers : callback[h] # Idle =>
        /\ callback[h].stage \in {"exchange", "find", "user", "client", "prove"} =>
              callback[h].client = NoClient

\* The operator's manifest names users who have been reviewed, and none whose
\* first sign-in is still under way.
Reviewed ==
    \A s \in Subjects, u \in Users : MigratePrincipal(s, u) =>
        \A h \in Handlers : Provisioning(h) => callback[h].user # u

SInv ==
    /\ NoneMissing
    /\ ProvisionedApart
    /\ Stagewise
    /\ SessionOfTheIdentity

-----------------------------------------------------------------------------
(* Types *)

LEMMA InitTyped == Init => Typed
<1> SUFFICES ASSUME Init PROVE Typed
  OBVIOUS
<1>1. CASE Legacy = {}
  BY <1>1 DEF Init, Typed
<1>2. CASE Legacy # {}
  <2>1. PICK u \in Users, c \in Clients :
            /\ user = [v \in Users |-> IF v = u
                                       THEN [role |-> "solo", active |-> TRUE, email |-> NoEmail]
                                       ELSE NoUser]
            /\ identity = [s \in Subjects |-> IF s \in Legacy THEN u ELSE NoUser]
            /\ workspaces = {c} /\ grants = {<<u, c>>}
    BY <1>2 DEF Init
  <2>2. [role |-> "solo", active |-> TRUE, email |-> NoEmail] \in User
    BY DEF User
  <2>3. user \in [Users -> User \cup {NoUser}]
    <3>1. ASSUME NEW v \in Users
          PROVE  (IF v = u THEN [role |-> "solo", active |-> TRUE, email |-> NoEmail] ELSE NoUser)
                   \in User \cup {NoUser}
      BY <2>2
    <3> QED
      BY <2>1, <3>1, Zenon
  <2>4. identity \in [Subjects -> Users \cup {NoUser}] /\ grants \subseteq Users \X Clients
        /\ workspaces \subseteq Clients
    BY <2>1
  <2>5. state = [t \in States |-> NoState] /\ cookie = [b \in Browsers |-> NoState]
        /\ session = [b \in Browsers |-> NoSession] /\ callback = [h \in Handlers |-> Idle]
    BY DEF Init
  <2> QED
    BY <2>3, <2>4, <2>5 DEF Typed
<1> QED
  BY <1>1, <1>2

-----------------------------------------------------------------------------
(* What the steps do to callbacks *)

\* The callback of h goes on at a stage, with a user and a client; or it ends.
After(h, stage, u, c) ==
    /\ callback' \in [Handlers -> Callback \cup {Idle}]
    /\ callback'[h] \in Callback
    /\ callback'[h].stage = stage /\ callback'[h].user = u /\ callback'[h].client = c
    /\ callback'[h].state = callback[h].state
    /\ callback'[h].subject = callback[h].subject
    /\ \A g \in Handlers \ {h} : callback'[g] = callback[g]

Gone(h) ==
    /\ callback' \in [Handlers -> Callback \cup {Idle}]
    /\ callback'[h] = Idle
    /\ \A g \in Handlers \ {h} : callback'[g] = callback[g]

LEMMA Moves ==
    ASSUME Typed, NEW h \in Handlers, callback[h] # Idle
    PROVE  /\ callback[h] \in Callback
           /\ Leave(h) => Gone(h)
           /\ \A stage \in Stages : Goto(h, stage) => After(h, stage, callback[h].user, callback[h].client)
           /\ \A stage \in Stages, u \in Users :
                callback' = [callback EXCEPT ![h].user = u, ![h].stage = stage]
                => After(h, stage, u, callback[h].client)
           /\ \A stage \in Stages, c \in Clients \cup {NoClient} :
                \/ callback' = [callback EXCEPT ![h].client = c, ![h].stage = stage]
                \/ callback' = [callback EXCEPT ![h].stage = stage, ![h].client = c]
                => After(h, stage, callback[h].user, c)
           /\ \A stage \in Stages :
                callback' = [callback EXCEPT ![h].token = "live", ![h].stage = stage]
                => After(h, stage, callback[h].user, callback[h].client)
<1>1. callback[h] \in Callback
  BY DEF Typed
<1>2. Leave(h) => Gone(h)
  BY DEF Typed, Leave, Gone
<1>3. ASSUME NEW stage \in Stages, Goto(h, stage)
      PROVE  After(h, stage, callback[h].user, callback[h].client)
  <2>1. [callback[h] EXCEPT !.stage = stage] \in Callback
    BY <1>1 DEF Callback
  <2> QED
    BY <1>1, <1>3, <2>1 DEF Goto, Typed, After, Callback
<1>4. ASSUME NEW stage \in Stages, NEW u \in Users,
             callback' = [callback EXCEPT ![h].user = u, ![h].stage = stage]
      PROVE  After(h, stage, u, callback[h].client)
  <2>1. callback'[h] \in Callback
    BY <1>1, <1>4 DEF Typed, Callback
  <2> QED
    BY <1>1, <1>4, <2>1 DEF Typed, After, Callback
<1>5. ASSUME NEW stage \in Stages, NEW c \in Clients \cup {NoClient},
             \/ callback' = [callback EXCEPT ![h].client = c, ![h].stage = stage]
             \/ callback' = [callback EXCEPT ![h].stage = stage, ![h].client = c]
      PROVE  After(h, stage, callback[h].user, c)
  <2>1. callback'[h] \in Callback
    BY <1>1, <1>5 DEF Typed, Callback
  <2> QED
    BY <1>1, <1>5, <2>1 DEF Typed, After, Callback
<1>6. ASSUME NEW stage \in Stages, callback' = [callback EXCEPT ![h].token = "live", ![h].stage = stage]
      PROVE  After(h, stage, callback[h].user, callback[h].client)
  <2>1. callback'[h] \in Callback
    BY <1>1, <1>6 DEF Typed, Callback
  <2> QED
    BY <1>1, <1>6, <2>1 DEF Typed, After, Callback
<1> QED
  BY <1>1, <1>2, <1>3, <1>4, <1>5, <1>6

\* The effect of each step of a callback, once its provider has answered.
LEMMA Effects ==
    ASSUME Nulls, Typed, NEW h \in Handlers
    PROVE  LET s == callback[h].subject
               v == callback[h].user
               k == callback[h].client IN
           /\ EndExchange(h) \/ Crash(h) => Gone(h)
           /\ FindIdentity(h) =>
                \/ Gone(h)
                \/ Active(identity[s]) /\ After(h, "check", identity[s], k)
                \/ After(h, "user", v, k)
           /\ CreateUser(h) =>
                \/ UNCHANGED user /\ (Gone(h) \/ After(h, "concurrent", v, k))
                \/ \E u \in Users, email \in Emails \cup {NoEmail} :
                     /\ user[u] = NoUser
                     /\ user' = [user EXCEPT ![u] = [role |-> "solo", active |-> TRUE, email |-> email]]
                     /\ \/ s \in Facebook /\ After(h, "client", u, k)
                        \/ s \notin Facebook /\ After(h, "identity", u, k)
           /\ CreateClient(h) => \E c \in Clients : After(h, "grant", v, c) /\ workspaces' = workspaces \cup {c}
           /\ AssignClient(h) => After(h, "identity", v, k) \/ After(h, "undo", v, k)
           /\ LinkIdentity(h) =>
                \/ /\ Known(v) /\ Linkable(s, v) /\ identity' = [identity EXCEPT ![s] = v]
                   /\ Gone(h) \/ After(h, "check", v, k)
                \/ UNCHANGED identity /\ (Gone(h) \/ (k # NoClient /\ After(h, "undo", v, k)))
           /\ UndoUser(h) => After(h, "archive", v, k)
           /\ UndoClient(h) => After(h, "concurrent", v, NoClient)
           /\ FindConcurrent(h) =>
                \/ Gone(h)
                \/ Active(identity[s]) /\ After(h, "check", identity[s], k)
           /\ MigrateLegacy(h) => Gone(h)
           /\ ProveUser(h) => Gone(h) \/ After(h, "identity", v, k)
           /\ ResolvePrincipal(h) =>
                \/ UNCHANGED <<user, identity>> /\ Gone(h)
                \/ /\ UNCHANGED <<user, identity>> /\ Active(identity[s])
                   /\ After(h, "check", identity[s], k)
                \/ \E u \in Users :
                     /\ user[u] = NoUser
                     /\ user' = [user EXCEPT ![u] = [role |-> "client", active |-> TRUE, email |-> NoEmail]]
                     /\ identity' = [identity EXCEPT ![s] = u]
                     /\ After(h, "check", u, k)
           /\ CheckUser(h) => Gone(h) \/ After(h, "session", v, k)
           /\ InsertSession(h) => After(h, "workspace", v, k) \/ After(h, "respond", v, k)
           /\ EnsureWorkspace(h) => Gone(h) \/ After(h, "respond", v, k)
           /\ Respond(h) => Gone(h)
<1> DEFINE s == callback[h].subject
           v == callback[h].user
           k == callback[h].client
<1>0. callback[h] # Idle => callback[h] \in Callback /\ (callback[h].stage # "exchange" => s \in Subjects)
  BY DEF Typed
<1>1. EndExchange(h) \/ Crash(h) \/ MigrateLegacy(h) \/ Respond(h) => Gone(h)
  BY Moves DEF EndExchange, Crash, MigrateLegacy, Respond, At
<1>2. FindIdentity(h) \/ FindConcurrent(h) =>
                \/ Gone(h)
                \/ Active(identity[s]) /\ After(h, "check", identity[s], k)
                \/ FindIdentity(h) /\ After(h, "user", v, k)
  <2> SUFFICES ASSUME FindIdentity(h) \/ FindConcurrent(h)
               PROVE  \/ Gone(h)
                      \/ Active(identity[s]) /\ After(h, "check", identity[s], k)
                      \/ FindIdentity(h) /\ After(h, "user", v, k)
    OBVIOUS
  <2>1. callback[h] # Idle /\ s \in Subjects
    BY <1>0 DEF FindIdentity, FindConcurrent, At
  <2>2. identity[s] \in Users \cup {NoUser}
    BY <2>1 DEF Typed
  <2>3. Active(identity[s]) => identity[s] \in Users
    BY <2>2 DEF Active, Known
  <2>4. \/ Leave(h)
        \/ FindIdentity(h) /\ Goto(h, "user")
        \/ Active(identity[s]) /\ callback' = [callback EXCEPT ![h].user = identity[s], ![h].stage = "check"]
    BY DEF FindIdentity, FindConcurrent
  <2> QED
    BY <2>1, <2>3, <2>4, Moves DEF Stages
<1>3. CreateUser(h) =>
        \/ UNCHANGED user /\ (Gone(h) \/ After(h, "concurrent", v, k))
        \/ \E u \in Users, email \in Emails \cup {NoEmail} :
             /\ user[u] = NoUser
             /\ user' = [user EXCEPT ![u] = [role |-> "solo", active |-> TRUE, email |-> email]]
             /\ \/ s \in Facebook /\ After(h, "client", u, k)
                \/ s \notin Facebook /\ After(h, "identity", u, k)
  <2> SUFFICES ASSUME CreateUser(h)
               PROVE  \/ UNCHANGED user /\ (Gone(h) \/ After(h, "concurrent", v, k))
                      \/ \E u \in Users, email \in Emails \cup {NoEmail} :
                           /\ user[u] = NoUser
                           /\ user' = [user EXCEPT ![u] = [role |-> "solo", active |-> TRUE, email |-> email]]
                           /\ \/ s \in Facebook /\ After(h, "client", u, k)
                              \/ s \notin Facebook /\ After(h, "identity", u, k)
    OBVIOUS
  <2>1. callback[h] # Idle
    BY DEF CreateUser, At
  <2>2. OwnEmail(h) \in Emails \cup {NoEmail}
    BY <1>0, <2>1 DEF OwnEmail, Callback
  <2>3. CASE EmailOwners(OwnEmail(h)) # {}
    BY <2>1, <2>3, Moves DEF CreateUser, Stages
  <2>4. CASE EmailOwners(OwnEmail(h)) = {}
    <3>1. PICK u \in Users :
             /\ user[u] = NoUser
             /\ user' = [user EXCEPT ![u] = [role |-> "solo", active |-> TRUE, email |-> OwnEmail(h)]]
             /\ callback' = [callback EXCEPT ![h].user = u,
                    ![h].stage = IF s \in Facebook THEN "client" ELSE "identity"]
      BY <2>4 DEF CreateUser
    <3>2. \/ s \in Facebook /\ After(h, "client", u, k)
          \/ s \notin Facebook /\ After(h, "identity", u, k)
      BY <2>1, <3>1, Moves DEF Stages
    <3> QED
      BY <2>2, <3>1, <3>2
  <2> QED
    BY <2>3, <2>4
<1>4. CreateClient(h) => \E c \in Clients : After(h, "grant", v, c) /\ workspaces' = workspaces \cup {c}
  BY Moves DEF CreateClient, At, Stages
<1>5. /\ AssignClient(h) => After(h, "identity", v, k) \/ After(h, "undo", v, k)
      /\ UndoUser(h) => After(h, "archive", v, k)
      /\ UndoClient(h) => After(h, "concurrent", v, NoClient)
      /\ ProveUser(h) => Gone(h) \/ After(h, "identity", v, k)
      /\ CheckUser(h) => Gone(h) \/ After(h, "session", v, k)
      /\ EnsureWorkspace(h) => Gone(h) \/ After(h, "respond", v, k)
  <2>1. UndoClient(h) => After(h, "concurrent", v, NoClient)
    BY Moves DEF UndoClient, At, Stages
  <2>2. EnsureWorkspace(h) => Gone(h) \/ After(h, "respond", v, k)
    BY Moves DEF EnsureWorkspace, At, Stages
  <2> QED
    BY <2>1, <2>2, Moves DEF AssignClient, UndoUser, ProveUser, CheckUser, At, Stages
<1>6. LinkIdentity(h) =>
        \/ /\ Known(v) /\ Linkable(s, v) /\ identity' = [identity EXCEPT ![s] = v]
           /\ Gone(h) \/ After(h, "check", v, k)
        \/ UNCHANGED identity /\ (Gone(h) \/ (k # NoClient /\ After(h, "undo", v, k)))
  BY Moves DEF LinkIdentity, At, Stages
<1>7. InsertSession(h) => After(h, "workspace", v, k) \/ After(h, "respond", v, k)
  BY Moves DEF InsertSession, At, Stages
<1>8. ResolvePrincipal(h) =>
                \/ UNCHANGED <<user, identity>> /\ Gone(h)
                \/ /\ UNCHANGED <<user, identity>> /\ Active(identity[s])
                   /\ After(h, "check", identity[s], k)
                \/ \E u \in Users :
                     /\ user[u] = NoUser
                     /\ user' = [user EXCEPT ![u] = [role |-> "client", active |-> TRUE, email |-> NoEmail]]
                     /\ identity' = [identity EXCEPT ![s] = u]
                     /\ After(h, "check", u, k)
  <2> SUFFICES ASSUME ResolvePrincipal(h)
               PROVE  \/ UNCHANGED <<user, identity>> /\ Gone(h)
                      \/ /\ UNCHANGED <<user, identity>> /\ Active(identity[s])
                         /\ After(h, "check", identity[s], k)
                      \/ \E u \in Users :
                           /\ user[u] = NoUser
                           /\ user' = [user EXCEPT ![u] = [role |-> "client", active |-> TRUE, email |-> NoEmail]]
                           /\ identity' = [identity EXCEPT ![s] = u]
                           /\ After(h, "check", u, k)
    OBVIOUS
  <2>1. callback[h] # Idle /\ s \in Subjects
    BY <1>0 DEF ResolvePrincipal, At
  <2>2. CASE identity[s] # NoUser
    <3>1. identity[s] \in Users
      BY <2>1, <2>2 DEF Typed
    <3> QED
      BY <2>1, <2>2, <3>1, Moves DEF ResolvePrincipal, Stages
  <2>3. CASE identity[s] = NoUser
    BY <2>1, <2>3, Moves DEF ResolvePrincipal, Stages
  <2> QED
    BY <2>2, <2>3
<1>9. FindConcurrent(h) => ~FindIdentity(h)
  BY DEF FindIdentity, FindConcurrent, At
<1> QED
  BY <1>1, <1>2, <1>3, <1>4, <1>5, <1>6, <1>7, <1>8, <1>9

-----------------------------------------------------------------------------
(* Types *)

CallbacksTyped ==
    /\ callback \in [Handlers -> Callback \cup {Idle}]
    /\ \A h \in Handlers : callback[h] # Idle =>
        /\ callback[h].stage # "exchange" => callback[h].subject \in Subjects
        /\ callback[h].stage \in Signing => callback[h].user \in Users

LEMMA AfterTyped ==
    ASSUME Nulls, Typed, NEW h \in Handlers, NEW stage, NEW u, NEW c,
           \/ Gone(h)
           \/ /\ callback[h] # Idle /\ callback[h].stage # "exchange" /\ After(h, stage, u, c)
              /\ stage \in Signing => u \in Users
    PROVE  CallbacksTyped'
  BY DEF CallbacksTyped, Typed, Gone, After

\* Starts of round trips, and what administrators do.
LEMMA OthersTyped ==
    ASSUME Nulls, Typed
    PROVE  /\ \A b \in Browsers, t \in States, intent \in Intents : Start(b, t, intent) => Typed'
           /\ \A s \in Subjects, u \in Users : MigratePrincipal(s, u) => Typed'
           /\ \A b \in Browsers : Logout(b) => Typed'
           /\ \A u \in Users : DeactivateUser(u) \/ ReactivateUser(u) => Typed'
           /\ \A c \in Clients : ArchiveWorkspace(c) => Typed'
<1> USE DEF Typed, Nulls
<1>1. ASSUME NEW b \in Browsers, NEW t \in States, NEW intent \in Intents, Start(b, t, intent)
      PROVE  Typed'
  <2>1. SignedIn(b) \in Users \cup {NoUser}
    BY DEF SignedIn, Session
  <2>2. PICK u \in Users \cup {NoUser} : Issued(b, t, intent, u)
    BY <1>1, <2>1 DEF Start
  <2>3. [intent |-> intent, initiator |-> u, used |-> FALSE] \in State
    BY DEF State
  <2> QED
    BY <1>1, <2>2, <2>3 DEF Issued, Start
<1>2. ASSUME NEW s \in Subjects, NEW u \in Users, MigratePrincipal(s, u)
      PROVE  Typed'
  BY <1>2 DEF MigratePrincipal
<1>3. ASSUME NEW b \in Browsers, Logout(b)
      PROVE  Typed'
  BY <1>3 DEF Logout
<1>4. ASSUME NEW u \in Users, DeactivateUser(u)
      PROVE  Typed'
  <2>1. user' \in [Users -> User \cup {NoUser}]
    <3>1. user[u] \in User /\ user' = [user EXCEPT ![u].active = FALSE]
      BY <1>4 DEF DeactivateUser, Active, Known
    <3> QED
      BY <3>1 DEF User
  <2>2. session' \in [Browsers -> Session \cup {NoSession}]
    <3>1. ASSUME NEW b \in Browsers
          PROVE  (IF session[b] # NoSession /\ session[b].user = u
                  THEN [session[b] EXCEPT !.revoked = TRUE] ELSE session[b]) \in Session \cup {NoSession}
      BY DEF Session
    <3> QED
      BY <1>4, <3>1, Zenon DEF DeactivateUser
  <2>3. ASSUME NEW h \in Handlers
        PROVE  /\ callback'[h] \in Callback \cup {Idle}
               /\ callback'[h] # Idle =>
                    /\ callback'[h].stage # "exchange" => callback'[h].subject \in Subjects
                    /\ callback'[h].stage \in Signing => callback'[h].user \in Users
    <3>1. CASE callback[h] # Idle /\ callback[h].user = u /\ callback[h].token = "live"
      <4>1. callback'[h] = [callback[h] EXCEPT !.token = "revoked"] /\ callback[h] \in Callback
        BY <1>4, <3>1 DEF DeactivateUser
      <4> QED
        BY <3>1, <4>1 DEF Callback
    <3>2. CASE ~(callback[h] # Idle /\ callback[h].user = u /\ callback[h].token = "live")
      <4>1. callback'[h] = callback[h]
        BY <1>4, <3>2 DEF DeactivateUser
      <4> QED
        BY <4>1
    <3> QED
      BY <3>1, <3>2
  <2>4. callback' \in [Handlers -> Callback \cup {Idle}]
    BY <1>4, <2>3, Zenon DEF DeactivateUser
  <2> QED
    BY <1>4, <2>1, <2>2, <2>3, <2>4 DEF DeactivateUser
<1>5. ASSUME NEW u \in Users, ReactivateUser(u)
      PROVE  Typed'
  <2>1. user' \in [Users -> User \cup {NoUser}]
    <3>1. user[u] \in User /\ user' = [user EXCEPT ![u].active = TRUE]
      BY <1>5 DEF ReactivateUser, Known
    <3> QED
      BY <3>1 DEF User
  <2> QED
    BY <1>5, <2>1 DEF ReactivateUser
<1>6. ASSUME NEW c \in Clients, ArchiveWorkspace(c)
      PROVE  Typed'
  BY <1>6 DEF ArchiveWorkspace
<1> QED
  BY <1>1, <1>2, <1>3, <1>4, <1>5, <1>6

\* The callback of a state, and the answer of its provider.
LEMMA RoundTripTyped ==
    ASSUME Nulls, Typed, NEW h \in Handlers
    PROVE  /\ \A b \in Browsers, t \in States : Consume(h, b, t) => Typed'
           /\ \A s \in Subjects, email \in Emails \cup {NoEmail}, verified \in BOOLEAN :
                Exchange(h, s, email, verified) =>
                    /\ Typed'
                    /\ callback'[h] \in Callback
                    /\ callback'[h].stage \in {"find", "migrate", "prove", "resolve"}
                    /\ callback'[h].user = callback[h].user
                    /\ callback'[h].client = callback[h].client
                    /\ callback'[h].state = callback[h].state
                    /\ \A g \in Handlers \ {h} : callback'[g] = callback[g]
<1> USE DEF Typed, Nulls
<1>2. ASSUME NEW b \in Browsers, NEW t \in States, Consume(h, b, t)
      PROVE  Typed'
  <2>1. state[t] \in State
    BY <1>2 DEF Consume, Claimable
  <2>2. state' \in [States -> State \cup {NoState}]
    BY <1>2, <2>1 DEF Consume, State
  <2> DEFINE r == [stage |-> "exchange", browser |-> b, state |-> t, intent |-> state[t].intent,
                 subject |-> NoSubject, email |-> NoEmail, verified |-> FALSE, user |-> state[t].initiator,
                 client |-> NoClient, token |-> "none"]
  <2>3. r \in Callback
    BY <2>1 DEF State, Callback, Stages
  <2>4. callback' = [callback EXCEPT ![h] = Idle] \/ callback' = [callback EXCEPT ![h] = r]
    BY <1>2 DEF Consume
  <2> QED
    BY <1>2, <2>2, <2>3, <2>4 DEF Consume, Signing
<1>3. ASSUME NEW s \in Subjects, NEW email \in Emails \cup {NoEmail},
             NEW verified \in BOOLEAN, Exchange(h, s, email, verified)
      PROVE  /\ Typed'
             /\ callback'[h] \in Callback
             /\ callback'[h].stage \in {"find", "migrate", "prove", "resolve"}
             /\ callback'[h].user = callback[h].user
             /\ callback'[h].client = callback[h].client
             /\ callback'[h].state = callback[h].state
             /\ \A g \in Handlers \ {h} : callback'[g] = callback[g]
  <2>1. PICK next \in {"find", "migrate", "prove", "resolve"} :
          callback' = [callback EXCEPT ![h].stage = next, ![h].subject = s,
                                       ![h].email = email, ![h].verified = verified]
    BY <1>3 DEF Exchange
  <2>2. callback[h] \in Callback
    BY <1>3 DEF Exchange, At
  <2>3. /\ callback'[h] \in Callback /\ callback'[h].subject \in Subjects
        /\ callback'[h].stage = next
        /\ callback'[h].user = callback[h].user
        /\ callback'[h].client = callback[h].client
        /\ callback'[h].state = callback[h].state
        /\ \A g \in Handlers \ {h} : callback'[g] = callback[g]
    <3>1. s \in Subjects /\ email \in Emails \cup {NoEmail} /\ verified \in BOOLEAN /\ next \in Stages
      BY DEF Stages
    <3> QED
      BY <2>1, <2>2, <3>1 DEF Callback
  <2> QED
    BY <1>3, <2>1, <2>3 DEF Exchange, Signing
<1> QED
  BY <1>2, <1>3

LEMMA HandlerTyped ==
    ASSUME Nulls, Typed, NEW h \in Handlers,
           \/ EndExchange(h) \/ FindIdentity(h) \/ CreateUser(h) \/ CreateClient(h)
           \/ AssignClient(h) \/ LinkIdentity(h) \/ UndoUser(h) \/ UndoClient(h)
           \/ FindConcurrent(h) \/ MigrateLegacy(h) \/ ProveUser(h) \/ ResolvePrincipal(h)
           \/ CheckUser(h) \/ InsertSession(h) \/ EnsureWorkspace(h) \/ Respond(h) \/ Crash(h)
    PROVE  Typed'
<1> DEFINE s == callback[h].subject
           v == callback[h].user
<1>0. callback[h] \in Callback /\ callback[h] # Idle
  BY DEF Typed, EndExchange, FindIdentity, CreateUser, CreateClient, AssignClient, LinkIdentity,
         UndoUser, UndoClient, FindConcurrent, MigrateLegacy, ProveUser, ResolvePrincipal,
         CheckUser, InsertSession, EnsureWorkspace, Respond, Crash, At
<1>1. callback[h].stage # "exchange" \/ EndExchange(h) \/ Crash(h)
  BY DEF FindIdentity, CreateUser, CreateClient, AssignClient, LinkIdentity,
         UndoUser, UndoClient, FindConcurrent, MigrateLegacy, ProveUser, ResolvePrincipal,
         CheckUser, InsertSession, EnsureWorkspace, Respond, At
<1>2. CallbacksTyped'
  <2>1. EndExchange(h) \/ Crash(h) => Gone(h)
    BY Effects
  <2>2. CASE FindIdentity(h) \/ FindConcurrent(h) \/ ResolvePrincipal(h)
    <3>1. s \in Subjects
      BY <1>0, <2>2 DEF Typed, FindIdentity, FindConcurrent, ResolvePrincipal, At
    <3>2. Active(identity[s]) => identity[s] \in Users
      BY <3>1 DEF Typed, Active, Known
    <3> QED
      BY <1>0, <1>1, <2>1, <2>2, <3>2, Effects, AfterTyped DEF Signing
  <2>3. CASE LinkIdentity(h)
    <3>1. Known(v) => v \in Users
      BY <1>0 DEF Known, Callback
    <3> QED
      BY <1>0, <1>1, <2>3, <3>1, Effects, AfterTyped DEF Signing
  <2>4. CASE CheckUser(h) \/ InsertSession(h) \/ EnsureWorkspace(h) \/ Respond(h)
    <3>1. v \in Users
      BY <1>0, <2>4 DEF Typed, CheckUser, InsertSession, EnsureWorkspace, Respond, At, Signing
    <3> QED
      BY <1>0, <1>1, <2>1, <2>4, <3>1, Effects, AfterTyped
  <2>5. CASE CreateUser(h) \/ CreateClient(h) \/ AssignClient(h) \/ UndoUser(h)
             \/ UndoClient(h) \/ MigrateLegacy(h) \/ ProveUser(h)
    BY <1>0, <1>1, <2>1, <2>5, Effects, AfterTyped DEF Signing
  <2>6. CASE EndExchange(h) \/ Crash(h)
    BY <2>1, <2>6, AfterTyped
  <2> QED
    BY <2>2, <2>3, <2>4, <2>5, <2>6
<1>3. UNCHANGED cookie \/ MigrateLegacy(h)
  BY DEF EndExchange, FindIdentity, CreateUser, CreateClient, AssignClient, LinkIdentity,
         UndoUser, UndoClient, FindConcurrent, ProveUser, ResolvePrincipal,
         CheckUser, InsertSession, EnsureWorkspace, Respond, Crash
<1> USE DEF Typed
<1>4. state' \in [States -> State \cup {NoState}] /\ cookie' \in [Browsers -> States \cup {NoState}]
  <2>1. CASE MigrateLegacy(h)
    <3>1. identity[s] \in Users \cup {NoUser} /\ callback[h].browser \in Browsers
      BY <1>0, <2>1 DEF MigrateLegacy, At, Callback
    <3>2. CASE Active(identity[s])
      <4>1. PICK t \in States : Issued(callback[h].browser, t, "primary", identity[s])
        BY <2>1, <3>2 DEF MigrateLegacy
      <4>2. [intent |-> "primary", initiator |-> identity[s], used |-> FALSE] \in State
        BY <3>1 DEF State, Intents
      <4> QED
        BY <3>1, <4>1, <4>2 DEF Issued
    <3> QED
      BY <2>1, <3>2 DEF MigrateLegacy
  <2>2. CASE ~MigrateLegacy(h)
    BY <1>3, <2>2 DEF EndExchange, FindIdentity, CreateUser, CreateClient, AssignClient, LinkIdentity,
         UndoUser, UndoClient, FindConcurrent, ProveUser, ResolvePrincipal,
         CheckUser, InsertSession, EnsureWorkspace, Respond, Crash
  <2> QED
    BY <2>1, <2>2
<1>5. session' \in [Browsers -> Session \cup {NoSession}]
  <2>1. CASE Respond(h)
    <3>1. CASE session' = session
      BY <3>1
    <3>2. v \in Users
      BY <1>0, <2>1 DEF Respond, At, Signing
    <3>3. [user |-> v, revoked |-> callback[h].token = "revoked"] \in Session
      BY <3>2 DEF Session
    <3>4. callback[h].browser \in Browsers
      BY <1>0 DEF Callback
    <3> QED
      BY <2>1, <3>1, <3>3, <3>4 DEF Respond
  <2>2. CASE UndoUser(h)
    BY <2>2 DEF UndoUser
  <2> QED
    BY <2>1, <2>2 DEF EndExchange, FindIdentity, CreateUser, CreateClient, AssignClient, LinkIdentity,
         UndoClient, FindConcurrent, MigrateLegacy, ProveUser, ResolvePrincipal,
         CheckUser, InsertSession, EnsureWorkspace, Crash
<1>6. user' \in [Users -> User \cup {NoUser}] /\ identity' \in [Subjects -> Users \cup {NoUser}]
  <2>1. CASE CreateUser(h)
    <3>1. \/ UNCHANGED user
          \/ \E u \in Users, email \in Emails \cup {NoEmail} :
               user' = [user EXCEPT ![u] = [role |-> "solo", active |-> TRUE, email |-> email]]
      BY <2>1, Effects
    <3>2. ASSUME NEW u \in Users, NEW email \in Emails \cup {NoEmail},
                 user' = [user EXCEPT ![u] = [role |-> "solo", active |-> TRUE, email |-> email]]
          PROVE  user' \in [Users -> User \cup {NoUser}]
      <4>1. [role |-> "solo", active |-> TRUE, email |-> email] \in User
        BY DEF User
      <4> QED
        BY <3>2, <4>1
    <3>3. UNCHANGED identity
      BY <2>1 DEF CreateUser
    <3> QED
      BY <3>1, <3>2, <3>3
  <2>2. CASE ResolvePrincipal(h)
    <3>1. [role |-> "client", active |-> TRUE, email |-> NoEmail] \in User
      BY DEF User
    <3>2. \/ UNCHANGED <<user, identity>>
          \/ \E u \in Users :
               /\ user' = [user EXCEPT ![u] = [role |-> "client", active |-> TRUE, email |-> NoEmail]]
               /\ identity' = [identity EXCEPT ![s] = u]
      BY <2>2, Effects
    <3>3. CASE UNCHANGED <<user, identity>>
      BY <3>3
    <3>4. ASSUME NEW u \in Users,
                 user' = [user EXCEPT ![u] = [role |-> "client", active |-> TRUE, email |-> NoEmail]],
                 identity' = [identity EXCEPT ![s] = u]
          PROVE  user' \in [Users -> User \cup {NoUser}] /\ identity' \in [Subjects -> Users \cup {NoUser}]
      BY <3>1, <3>4
    <3> QED
      BY <3>2, <3>3, <3>4
  <2>3. CASE LinkIdentity(h)
    <3>1. v \in Users \cup {NoUser}
      BY <1>0 DEF Callback
    <3> QED
      BY <2>3, <3>1 DEF LinkIdentity
  <2>4. CASE UndoUser(h)
    BY <2>4 DEF UndoUser
  <2> QED
    BY <2>1, <2>2, <2>3, <2>4 DEF EndExchange, FindIdentity, CreateClient, AssignClient,
         UndoClient, FindConcurrent, MigrateLegacy, ProveUser,
         CheckUser, InsertSession, EnsureWorkspace, Respond, Crash
<1>7. workspaces' \subseteq Clients /\ grants' \subseteq Users \X Clients
  <2>1. CASE AssignClient(h)
    <3>1. Active(v) /\ callback[h].client \in workspaces => v \in Users /\ callback[h].client \in Clients
      BY <1>0 DEF Active, Known, Callback
    <3> QED
      BY <2>1, <3>1 DEF AssignClient
  <2>2. CASE EnsureWorkspace(h)
    <3>1. v \in Users
      BY <1>0, <2>2 DEF EnsureWorkspace, At, Signing
    <3> QED
      BY <2>2, <3>1 DEF EnsureWorkspace
  <2>3. CASE CreateClient(h) \/ UndoClient(h) \/ UndoUser(h)
    BY <2>3 DEF CreateClient, UndoClient, UndoUser
  <2> QED
    BY <2>1, <2>2, <2>3 DEF EndExchange, FindIdentity, CreateUser, LinkIdentity,
         FindConcurrent, MigrateLegacy, ProveUser, ResolvePrincipal,
         CheckUser, InsertSession, Respond, Crash
<1> QED
  BY <1>2, <1>4, <1>5, <1>6, <1>7 DEF CallbacksTyped

LEMMA TypedStep == Nulls /\ Typed /\ [Next]_signInVars => Typed'
<1> SUFFICES ASSUME Nulls, Typed, [Next]_signInVars
             PROVE  Typed'
  OBVIOUS
<1>1. CASE UNCHANGED signInVars
  BY <1>1 DEF signInVars, Typed
<1>2. CASE Next
  BY <1>2, OthersTyped, RoundTripTyped, HandlerTyped DEF Next
<1> QED
  BY <1>1, <1>2

-----------------------------------------------------------------------------
(* A state serves one callback *)

\* Only consuming marks a state, and only it starts a callback.
LEMMA StatesKept ==
    ASSUME Nulls, Typed, [Next]_signInVars
    PROVE  \/ \E h \in Handlers, b \in Browsers, t \in States : Consume(h, b, t)
           \/ /\ \A t \in States : state[t] # NoState => state'[t] = state[t]
              /\ \A g \in Handlers : callback'[g] # Idle =>
                    callback[g] # Idle /\ callback'[g].state = callback[g].state
<1> DEFINE Kept == /\ \A t \in States : state[t] # NoState => state'[t] = state[t]
                   /\ \A g \in Handlers : callback'[g] # Idle =>
                         callback[g] # Idle /\ callback'[g].state = callback[g].state
<1>1. CASE UNCHANGED signInVars
  BY <1>1 DEF signInVars
<1>2. ASSUME NEW b \in Browsers, NEW t \in States, NEW u, Issued(b, t, "primary", u) \/
             (\E intent \in Intents : Issued(b, t, intent, u))
      PROVE  \A r \in States : state[r] # NoState => state'[r] = state[r]
  BY <1>2 DEF Issued, Typed
<1>3. ASSUME NEW b \in Browsers, NEW t \in States, NEW intent \in Intents, Start(b, t, intent)
      PROVE  Kept
  BY <1>2, <1>3 DEF Start
<1>4. ASSUME NEW h \in Handlers, NEW s \in Subjects, NEW email \in Emails \cup {NoEmail},
             NEW verified \in BOOLEAN, Exchange(h, s, email, verified)
      PROVE  Kept
  <2>1. callback[h] # Idle /\ UNCHANGED state
    BY <1>4 DEF Exchange, At
  <2> QED
    BY <1>4, <2>1, RoundTripTyped
<1>5. ASSUME NEW h \in Handlers,
             \/ EndExchange(h) \/ FindIdentity(h) \/ CreateUser(h) \/ CreateClient(h)
             \/ AssignClient(h) \/ LinkIdentity(h) \/ UndoUser(h) \/ UndoClient(h)
             \/ FindConcurrent(h) \/ MigrateLegacy(h) \/ ProveUser(h) \/ ResolvePrincipal(h)
             \/ CheckUser(h) \/ InsertSession(h) \/ EnsureWorkspace(h) \/ Respond(h) \/ Crash(h)
      PROVE  Kept
  <2>1. callback[h] # Idle
    BY <1>5 DEF EndExchange, FindIdentity, CreateUser, CreateClient, AssignClient, LinkIdentity,
         UndoUser, UndoClient, FindConcurrent, MigrateLegacy, ProveUser, ResolvePrincipal,
         CheckUser, InsertSession, EnsureWorkspace, Respond, Crash, At
  <2>2. Gone(h) \/ \E stage, u, c : After(h, stage, u, c)
    BY <1>5, Effects
  <2>3. \A g \in Handlers : callback'[g] # Idle =>
                         callback[g] # Idle /\ callback'[g].state = callback[g].state
    BY <2>1, <2>2 DEF Gone, After
  <2>4. CASE MigrateLegacy(h)
    <3>1. callback[h].browser \in Browsers
      BY <2>1 DEF Typed, Callback
    <3> QED
      BY <1>2, <2>3, <2>4, <3>1 DEF MigrateLegacy
  <2>5. CASE ~MigrateLegacy(h)
    BY <1>5, <2>3, <2>5 DEF EndExchange, FindIdentity, CreateUser, CreateClient, AssignClient, LinkIdentity,
         UndoUser, UndoClient, FindConcurrent, ProveUser, ResolvePrincipal,
         CheckUser, InsertSession, EnsureWorkspace, Respond, Crash
  <2> QED
    BY <2>4, <2>5
<1>6. ASSUME NEW u \in Users, DeactivateUser(u)
      PROVE  Kept
  <2>1. ASSUME NEW g \in Handlers, callback'[g] # Idle
        PROVE  callback[g] # Idle /\ callback'[g].state = callback[g].state
    <3>1. CASE callback[g] # Idle /\ callback[g].user = u /\ callback[g].token = "live"
      <4>1. callback'[g] = [callback[g] EXCEPT !.token = "revoked"] /\ callback[g] \in Callback
        BY <1>6, <3>1 DEF DeactivateUser, Typed
      <4> QED
        BY <3>1, <4>1 DEF Callback
    <3>2. CASE ~(callback[g] # Idle /\ callback[g].user = u /\ callback[g].token = "live")
      BY <1>6, <2>1, <3>2 DEF DeactivateUser
    <3> QED
      BY <3>1, <3>2
  <2> QED
    BY <1>6, <2>1 DEF DeactivateUser
<1>7. CASE \/ \E s \in Subjects, u \in Users : MigratePrincipal(s, u)
           \/ \E b \in Browsers : Logout(b)
           \/ \E u \in Users : ReactivateUser(u)
           \/ \E c \in Clients : ArchiveWorkspace(c)
  BY <1>7 DEF MigratePrincipal, Logout, ReactivateUser, ArchiveWorkspace
<1> QED
  BY <1>1, <1>3, <1>4, <1>5, <1>6, <1>7 DEF Next

LEMMA ConsumedStep == Nulls /\ Typed /\ Consumed /\ [Next]_signInVars => Consumed'
<1> SUFFICES ASSUME Nulls, Typed, Consumed, [Next]_signInVars
             PROVE  Consumed'
  OBVIOUS
<1> USE DEF Consumed, StateServesOnce
<1>0. \A g \in Handlers : callback[g] # Idle => callback[g].state \in States
  BY DEF Typed, Callback
<1>1. CASE \E h \in Handlers, b \in Browsers, t \in States : Consume(h, b, t)
  <2>1. PICK h \in Handlers, b \in Browsers, t \in States : Consume(h, b, t)
    BY <1>1
  <2>2. state[t] \in State /\ ~state[t].used /\ state' = [state EXCEPT ![t].used = TRUE]
    BY <2>1 DEF Consume, Claimable, Typed
  <2>3. \A g \in Handlers : callback[g] # Idle => callback[g].state # t
    BY <2>2
  <2>4. state'[t] # NoState /\ state'[t].used
    <3>1. [state[t] EXCEPT !.used = TRUE] \in State
      BY <2>2 DEF State
    <3> QED
      BY <2>2, <3>1 DEF Nulls, Typed, State
  <2>5. /\ callback'[h] = Idle \/ callback'[h].state = t
        /\ \A g \in Handlers \ {h} : callback'[g] = callback[g]
    BY <2>1 DEF Consume, Typed
  <2>6. \A r \in States \ {t} : state'[r] = state[r]
    BY <2>2 DEF Typed
  <2> QED
    BY <1>0, <2>3, <2>4, <2>5, <2>6
<1>2. CASE /\ \A t \in States : state[t] # NoState => state'[t] = state[t]
           /\ \A g \in Handlers : callback'[g] # Idle =>
                 callback[g] # Idle /\ callback'[g].state = callback[g].state
  BY <1>0, <1>2
<1> QED
  BY <1>1, <1>2, StatesKept

\* The round trip keeps its types, whatever the order of its callbacks.
THEOREM SignInTyped == ASSUME Nulls PROVE Spec => []TypeOK
<1>1. Typed => TypeOK
  BY DEF Typed, TypeOK, Callback
<1> QED
  BY InitTyped, TypedStep, <1>1, PTL DEF Spec

\* One state serves one callback, however often and from wherever it is called,
\* and whatever became of the callbacks before.  (consume_state)
THEOREM ServesOnce == ASSUME Nulls PROVE Spec => []StateServesOnce
<1>1. Init => Consumed
  BY DEF Init, Consumed, StateServesOnce
<1>2. Consumed => StateServesOnce
  BY DEF Consumed
<1> QED
  BY InitTyped, TypedStep, ConsumedStep, <1>1, <1>2, PTL DEF Spec

-----------------------------------------------------------------------------
(* Sessions are of the user of the identity *)

\* Users whom no provisioning may undo.
Settled(u) == Known(u) /\ \A g \in Handlers : Provisioning(g) => callback[g].user # u

\* Whoever is named by an identity, a state, a session or a callback that no
\* longer provisions is settled.
LEMMA NamedAreSettled ==
    ASSUME Nulls, Typed, SInv
    PROVE  /\ \A s \in Subjects : identity[s] # NoUser => Settled(identity[s])
           /\ \A t \in States : state[t] # NoState /\ state[t].initiator # NoUser
                                => Settled(state[t].initiator)
           /\ \A b \in Browsers : session[b] # NoSession => Settled(session[b].user)
           /\ \A h \in Handlers : Concerned(h) /\ ~Provisioning(h) /\ callback[h].user # NoUser
                                  => Settled(callback[h].user)
<1>1. ASSUME NEW h \in Handlers, Concerned(h), ~Provisioning(h), callback[h].user # NoUser
      PROVE  Settled(callback[h].user)
  <2>1. Known(callback[h].user)
    BY <1>1 DEF SInv, NoneMissing
  <2>2. ASSUME NEW g \in Handlers, Provisioning(g)
        PROVE  callback[g].user # callback[h].user
    <3>1. g # h /\ Private(g)
      BY <1>1, <2>2 DEF SInv, ProvisionedApart
    <3> QED
      BY <1>1, <3>1 DEF Private
  <2> QED
    BY <2>1, <2>2 DEF Settled
<1> QED
  BY <1>1 DEF SInv, NoneMissing, ProvisionedApart, Private, Settled

\* What a step of one callback, or of none, must keep for the invariant to hold.
Onward(h) ==
    /\ UNCHANGED <<user, identity>>
    /\ \A g \in Handlers \ {h} : callback'[g] = callback[g]
    /\ h \in Handlers /\ callback'[h] # Idle =>
        LET u == callback'[h].user
            stage == callback'[h].stage IN
        /\ stage \in Past \/ u = NoUser \/ Settled(u) \/ (Concerned(h) /\ u = callback[h].user)
        /\ Provisioning(h)' => Provisioning(h) /\ u = callback[h].user
        /\ stage \in {"exchange", "find", "user", "client", "prove"} => callback'[h].client = NoClient
        /\ stage \in Signing => identity[callback'[h].subject] = u
    /\ \A t \in States : state'[t] # NoState /\ state'[t].initiator # NoUser =>
        \/ Settled(state'[t].initiator)
        \/ state[t] # NoState /\ state'[t].initiator = state[t].initiator
    /\ \A b \in Browsers : session'[b] # NoSession =>
        \/ Settled(session'[b].user)
        \/ session[b] # NoSession /\ session'[b].user = session[b].user

LEMMA OnwardKeeps ==
    ASSUME Nulls, Typed, SInv, NEW h, Onward(h)
    PROVE  SInv'
<1> USE DEF Onward
<1>1. \A u : Known(u)' <=> Known(u)
  BY DEF Known
<1>2. \A g \in Handlers \ {h} :
        /\ Provisioning(g)' <=> Provisioning(g)
        /\ Concerned(g)' <=> Concerned(g)
  BY DEF Provisioning, Concerned
<1>3. NoneMissing'
  <2>1. ASSUME NEW g \in Handlers, Concerned(g)', callback'[g].user # NoUser
        PROVE  Known(callback'[g].user)
    BY <1>2, <2>1 DEF Concerned, Settled, SInv, NoneMissing
  <2>2. \A t \in States : state'[t] # NoState /\ state'[t].initiator # NoUser
                           => Known(state'[t].initiator)
    BY DEF Settled, SInv, NoneMissing
  <2>3. \A b \in Browsers : session'[b] # NoSession => Known(session'[b].user)
    BY DEF Settled, SInv, NoneMissing
  <2> QED
    BY <1>1, <2>1, <2>2, <2>3 DEF SInv, NoneMissing
<1>4. ProvisionedApart'
  <2> SUFFICES ASSUME NEW g \in Handlers, Provisioning(g)'
               PROVE  callback'[g].user # NoUser /\ Private(g)'
    BY DEF ProvisionedApart
  <2>1. Provisioning(g) /\ callback'[g].user = callback[g].user
    BY <1>2 DEF Provisioning
  <2> DEFINE u == callback[g].user
  <2>2. u # NoUser /\ Private(g)
    BY <2>1 DEF SInv, ProvisionedApart
  <2>3. ~Settled(u)
    BY <2>1 DEF Settled
  <2>4. \A t \in States : state'[t] # NoState => state'[t].initiator # u
    BY <2>2, <2>3 DEF Private
  <2>5. \A b \in Browsers : session'[b] # NoSession => session'[b].user # u
    BY <2>2, <2>3 DEF Private
  <2>6. ASSUME NEW o \in Handlers \ {g}, Concerned(o)'
        PROVE  callback'[o].user # u
    <3>1. CASE o # h
      BY <1>2, <2>2, <2>6, <3>1 DEF Private
    <3>2. CASE o = h
      BY <2>2, <2>3, <2>6, <3>2 DEF Private, Concerned
    <3> QED
      BY <3>1, <3>2
  <2> QED
    BY <2>1, <2>2, <2>4, <2>5, <2>6 DEF Private
<1>5. Stagewise'
  BY DEF SInv, Stagewise
<1>6. SessionOfTheIdentity'
  BY DEF SInv, SessionOfTheIdentity, Signing
<1> QED
  BY <1>3, <1>4, <1>5, <1>6 DEF SInv

\* A user who was not there before starts with one callback.
LEMMA NewcomerKeeps ==
    ASSUME Nulls, Typed, SInv, NEW h \in Handlers, NEW u \in Users, NEW r \in User,
           callback[h] # Idle, callback[h].stage \in {"user", "resolve"},
           user[u] = NoUser, user' = [user EXCEPT ![u] = r],
           UNCHANGED <<state, session>>,
           NEW stage, After(h, stage, u, callback[h].client),
           \/ UNCHANGED identity /\ stage \in {"client", "identity"}
              /\ callback[h].stage = "user"
           \/ /\ stage = "check" /\ identity[callback[h].subject] = NoUser
              /\ identity' = [identity EXCEPT ![callback[h].subject] = u]
              /\ callback[h].stage = "resolve"
    PROVE  SInv'
<1> DEFINE s == callback[h].subject
<1>0. u # NoUser /\ r # NoUser /\ s \in Subjects
  BY DEF Nulls, Typed
<1>1. \A v : Known(v)' <=> Known(v) \/ v = u
  BY <1>0 DEF Known, Typed
<1>2. ~Known(u)
  BY DEF Known
<1>3. /\ callback'[h] # Idle /\ callback'[h].user = u /\ callback'[h].stage = stage
      /\ callback'[h].subject = s /\ callback'[h].client = callback[h].client
      /\ \A g \in Handlers \ {h} : callback'[g] = callback[g]
  BY DEF After, Nulls
<1>4. \A g \in Handlers \ {h} :
        /\ Provisioning(g)' <=> Provisioning(g)
        /\ Concerned(g)' <=> Concerned(g)
  BY <1>3 DEF Provisioning, Concerned
<1>5. \A t \in Subjects : identity'[t] = identity[t]
        \/ (t = s /\ identity'[t] = u /\ identity[t] = NoUser /\ stage = "check")
  BY <1>0 DEF Typed
<1>6. NoneMissing'
  BY <1>1, <1>3, <1>4, <1>5 DEF SInv, NoneMissing, Concerned
<1>7. ProvisionedApart'
  <2>1. ASSUME NEW g \in Handlers \ {h}, Provisioning(g)'
        PROVE  callback'[g].user # NoUser /\ Private(g)'
    <3>1. Provisioning(g) /\ callback'[g].user = callback[g].user /\ Concerned(g)
      BY <1>3, <1>4, <2>1 DEF Provisioning, Concerned, Past
    <3>2. callback[g].user # NoUser /\ Private(g)
      BY <3>1 DEF SInv, ProvisionedApart
    <3>3. callback[g].user # u
      BY <1>2, <3>1, <3>2 DEF SInv, NoneMissing
    <3> QED
      BY <1>3, <1>4, <1>5, <3>1, <3>2, <3>3 DEF Private
  <2>2. Private(h)' \/ stage = "check"
    <3>1. \A t \in Subjects : identity[t] # u
      BY <1>0, <1>2 DEF SInv, NoneMissing
    <3>2. \A t \in States : state[t] # NoState => state[t].initiator # u
      BY <1>0, <1>2 DEF SInv, NoneMissing
    <3>3. \A b \in Browsers : session[b] # NoSession => session[b].user # u
      BY <1>2 DEF SInv, NoneMissing
    <3>4. \A g \in Handlers \ {h} : Concerned(g) => callback[g].user # u
      BY <1>0, <1>2 DEF SInv, NoneMissing
    <3> QED
      BY <1>3, <1>4, <1>5, <3>1, <3>2, <3>3, <3>4 DEF Private
  <2>3. stage = "check" => ~Provisioning(h)'
    BY <1>3 DEF Provisioning
  <2> QED
    BY <1>0, <1>3, <2>1, <2>2, <2>3 DEF ProvisionedApart
<1>8. Stagewise'
  <2>1. stage = "client" => callback[h].client = NoClient
    BY DEF SInv, Stagewise
  <2> QED
    BY <1>3, <2>1 DEF SInv, Stagewise
<1>9. SessionOfTheIdentity'
  <2>1. ASSUME NEW g \in Handlers, callback'[g] # Idle, callback'[g].stage \in Signing
        PROVE  identity'[callback'[g].subject] = callback'[g].user
    <3>1. CASE g = h
      BY <1>0, <1>3, <2>1, <3>1 DEF Typed, Signing
    <3>2. CASE g # h
      <4>1. /\ callback[g] # Idle /\ callback[g].stage \in Signing /\ callback'[g] = callback[g]
        BY <1>3, <2>1, <3>2
      <4>2. /\ callback[g].subject \in Subjects /\ callback[g].user \in Users
            /\ identity[callback[g].subject] = callback[g].user
        BY <4>1 DEF Typed, SInv, SessionOfTheIdentity, Signing
      <4> QED
        BY <1>5, <4>1, <4>2 DEF Nulls
    <3> QED
      BY <3>1, <3>2
  <2> QED
    BY <2>1 DEF SessionOfTheIdentity, Signing
<1> QED
  BY <1>6, <1>7, <1>8, <1>9 DEF SInv

\* Linking names the user of a callback that is not provisioning any more.
LEMMA LinkKeeps ==
    ASSUME Nulls, Typed, SInv, NEW h \in Handlers, LinkIdentity(h)
    PROVE  SInv'
<1> DEFINE s == callback[h].subject
           v == callback[h].user
<1>0. /\ callback[h] # Idle /\ callback[h].stage = "identity" /\ s \in Subjects /\ Concerned(h)
      /\ callback[h].stage \notin Past
  BY DEF LinkIdentity, At, Typed, Concerned, Past
<1>1. UNCHANGED <<user, state, session>>
  BY DEF LinkIdentity
<1>2. CASE UNCHANGED identity /\ (Gone(h) \/ (callback[h].client # NoClient /\ After(h, "undo", v, callback[h].client)))
  <2>1. callback[h].client # NoClient => Provisioning(h)
    BY <1>0 DEF Provisioning
  <2>2. Onward(h)
    BY <1>0, <1>1, <1>2, <2>1 DEF Onward, Gone, After, Signing, Past
  <2> QED
    BY <2>2, OnwardKeeps
<1>3. CASE /\ Known(v) /\ Linkable(s, v) /\ identity' = [identity EXCEPT ![s] = v]
           /\ Gone(h) \/ After(h, "check", v, callback[h].client)
  <2>1. /\ identity'[s] = v /\ \A t \in Subjects \ {s} : identity'[t] = identity[t]
        /\ v # NoUser
    BY <1>0, <1>3 DEF Typed, Known
  <2>2. /\ \A g \in Handlers \ {h} : callback'[g] = callback[g]
        /\ callback'[h] # Idle => /\ callback'[h].stage = "check" /\ callback'[h].user = v
                                  /\ callback'[h].subject = s
    BY <1>3 DEF Gone, After
  <2>3. \A u : Known(u)' <=> Known(u)
    BY <1>1 DEF Known
  <2>4. \A g \in Handlers \ {h} :
        /\ Provisioning(g)' <=> Provisioning(g)
        /\ Concerned(g)' <=> Concerned(g)
    BY <2>2 DEF Provisioning, Concerned
  <2>5. NoneMissing'
    <3>1. \A t \in Subjects : identity'[t] # NoUser => Known(identity'[t])
      BY <1>3, <2>1 DEF SInv, NoneMissing
    <3>2. ASSUME NEW g \in Handlers, Concerned(g)', callback'[g].user # NoUser
          PROVE  Known(callback'[g].user)
      BY <1>3, <2>2, <2>4, <3>2 DEF SInv, NoneMissing, Concerned
    <3> QED
      BY <1>1, <2>3, <3>1, <3>2 DEF SInv, NoneMissing
  <2>6. ~Provisioning(h)'
    BY <2>2 DEF Provisioning
  <2>7. ProvisionedApart'
    <3>1. ASSUME NEW g \in Handlers \ {h}, Provisioning(g)'
          PROVE  callback'[g].user # NoUser /\ Private(g)'
      <4>1. Provisioning(g) /\ callback'[g] = callback[g]
        BY <2>2, <2>4, <3>1
      <4>2. callback[g].user # NoUser /\ Private(g)
        BY <4>1 DEF SInv, ProvisionedApart
      <4>3. callback[g].user # v
        BY <1>0, <4>2 DEF Private
      <4>4. \A o \in Handlers \ {g} : Concerned(o)' => callback'[o].user # callback[g].user
        BY <2>2, <2>4, <4>2, <4>3 DEF Private, Concerned
      <4> QED
        BY <1>1, <2>1, <4>1, <4>2, <4>3, <4>4 DEF Private
    <3> QED
      BY <2>6, <3>1 DEF ProvisionedApart
  <2>8. Stagewise'
    BY <2>2 DEF SInv, Stagewise
  <2>9. SessionOfTheIdentity'
    <3>1. ASSUME NEW g \in Handlers, callback'[g] # Idle, callback'[g].stage \in Signing
          PROVE  identity'[callback'[g].subject] = callback'[g].user
      <4>1. CASE g = h
        BY <2>1, <2>2, <3>1, <4>1
      <4>2. CASE g # h
        <5>1. /\ callback[g] # Idle /\ callback[g].stage \in Signing /\ callback'[g] = callback[g]
          BY <2>2, <3>1, <4>2
        <5>2. /\ callback[g].subject \in Subjects /\ callback[g].user \in Users
              /\ identity[callback[g].subject] = callback[g].user
          BY <5>1 DEF Typed, SInv, SessionOfTheIdentity, Signing
        <5> QED
          BY <1>3, <2>1, <5>1, <5>2 DEF Nulls, Linkable
      <4> QED
        BY <4>1, <4>2
    <3> QED
      BY <3>1 DEF SessionOfTheIdentity, Signing
  <2> QED
    BY <2>5, <2>7, <2>8, <2>9 DEF SInv
<1> QED
  BY <1>2, <1>3, Effects

\* Undoing deletes a user whom nothing but this callback names.
LEMMA UndoKeeps ==
    ASSUME Nulls, Typed, SInv, NEW h \in Handlers, UndoUser(h)
    PROVE  SInv'
<1> DEFINE v == callback[h].user
<1>1. callback[h] # Idle /\ callback[h].stage = "undo" /\ Provisioning(h) /\ Concerned(h)
  BY DEF UndoUser, At, Provisioning, Concerned, Past
<1>2. v # NoUser /\ Private(h) /\ v \in Users
  BY <1>1 DEF SInv, ProvisionedApart, Typed, Callback
<1>3. /\ user' = [user EXCEPT ![v] = NoUser] /\ UNCHANGED state
      /\ \A s \in Subjects : identity'[s] = identity[s]
      /\ \A b \in Browsers : session'[b] = session[b]
  BY <1>2 DEF UndoUser, Private
<1>4. \A u : u # v => (Known(u)' <=> Known(u))
  BY <1>3, <1>2 DEF Known, Typed
<1>5. /\ callback'[h] # Idle /\ callback'[h].stage = "archive"
      /\ \A g \in Handlers \ {h} : callback'[g] = callback[g]
  BY Effects DEF After, Nulls
<1>6. /\ ~Concerned(h)' /\ ~Provisioning(h)'
      /\ \A g \in Handlers \ {h} : /\ Provisioning(g)' <=> Provisioning(g)
                                   /\ Concerned(g)' <=> Concerned(g)
  BY <1>5 DEF Provisioning, Concerned, Past
<1>7. NoneMissing'
  BY <1>2, <1>3, <1>4, <1>5, <1>6 DEF SInv, NoneMissing, Private
<1>8. ProvisionedApart'
  <2>1. ASSUME NEW g \in Handlers \ {h}, Provisioning(g)'
        PROVE  callback'[g].user # NoUser /\ Private(g)'
    <3>1. Provisioning(g) /\ callback'[g] = callback[g]
      BY <1>5, <1>6, <2>1
    <3>2. callback[g].user # NoUser /\ Private(g)
      BY <3>1 DEF SInv, ProvisionedApart
    <3>3. \A o \in Handlers \ {g} : Concerned(o)' => callback'[o].user # callback[g].user
      BY <1>5, <1>6, <3>2 DEF Private
    <3> QED
      BY <1>3, <3>1, <3>2, <3>3 DEF Private
  <2> QED
    BY <1>6, <2>1 DEF ProvisionedApart
<1>9. Stagewise'
  BY <1>5 DEF SInv, Stagewise
<1>10. SessionOfTheIdentity'
  <2>1. ASSUME NEW g \in Handlers, callback'[g] # Idle, callback'[g].stage \in Signing
        PROVE  identity'[callback'[g].subject] = callback'[g].user
    <3>1. g # h /\ callback'[g] = callback[g]
      BY <1>5, <2>1 DEF Signing
    <3>2. callback[g].subject \in Subjects
      BY <2>1, <3>1 DEF Typed, Signing
    <3> QED
      BY <1>3, <2>1, <3>1, <3>2 DEF SInv, SessionOfTheIdentity, Signing
  <2> QED
    BY <2>1 DEF SessionOfTheIdentity, Signing
<1> QED
  BY <1>7, <1>8, <1>9, <1>10 DEF SInv

\* Starts and ends of round trips.
LEMMA StatesOfTheSettled ==
    ASSUME Typed, NEW b \in Browsers, NEW t \in States, NEW intent, NEW u, Issued(b, t, intent, u),
           u = NoUser \/ Settled(u)
    PROVE  \A r \in States : state'[r] # NoState /\ state'[r].initiator # NoUser =>
                \/ Settled(state'[r].initiator)
                \/ state[r] # NoState /\ state'[r].initiator = state[r].initiator
  BY DEF Issued, Typed

\* No callback takes part in starting a round trip and in logging out.
LEMMA BrowsersKeep ==
    ASSUME Nulls, Typed, SInv, NEW b \in Browsers,
           Logout(b) \/ \E t \in States, intent \in Intents : Start(b, t, intent)
    PROVE  SInv'
<1>1. PICK h : TRUE
  OBVIOUS
<1>2. UNCHANGED <<user, identity, callback>>
  BY DEF Logout, Start
<1>3. h \in Handlers /\ callback'[h] # Idle =>
        LET u == callback'[h].user
            stage == callback'[h].stage IN
        /\ stage \in Past \/ u = NoUser \/ Settled(u) \/ (Concerned(h) /\ u = callback[h].user)
        /\ Provisioning(h)' => Provisioning(h) /\ u = callback[h].user
        /\ stage \in {"exchange", "find", "user", "client", "prove"} => callback'[h].client = NoClient
        /\ stage \in Signing => identity[callback'[h].subject] = u
  BY <1>2 DEF SInv, Stagewise, SessionOfTheIdentity, Signing, Concerned, Provisioning
<1>4. CASE Logout(b)
  <2>1. UNCHANGED state /\ session' = [session EXCEPT ![b] = NoSession]
    BY <1>4 DEF Logout
  <2>2. \A c \in Browsers : session'[c] # NoSession => session'[c] = session[c]
    BY <2>1 DEF Typed
  <2>3. Onward(h)
    BY <1>2, <1>3, <2>1, <2>2 DEF Onward
  <2> QED
    BY <2>3, OnwardKeeps
<1>5. ASSUME NEW t \in States, NEW intent \in Intents, Start(b, t, intent)
      PROVE  SInv'
  <2>1. SignedIn(b) = NoUser \/ Settled(SignedIn(b))
    BY NamedAreSettled DEF SignedIn
  <2>2. PICK u : Issued(b, t, intent, u) /\ (u = NoUser \/ Settled(u))
    BY <1>5, <2>1 DEF Start
  <2>3. UNCHANGED session
    BY <1>5 DEF Start
  <2>4. Onward(h)
    BY <1>2, <1>3, <2>2, <2>3, StatesOfTheSettled DEF Onward
  <2> QED
    BY <2>4, OnwardKeeps
<1> QED
  BY <1>4, <1>5

\* The callback of a state, the answer of its provider, and the legacy identity.
LEMMA RoundTripKeeps ==
    ASSUME Nulls, Typed, SInv, NEW h \in Handlers
    PROVE  /\ \A b \in Browsers, t \in States : Consume(h, b, t) => SInv'
           /\ \A s \in Subjects, email \in Emails \cup {NoEmail}, verified \in BOOLEAN :
                Exchange(h, s, email, verified) => SInv'
           /\ MigrateLegacy(h) => SInv'
<1>0. callback[h] # Idle =>
        /\ callback[h].stage \in {"exchange", "find", "user", "client", "prove"} => callback[h].client = NoClient
        /\ callback[h].stage \in Signing => identity[callback[h].subject] = callback[h].user
        /\ callback[h].stage \notin Past => Concerned(h)
  BY DEF SInv, Stagewise, SessionOfTheIdentity, Signing, Concerned
<1>4. ASSUME NEW b \in Browsers, NEW t \in States, Consume(h, b, t)
      PROVE  SInv'
  <2>1. /\ callback[h] = Idle /\ state[t] \in State
        /\ state' = [state EXCEPT ![t].used = TRUE]
        /\ UNCHANGED <<user, identity, session>>
    BY <1>4 DEF Consume, Claimable, Typed
  <2>2. \A r \in States : state'[r] # NoState => state[r] # NoState /\ state'[r].initiator = state[r].initiator
    BY <2>1 DEF Nulls, Typed, State
  <2>3. state[t].initiator = NoUser \/ Settled(state[t].initiator)
    BY <2>1, NamedAreSettled DEF Nulls
  <2>4. /\ \A g \in Handlers \ {h} : callback'[g] = callback[g]
        /\ callback'[h] # Idle =>
            /\ callback'[h].stage = "exchange"
            /\ callback'[h].user = state[t].initiator
            /\ callback'[h].client = NoClient
    BY <1>4 DEF Consume, Typed
  <2>5. Onward(h)
    BY <2>1, <2>2, <2>3, <2>4 DEF Onward, Provisioning, Signing
  <2> QED
    BY <2>5, OnwardKeeps
<1>5. ASSUME NEW s \in Subjects, NEW email \in Emails \cup {NoEmail}, NEW verified \in BOOLEAN,
             Exchange(h, s, email, verified)
      PROVE  SInv'
  <2>1. /\ callback[h] # Idle /\ callback[h].stage = "exchange"
        /\ UNCHANGED <<user, identity, state, session>>
    BY <1>5 DEF Exchange, At
  <2>2. Concerned(h)
    BY <2>1 DEF Concerned, Past
  <2>3. /\ \A g \in Handlers \ {h} : callback'[g] = callback[g]
        /\ callback'[h].stage \in {"find", "migrate", "prove", "resolve"}
        /\ callback'[h].user = callback[h].user
        /\ callback'[h].client = callback[h].client
    BY <1>5, RoundTripTyped
  <2>4. Onward(h)
    BY <1>0, <2>1, <2>2, <2>3 DEF Onward, Provisioning, Signing
  <2> QED
    BY <2>4, OnwardKeeps
<1>7. ASSUME MigrateLegacy(h)
      PROVE  SInv'
  <2>1. /\ callback[h] # Idle /\ callback[h].subject \in Subjects /\ callback[h].browser \in Browsers
        /\ UNCHANGED <<user, identity, session>>
    BY <1>7 DEF MigrateLegacy, At, Typed, Callback
  <2>2. Gone(h)
    BY <1>7, Effects
  <2> DEFINE u == identity[callback[h].subject]
  <2>3. CASE Active(u)
    <3>1. Settled(u)
      BY <2>1, <2>3, NamedAreSettled DEF Active, Known
    <3>2. PICK t \in States : Issued(callback[h].browser, t, "primary", u)
      BY <1>7, <2>3 DEF MigrateLegacy
    <3>3. Onward(h)
      BY <2>1, <2>2, <3>1, <3>2, StatesOfTheSettled DEF Onward, Gone
    <3> QED
      BY <3>3, OnwardKeeps
  <2>4. CASE ~Active(u)
    <3>1. Onward(h)
      BY <1>7, <2>1, <2>2, <2>4 DEF Onward, Gone, MigrateLegacy
    <3> QED
      BY <3>1, OnwardKeeps
  <2> QED
    BY <2>3, <2>4
<1> QED
  BY <1>4, <1>5, <1>7

\* The steps of a callback that change neither users nor identities.
LEMMA CallbackKeeps ==
    ASSUME Nulls, Typed, SInv, NEW h \in Handlers,
           \/ EndExchange(h) \/ FindIdentity(h) \/ CreateClient(h) \/ AssignClient(h)
           \/ UndoClient(h) \/ FindConcurrent(h) \/ ProveUser(h) \/ CheckUser(h)
           \/ InsertSession(h) \/ EnsureWorkspace(h) \/ Respond(h) \/ Crash(h)
    PROVE  SInv'
<1> DEFINE s == callback[h].subject
           v == callback[h].user
           k == callback[h].client
<1>0. /\ callback[h] # Idle /\ callback[h] \in Callback
      /\ UNCHANGED <<user, identity, state>>
  BY DEF Typed, EndExchange, FindIdentity, CreateClient, AssignClient, UndoClient, FindConcurrent,
         ProveUser, CheckUser, InsertSession, EnsureWorkspace, Respond, Crash, At
<1>1. /\ callback[h].stage \in {"exchange", "find", "user", "client", "prove"} => k = NoClient
      /\ callback[h].stage \in Signing => identity[s] = v /\ v \in Users
      /\ callback[h].stage \notin Past => Concerned(h)
      /\ callback[h].stage \in {"client", "grant", "undo"} => Provisioning(h)
  BY <1>0 DEF SInv, Stagewise, SessionOfTheIdentity, Signing, Concerned, Provisioning, Typed
<1>2. CASE Respond(h)
  <2>1. callback[h].stage \in Signing /\ Gone(h)
    BY <1>2, Effects DEF Respond, At, Signing
  <2>2. s \in Subjects
    BY <1>0, <2>1 DEF Typed, Signing
  <2>3. Settled(v)
    BY <1>1, <2>1, <2>2, NamedAreSettled DEF Nulls
  <2>4. callback[h].browser \in Browsers
    BY <1>0 DEF Callback
  <2>5. \A b \in Browsers : session'[b] = session[b] \/ session'[b].user = v
    BY <1>2, <2>4 DEF Respond, Typed
  <2>6. Onward(h)
    BY <1>0, <2>1, <2>3, <2>5 DEF Onward, Gone
  <2> QED
    BY <2>6, OnwardKeeps
<1>3. CASE ~Respond(h)
  <2>1. UNCHANGED session
    BY <1>3 DEF EndExchange, FindIdentity, CreateClient, AssignClient, UndoClient, FindConcurrent,
         ProveUser, CheckUser, InsertSession, EnsureWorkspace, Respond, Crash
  <2> SUFFICES Onward(h)
    BY OnwardKeeps
  <2>2. ASSUME Gone(h) PROVE Onward(h)
    BY <1>0, <2>1, <2>2 DEF Onward, Gone
  <2>3. ASSUME s \in Subjects, Active(identity[s]), After(h, "check", identity[s], k)
        PROVE  Onward(h)
    <3>1. Settled(identity[s])
      BY <2>3, NamedAreSettled DEF Active, Known
    <3> QED
      BY <1>0, <2>1, <2>3, <3>1 DEF Onward, After, Provisioning
  <2>4. ASSUME NEW stage, NEW c, After(h, stage, v, c),
               stage \in Past \/ callback[h].stage \notin Past,
               stage \in {"client", "grant", "undo"} \/ (stage = "identity" /\ c # NoClient) => Provisioning(h),
               stage \in {"exchange", "find", "user", "client", "prove"} => c = NoClient,
               stage \in Signing => callback[h].stage \in Signing
        PROVE  Onward(h)
    <3>1. Provisioning(h)' => Provisioning(h)
      BY <2>4 DEF Provisioning, After
    <3> QED
      BY <1>0, <1>1, <2>1, <2>4, <3>1 DEF Onward, After
  <2>5. CASE EndExchange(h) \/ Crash(h)
    BY <2>2, <2>5, Effects
  <2>6. CASE FindIdentity(h) \/ FindConcurrent(h)
    <3>1. s \in Subjects
      BY <1>0, <2>6 DEF FindIdentity, FindConcurrent, At, Typed
    <3>2. ASSUME FindIdentity(h), After(h, "user", v, k)
          PROVE  Onward(h)
      <4>1. callback[h].stage = "find"
        BY <3>2 DEF FindIdentity, At
      <4> QED
        BY <1>1, <2>4, <3>2, <4>1 DEF Past, Signing
    <3> QED
      BY <2>2, <2>3, <2>6, <3>1, <3>2, Effects
  <2>7. CASE CreateClient(h)
    <3>1. callback[h].stage = "client" /\ \E c \in Clients : After(h, "grant", v, c)
      BY <2>7, Effects DEF CreateClient, At
    <3> QED
      BY <1>1, <2>4, <3>1 DEF Past, Signing
  <2>8. CASE AssignClient(h)
    <3>1. callback[h].stage = "grant" /\ (After(h, "identity", v, k) \/ After(h, "undo", v, k))
      BY <2>8, Effects DEF AssignClient, At
    <3> QED
      BY <1>1, <2>4, <3>1 DEF Past, Signing
  <2>9. CASE UndoClient(h)
    <3>1. After(h, "concurrent", v, NoClient)
      BY <2>9, Effects
    <3> QED
      BY <2>4, <3>1 DEF Past, Signing
  <2>10. CASE ProveUser(h)
    <3>1. callback[h].stage = "prove" /\ (Gone(h) \/ After(h, "identity", v, k))
      BY <2>10, Effects DEF ProveUser, At
    <3> QED
      BY <1>1, <2>2, <2>4, <3>1 DEF Past, Signing
  <2>11. CASE CheckUser(h) \/ InsertSession(h) \/ EnsureWorkspace(h)
    <3>1. callback[h].stage \in Signing
      BY <2>11 DEF CheckUser, InsertSession, EnsureWorkspace, At, Signing
    <3>2. Gone(h) \/ After(h, "session", v, k) \/ After(h, "workspace", v, k) \/ After(h, "respond", v, k)
      BY <2>11, Effects
    <3> QED
      BY <2>2, <2>4, <3>1, <3>2 DEF Past, Signing
  <2> QED
    BY <1>3, <2>5, <2>6, <2>7, <2>8, <2>9, <2>10, <2>11
<1> QED
  BY <1>2, <1>3

\* Disabling and enabling a user changes nothing that is named.
LEMMA AdministratorsKeep ==
    ASSUME Nulls, Typed, SInv
    PROVE  /\ \A u \in Users : DeactivateUser(u) \/ ReactivateUser(u) => SInv'
           /\ \A c \in Clients : ArchiveWorkspace(c) => SInv'
<1> DEFINE Same ==
      /\ UNCHANGED <<identity, state>>
      /\ \A u : Known(u)' <=> Known(u)
      /\ \A b \in Browsers : session'[b] # NoSession =>
            session[b] # NoSession /\ session'[b].user = session[b].user
      /\ \A g \in Handlers :
            /\ callback'[g] = Idle <=> callback[g] = Idle
            /\ callback[g] # Idle =>
                /\ callback'[g].stage = callback[g].stage /\ callback'[g].user = callback[g].user
                /\ callback'[g].client = callback[g].client /\ callback'[g].subject = callback[g].subject
<1>1. ASSUME Same PROVE SInv'
  <2>1. \A g \in Handlers : (Concerned(g)' <=> Concerned(g)) /\ (Provisioning(g)' <=> Provisioning(g))
    BY <1>1 DEF Concerned, Provisioning
  <2>2. NoneMissing'
    BY <1>1, <2>1 DEF SInv, NoneMissing, Concerned
  <2>3. ASSUME NEW h \in Handlers, Provisioning(h)'
        PROVE  callback'[h].user # NoUser /\ Private(h)'
    <3>1. Provisioning(h) /\ callback'[h].user = callback[h].user
      BY <1>1, <2>1, <2>3 DEF Provisioning
    <3>2. callback[h].user # NoUser /\ Private(h)
      BY <3>1 DEF SInv, ProvisionedApart
    <3>3. \A g \in Handlers \ {h} : Concerned(g)' => callback'[g].user # callback[h].user
      BY <1>1, <2>1, <3>2 DEF Private, Concerned
    <3> QED
      BY <1>1, <3>1, <3>2, <3>3 DEF Private
  <2>4. Stagewise' /\ SessionOfTheIdentity'
    BY <1>1 DEF SInv, Stagewise, SessionOfTheIdentity
  <2> QED
    BY <2>2, <2>3, <2>4 DEF SInv, ProvisionedApart
<1>2. ASSUME NEW u \in Users, DeactivateUser(u)
      PROVE  Same
  <2>1. user[u] \in User /\ user' = [user EXCEPT ![u].active = FALSE]
    BY <1>2 DEF DeactivateUser, Active, Known, Typed
  <2>2. \A v : Known(v)' <=> Known(v)
    <3>1. [user[u] EXCEPT !.active = FALSE] \in User
      BY <2>1 DEF User
    <3>2. user'[u] # NoUser /\ user[u] # NoUser
      BY <2>1, <3>1 DEF Nulls, Typed
    <3> QED
      BY <2>1, <3>2 DEF Known, Typed
  <2>3. ASSUME NEW b \in Browsers, session'[b] # NoSession
        PROVE  session[b] # NoSession /\ session'[b].user = session[b].user
    <3>1. session[b] # NoSession => session[b] \in Session
      BY DEF Typed
    <3> QED
      BY <1>2, <2>3, <3>1 DEF DeactivateUser, Session
  <2>4. ASSUME NEW g \in Handlers
        PROVE  /\ callback'[g] = Idle <=> callback[g] = Idle
               /\ callback[g] # Idle =>
                /\ callback'[g].stage = callback[g].stage /\ callback'[g].user = callback[g].user
                /\ callback'[g].client = callback[g].client /\ callback'[g].subject = callback[g].subject
    <3>1. CASE callback[g] # Idle /\ callback[g].user = u /\ callback[g].token = "live"
      <4>1. callback'[g] = [callback[g] EXCEPT !.token = "revoked"] /\ callback[g] \in Callback
        BY <1>2, <3>1 DEF DeactivateUser, Typed
      <4>2. callback'[g] \in Callback
        BY <4>1 DEF Callback
      <4> QED
        BY <3>1, <4>1, <4>2 DEF Callback, Nulls
    <3>2. CASE ~(callback[g] # Idle /\ callback[g].user = u /\ callback[g].token = "live")
      BY <1>2, <3>2 DEF DeactivateUser
    <3> QED
      BY <3>1, <3>2
  <2> QED
    BY <1>2, <2>2, <2>3, <2>4 DEF DeactivateUser
<1>3. ASSUME NEW u \in Users, ReactivateUser(u)
      PROVE  Same
  <2>1. user[u] \in User /\ user' = [user EXCEPT ![u].active = TRUE]
    BY <1>3 DEF ReactivateUser, Known, Typed
  <2>2. [user[u] EXCEPT !.active = TRUE] \in User
    BY <2>1 DEF User
  <2>3. user'[u] # NoUser /\ user[u] # NoUser
    BY <2>1, <2>2 DEF Nulls, Typed
  <2>4. \A v : Known(v)' <=> Known(v)
    BY <2>1, <2>3 DEF Known, Typed
  <2> QED
    BY <1>3, <2>4 DEF ReactivateUser
<1>4. ASSUME NEW c \in Clients, ArchiveWorkspace(c)
      PROVE  Same
  BY <1>4 DEF ArchiveWorkspace, Known
<1> QED
  BY <1>1, <1>2, <1>3, <1>4

\* A manifest names users who are settled.
LEMMA MigrationKeeps ==
    ASSUME Nulls, Typed, SInv, Reviewed, NEW s \in Subjects, NEW u \in Users, MigratePrincipal(s, u)
    PROVE  SInv'
<1>1. /\ identity[s] = NoUser /\ Known(u) /\ u # NoUser
      /\ identity'[s] = u /\ \A t \in Subjects \ {s} : identity'[t] = identity[t]
      /\ UNCHANGED <<user, state, session, callback>>
  BY DEF MigratePrincipal, Active, Known, Typed
<1>2. \A g \in Handlers : Provisioning(g) => callback[g].user # u
  BY DEF Reviewed
<1>3. /\ \A v : Known(v)' <=> Known(v)
      /\ \A g \in Handlers : (Concerned(g)' <=> Concerned(g)) /\ (Provisioning(g)' <=> Provisioning(g))
  BY <1>1 DEF Known, Concerned, Provisioning
<1>4. NoneMissing'
  BY <1>1, <1>3 DEF SInv, NoneMissing
<1>5. ASSUME NEW g \in Handlers, Provisioning(g)
      PROVE  callback'[g].user # NoUser /\ Private(g)'
  <2>1. callback[g].user # NoUser /\ Private(g) /\ callback[g].user # u
    BY <1>2, <1>5 DEF SInv, ProvisionedApart
  <2> QED
    BY <1>1, <1>3, <2>1 DEF Private
<1>6. Stagewise'
  BY <1>1 DEF SInv, Stagewise
<1>7. SessionOfTheIdentity'
  <2>1. ASSUME NEW g \in Handlers, callback[g] # Idle, callback[g].stage \in Signing
        PROVE  identity'[callback[g].subject] = callback[g].user
    <3>1. /\ callback[g].subject \in Subjects /\ callback[g].user \in Users
          /\ identity[callback[g].subject] = callback[g].user
      BY <2>1 DEF Typed, SInv, SessionOfTheIdentity, Signing
    <3> QED
      BY <1>1, <3>1 DEF Nulls
  <2> QED
    BY <1>1, <2>1 DEF SessionOfTheIdentity, Signing
<1> QED
  BY <1>3, <1>4, <1>5, <1>6, <1>7 DEF SInv, ProvisionedApart

LEMMA SInvStep == Nulls /\ Typed /\ SInv /\ Reviewed /\ [Next]_signInVars => SInv'
<1> SUFFICES ASSUME Nulls, Typed, SInv, Reviewed, [Next]_signInVars
             PROVE  SInv'
  OBVIOUS
<1>1. CASE UNCHANGED signInVars
  BY <1>1 DEF signInVars, SInv, NoneMissing, ProvisionedApart, Private, Provisioning, Concerned,
              Known, Stagewise, SessionOfTheIdentity
<1>2. CASE \E b \in Browsers :
             Logout(b) \/ \E t \in States, intent \in Intents : Start(b, t, intent)
  BY <1>2, BrowsersKeep
<1>3. CASE \E h \in Handlers :
             \/ \E b \in Browsers, t \in States : Consume(h, b, t)
             \/ \E s \in Subjects, email \in Emails \cup {NoEmail}, verified \in BOOLEAN :
                    Exchange(h, s, email, verified)
             \/ MigrateLegacy(h)
  BY <1>3, RoundTripKeeps
<1>4. ASSUME NEW h \in Handlers, CreateUser(h)
      PROVE  SInv'
  <2>1. /\ callback[h] # Idle /\ callback[h].stage = "user" /\ UNCHANGED <<identity, state, session>>
    BY <1>4 DEF CreateUser, At
  <2>2. CASE UNCHANGED user /\ (Gone(h) \/ After(h, "concurrent", callback[h].user, callback[h].client))
    <3>1. Onward(h)
      BY <2>1, <2>2 DEF Onward, Gone, After, Past, Provisioning, Signing
    <3> QED
      BY <3>1, OnwardKeeps
  <2>3. ASSUME NEW u \in Users, NEW email \in Emails \cup {NoEmail},
               user[u] = NoUser,
               user' = [user EXCEPT ![u] = [role |-> "solo", active |-> TRUE, email |-> email]],
               NEW stage \in {"client", "identity"}, After(h, stage, u, callback[h].client)
        PROVE  SInv'
    <3>1. [role |-> "solo", active |-> TRUE, email |-> email] \in User
      BY DEF User
    <3> QED
      BY <2>1, <2>3, <3>1, NewcomerKeeps
  <2> QED
    BY <1>4, <2>2, <2>3, Effects
<1>5. ASSUME NEW h \in Handlers, ResolvePrincipal(h)
      PROVE  SInv'
  <2> DEFINE s == callback[h].subject
  <2>1. /\ callback[h] # Idle /\ callback[h].stage = "resolve" /\ UNCHANGED <<state, session>>
        /\ s \in Subjects
    BY <1>5 DEF ResolvePrincipal, At, Typed
  <2>2. CASE UNCHANGED <<user, identity>>
    <3>1. Gone(h) \/ (Active(identity[s]) /\ After(h, "check", identity[s], callback[h].client))
      <4>1. ASSUME NEW u \in Users, user[u] = NoUser,
                   user' = [user EXCEPT ![u] = [role |-> "client", active |-> TRUE, email |-> NoEmail]]
            PROVE  FALSE
        <5>1. [role |-> "client", active |-> TRUE, email |-> NoEmail] \in User
          BY DEF User
        <5>2. user'[u] \in User /\ user' = user
          BY <2>2, <4>1, <5>1 DEF Typed
        <5> QED
          BY <4>1, <5>2 DEF Nulls
      <4> QED
        BY <1>5, <4>1, Effects
    <3>2. Active(identity[s]) => Settled(identity[s])
      BY <2>1, NamedAreSettled DEF Active, Known
    <3>3. Onward(h)
      BY <2>1, <2>2, <3>1, <3>2 DEF Onward, Gone, After, Provisioning
    <3> QED
      BY <3>3, OnwardKeeps
  <2>3. ASSUME NEW u \in Users, user[u] = NoUser,
               user' = [user EXCEPT ![u] = [role |-> "client", active |-> TRUE, email |-> NoEmail]],
               identity' = [identity EXCEPT ![s] = u], identity[s] = NoUser,
               After(h, "check", u, callback[h].client)
        PROVE  SInv'
    <3>1. [role |-> "client", active |-> TRUE, email |-> NoEmail] \in User
      BY DEF User
    <3> QED
      BY <2>1, <2>3, <3>1, NewcomerKeeps
  <2>4. identity[s] # NoUser => UNCHANGED <<user, identity>>
    BY <1>5 DEF ResolvePrincipal
  <2> QED
    BY <1>5, <2>2, <2>3, <2>4, Effects
<1>6. CASE \E h \in Handlers : LinkIdentity(h) \/ UndoUser(h)
  BY <1>6, LinkKeeps, UndoKeeps
<1>7. CASE \E h \in Handlers :
             \/ EndExchange(h) \/ FindIdentity(h) \/ CreateClient(h) \/ AssignClient(h)
             \/ UndoClient(h) \/ FindConcurrent(h) \/ ProveUser(h) \/ CheckUser(h)
             \/ InsertSession(h) \/ EnsureWorkspace(h) \/ Respond(h) \/ Crash(h)
  BY <1>7, CallbackKeeps
<1>8. CASE \/ \E s \in Subjects, u \in Users : MigratePrincipal(s, u)
           \/ \E u \in Users : DeactivateUser(u) \/ ReactivateUser(u)
           \/ \E c \in Clients : ArchiveWorkspace(c)
  BY <1>8, MigrationKeeps, AdministratorsKeep
<1> QED
  BY <1>1, <1>2, <1>3, <1>4, <1>5, <1>6, <1>7, <1>8 DEF Next

\* Whoever signs in with a subject gets a session of the user that subject is
\* linked to, also when first sign-ins race and some are undone in between.
\* (link_identity; _auto_provision_facebook_client; AuthFacadeService)
THEOREM SessionsFollowIdentities ==
    ASSUME Nulls
    PROVE  Spec /\ [][Reviewed]_signInVars => []SessionOfTheIdentity
<1>1. Init => SInv
  <2> SUFFICES ASSUME Init PROVE SInv
    OBVIOUS
  <2>1. /\ state = [t \in States |-> NoState] /\ session = [b \in Browsers |-> NoSession]
        /\ callback = [h \in Handlers |-> Idle]
    BY DEF Init
  <2>2. \A s \in Subjects : identity[s] # NoUser => Known(identity[s])
    <3>1. CASE Legacy = {}
      BY <3>1 DEF Init
    <3>2. CASE Legacy # {}
      <4>1. PICK u \in Users :
              /\ user = [v \in Users |-> IF v = u
                                         THEN [role |-> "solo", active |-> TRUE, email |-> NoEmail]
                                         ELSE NoUser]
              /\ identity = [s \in Subjects |-> IF s \in Legacy THEN u ELSE NoUser]
        BY <3>2 DEF Init
      <4>2. [role |-> "solo", active |-> TRUE, email |-> NoEmail] \in User
        BY DEF User
      <4>3. Known(u)
        BY <4>1, <4>2 DEF Known, Nulls
      <4> QED
        BY <4>1, <4>3
    <3> QED
      BY <3>1, <3>2
  <2> QED
    BY <2>1, <2>2 DEF SInv, NoneMissing, ProvisionedApart, Provisioning, Concerned, Stagewise,
                      SessionOfTheIdentity
<1>2. Typed /\ SInv /\ [Next]_signInVars /\ [Reviewed]_signInVars => SInv'
  <2>1. CASE UNCHANGED signInVars
    BY <2>1 DEF signInVars, SInv, NoneMissing, ProvisionedApart, Private, Provisioning, Concerned,
                Known, Stagewise, SessionOfTheIdentity
  <2> QED
    BY <2>1, SInvStep
<1>3. SInv => SessionOfTheIdentity
  BY DEF SInv
<1> QED
  BY InitTyped, TypedStep, <1>1, <1>2, <1>3, PTL DEF Spec

\* While the migration of legacy identities is on, Facebook provisions nobody: who has no
\* identity there yet is told to migrate.  (main.py, auth_oauth_callback)
NoneProvisions ==
    \A h \in Handlers : callback[h] # Idle =>
        /\ callback[h].client = NoClient
        /\ callback[h].stage \notin {"client", "grant", "undo", "archive"}
        /\ callback[h].stage = "user" => callback[h].subject \notin Facebook

LEMMA MigrationProvisionsNone ==
    ASSUME Nulls, MigrationOn, Typed, NoneProvisions, [Next]_signInVars
    PROVE  NoneProvisions'
<1> USE DEF NoneProvisions
<1>1. ASSUME NEW h \in Handlers,
             \A g \in Handlers \ {h} : callback'[g] = callback[g],
             callback'[h] = Idle \/ /\ callback'[h].client = NoClient
                                    /\ callback'[h].stage \notin {"client", "grant", "undo", "archive", "user"}
      PROVE  NoneProvisions'
  BY <1>1
<1>2. ASSUME NEW h \in Handlers, NEW b \in Browsers, NEW t \in States, Consume(h, b, t)
      PROVE  NoneProvisions'
  <2>1. /\ \A g \in Handlers \ {h} : callback'[g] = callback[g]
        /\ \/ callback'[h] = Idle
           \/ callback'[h].client = NoClient /\ callback'[h].stage = "exchange"
    BY <1>2 DEF Consume, Typed
  <2> QED
    BY <2>1, <1>1
<1>3. ASSUME NEW h \in Handlers, NEW s \in Subjects, NEW email, NEW verified,
             Exchange(h, s, email, verified)
      PROVE  NoneProvisions'
  <2>0. callback[h] # Idle /\ callback[h] \in Callback
    BY <1>3 DEF Exchange, At, Typed
  <2>1. PICK next \in {"find", "migrate", "prove", "resolve", "none"} :
          callback' = [callback EXCEPT ![h].stage = next, ![h].subject = s,
                                       ![h].email = email, ![h].verified = verified]
    BY <1>3 DEF Exchange
  <2>2. /\ \A g \in Handlers \ {h} : callback'[g] = callback[g]
        /\ callback'[h].client = callback[h].client /\ callback'[h].stage = next
    BY <2>0, <2>1 DEF Typed, Callback
  <2> QED
    BY <2>0, <2>2, <1>1
<1>4. ASSUME NEW h \in Handlers, FindIdentity(h)
      PROVE  NoneProvisions'
  <2>0. callback[h] # Idle
    BY <1>4 DEF FindIdentity, At
  <2>1. CASE Goto(h, "user")
    <3>1. callback[h].subject \notin Facebook
      <4>1. identity[callback[h].subject] = NoUser
        <5>1. callback' # [callback EXCEPT ![h].user = identity[callback[h].subject], ![h].stage = "check"]
          <6>1. After(h, "user", callback[h].user, callback[h].client)
            BY <2>0, <2>1, Moves DEF Stages
          <6>2. callback'[h].stage = "user"
            BY <6>1 DEF After
          <6>3. callback[h] \in Callback
            BY <2>0 DEF Typed
          <6>4. [callback EXCEPT ![h].user = identity[callback[h].subject],
                                 ![h].stage = "check"][h].stage = "check"
            BY <6>3 DEF Typed, Callback
          <6> QED
            BY <6>2, <6>4
        <5>2. ~Leave(h)
          <6>1. After(h, "user", callback[h].user, callback[h].client)
            BY <2>0, <2>1, Moves DEF Stages
          <6> QED
            BY <6>1, Moves, <2>0 DEF After, Gone, Nulls
        <5> QED
          BY <1>4, <5>1, <5>2 DEF FindIdentity
      <4>2. ~Leave(h)
        <5>1. After(h, "user", callback[h].user, callback[h].client)
          BY <2>0, <2>1, Moves DEF Stages
        <5> QED
          BY <5>1, Moves, <2>0 DEF After, Gone, Nulls
      <4> QED
        BY <1>4, <4>1, <4>2, MigrationOn DEF FindIdentity
    <3>2. After(h, "user", callback[h].user, callback[h].client)
      BY <2>0, <2>1, Moves DEF Stages
    <3> QED
      BY <2>0, <3>1, <3>2 DEF After
  <2>2. CASE ~Goto(h, "user")
    <3>1. Leave(h) \/ callback' = [callback EXCEPT ![h].user = identity[callback[h].subject],
                                                   ![h].stage = "check"]
      BY <1>4, <2>2 DEF FindIdentity
    <3>2. CASE Leave(h)
      BY <2>0, <3>2, Moves, <1>1 DEF Gone
    <3>3. CASE callback' = [callback EXCEPT ![h].user = identity[callback[h].subject],
                                            ![h].stage = "check"]
      <4>1. callback[h] \in Callback
        BY <2>0 DEF Typed
      <4>2. /\ \A g \in Handlers \ {h} : callback'[g] = callback[g]
            /\ callback'[h].client = callback[h].client /\ callback'[h].stage = "check"
        BY <3>3, <4>1 DEF Typed, Callback
      <4> QED
        BY <2>0, <4>2, <1>1
    <3> QED
      BY <3>1, <3>2, <3>3
  <2> QED
    BY <2>1, <2>2
<1>5. ASSUME NEW h \in Handlers, CreateUser(h)
      PROVE  NoneProvisions'
  <2>1. callback[h] # Idle /\ callback[h].stage = "user"
    BY <1>5 DEF CreateUser, At
  <2>2. \/ Gone(h)
        \/ \E u \in Users \cup {callback[h].user} : \/ After(h, "concurrent", u, callback[h].client)
                                  \/ After(h, "identity", u, callback[h].client)
    BY <1>5, <2>1, Effects
  <2> QED
    BY <2>1, <2>2, <1>1 DEF Gone, After
<1>6. ASSUME NEW h \in Handlers,
             CreateClient(h) \/ AssignClient(h) \/ UndoUser(h) \/ UndoClient(h)
      PROVE  NoneProvisions'
  BY <1>6 DEF CreateClient, AssignClient, UndoUser, UndoClient, At
<1>7. ASSUME NEW h \in Handlers,
             \/ EndExchange(h) \/ LinkIdentity(h) \/ FindConcurrent(h) \/ MigrateLegacy(h)
             \/ ProveUser(h) \/ ResolvePrincipal(h) \/ CheckUser(h) \/ InsertSession(h)
             \/ EnsureWorkspace(h) \/ Respond(h) \/ Crash(h)
      PROVE  NoneProvisions'
  <2>1. callback[h] # Idle
    BY <1>7 DEF EndExchange, LinkIdentity, FindConcurrent, MigrateLegacy, ProveUser, ResolvePrincipal,
                CheckUser, InsertSession, EnsureWorkspace, Respond, Crash, At
  <2>2. \/ Gone(h)
        \/ \E stage \in {"identity", "check", "session", "workspace", "respond"} :
              \E u : After(h, stage, u, NoClient)
    BY <1>7, <2>1, Effects
  <2> QED
    BY <2>2, <1>1 DEF Gone, After
<1>8. CASE \/ \E b \in Browsers, t \in States, intent \in Intents : Start(b, t, intent)
           \/ \E s \in Subjects, u \in Users : MigratePrincipal(s, u)
           \/ \E b \in Browsers : Logout(b)
           \/ \E u \in Users : ReactivateUser(u)
           \/ \E c \in Clients : ArchiveWorkspace(c)
           \/ UNCHANGED signInVars
  <2>1. UNCHANGED callback
    BY <1>8 DEF Start, MigratePrincipal, Logout, ReactivateUser, ArchiveWorkspace, signInVars
  <2> QED
    BY <2>1
<1>9. ASSUME NEW u \in Users, DeactivateUser(u)
      PROVE  NoneProvisions'
  <2>1. ASSUME NEW h \in Handlers, callback'[h] # Idle
        PROVE  /\ callback[h] # Idle /\ callback'[h].client = callback[h].client
               /\ callback'[h].stage = callback[h].stage /\ callback'[h].subject = callback[h].subject
    <3>1. callback[h] # Idle => callback[h] \in Callback
      BY DEF Typed
    <3>2. callback'[h] = IF callback[h] # Idle /\ callback[h].user = u /\ callback[h].token = "live"
                         THEN [callback[h] EXCEPT !.token = "revoked"] ELSE callback[h]
      BY <1>9 DEF DeactivateUser
    <3> QED
      BY <2>1, <3>1, <3>2 DEF Callback
  <2> QED
    BY <2>1
<1> QED
  BY <1>2, <1>3, <1>4, <1>5, <1>6, <1>7, <1>8, <1>9 DEF Next

\* The same for any manifest, where no principals of Envidicy are migrated, or while the
\* migration of legacy identities is on: then no sign-in is undone.
\* (link_identity; main.py, auth_oauth_callback; envidicy_migration.py, run)
THEOREM SessionsFollowUnreviewed ==
    ASSUME Nulls, Envidicy = {} \/ MigrationOn
    PROVE  Spec => []SessionOfTheIdentity
<1>1. CASE Envidicy = {}
  <2>1. [Next]_signInVars => [Reviewed]_signInVars
    BY <1>1 DEF Reviewed, MigratePrincipal
  <2> QED
    BY <2>1, SessionsFollowIdentities, PTL DEF Spec
<1>2. CASE MigrationOn
  <2>1. Init => NoneProvisions
    BY DEF Init, NoneProvisions
  <2>2. Typed /\ NoneProvisions /\ [Next]_signInVars => NoneProvisions'
    BY <1>2, MigrationProvisionsNone
  <2>3. NoneProvisions => [Reviewed]_signInVars
    BY DEF NoneProvisions, Reviewed, Provisioning
  <2> QED
    BY <2>1, <2>2, <2>3, InitTyped, TypedStep, SessionsFollowIdentities, PTL DEF Spec
<1> QED
  BY <1>1, <1>2

-----------------------------------------------------------------------------
(* Workspaces *)

\* An owner never gets a second workspace, however sign-ins race and whether or
\* not the first one was archived.  (_ensure_solo_client_workspace, assign_client_access)
THEOREM OneEach == Spec => []OneWorkspaceEach
<1> DEFINE Single == \A u, c, d : <<u, c>> \in grants /\ <<u, d>> \in grants
                        /\ u \in Users /\ c \in Clients /\ d \in Clients => c = d
<1>1. Init => Single
  BY DEF Init
<1>2. Single /\ [Next]_signInVars => Single'
  <2> SUFFICES ASSUME Single, [Next]_signInVars
               PROVE  Single'
    OBVIOUS
  <2>1. CASE UNCHANGED grants
    BY <2>1
  <2>2. ASSUME NEW h \in Handlers, AssignClient(h)
        PROVE  Single'
    BY <2>2 DEF AssignClient, ClientsOf
  <2>3. ASSUME NEW h \in Handlers, EnsureWorkspace(h)
        PROVE  Single'
    BY <2>3 DEF EnsureWorkspace, NeedsWorkspace, ClientsOf
  <2>4. ASSUME NEW h \in Handlers, UndoUser(h)
        PROVE  Single'
    BY <2>4 DEF UndoUser
  <2>5. \/ UNCHANGED grants
        \/ \E h \in Handlers : AssignClient(h) \/ EnsureWorkspace(h) \/ UndoUser(h)
    <3>1. CASE \E h \in Handlers :
           \/ EndExchange(h) \/ FindIdentity(h) \/ CreateUser(h) \/ CreateClient(h)
           \/ LinkIdentity(h) \/ UndoClient(h) \/ FindConcurrent(h) \/ MigrateLegacy(h)
           \/ ProveUser(h) \/ ResolvePrincipal(h) \/ CheckUser(h) \/ InsertSession(h)
           \/ Respond(h) \/ Crash(h)
      BY <3>1 DEF EndExchange, FindIdentity, CreateUser, CreateClient, LinkIdentity, UndoClient,
           FindConcurrent, MigrateLegacy, ProveUser, ResolvePrincipal, CheckUser, InsertSession,
           Respond, Crash
    <3>2. CASE \/ \E b \in Browsers, t \in States, intent \in Intents : Start(b, t, intent)
               \/ \E h \in Handlers, b \in Browsers, t \in States : Consume(h, b, t)
      BY <3>2 DEF Start, Consume
    <3>4. ASSUME NEW h \in Handlers, NEW s \in Subjects, NEW email, NEW verified,
                 Exchange(h, s, email, verified)
          PROVE  UNCHANGED grants
      BY <3>4 DEF Exchange
    <3>3. CASE \/ \E s \in Subjects, u \in Users : MigratePrincipal(s, u)
               \/ \E b \in Browsers : Logout(b)
               \/ \E u \in Users : DeactivateUser(u) \/ ReactivateUser(u)
               \/ \E c \in Clients : ArchiveWorkspace(c)
               \/ UNCHANGED signInVars
      BY <3>3 DEF MigratePrincipal, Logout, DeactivateUser, ReactivateUser, ArchiveWorkspace, signInVars
    <3> QED
      BY <3>1, <3>2, <3>3, <3>4 DEF Next
  <2> QED
    BY <2>1, <2>2, <2>3, <2>4, <2>5
<1>3. Single => OneWorkspaceEach
  <2> SUFFICES ASSUME Single, NEW u \in Users
               PROVE  Cardinality(ClientsOf(u)) <= 1
    BY DEF OneWorkspaceEach
  <2>1. CASE ClientsOf(u) = {}
    BY <2>1, FS_EmptySet
  <2>2. CASE ClientsOf(u) # {}
    <3>1. PICK c \in ClientsOf(u) : TRUE
      BY <2>2
    <3>2. ClientsOf(u) = {c}
      BY <3>1 DEF ClientsOf
    <3>3. Cardinality({c}) = 1
      BY FS_Singleton
    <3> QED
      BY <3>2, <3>3
  <2> QED
    BY <2>1, <2>2
<1> QED
  BY <1>1, <1>2, <1>3, PTL DEF Spec
=============================================================================
