----------------------------- MODULE MCServices -----------------------------
(***************************************************************************)
(* The components that share no state, explored one at a time: the initial *)
(* state chooses which one runs, and the variables of the others are Idle. *)
(* No property looks at two of them.  The names of the model values are    *)
(* shared by the components, so that one symmetry serves them all: h for   *)
(* whatever handles a call, x for accounts, browsers and invites, u for    *)
(* users, t for states of sign-ins.  (Symmetry over u and t as well would  *)
(* cost more than it saves: every permutation is tried in every state.)    *)
(*                                                                         *)
(* The instances are of the modules with the proofs, so that the theorems  *)
(* about a component hold of what is checked here (ServicesProofs).        *)
(***************************************************************************)
EXTENDS Integers, FiniteSets, TLC

CONSTANTS
    h1, h2, h3, v1, c1, c2, c3, x1, x2, x3, u1, u2, t1, t2, t3,
    i1, k1, g1, d1, s1, f1, l1, o1, e1,
    Platform, NoAccount, NoRow, NoCred, NoBinding, NoOne, NoJob,
    NoUser, NoClient, NoSubject, NoState, NoEmail, NoSession, NoInvite, NoKey, Keep, Idle

VARIABLES
    focus,
    clientLive, account, acctBudget, scope, pending, listed,
    now, lease, job, meta, eligible, ingested, run,
    cred, issued, patching, binding, credAccount, clients, holding, keyring, rotation,
    discovery, sync,
    user, workspaces, grants, identity, state, cookie, session, callback,
    live, invite, invitee, access, accept, welcomed,
    held, role, rank, boundCred, shaky, request,
    statClient, statAccount, stat, replay, accepted, newest

conflictVars == <<clientLive, account, acctBudget, scope, pending, listed>>
syncVars     == <<now, lease, job, meta, eligible, ingested, run>>
credVars     ==
    <<cred, issued, patching, binding, credAccount, clients, holding, keyring, rotation,
      discovery, sync>>
signInVars   == <<user, workspaces, grants, identity, state, cookie, session, callback>>
inviteVars   == <<live, invite, invitee, access, accept, welcomed>>
gateVars     == <<held, role, rank, boundCred, shaky, request>>
statVars     == <<statClient, statAccount, stat, replay, accepted, newest>>

vars ==
    <<focus, conflictVars, syncVars, credVars, signInVars, inviteVars, gateVars, statVars>>

-----------------------------------------------------------------------------
(* The constants of the components of AccountProofs, where an instance says nothing else. *)

Clients    == {c1, c2}
Accounts   == {x1, x2}
Identities == {i1}
Dressed    == {"dressed"}
Foreign    == {"foreign"}
Canonical  == "canonical"
Writers    == {}
Reviewers  == {}

Runners    == {h1, h2}
Requested  == {0}
LeaseTtl   == 1
StaleAfter == 1
MaxDelay   == 2
Overlap    == 1
Lookback   == 2
LastTick   == 2
MaxRows    == 0
MaxAttempt == 2
Errors     == {}

Platforms       == {f1}
Externals       == {e1, i1}
Days            == {1, 2, 3}
StatsStaleAfter == 1
Uploads         == {}
Patched         == {}

Together == {{"role", "cred"}, {"role", "rank"}}
MaxGrant == 2

\* Two writers race.
Racing == INSTANCE AccountProofs WITH Writers <- {h1, h2}

\* One writer and a reviewer.
Reviewing == INSTANCE AccountProofs WITH Writers <- {h3}, Reviewers <- {v1}

\* Leases and retries of two runs; what they fetch is empty.
Leasing == INSTANCE AccountProofs WITH Accounts <- {x3}, Errors <- BOOLEAN

\* What two runs store and claim, over fewer days.
Storing == INSTANCE AccountProofs WITH Accounts <- {x3}, Requested <- {0, 2}, MaxRows <- 1

\* A budget change, while a fact it needs, or what the actor is and one such fact,
\* come and go.
Changing == INSTANCE AccountProofs

\* Uploads with a key, its reuse for other rows, uploads without one, and an account whose
\* platform is changed.
Uploading == INSTANCE AccountProofs WITH
    Clients <- {c3}, Accounts <- {x3}, Platforms <- {f1, o1}, Externals <- {e1}, Days <- {1, 2},
    Patched <- {x3},
    Uploads <- {[key |-> k1, rows |-> <<x3, 1, f1>> :> 1],
                [key |-> k1, rows |-> <<x3, 1, f1>> :> 2],
                [key |-> s1, rows |-> <<x3, 1, f1>> :> 3 @@ <<x3, 2, f1>> :> 1],
                [key |-> NoKey, rows |-> <<x3, 1, f1>> :> 2 @@ <<x3, 2, f1>> :> 2],
                [key |-> NoKey, rows |-> <<x3, 2, o1>> :> 1],
                [key |-> NoKey, rows |-> <<x3, 2, f1>> :> 1 @@ <<d1, 2, f1>> :> 1]}

\* Reports on two accounts, which may be one advertising account, of two clients.
Reporting == INSTANCE AccountProofs WITH
    Patched <- {x1, x2, c1, c2},
    Uploads <- {[key |-> NoKey, rows |-> <<a, d, f1>> :> 1] : a \in {x1, x2}, d \in {1, 2}}

\* Two rows, their owners and keys, and a patch, without accounts.
Keys == INSTANCE CredentialsProofs WITH
    Rows <- {x1, x2}, Clients <- {}, Agencies <- {g1}, Accounts <- {}, Patches <- {h1},
    Discoveries <- {}, Syncs <- {}, LastKey <- 2, account <- credAccount

\* Two patches of a row that overlap.
Owners == INSTANCE CredentialsProofs WITH
    Rows <- {k1}, Clients <- {}, Agencies <- {g1}, Accounts <- {}, Patches <- {h1, h2},
    Discoveries <- {}, Syncs <- {}, LastKey <- 1, account <- credAccount

\* A discovery while its credential is switched, patched and replaced.
Switched == INSTANCE CredentialsProofs WITH
    Rows <- {k1}, Clients <- {c3}, Agencies <- {}, Accounts <- {x3}, Patches <- {h1},
    Discoveries <- {d1}, Syncs <- {}, LastKey <- 1, account <- credAccount

\* A discovery for a client that an agency has.
AgencyBindings == INSTANCE CredentialsProofs WITH
    Rows <- {k1}, Clients <- {c3}, Agencies <- {g1}, Accounts <- {x3}, Patches <- {},
    Discoveries <- {d1}, Syncs <- {}, LastKey <- 1, account <- credAccount

\* A discovery of an account that moves between two clients.
Bindings == INSTANCE CredentialsProofs WITH
    Rows <- {k1}, Agencies <- {}, Accounts <- {x3}, Patches <- {}, Discoveries <- {d1},
    Syncs <- {}, LastKey <- 1, account <- credAccount

\* A synchronization of such an account.
WriteBacks == INSTANCE CredentialsProofs WITH
    Rows <- {k1}, Agencies <- {}, Accounts <- {x3}, Patches <- {}, Discoveries <- {},
    Syncs <- {s1}, MaxGrant <- 1, LastKey <- 1, account <- credAccount

\* First sign-ins through two providers.
FirstSignIns == INSTANCE SignInProofs WITH
    Handlers <- {h1, h2}, Browsers <- {x1, x2}, Users <- {u1, u2},
    States <- {t1, t2}, Facebook <- {f1}, Legacy <- {}, Google <- {o1}, Envidicy <- {},
    Emails <- {e1}, MigrationOn <- FALSE

\* A legacy identity that is migrated, and Envidicy ID.
Migrations == INSTANCE SignInProofs WITH
    Handlers <- {h1, h2}, Browsers <- {x3}, Users <- {u1, u2}, Clients <- {c3},
    States <- {t1, t2, t3}, Facebook <- {f1}, Legacy <- {l1}, Google <- {}, Envidicy <- {i1},
    Emails <- {}, MigrationOn <- TRUE

\* Two calls accept invites to one client.
Invitations == INSTANCE ClientInvitesProofs WITH
    Handlers <- {h1, h2}, Clients <- {c3}, Emails <- {e1}, Invites <- {x1, x2},
    user <- invitee

\* The model values are none of the records and pairs the components work with.
ASSUME ValueAssumption ==
    /\ Racing!ConflictNulls /\ Reviewing!ConflictNulls
    /\ Leasing!SyncBounds /\ Leasing!SyncNulls /\ Storing!SyncBounds /\ Storing!SyncNulls
    /\ Uploading!StatNulls /\ Reporting!StatNulls
    /\ Keys!Values /\ Owners!Values /\ Switched!Values
    /\ AgencyBindings!Values /\ Bindings!Values /\ WriteBacks!Values
    /\ FirstSignIns!Nulls /\ Migrations!Nulls /\ Invitations!Nulls

-----------------------------------------------------------------------------
NoConflicts ==
    /\ clientLive = Idle /\ account = Idle /\ acctBudget = Idle
    /\ scope = Idle /\ pending = Idle /\ listed = Idle
NoSync ==
    /\ now = Idle /\ lease = Idle /\ job = Idle /\ meta = Idle
    /\ eligible = Idle /\ ingested = Idle /\ run = Idle
NoCredentials ==
    /\ cred = Idle /\ issued = Idle /\ patching = Idle /\ binding = Idle
    /\ credAccount = Idle /\ clients = Idle /\ holding = Idle
    /\ keyring = Idle /\ rotation = Idle /\ discovery = Idle /\ sync = Idle
NoSignIn ==
    /\ user = Idle /\ workspaces = Idle /\ grants = Idle /\ identity = Idle
    /\ state = Idle /\ cookie = Idle /\ session = Idle /\ callback = Idle
NoInvites ==
    /\ live = Idle /\ invite = Idle /\ invitee = Idle
    /\ access = Idle /\ accept = Idle /\ welcomed = Idle
NoGate ==
    /\ held = Idle /\ role = Idle /\ rank = Idle
    /\ boundCred = Idle /\ shaky = Idle /\ request = Idle
NoStats ==
    /\ statClient = Idle /\ statAccount = Idle /\ stat = Idle
    /\ replay = Idle /\ accepted = Idle /\ newest = Idle

Init ==
    \/ /\ NoSync /\ NoCredentials /\ NoSignIn /\ NoInvites /\ NoGate /\ NoStats
       /\ \/ focus = "assignments" /\ Racing!Conflicts!Init
          \/ focus = "conflicts" /\ Reviewing!Conflicts!Init
    \/ /\ NoConflicts /\ NoCredentials /\ NoSignIn /\ NoInvites /\ NoGate /\ NoStats
       /\ focus \in {"leases", "data"} /\ Leasing!Sync!Init
    \/ /\ NoConflicts /\ NoSync /\ NoSignIn /\ NoInvites /\ NoGate /\ NoStats
       /\ \/ focus = "keys" /\ Keys!Init
          \/ focus = "owners" /\ Owners!Init
          \/ focus = "switched" /\ Switched!Init /\ cred[k1].key = 1
          \/ focus = "agency" /\ AgencyBindings!Init /\ cred[k1].key = 1
          \/ focus = "bindings" /\ Bindings!Init /\ cred[k1].key = 1
          \/ focus = "writebacks" /\ WriteBacks!Init /\ cred[k1].key = 1
    \/ /\ NoConflicts /\ NoSync /\ NoCredentials /\ NoInvites /\ NoGate /\ NoStats
       /\ \/ focus = "signin" /\ FirstSignIns!Init
          \/ focus = "migration" /\ Migrations!Init
    \/ /\ NoConflicts /\ NoSync /\ NoCredentials /\ NoSignIn /\ NoGate /\ NoStats
       /\ focus = "invites" /\ Invitations!Init
    \/ /\ NoConflicts /\ NoSync /\ NoCredentials /\ NoSignIn /\ NoInvites /\ NoStats
       /\ focus = "gate" /\ Changing!Gate!Init
    \/ /\ NoConflicts /\ NoSync /\ NoCredentials /\ NoSignIn /\ NoInvites /\ NoGate
       /\ \/ focus = "uploads" /\ Uploading!Stats!Init
          \/ focus = "reports" /\ Reporting!Stats!Init

\* States of sign-ins are as good as one another: a sign-in takes the first unused one.
InTurn(s, t) == state'[t] # NoState => state'[s] # NoState

Next ==
    \/ /\ \/ focus = "assignments" /\ Racing!Conflicts!Next /\ UNCHANGED acctBudget
          \/ focus = "conflicts" /\ Reviewing!Conflicts!Next /\ scope'[v1] \in {{}, {c1, c2}}
       /\ UNCHANGED <<focus, syncVars, credVars, signInVars, inviteVars, gateVars, statVars>>
    \/ /\ \/ focus = "leases" /\ Leasing!Sync!Next /\ UNCHANGED eligible
          \/ focus = "data" /\ Storing!Sync!Next /\ (eligible' = eligible \/ now = 1)
             /\ \A r \in {h1, h2} : run'[r] # Idle => ~run'[r].force
       /\ UNCHANGED <<focus, conflictVars, credVars, signInVars, inviteVars, gateVars, statVars>>
    \/ /\ \/ focus = "keys" /\ Keys!Next
          \/ focus = "owners" /\ Owners!Next
          \/ focus = "switched" /\ Switched!Next
          \/ focus = "agency" /\ AgencyBindings!Next
          \/ focus = "bindings" /\ Bindings!Next
          \/ focus = "writebacks" /\ WriteBacks!Next
       /\ UNCHANGED <<focus, conflictVars, syncVars, signInVars, inviteVars, gateVars, statVars>>
    \/ /\ \/ focus = "signin" /\ FirstSignIns!Next /\ InTurn(t1, t2)
          \/ focus = "migration" /\ Migrations!Next /\ InTurn(t1, t2) /\ InTurn(t2, t3)
       /\ UNCHANGED <<focus, conflictVars, syncVars, credVars, inviteVars, gateVars, statVars>>
    \/ /\ focus = "invites" /\ Invitations!Next
       /\ UNCHANGED <<focus, conflictVars, syncVars, credVars, signInVars, gateVars, statVars>>
    \/ /\ focus = "gate" /\ Changing!Gate!Next
       /\ UNCHANGED <<focus, conflictVars, syncVars, credVars, signInVars, inviteVars, statVars>>
    \/ /\ \/ focus = "uploads" /\ Uploading!Stats!Next
          \/ focus = "reports" /\ Reporting!Stats!Next
       /\ UNCHANGED <<focus, conflictVars, syncVars, credVars, signInVars, inviteVars, gateVars>>

Spec == Init /\ [][Next]_vars

Symmetry ==
    Permutations({h1, h2}) \cup Permutations({c1, c2}) \cup Permutations({x1, x2})

-----------------------------------------------------------------------------
(* The properties of the components, each where it has something to say. *)

\* No call makes two active rows of two clients that a trigger reads as one advertising
\* account (ad_accounts.py create and patch, clients.py patch, the triggers of db.py).
NoNewContest ==
    [][/\ focus = "assignments" => Racing!Conflicts!MakesNoContest
       /\ focus = "conflicts" => Reviewing!Conflicts!MakesNoContest]_conflictVars

\* A resolution archives only budgets its reviewer was shown (assignment_conflicts.py).
OnlyShownBudgetsArchived ==
    [][focus = "conflicts" => Reviewing!Conflicts!ArchivesOnlyShown]_conflictVars

\* Two runs are inside the exclusive sync only if the lease of one ran out
\* (ad_account_sync.py, run_sync_exclusive and run_due_sync).
AloneUnlessOvertaken ==
    /\ focus = "leases" => Leasing!Sync!AloneUnlessOvertaken
    /\ focus = "data" => Storing!Sync!AloneUnlessOvertaken

\* Nothing is fetched before the retry time of the last job it knows (run_sync).
BackoffHonoured ==
    [][/\ focus = "leases" => Leasing!Sync!KeepsBackoff
       /\ focus = "data" => Storing!Sync!KeepsBackoff]_syncVars

\* The newest day an account claims to have data of was stored (run_sync, next_meta).
FreshnessIsIngested ==
    /\ focus = "leases" => Leasing!Sync!FreshnessIsIngested
    /\ focus = "data" => Storing!Sync!FreshnessIsIngested

\* A credential keeps its status under a binding, but for what an overtaken patch writes
\* (integration_credentials.py).
BindingsEndWithStatus ==
    /\ focus = "switched" => Switched!BindingsEndWithStatus
    /\ focus = "agency" => AgencyBindings!BindingsEndWithStatus
    /\ focus = "bindings" => Bindings!BindingsEndWithStatus
    /\ focus = "writebacks" => WriteBacks!BindingsEndWithStatus

\* No rotation of keys, and no patch but an overtaken one, brings an older grant back
\* over a newer one (rotate_credentials, patch).
GrantsOnlyGrow ==
    [][/\ focus = "keys" => Keys!KeepsGrants
       /\ focus = "owners" => Owners!KeepsGrants]_credVars

\* Rows are encrypted for their owners and, but for what an overtaken patch writes, under
\* keys that are configured (patch, rotate_credentials, get_encryption_summary).
RowsStayReadable ==
    /\ focus = "keys" => Keys!RowsStayReadable
    /\ focus = "owners" => Owners!RowsStayReadable

\* A state of a sign-in is used once, and by the browser it was given to (oauth.py,
\* consume_state).
StateServesOnce ==
    /\ focus = "signin" => FirstSignIns!StateServesOnce
    /\ focus = "migration" => Migrations!StateServesOnce

\* Whoever gets a session owns the identity that was proven (main.py,
\* auth_oauth_callback).
SessionOfTheIdentity ==
    /\ focus = "signin" => FirstSignIns!SessionOfTheIdentity
    /\ focus = "migration" => Migrations!SessionOfTheIdentity

\* First sign-ins that race leave a user one workspace (main.py,
\* _ensure_solo_client_workspace and _auto_provision_facebook_client).
OneWorkspaceEach ==
    /\ focus = "signin" => FirstSignIns!OneWorkspaceEach
    /\ focus = "migration" => Migrations!OneWorkspaceEach

\* No POST goes to Meta on an authorization withdrawn before it was read (main.py,
\* _meta_budget_final_execution_authorization).
WithdrawnInTimeStops ==
    focus = "gate" => Changing!Gate!WithdrawnInTimeStops

\* What is posted stands on the actor, tenant and credential of the preview
\* (provider_budget_commands.py, assert_budget_command_context_matches).
PostedAsPreviewed ==
    focus = "gate" => Changing!Gate!PostedAsPreviewed

\* Turning the feature off does not stop the reconciliation of what was posted
\* (authorize_budget_reconciliation).
RecoveryOutlivesSwitch ==
    focus = "gate" => Changing!Gate!RecoveryOutlivesSwitch

\* A client invite lets in at most once (main.py, _accept_client_invite).
InviteWelcomesOnce ==
    focus = "invites" => Invitations!InviteWelcomesOnce

\* A client invite that was revoked or has expired never opens again
\* (_accept_client_invite, claim and rollback).
ClosedStaysClosed ==
    [][focus = "invites" => Invitations!KeepsClosed]_inviteVars

\* An upload that is repeated under its key puts nothing back (ad_stats.py, ingest).
RetriesNeverRevert ==
    /\ focus = "uploads" => Uploading!Stats!RetriesNeverRevert
    /\ focus = "reports" => Reporting!Stats!RetriesNeverRevert

\* The word on data quality is about the rows that are totalled (ad_stats.py, aggregate).
QualityJudgesTotals ==
    focus = "reports" => Reporting!Stats!QualityJudgesTotals
=============================================================================
