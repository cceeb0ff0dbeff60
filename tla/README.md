# A TLA+ verification project for client_dash_up

client_dash_up is an agency dashboard: a FastAPI service (`src/app`) over one SQL
database (SQLite, or PostgreSQL through a compatibility layer), and a Next.js frontend.
It keeps clients, their advertising accounts and statistics, internal budgets, agencies
with members and invites, encrypted provider credentials, and - the only place where it
changes something outside itself - a ledger of *Meta budget commands* that writes real
budgets at Meta.

This directory holds TLA+ models of the code, the TLC runs that check them, and TLAPS
proofs. Everything is translated from the source under `src/`; the lines each
definition stands for are listed in `PROJECT.json` under `map`.

1. [Inventory](#1-inventory)
2. [Plan](#2-plan)
3. [The budget command ledger](#3-the-budget-command-ledger)
4. [Who may see which client](#4-who-may-see-which-client)
5. [Internal budgets](#5-internal-budgets)
6. [Who may change a budget at Meta](#6-who-may-change-a-budget-at-meta)
7. [Assignments and their conflicts](#7-assignments-and-their-conflicts)
8. [Account sync](#8-account-sync)
9. [Credentials and bindings](#9-credentials-and-bindings)
10. [Sign-in](#10-sign-in)
11. [Client invites](#11-client-invites)
12. [Daily statistics](#12-daily-statistics)
13. [Runs](#13-runs)
14. [Proofs](#14-proofs)
15. [Disagreements between promises and code](#15-disagreements-between-promises-and-code)
16. [What is not modelled](#16-what-is-not-modelled)

To repeat the checks, in this directory (section 13 lists all runs):

    tlc -workers 2 -config ledger_all.cfg MCBudgetLedger.tla
    tlc -workers 2 -config access.cfg MCAgencyCalls.tla
    tlc -workers 2 -config budgets.cfg MCBudgetCalls.tla
    tlc -workers 2 -config services.cfg MCServices.tla
    tlapm BudgetLedgerProofs.tla
    tlapm BudgetsProofs.tla

## 1. Inventory

How the parts meet: `src/app/main.py` holds every HTTP route; a route checks the session
(`auth_arch`), asks `acl` which clients the user may see, calls one service and writes an
audit record. Services do not call each other's memory; they share the database. A
transaction that starts with `BEGIN IMMEDIATE` excludes every other such transaction on
both backends (on PostgreSQL `runtime_db.py` turns it into one global advisory lock);
a transaction without it runs at READ COMMITTED on PostgreSQL, so its reads and
writes interleave with everybody's. Handlers run in a thread pool and in more than one
process (blue/green), so every memory-only lock is local to one process.

| Component | State | Operations | Hard behaviours | What makes it correct |
|---|---|---|---|---|
| **Meta budget command ledger** `services/provider_budget_commands.py`, `db.py` (1000-1850), `services/providers/meta_budget.py`, `main.py` (6600-7100), `scripts/recover_provider_budget_commands.py` | commands, attempts, target locks with leases, target quarantines; signed preview tokens; the budget at Meta | preview, confirm (submit, lock, claim, execute, finish), reconcile, resolve-unknown, offline recovery | concurrent and retried requests, lapsed leases, ambiguous answers of Meta, crashes in the middle of a write, a late POST | one writer per target; one POST per confirmation; a truthful, gapless ledger; an unknown outcome fences its target |
| **Budget command authorization** `services/provider_budget_commands.py` (policy, snapshots), `main.py` (3200-3700) | none of its own; reads roles, ranks, grants, bindings, switches, allow-lists | bound context, policy, final gate before the POST, reconciliation policy | a decision of a dozen reads in as many transactions; rights withdrawn and given back on the way | nothing is posted on a right withdrawn before the last look; what is posted is what was previewed; recovery survives the switch |
| In-memory command store | the same tables in dictionaries | the same | differs from the database store (no lock rows, no quarantine) | used by tests only |
| **Internal budgets** `services/budgets.py` | budgets with period, amount, version; history | create, patch, archive, transfer, history, effective resolution | sums over overlapping periods; a refused transfer after its debit; route checks in transactions before the store's | no overlap; allocations never above the client budget; transfers conserve money; a budget belongs to its account's client |
| **Agencies, members, invites** `services/platform_admin.py` | agencies, memberships, bindings, invites, the materialized table `user_client_access` | create/patch/delete agency, member upsert/deactivate/remove, bind/revoke client, issue/resend/revoke/accept invite | four operations do not take the write lock; compensation when the session cannot be issued | grants = active membership x active binding; an agency keeps an active owner; an invite is used once |
| **Users, identities, sessions** `services/auth_arch.py` | users, identities, sessions, direct grants | user create/patch/delete, link identity, assign/remove client, issue/validate/refresh/revoke session | a session issued between check and insert | no session of an inactive user; a last admin remains |
| **Account sync** `services/ad_account_sync.py` | two leases, sync jobs, per-account metadata with backoff | run_sync, run_sync_exclusive (heartbeat), run_due_sync | a lost lease does not stop the run; metadata written back from an old snapshot | one run at a time unless a lease lapsed; backoff; no account looks fresher than it is |
| **Advertising accounts** `services/ad_accounts.py` | accounts, with the server's metadata | create, patch, archive | uniqueness checked outside the writing transaction; triggers that normalize ids less thoroughly | one active owner of an external account |
| **Assignment conflicts** `services/assignment_conflicts.py` | groups of accounts that claim one external id | list, resolve | optimistic group version; the reviewer's scope changes | one winner; nothing archived that was not shown |
| **Daily statistics** `services/ad_stats.py` | rows per account, day, platform; idempotency records | ingest, list, aggregate | replays among later uploads; rows and accounts of a report chosen by different code | a replay changes nothing; data quality speaks of the rows that are totalled |
| **Credentials and bindings** `services/integration_credentials.py`, `ad_account_discovery.py` | encrypted credentials, explicit account bindings, keys | upsert, patch, archive, resolve, discover and bind, rotate keys | a binding written long after the reads it rests on; a patch that writes back all it has read; rotation of all rows or none | bindings end with the status of their row; a rotation brings no old grant back; keys are removed only when nothing needs them |
| **Sign-in** `services/oauth.py`, `auth_facade.py`, `main.py` (callbacks) | states, cookies, identities, workspaces, sessions | start, consume, provision, link, migrate, issue, revoke | two callbacks race; first sign-ins race and are undone | a state is used once; the session is the identity's; one workspace each |
| **Envidicy bridge** `services/envidicy_*.py` | login transactions, principals, project bindings | save, consume, resolve, migrate, bind | replayed callback, expiry | single use; no takeover of a bound principal |
| Alerts `services/alerts.py` | alerts by fingerprint | raise, resolve, acknowledge | two raises of one fingerprint | at most one open alert per fingerprint |
| Operational actions, audit log | append-only rows | insert, list | - | - |
| Rate limiter `services/rate_limit.py` | request times per key, in memory | allow | local to a process | never more than the limit per window |
| Access rules `services/acl.py` | none | which clients a request may see | read before the operation | - |
| **Clients and client invites** `services/clients.py`, `main.py` (2060-2360) | clients; client invites | create, patch, archive; issue, revoke, list, accept | acceptance in many transactions, taken back on failure | an invite lets in once; what is closed stays closed |
| Reports: overview, insights, aggregation | none | read | - | - |
| Provider adapters and discovery `services/providers/*` | none | HTTP reads, parsing | - | - |
| Runtime database, migrations `runtime_db.py` | migration table | migrate once | two instances start at once | each migration once |
| Settings, schemas, scripts, secrets, frontend | configuration | - | - | - |

Bold parts are modelled, in whole or in part. The hazards that follow from this table, each at its line, are in `PROJECT.json`
(`hazards`), with the properties that would catch them.

## 2. Plan

In order of what it would cost to get it wrong:

1. **BudgetLedger** (done, proved): the only component that moves real money, and the one with
   leases, crashes, retries and an unreliable partner.
2. **BudgetGate** (done, proved): the authorization around it.
3. **AgencyAccess** (done, proved), **Budgets** (done, proved).
4. **SignIn**, **ClientInvites**, **Credentials**, **AssignmentConflicts**, **AccountSync**,
   **DailyStats** (done, proved): optimistic protocols, leases, compare-and-swap and compensation.
5. **ServicesProofs** (done): what the run `services` checks of these components, as theorems about that very
   specification.
6. **LedgerPromise** (done): the abstract specification of a command - confirmed, sent at most once,
   resolved - that hides locks, leases and handlers, and the proof that BudgetLedger implements it.
7. The PostgreSQL variant of AgencyAccess, in which a transaction without the lock is several
   steps; **Alerts**, the project bindings of Envidicy, and the rate limiter as a pure function.

Modules that carry theorems use no RECURSIVE operator, and neither does any other module here; each
component keeps its proofs in a `...Proofs` module: `BudgetLedgerProofs`, `BudgetsProofs`,
`AgencyAccessProofs`, `SignInProofs`, `ClientInvitesProofs` and `CredentialsProofs`, and `AccountProofs` for the four
that concern an advertising account (AssignmentConflicts, AccountSync, DailyStats, BudgetGate). `ServicesProofs` draws from these what
`MCServices` states. The inductive invariant of the ledger stands in `BudgetLedgerInvariant`, which TLC loads
too.

## 3. The budget command ledger

| Module | Contents |
|---|---|
| `BudgetLedger` | state, actions, specifications, properties |
| `LedgerPromise` | the abstract specification: what the ledger promises whoever confirms a command |
| `BudgetLedgerInvariant` | the inductive invariant `IInv` and its parts, and the refinement mapping to `LedgerPromise` |
| `MCBudgetLedger` | symmetry for TLC |
| `MCSparedLedger` | histories with either lapsing leases or crashes, for the promises that need it |
| `BudgetLedgerProofs` | the TLAPS proofs |

### State

| Variable | Code |
|---|---|
| `req`, `status`, `count`, `aged` | a row of `provider_budget_commands`: its immutable columns, `status`, `attempt_count`, and whether `updated_at` is older than the settlement window |
| `attempts` | `provider_budget_command_attempts`: attempt number to outcome |
| `lock` | `provider_budget_target_locks`: command, lease token (named after its holder), lease still running or not |
| `quarantine` | `provider_budget_target_quarantines`: the owning command |
| `preview` | the signed preview token: checked for a quarantine, issued, expired |
| `pc`, `job`, `out`, `base`, `finalize` | a request handler: where it stands, its command, the outcome it will write, the attempt count it read, whether it came through resolve-unknown |
| `value`, `post`, `posts` | Meta: the budget, the fate of each command's POST, the number of POSTs sent |
| `apiUp` | whether API instances run (the recovery script demands that none does) |

One target is one `(target_type, provider_target_id, budget_field)`. Amounts are only
compared for equality. All commands belong to one client, so that idempotency keys,
which are unique per client, are just `Keys`.

### Actions

One action is one transaction of the store or one call to Meta; between two of them any
other handler, Meta, or time may act.

| Phase | Actions | Code |
|---|---|---|
| Preview | `StartPreview`, `IssuePreview`, `ExpirePreview` | the quarantine check, then the read of Meta and the signature |
| Submit | `Confirm` = `Replay` or `Create` | `create_or_replay`: same key and same request returns the row; the key, the preview or a quarantine may refuse |
| Lock | `AcquireLock`, `Release`, `LeaseExpires` | `acquire_target_lock`, `release_target_lock` in the route's `finally`; the 600-second lease |
| Execute | `PreflightFails`, `Claim`, `ReadBefore`, `Renew`, `FailBeforeWrite`, `SendPost`, `PostReturns`, `ReadAfter`, `Finish` | the gates between lock and claim, `claim_queued`, compare, `renew_target_lock` (the fence), the last authorization, the POST, its answer, the read-back, `finish_execution` |
| Reconcile | `StartReconcile`, `ReconcileLock`, `BeginReconcile`, `ReadForReconcile`, `RecordReconciliation` | the routes reconcile and resolve-unknown and `record_reconciliation` |
| Failure | `Crash`, `StopAll`, `Recover`, `Start` | a process dies anywhere; the offline recovery with all instances stopped |
| Environment | `Land`, `Drop`, `ExternalEdit`, `UnknownAges` | Meta applies or loses a POST at any later time; somebody else edits; time passes |

A transaction that raises is a step that leaves the tables alone and sends the handler
to `releasing`. The lease token is the handler itself: a token is drawn per acquire and a
handler acquires once.

### What is assumed of the environment

- A transaction under `BEGIN IMMEDIATE` is atomic. It is, on both backends, and every
  transaction of the ledger is one. That `finish_execution` and `record_reconciliation` write status,
  attempt and quarantine together is thus assumed here, as it is of a transfer in section 5: no
  property asks what half of one would do.
- Meta's definitive refusal (a 4xx the adapter classifies as a rejection) means the
  POST will not be applied, and an acknowledgement that it has been (`PostReturns`).
  An exception other than `httpx.RequestError` out of the client is raised before the
  request leaves.
- The settlement window (`_meta_budget_unknown_settlement_seconds`, derived from the
  provider timeouts) outlasts a POST in flight: `UnknownAges` waits for it. This is the
  only place where real time matters to an outcome, and `SettledOutcome` rests on it
  (mutant `NeverTooYoung`).
- The operator runs the recovery only when every instance is stopped, as README.md:190-199
  demands and the script makes him confirm.
- `LapseWhileHeld = FALSE` stands for deployments in which a handler ends within its
  600 seconds; `TRUE` makes no such assumption.

### Fairness

`FairSpec` adds `WF_vars(Step(p))` for every handler: once a request is in a handler,
the handler goes on, because every store call returns or raises and every call to Meta
has a timeout. Nothing else is fair: users need not call, Meta need not apply a POST
(a handler may conclude `unknown` without an answer), leases need not expire, operators
need not recover.

### Properties

| Property | Says |
|---|---|
| `TypeOK` | types, and which locals are set where |
| `WriteExclusion` | per target, one handler between the fence and the end of its write |
| `OnePostPerConfirmation` | one command, one key, one preview: at most one POST |
| `AttemptsLedger` | attempts are gapless up to `attempt_count` and the last carries the status |
| `QuarantineOwnerUnknown` | a quarantine belongs to an unknown command of that target |
| `SettledOutcome` | what failed, conflict and applied say of the write is true |
| `FulfilsPromise` | every step is one of `LedgerPromise`, or none of its business (below) |
| `UnknownTargetQuarantined` | an unknown command's target is quarantined |
| `NoPostOverUnresolved` | no POST to a target while another command's POST there is unresolved |
| `ClaimedCommandFinishes` | in_progress ends while the processes live |
| `LockReleased` | every lock row is deleted again |

`TypeOK`, `IInv` and the six properties around them are checked with everything switched on; the
other four need an assumption and have runs of their own, below. One command per target is unknown where
`UnknownTargetQuarantined` is claimed, and `QuarantineOwnerUnknown` looks at the owner alone: that the
answer to one unknown command lifts the quarantine another one needs is the case of section 15, which
these two do not speak about.

### The promise

`LedgerPromise` is the ledger as a user of the dashboard may think of it. It knows four things of a
command - the request, the status, what became of the POST, the outcomes recorded so far - and eight steps:

| Step | Implemented by | Promises |
|---|---|---|
| `Confirm` | `Create` (`create_or_replay`) | no key and no preview token is spent twice |
| `Begin` | `Claim` (`claim_queued`) | only a queued command begins |
| `Send` | `SendPost` (`write_budget`) | a command sends at most once, and only while in progress |
| `Answer` | `Land`, `Drop` (Meta) | Meta decides once, at any time |
| `Conclude` | `Finish` (`finish_execution`) | `applied`, `failed` and `conflict` are true of the POST when they are recorded |
| `Reconcile` | `RecordReconciliation` | an unknown outcome is resolved without sending; never to `failed`, and to `conflict` only when nothing is in flight |
| `Interrupt` | `Recover` | what was under way becomes unknown, all of it at once |
| `Record` (part of the last three) | `_insert_attempt` | one transaction writes status and attempt; the history only grows |

Everything else the ledger does - previews, replays, locks, leases, fences, quarantines, refusals, crashes,
lost races to record - is a stutter of the promise. The refinement mapping (`Promise` in
`BudgetLedgerInvariant`) takes `req`, `status` and `post` as they are and makes the history of the attempt
rows: 1 to `attempt_count`, or to one less while an attempt is under way, which has no row yet.
`TerminalIsFinal`, that nothing reopens a concluded command or rewrites its attempts, follows and is
stated as a theorem as well.

## 4. Who may see which client

`AgencyAccess` models the tables that decide it, `MCAgencyAccess` adds the symmetry and
`MCAgencyCalls` what each part of the `access` run looks at, `AgencyAccessProofs` the proofs. Every
request asks `user_client_access` which clients its user may see; for agency users the rows are
*materialized* from memberships and bindings, and every operation that changes one of
those has to rebuild them for the right users.

| Variable | Code |
|---|---|
| `user` | `users`: role and status, under the identity the e-mail address names |
| `agency` | `agencies.status`; `deleted` marks an id that was used |
| `member` | `agency_members`: role and status per agency and user (the pair is unique) |
| `bound` | `agency_client_access` |
| `grant` | `user_client_access`: the role of the row, or `none` |
| `invite` | `agency_invites` |
| `entered` | how many sessions each invite has led to |
| `local` | what a request between two of its transactions remembers |

| Operations | Actions |
|---|---|
| users | `CreateUser`, `PatchUser`, `DeleteUser` with `OwnerMayExit` and `AdminMayExit` |
| direct grants | `AssignDirect`; `StartDrop`, `Drop` |
| agencies | `CreateAgency`; `StartPatch`, `WritePatch`; `DeleteAgency` |
| bindings | `AssignClient`, `RevokeClient` |
| members | `UpsertMember`, `DeactivateMember`, `RemoveMember` with `KeepsAnOwner` |
| invites | `IssueInvite`, `RevokeInvite`; `StartResend`, `ResendRevokes`, `ResendIssues`; `StartExpire`, `Expire` |
| acceptance | `StartAccept`, then `Accept`, `AcceptFails` or `AcceptTooLate`, then `Enter` or `Compensate`, then `Undo` |
| start of the process | `Restart`: requests are lost, `init_sqlite` reconciles the grants |

An operation is one action when it begins with BEGIN IMMEDIATE, or when what it reads before its
first write can only make it refuse: on SQLite the first write takes the lock and later reads
are inside it. The others are cut where another transaction can commit. `Racing` says which of
these may be overtaken, so that a run can ask about one race at a time; with
`Racing = {}` calls follow one another, and only a restart cuts one short.

A platform administrator may call everything and is above the hierarchy of owners and
managers, so the caller is not part of the model; all behaviours of other callers are among his.

| Property | Says |
|---|---|
| `TypeOK` | types (no run spends itself on it; `RowsCorrect` proves it) |
| `GrantsFollowMembership` | an active agency user's rows are the union of the bindings of his active agencies; administrators and inactive agency users have none; a client has no row from an agency |
| `OwnerStays` | an agency with an active owner has one until it is deleted (violated, section 15) |
| `ActiveAgencyKeepsOwner` | an active agency that stays active keeps an owner, whatever is done to members and users |
| `AdminStays` | the last active administrator stays |
| `InviteOneTime` | an invite lets in at most once |

`OwnerStays` exempts the moment in which an acceptance may still be put back
(`EntryPending`): the membership of that moment is provisional.

A membership that an acceptance takes back is deleted when there was none before. Another
acceptance of the same user and agency may have read that row as its own to change, so the deletion
of a row (`RowsGone`) also says so to whoever remembers it: an UPDATE of theirs finds no row. The
constants are assumed to be what the code fixes: the roles of users and of members, of which the
agency and the client role are among those in use (`RoleAssumption`), and null values apart from
the records they stand beside (`NullAssumption`).

What the model leaves out of these operations: names, slugs, plans, notes and e-mail changes; the
retention check of the ledger (it only refuses); sessions other than the one an invite
leads to; identities and passwords. Three restrictions keep it small: `DeleteUser` waits while
that user's acceptance is under way; a user created by an acceptance under way accepts no
second invite; the reads at the start of `accept_invite` are one step. The
transactions of PostgreSQL that do not take the lock interleave more finely than
here (hazard at platform_admin.py:625); that variant is in the plan.

## 5. Internal budgets

`Budgets` models the manual budgets of clients and of their accounts, and of clients and accounts
what the budget rules read; `MCBudgets` adds the symmetry, `MCBudgetCalls` what each part of the
`budgets` run looks at, `BudgetsProofs` the proofs.

| Variable | Code |
|---|---|
| `live` | the clients whose `clients.status` is active |
| `account` | `ad_accounts`: `client_id`, and whether `status` is active |
| `budget` | `budgets`: client, account (`NoAccount` for client scope), amount, period, active or archived |
| `local` | what a request between the checks of its route and the store remembers |

| Operations | Actions |
|---|---|
| clients, accounts | `SetClientStatus`, `ArchiveAccount`; `PatchAccount`, or `StartPatchAccount` and `FinishPatchAccount` |
| create | `CreateBudget`, or `StartCreate` and `FinishCreate` |
| patch | `PatchBudget`, or `StartPatch` and `FinishPatch` |
| archive, transfer | `ArchiveBudget`, `Transfer` |

A route reads the account and the client in transactions of their own and refuses; then the store
repeats the rules *about budgets* (`FreeOfOverlap`, `WithinCaps`) inside BEGIN IMMEDIATE. Each
operation is there undisturbed, as one action, and for the members of `Racing` also cut in two,
so that a run can ask what overtaking can break. A transfer repeats all its checks under
the lock and an archiving has none, so they are never cut. A refused call is a call that does
not happen, except for the second half of a cut one, which ends without effect.

Details that matter to the rules and are modelled as they are:

- A payload names some fields and leaves out others (`Keep`); the merge is with the row under the
  lock, the check of account against client with the row read before. `account_id: null` in a
  payload leaves the *old* account in that check.
- The scope is not a field of its own: `_validate_scope` makes it 'client' exactly when the account is null.
- An account budget counts in full against every client budget it overlaps, also when only one
  day is shared. A client budget turned into an account budget is still checked against its
  own old cap, since the query of the caps excludes nothing.
- A transfer credits one of the target's overlapping budgets; which one depends on version and time of
  the last update, so the model lets it be any. Without one it creates a budget with the period of
  the source. The new target row is checked for overlap, an old one against the cap.
- Archiving a client or an account leaves its budgets alone.

| Property | Says |
|---|---|
| `TypeOK` | types; no amount is ever negative |
| `NoOverlap` | active budgets of one client, or of one account, share no day |
| `CapRespected` | a client's active budget covers what is allocated to its accounts over the shared period |
| `TransferConserves` | a step that changes two budgets leaves each client's allocated total unchanged |
| `BudgetsFollowAccounts` | a budget of an account, active or archived, belongs to the account's client |
| `OnlyLiveAccountsAreBudgeted`, `CallsKeepToLiveAccounts` | a budget that is active after a change of it had an active account and client at that moment |

The last two are about calls that are not overtaken (`CallsKeepToLiveAccounts` of `MCBudgetCalls` says
so, and the theorem `LiveAccountsOnly` assumes it of creations and patches of budgets). It cannot be
expected of others: an account archived between the check and the store leaves an active budget
on it, the same state as an account archived a moment later. `BudgetsFollowAccounts`
is violated by an overtaken patch (section 15).

A transfer is one action, and one that is refused is no step: that nothing is left of the debit when a
check after it refuses is what the transaction's rollback gives, and is assumed.

Left out: currencies (one for all: the checks only refuse), notes, versions, history and transfer
rows, which are written in the same transaction and read by no rule; creation of clients and
accounts (`Init` lets accounts belong to any client); accounts of one external id
(`AssignmentConflicts`).

## 6. Who may change a budget at Meta

`BudgetGate` models the authorization that stands around the ledger's Preview, Confirm and
SendPost: what the actor is, what he may do, with which credential, and when it is looked at.

| Variable | Code |
|---|---|
| `held` | the facts a write rests on, as they are now: switches, rollout list, session, user, access, account, client, binding, agency |
| `role`, `rank` | `users.role`; the role in the agency of the request |
| `cred` | the credential the account is bound to; another validation of it is another `grant` |
| `shaky` | what may change in this behaviour: any one fact, or a pair of `Together` |
| `request` | how far it is, the signed proof, what the final gate has read so far |

| Step | Action | Code |
|---|---|---|
| preview | `Preview` | `preview_meta_budget_change`, `PreviewSigner.issue` |
| submit | `Confirm`, `Abandon` | `submit`, `verify` |
| final gate | `Execute`, `ReadNext`, `Post` | `_meta_budget_final_execution_authorization`: thirteen reads, a transaction each, then the policy |
| others | `Switch`, `ChangeRole`, `ChangeRank`, `Rebind` | anything is withdrawn and given back |

The policies are the operators `MayWrite` (`authorize_budget_write`) and `MayReconcile`
(`authorize_budget_reconciliation`); the latter may look past the spend-cap switch.

| Property | Says |
|---|---|
| `WithdrawnInTimeStops` | a POST goes out only if nothing it needs was missing from before the gate to its end |
| `PostedAsPreviewed` | a POST is made under the role, rank and credential of the preview, however things changed and changed back |
| `RecoveryOutlivesSwitch` | whoever could send a command can reconcile it after spend caps are switched off |

What is read first and withdrawn after that is posted anyway: the first property is about facts
missing throughout the gate, which is all that reading one by one can give. One request is
enough, since no two share anything decided here. Left out: the digests and
signatures (a proof is the value signed), the preview's amounts (in the ledger).

## 7. Assignments and their conflicts

`AssignmentConflicts`: at most one active client should hold one advertising account of a
provider. Databases older than that rule hold duplicates.

| Variable | Code |
|---|---|
| `clientLive`, `account` | `clients.status`; client, canonical id, spelling of the stored id, status |
| `acctBudget` | the account-scope budget of each account |
| `scope` | the clients a reviewer may act for |
| `pending` | what a writer has checked and not yet written |
| `listed` | the conflict group a reviewer has read: accounts, budgets, and whether a row of it was written since (`group_version`) |

| Operations | Actions |
|---|---|
| accounts | `StartCreate`, `FinishCreate`; `StartPatch`, `FinishPatch`; `ArchiveAccount` |
| clients | `ArchiveClient`; `StartRestore`, `FinishRestore` |
| budgets, scope | `CreateBudget`, `EditBudget`; `ChangeScope` |
| conflicts | `ListConflicts`, `Resolve` |

The stores check uniqueness before, and outside, the transaction that writes; the triggers and
the unique index of the schema are in the `Finish` actions.

The stores compare canonical ids (`canonical_external_account_id`: the digits of a Google or TikTok id, a Meta id
without `act_` and trimmed). The triggers (db.py:70-190) normalize less: they strip `-`, `_`, `.` and spaces,
and do not trim again after `act_`. Hence three kinds of spelling: `Canonical`, which writes store today; `Dressed`, from
older releases, which the triggers see through (`1-2`); and `Foreign`, which only the stores do (`customers/12`,
`act_ 12`). `Seen` is what a trigger compares, and the unique index compares the spelling itself. Ids without a
digit, of which the triggers strip more than the stores do, are not modelled; nor are two rows of one foreign
spelling in different dress (`customers/1-2`).

| Property | Says |
|---|---|
| `NoNewContest` | no write, whatever it checked earlier, makes two active clients hold rows that the triggers read as one account; of rows only the stores read as one, see section 15 |
| `OnlyShownBudgetsArchived` | a resolution archives no budget its reviewer was not shown |

## 8. Account sync

`AccountSync` models the runs that fetch statistics, of the scheduler and of users.

| Variable | Code |
|---|---|
| `now` | the clock |
| `lease` | `ad_account_sync_leases`: the scheduler's (`due`) and the run's (`run`) |
| `job`, `meta` | the latest job of each account, and its metadata |
| `eligible` | accounts that are active, of an active client and not in conflict |
| `ingested` | days of each account that `ad_stats` has rows for |
| `run` | what a runner read at its start and where it stands |

| Phase | Actions | Code |
|---|---|---|
| start | `StartManual`; `StartDue`, `SelectDue`; `Begin` | `run_sync_exclusive`, `run_due_sync`; accounts and jobs are read once for the batch |
| an account | `Skip`, `FetchRows` or `FetchError`, `RecordJob`, `WriteMetadata` | `run_sync` |
| end | `Finish` | the `finally` blocks |
| around | `Heartbeat`, `Crash`, `Tick`, `ToggleEligible` | `renew_while_running`; the process stops; time and users |

| Property | Says |
|---|---|
| `AloneUnlessOvertaken` | two runs go on side by side only where one let its lease lapse |
| `BackoffHonoured` | a run that has been alone fetches nothing before the retry time, unless forced |
| `FreshnessIsIngested` | the newest day an account claims is a day it has rows for, whichever runs overwrite each other's metadata |

A tick is a minute where a retry is timed and a day where dates are; errors are retryable or not.

## 9. Credentials and bindings

`Credentials` models one provider's credentials, the accounts bound to them, and their keys;
`CredentialsProofs` proves the first three properties below.

| Variable | Code |
|---|---|
| `cred` | rows of `integration_credentials`: status, owner, `grant` (which credentials they are), key of the envelope, `sealed` (the owner it was encrypted for); `late` (history): what it holds is of an overtaken patch |
| `issued` | grants given so far, in the order in which they were asked for |
| `patching` | what a patch has read and will write, and whether its row was written since |
| `binding` | `provider_account_credential_bindings`, with which grant the provider was asked, and (history) the status of the row when the binding was inserted |
| `account` | client, status and the server's metadata (`rediscover`, `uses`) |
| `clients`, `holding` | active clients; which active agency has which client |
| `keyring`, `rotation` | the configured keys; the rows a rotation has read |
| `discovery`, `sync` | what a discovery or a synchronization remembers |

| Operations | Actions |
|---|---|
| rows | `UpsertCredential`; `StartPatch`, `FinishPatch`; `ArchiveCredential`, `DeleteAgency` |
| discovery | `AskProvider`, `StoreDiscovered`; `CheckBinding`, `InsertBinding`; `AbandonDiscovery` |
| synchronization | `ReadAccount`, `WriteMetadata` |
| keys | `AddKey`, `ReadRows`, `SwapRows`, `RemoveOldKeys` |
| others | `MoveAccount`, `SwitchAccount`, `SwitchClient`, `SwitchHolding` |

Two operations take no lock for what they read. `patch` reads its row, decrypts and encrypts, and writes every
column of the row, those the payload leaves out as they were read; it ends the bindings if what it writes
differs from what it *read*. `bind_provider_account` checks row, account and client and inserts; of what it
checked, the foreign key alone is looked at again. Each is two actions with anything in between, also a change of
keys. A patch is *overtaken* when its row was written between the two; the row it leaves is then `late`, until an
upsert replaces it. The SELECTs of a bind's check are taken at one moment; what changes after any of them changes, in the
model, after the check. All other writes look and write under BEGIN IMMEDIATE, compare and swap (the rotation),
or set one column (archiving).

| Property | Says |
|---|---|
| `BindingsEndWithStatus` | no credential changes its status under a binding: switching it off ends its bindings, one inserted just after ends when it is switched on again, and no binding outlives its row; but for late rows |
| `GrantsOnlyGrow` | no write puts an older grant over a newer one: neither a rotation nor a patch, but for an overtaken patch |
| `RowsStayReadable` | every row is encrypted for the owner it names, however patches, replacements and rotations overlap; removing old keys on the word of the report leaves every row readable, archived ones too, but for late rows |
| `BindingsAttestTheirGrant` | a binding attests the credentials the provider was asked with (violated, section 15) |

That owner and encryption do not part even where patches overlap: a patch writes both together, from one read, and a
rotation swaps an envelope only where it is still the one it has read. What an overtaken patch does bring back is in
section 15. Two envelopes of one grant, owner and key count as one here, though each encryption differs: where such a
pair lets the model's rotation swap, the code's may refuse.

## 10. Sign-in

`SignIn` models round trips to Facebook, to another provider and to Envidicy ID, and what a
callback does in its many transactions; `SignInProofs` proves the first three properties below.

| Variable | Code |
|---|---|
| `user`, `workspaces`, `grants` | users; active clients; `user_client_access` |
| `identity` | `auth_identities` and `envidicy_id_principals`: subject to user |
| `state`, `cookie` | `oauth_states` and `envidicy_login_transactions`; the nonce a browser holds |
| `session` | the session a browser holds |
| `callback` | what a callback remembers |

| Phase | Actions | Code |
|---|---|---|
| round trip | `Start`, `Consume`, `Exchange`, `EndExchange` | `create_state`, `consume_state`, the exchange of the code |
| first sign-in | `FindIdentity`, `CreateUser`, `CreateClient`, `AssignClient`, `LinkIdentity`, `UndoUser`, `UndoClient`, `FindConcurrent` | `AuthFacadeService`, `_auto_provision_facebook_client` and its compensation |
| other intents | `MigrateLegacy`, `ProveUser`, `ResolvePrincipal`, `MigratePrincipal` | legacy migration, `_link_facebook_identity_to_proven_user`, `resolve_identity` |
| session | `CheckUser`, `InsertSession`, `EnsureWorkspace`, `Respond`, `Logout` | `_issue_session`, `_ensure_solo_client_workspace` |
| others | `DeactivateUser`, `ReactivateUser`, `ArchiveWorkspace`, `Crash` | `patch_user`, clients, the process stops |

| Property | Says |
|---|---|
| `StateServesOnce` | one state serves one callback |
| `SessionOfTheIdentity` | whoever signs in gets a session of the user his subject is linked to, also when first sign-ins race and one is undone |
| `OneWorkspaceEach` | an owner never gets a second workspace |
| `OnePrimarySubject` | a user has one subject of the primary Facebook application (violated, section 15) |

## 11. Client invites

`ClientInvites` models invitations to the workspace of a client (`main.py` 2060-2360). `invite`
holds the rows, with `by` for the pair accepted_user_id, accepted_at, which no two
calls share; `accept` what a call remembers, `welcomed` (history) how many calls ended with a
session. Actions: `Issue`, `Revoke`, `List` (marks what ran out), `RunOut`; `ArchiveClient` and, in
another transaction, `RevokeAll`; `RestoreClient`; and of an acceptance `StartAccept`,
`FindUser` or `Refuse`, `Snapshot`, `Claim`, `AssignAccess`, `IssueSession`, or on failure
`ProvisioningFails`, `RemoveAccess`, `Reopen`, `DeleteUser`; `Expire`, `Crash`, `SwitchUser`. `ClientInvitesProofs`
proves both properties.

| Property | Says |
|---|---|
| `InviteWelcomesOnce` | an invite lets one call in, ever, overlapping or after a failure was taken back |
| `ClosedStaysClosed` | a revoked or expired invite never opens again |

## 12. Daily statistics

`DailyStats` models uploads and the reports over them. `stat` is `ad_stats` by account, day and
platform, `replay` `ad_stats_ingest_idempotency`, `account` and `client` what reports select by;
`accepted` and `newest` observe the history. `Ingest` is one upload, in its transaction;
`PatchAccount` and `SwitchClient` change what reports see. A report is a pure operator:
`Listed` is the query of the rows that are totalled, `AccountsInScope` the list of accounts whose
data is judged, `Quality` the word on it.

| Property | Says |
|---|---|
| `RetriesNeverRevert` | an upload repeated under its key puts nothing back, however late it comes |
| `QualityJudgesTotals` | the rows counted are the rows totalled, and "fresh" means every account of the scope has a recent row |

Reports are asked in every state for every scope, so the second property covers archived
accounts and clients and contested accounts in all combinations. Of the figures one is kept; sums
and ratios are arithmetic. The parameter `platform` of `aggregate` is left out: no route or service passes it
(rows would be chosen by their own platform then, and accounts by theirs, which a change of an account's platform
sets apart).

## 13. Runs

| Run | Instance | Question | Result |
|---|---|---|---|
| `ledger_all` | 2 handlers, 2 commands, 2 previews, 2 keys, 1 target, 2 values, 2 attempts; lapsing leases, crashes | safety with everything allowed, the invariant of the proofs, and the refinement of `LedgerPromise` | holds, about 1 million states |
| `ledger_spared` | the same, 3 attempts; `lapsing` chooses between lapsing leases without crashes and crashes without lapses | does every unknown command keep its quarantine, and no POST go over an unresolved one? | holds, 1.4 million states |
| `ledger_lapse_crash` | lapses and crashes in one history | the same promise in README.md and db.py | violated, section 15 |
| `ledger_fair` | 2 handlers, 1 command, 3 attempts, fair handlers, no crashes, with and without lapses | does a claimed command leave in_progress, is every lock row released? | holds |
| `access` | 2 users, 2 agencies, 1 client, 2 invites, 2 requests; `focus` "calls" or "invites" | do the grants follow, is a token one-time, do an administrator and an active agency's owner stay? | holds, about 390 000 states |
| `access_owner_invite` | 2 users, 1 agency, 1 invite, calls one after the other | does an owner stay? | violated, section 15 |
| `access_patch_race` | 2 requests, updates of agencies race | do the grants follow? | violated, section 15 |
| `budgets` | 2 clients, 2 accounts, 3 budgets, 2 days, amounts to 2; `focus` "calls", "caps" or "races" | do overlap and cap rules and conservation survive every interleaving; do budgets stay with their accounts' clients, active ones with active accounts, while calls follow one another? | holds, about 100 000 states |
| `budgets_patch_race` | 1 patch overtaken, 2 clients, 2 accounts, 1 budget | does a budget stay with its account's client? | violated, section 15 |
| `services` | seven components, one at a time (below) | the promises of sections 6 to 12 | holds, about 2 million states |
| `credentials_stale_discovery` | 1 row, 2 grants, 1 account, 1 discovery | does a binding attest its grant? | violated, section 15 |
| `signin_two_links` | 2 callbacks, 2 browsers, 1 user, 2 Facebook subjects | has a user one primary subject? | violated, section 15 |

Why the ledger's bounds. Interference on the ledger is pairwise: two handlers of one command (a
retry), or one handler each of two commands of one target; one target is enough because
no transaction reads rows of two (recovery treats each row by itself), and the proofs
cover any number. Two values are the least that make a compare fail and an
external edit restore a value. Two previews and two keys allow both ways of
confirming twice. Two attempts are an execution and one reconciliation; three
allow an inconclusive reconciliation before a conclusive one. `MaxAttempts` is the
only bound inside the model (the code counts on): a reconciliation of a command
that has used them is refused. Symmetry over handlers and values is used in
the safety runs only, where commands, previews and keys are taken in order (`Ordered`: they are numbered,
compared for equality and never given back) and a preview nobody confirmed expires before the next one is
asked for; the liveness run has neither.

Why the bounds of AgencyAccess. A grant of one user and one client depends on that user's memberships
and on that client's bindings only, so two agencies (one that backs the client and one that stops
to) and one client show every way a row can be wrong; the second user shows that
rebuilding one user leaves the other alone. Owner rules compare "the last" with
"another one", which two users show. An invite races with another
acceptance of itself and with its replacement: two requests, two invites. `MCAgencyCalls` explores
the two apart: "calls" is everything but invites, for one agency, or for two and active users who are
no administrators; "invites" is acceptances, resends
and expiries that overtake each other and the calls around them, with one agency and one user
existing at a time and members without rank. A manager is left out of the run: where owners are counted
he is a member. The proofs of section 14 cover all roles and any numbers. `Invites` is the only bound inside the model: a
resend that would need another row ends without one.

Why the bounds of Budgets. Overlap relates two rows and a transfer changes two, so two budgets show
them ("calls": no call is overtaken, clients and accounts come and go and accounts change clients). One
account budget under two caps, or two under one, takes three, of one client and with amounts that
add up ("caps"). Two days make periods that are equal, disjoint, nested and touching; amounts up to 2
let a transfer be whole or partial. One cut request is enough for the races ("races"): all others
act undisturbed around it, and what a second one would remember is only used under the lock; the races
have one client that stays active and at most two budgets. `BudgetIds`, `LastDay` and
`MaxAmount` bound the model; `FieldSets` bounds the payloads to patches of one field or of a
pair that has to change together (client and account, period and reactivation), since larger patches
merge and are checked field by field in the same way. The proofs assume none of these
bounds.

The run `services`. Seven components share no state, so one run explores them one at a time: the
initial state chooses a `focus`, the variables of the others are `Idle`, and each property
says, for every focus it concerns, that the instance has the component's property. The instances are of
the modules with the proofs; TLC evaluates their hypotheses for these values (`ValueAssumption`). An instance is
chosen per focus:

| Focus | Module | Instance | Why it is enough |
|---|---|---|---|
| `assignments` (`Racing`) | AssignmentConflicts | 2 writers, 2 clients, 2 accounts of one id in three spellings | a contest is between two; each writer's check may be overtaken by the other's write |
| `conflicts` (`Reviewing`) | AssignmentConflicts | 1 writer, 1 reviewer | a group, its budgets, and anything that changes after it was listed |
| `leases` (`Leasing`) | AccountSync | 2 runs, 1 account, clock to 2, attempts to 2, empty answers | overtaking, retry times 1 and 2, the cap `MaxDelay` |
| `data` (`Storing`) | AccountSync | 2 runs, 1 account, answers of at most one day, explicit and default ranges | the metadata of two runs overwriting each other |
| `keys` (`Keys`) | Credentials | 2 rows, an agency, 1 patch, 2 keys and none, 2 grants | a rotation that meets a replaced row and one that does not, a patch across it and across a change of keys |
| `owners` (`Owners`) | Credentials | 1 row, an agency, 2 patches, a rotation, 2 grants | patches that overlap with each other and a replacement |
| `switched` (`Switched`) | Credentials | 1 row, 1 account, 1 patch, 1 discovery | a bind while its row is switched, patched and replaced |
| `agency`, `bindings`, `writebacks` (`AgencyBindings`, `Bindings`, `WriteBacks`) | Credentials | 1 row, 1 account; an agency, two clients, a synchronization; no patches | what a binding can outlive |
| `signin` (`FirstSignIns`) | SignIn | 2 callbacks, 2 browsers, 2 users, Facebook and another provider, one address | first sign-ins of one subject, and of one address |
| `migration` (`Migrations`) | SignIn | a legacy identity, Envidicy ID | the way from the legacy to the primary identity, principals beside it |
| `invites` (`Invitations`) | ClientInvites | 2 calls, 2 invites to one address and client | an acceptance against another, a new invite, a revocation, an archiving |
| `gate` (`Changing`) | BudgetGate | any role, rank and credential; one fact or one of seven pairs comes and goes | a fact judged alone, and pairs the policy judges together |
| `uploads` (`Uploading`) | DailyStats | six uploads, with a key, its reuse for other rows, and none | a retry among corrections |
| `reports` (`Reporting`) | DailyStats | 2 accounts, perhaps of one id, 2 clients, 3 days | stale beside fresh, with and without data, archived, contested |

The other bounds inside these models are named where they are declared: `MaxGrant` (replacements of
a credential), `LastKey`, `LastTick`, `MaxRows`, `MaxAttempt`, and `welcomed` up to two, where the
promise is already broken. Symmetry is only over the handlers h1 and h2, the clients c1 and c2 and
the accounts, browsers or invites x1 and x2; no property, and no initial state, tells them apart.
Deadlock is not checked in `services`, `credentials_stale_discovery` and `signin_two_links`: when
every state, invite, grant or tick of the instance is used up, the system may rest.

Fairness is only assumed by `ledger_fair` (section 3): the other components promise
nothing that must happen; a user tries again.

Every property has a mutant: a change a bug could make to a mapped definition (such as
`LockFreeByLease`, an acquire that trusts the lease alone, or `ReleasedBlindly`, a release that
does not look at the token) under which TLC finds the property violated.

## 14. Proofs

Eight modules are checked by TLAPS; every leaf is proved. No theorem about a component bounds the number of
handlers, rows, users or messages, and no constant set is assumed finite but `BudgetIds` where amounts
are summed. Every invariant and action property that a passing run checks is stated by one of them; what
TLC alone shows is listed at the end.

### The budget command ledger

`BudgetLedgerProofs` proves, for every number of handlers, commands, previews, keys, targets
and values, every `MaxAttempts >= 1` and both switches:

| Theorem | States |
|---|---|
| `Invariance` | `Spec => []IInv` |
| `TypeCorrect` | `Spec => []TypeOK` |
| `LedgerCorrect` | `Spec => []AttemptsLedger` |
| `WritersExclude` | `Spec => []WriteExclusion` |
| `OnePost` | `Spec => []OnePostPerConfirmation` |
| `SettledStatusIsTrue` | `Spec => []SettledOutcome` |
| `QuarantineOwned` | `Spec => []QuarantineOwnerUnknown` |
| `PromiseKept` | `Spec => FulfilsPromise`: BudgetLedger implements `LedgerPromise` |
| `TerminalStays` | `Spec => TerminalIsFinal` |
| `UnknownIsQuarantined` | `Spared` implies `Spec => []UnknownTargetQuarantined` |
| `PostsOverNothingUnresolved` | `Spared` implies `Spec => NoPostOverUnresolved` |

Assumptions: `MaxAttempts` is a positive natural, the switches are Booleans, and the null
values are none of the values they stand beside (`BoundAssumption`, `SwitchAssumption`,
`NullAssumption`). No set is assumed finite.

None of the properties is inductive alone. `IInv` adds:

- `CountInv`: `attempt_count` is 0 while queued and 1 while in progress, so that the first attempt
  row and the recovery's number fit; a reconciliation never read a count above the present one,
  which is why its insert collides if another one was faster.
- `HandlerInv`: an executing handler is the only one of its command and the command is in
  progress (the conditional UPDATE of `claim_queued`); a reconciled command has an outcome;
  nobody works while the API is stopped, so recovery meets no handler.
- `FenceInv`: whoever may write owns the target's lock row. Acquire cannot take it, as a
  command of the target is in progress, and the renewal is refused without the exact token.
  Two writers of one target would both own one row: `WriteExclusion`.
- `UniqueConfirmation`: a key and a preview belong to one command; with at most one POST per
  command (`PostInv`) this is `OnePostPerConfirmation`.
- `PostInv`, `HandlerPostInv`: where the POST can be, as seen from the command and from the handler
  that will write its outcome; this is what makes `SettledOutcome` follow when the
  outcome is written. An aged unknown command has no POST in flight, also after a
  handler has checked its age and the row has changed since.

The proof has one lemma per conjunct (`TypeStep`, `LedgerStep`, `HandlerStep`, `FenceStep`,
`UniqueStep`, `PostStep`, `HandlerPostStep`, `QuarantineStep`), each split by action; frame lemmas
(`ForgetType`, `BaseStep`, `RowStep`, `RequestsImmutable`, `RowKept`, `CommandSteps`) say once
what groups of actions leave alone.

`PromiseKept` needs the same invariant and nothing more. There is one lemma per step of the promise
(`CreateConfirms`, `ClaimBegins`, `SendPostSends`, `MetaAnswers`, `FinishConcludesIt`, `RecordReconciles`,
`RecoverInterrupts`), one for everything that stutters (`PromiseStutters`), and `PromiseStep` puts them together.
The invariant enters where a handler's knowledge has to be the row's: `HandlerPostInv` for the truth of an
outcome, `CountInv` and `HandlerInv` for a POST that is the first, `InterruptedAttempt` for the number
recovery gives. That an attempt more is the history with its outcome appended is `HistoryGrows`,
from the sequence theorems of the library.

The last two theorems are about histories in which leases lapse only where nothing crashes, or crashes
come only where no lease lapses under its handler (`Spared`, a condition on the two switches). With both
the promise is false (section 15), so the hypothesis cannot be dropped. `SparedInv`, inductive
beside `IInv`, says what makes them true: whoever sent a POST still owns the lock row when it records an unknown
outcome (`PosterOwns`), an owner at work found no quarantine and none was set since
(`OwnerUnquarantined`), and one command per target is unknown. The two kinds of history need
different reasons for the latter: without crashes a command in progress has its handler, so
recovery meets none (`HandlerLives`); without lapses one handler works on a target, so
recovery meets at most one (`LeaseLasts`).

### Internal budgets

`BudgetsProofs` proves, for any clients, accounts, days and amounts and any `FieldSets`:

| Theorem | States | Hypothesis |
|---|---|---|
| `TypeCorrect` | `Spec => []TypeOK` | |
| `PeriodsDisjoint` | `Spec => []NoOverlap` | |
| `CapsHold` | `Spec => []CapRespected` | `BudgetIds` is finite |
| `TransfersConserve` | `Spec => TransferConserves` | `BudgetIds` is finite |
| `CallsKeepClients` | `Spec => []BudgetsFollowAccounts` | `Racing = {}` |
| `LiveAccountsOnly` | `Spec => OnlyLiveAccountsAreBudgeted` | neither "create" nor "patch" is in `Racing` |
| `CallsKeepLive` | `MCSpec => CallsKeepToLiveAccounts` | `MaxAmount` is positive |

Assumptions: the two bounds are naturals (`BoundAssumption`), `NoAccount` and `Keep` are no accounts,
`NoBudget` is no row. The two hypotheses on `Racing` are those under which the properties are claimed
(sections 5 and 15). What the properties need beside themselves:

- `WellTyped` adds to `TypeOK` that the row a cut patch was checked against still exists
  (`PatchesExisting`): rows are archived, never deleted (`RowsStay`). Without it the merge could start
  from nothing.
- `BudgetStep` says once what all operations do to the table: nothing, or one acceptable row is
  put, or (a transfer) amounts change and then a row is put or credited. Amounts do not matter to
  overlaps (`DisjointWithoutAmounts`) and putting an acceptable row keeps them away
  (`DisjointPut`), from which `NoOverlap` is inductive.
- Sums. `Sum` is a fold, hence a recursive function on the subsets of the table. Its equation
  (`SumsExist`, `SumTakes`) is proved by induction over the finite subsets, which are well-founded: the library
  states that of a *set* of subsets, so the set of those that have the property stands for
  the property (`SubsetInduction`). From there: a sum is a natural, does not grow when amounts or
  rows are taken away (`SumSmaller`, `SumPart`), and takes out one or two rows (`SumTakesOne`,
  `SumTakesTwo`).
- `CapRespected` is inductive without strengthening, but not by symmetry: a row that is put may be the cap,
  an allocation under it, or turn from one into the other (`CappedPut`). A transfer puts two rows in
  a row, and the first only lowers an amount (`CappedLess`), so that the check of the second is made
  where the caps already hold.
- `TransferConserves`: two rows change only in a transfer (`ChangeOfMany`), both count for one client in
  full, and the two changes cancel (`TransferStep`). A new target row starts at zero in the sum.
- `FollowInv` adds to `BudgetsFollowAccounts` that nobody is between check and store. Either side may move: an
  account only when no budget names it (`AccountChecks`), a budget only where `PatchChecks` saw
  the merged row (`PatchFollows`).
- `OnlyLiveAccountsAreBudgeted` is an action property: what `PatchChecks` reads is the account of the
  *merged* row whenever that row has one (`PatchLive`), although a payload that names null makes
  it read another. `CallsKeepLive` is the same for the histories of the run, some of which have calls that
  are overtaken: in the others no call is ever under way.

### Who may see which client

`AgencyAccessProofs` proves, for any users, agencies, clients, invites and requests and for all roles:

| Theorem | States | Hypothesis |
|---|---|---|
| `RowsCorrect` | `Spec => [](TypeOK /\ Rows)` | |
| `GrantsFollow` | `Spec => []GrantsFollowMembership` | `NoRace`: neither "patch" nor "drop" is in `Racing` |
| `OneSessionPerInvite` | `Spec => []InviteOneTime` | |
| `AdminRemains` | `Spec => AdminStays` | |
| `OwnersLeaveByInviteOnly` | an active agency keeps an owner in every step but an acceptance or its undoing | |
| `ActiveAgencyOwned` | `Spec => ActiveAgencyKeepsOwner` | `Invites = {}` |

- `Rows` is what all of them rest on: acceptances and resends are of issued invites, an acceptance under way keeps
  its user and is alone with one it created, a membership it remembers as there is there, and
  memberships are of open agencies and existing users. The proof attempt found the case that
  `RowsGone` (section 4) now models: without it an acceptance could put back a row that another had deleted.
- `GrantsFollow` needs `InTime`: a patch under way still has the status it read, a removal of a
  direct grant still finds no agency behind it. `NoRace` keeps it true; the first half fails
  without (`access_patch_race`), the second is the hazard at main.py:4343.
- `OneSessionPerInvite` needs `EntryInv`: who is about to enter holds a closed invite that nobody used and nobody else
  is about to use. A failed entry opens the invite again only after it left that state.
- The owner of an active agency can only be lost to an invite (`access_owner_invite`), which is why
  `ActiveAgencyOwned` is without invites and `OwnersLeaveByInviteOnly` says where exactly the promise
  stops.

### Sign-in, client invites, credentials

The run `services` checks these components by their foci; these theorems are about the components themselves, and
`ServicesProofs` takes them there.

| Module | Theorem | States |
|---|---|---|
| `SignInProofs` | `SignInTyped` | `Spec => []TypeOK` |
| | `ServesOnce` | `Spec => []StateServesOnce` |
| | `SessionsFollowIdentities` | `Spec /\ [][Reviewed]_signInVars => []SessionOfTheIdentity` |
| | `SessionsFollowUnreviewed` | `Envidicy = {} \/ MigrationOn` implies `Spec => []SessionOfTheIdentity` |
| | `OneEach` | `Spec => []OneWorkspaceEach` |
| `ClientInvitesProofs` | `InvitesTyped` | `Spec => []TypeOK` |
| | `WelcomesOnce` | `Spec => []InviteWelcomesOnce` |
| | `StaysClosed` | `Spec => ClosedStaysClosed` |
| `CredentialsProofs` | `CredentialsTyped` | `Spec => []TypeOK` |
| | `BindingsStopWithStatus` | `Spec => []BindingsEndWithStatus` |
| | `OnlyLatePatchesLowerGrants` | `Spec => GrantsOnlyGrow` |
| | `RowsRemainReadable` | `Spec => []RowsStayReadable` |

Hypotheses on constants: the values that stand for nothing differ from those they stand beside
(`Nulls` of SignIn and ClientInvites; `OneEach` needs none), and in `Values` of Credentials also that the bounds
are positive naturals.

- SignIn. `ServesOnce` needs that a callback under way has consumed its state (`Consumed`). `SessionOfTheIdentity`
  is far from inductive, as an undone sign-in deletes a user: `ProvisionedApart` says that nobody else has to
  do with a user who may still be undone - no identity, no state, no session, no other callback that is not
  past him (`Private`) - and `NoneMissing` that nothing names a user who is gone; `Stagewise` ties what a callback
  remembers to its stage. The lemma `NamedAreSettled` turns the three into: whoever is named stays.
  `Reviewed` is a hypothesis about the operator: the manifest of a migration of principals, which he has
  reviewed, names no user whose first sign-in is still under way. Without it the invariant is false: a
  principal could be linked to a user who is then deleted. It is not needed where no principals are
  migrated, or while the migration of legacy identities is on: then Facebook provisions nobody
  (`NoneProvisions`, inductive with the types) and no sign-in is undone. The two instances of the run are of
  these kinds.
- ClientInvites. Who has claimed an invite is on record, even when it ran out meanwhile (`HoldersRecorded`), so
  that a rollback can tell its own claim from another's; and once somebody got in nobody holds
  the invite and it is never pending again (`WelcomedIsOver`).
- Credentials. All three properties rest on `AllFit`. `RowsFit`: every row is sealed for its owner, under a key no
  newer than the active one, with a grant that was issued; unless it is late its key is configured and, once the key of
  a rotation under way was removed, newer than that. `RotationFits` says the like of the rows a rotation has read, so a
  rotation whose key is gone finds every row under another key and swaps none but late ones. `PatchesFit` says of a
  patch under way what the row it will leave needs (`PatchFits`): sealed for the owner it names, whatever happened
  since; and, while it is not overtaken, a grant and key no lower than the row has and a status that is the row's or ends
  the bindings. Every write that breaks the latter marks the patch overtaken (`Overtaken`), which is why `late` is the
  only exception there is. The lemmas `RowsWritten` and `FitsStep` go through the writes of rows once, for all of it.
  `BindingsEndWithStatus` adds itself (`BindingStays`); `GrantsOnlyGrow` follows from `PatchesFit` and the compare of
  the rotation (`GrantsStep`).

### Advertising accounts and budget changes

`AccountProofs` has four sections, each with its inductive invariant:

| Component | Theorem | States |
|---|---|---|
| AssignmentConflicts | `ConflictsTyped` | `Spec => []TypeOK` |
| | `NoContestIsMade` | `Spec => NoNewContest` |
| | `OnlyShownArchived` | `Spec => OnlyShownBudgetsArchived` |
| AccountSync | `SyncInvariant` | `Spec => []SyncInv` |
| | `RunsAlone` | `Spec => []AloneUnlessOvertaken` |
| | `ClaimsWhatIsThere` | `Spec => []FreshnessIsIngested` |
| | `BackoffIsHonoured` | `Spec => BackoffHonoured` |
| DailyStats | `NothingReverts` | `Spec => []RetriesNeverRevert` |
| | `QualityIsOfTotals` | `Spec => []QualityJudgesTotals` |
| BudgetGate | `GateInvariant` | `Spec => []GateInv` |
| | `WithdrawalStops` | `Spec => []WithdrawnInTimeStops` |
| | `PostsAsPreviewed` | `Spec => []PostedAsPreviewed` |
| | `RecoveryOutlives` | `Spec => []RecoveryOutlivesSwitch` |
| | `GateTypes` | `Spec => []TypeOK`, where only facts of the model come and go together |

Hypotheses on constants: the values that stand for nothing differ from what they stand beside (`ConflictNulls`, `SyncNulls`,
`StatNulls`); the lengths of time, days and bounds are numbers (`SyncBounds`; `Days` and `StatsStaleAfter`; `MaxGrant`
is positive).

- AssignmentConflicts. Beside the types the invariant only says that a patch is of an account that exists and stays so
  (`PatchesAreOfAccounts`). The check of a writer may be as old as it likes: what keeps contests away is that the trigger
  looks again, at what it reads as one account (`Seen`), so the theorem is about that, and its proof goes action by action over
  what each can leave active.
- AccountSync. `SyncInv` has seven parts. `Equipped`: a run that has accounts left has read the jobs and metadata, and
  knows the account it is at. `KeepsLease` and `AloneIsAlone`: a run inside that was not overtaken holds the lease, and one
  that found itself alone still is, or was overtaken; two such runs would hold one lease, which is
  `AloneUnlessOvertaken`. `RetriesFollowErrors` and `KnowsTheJobs`: a job with a retry time is a failed one, and what
  an undisturbed run remembers of the jobs is what is stored, from which `BackoffHonoured` follows at the
  one step that fetches. `OnlySaidOfIngested`: the newest day in the metadata, and in every *copy* of them that a run
  carries, was stored. The copies are what makes `FreshnessIsIngested` survive runs that overwrite each other.
- DailyStats. A key that was accepted is in the table of replays (`KeysAreKept`), so a repeated upload changes no row.
  `QualityJudgesTotals` is not about steps: the last and the first of a finite set of days are shown to exist
  (`LastOfSome`, by induction over the subsets), and the two ways the code chooses rows to give the same ones in every state.
- BudgetGate. `GateWatch` follows every fact through the stages of a request: by the stage one can tell which
  facts have been looked at for the last time (`Watched`, with `Place` as the order of the looks), and whether the withdrawal of
  one was noticed in time (`Noticed`). `ChecksNeedAll` says that no policy lets a request pass without all of
  its facts; `GateKept` that what a posted request stands on is what it was previewed with.

### The properties of the run `services`

A behaviour of `MCServices` stays with the component its first state chose. For each of the sixteen foci a lemma of
`ServicesProofs` (`AssignmentsRun`, ..., `ReportsRun`) shows that it is then a behaviour of that instance's own `Spec`: the first state
is one of its, and every step is one of its steps or leaves its variables alone. The theorems of the component, instantiated, then
give the property:

| Theorems | From |
|---|---|
| `NoContestArises`, `OnlyShownIsArchived`, `AloneUnlessLeaseRanOut`, `RetriesWait`, `ClaimedDaysAreStored`, `RepeatedUploadsRevertNothing`, `QualityIsOfWhatIsTotalled`, `WithdrawnStops`, `PostedIsAsPreviewed`, `RecoveryOutlivesTheSwitch` | `AccountProofs` |
| `BindingsEndWithTheirStatus`, `OlderGrantsComeBackLate`, `KeptRowsAreReadable` | `CredentialsProofs` |
| `StateIsUsedOnce`, `SessionIsOfTheIdentity`, `WorkspaceIsOne` | `SignInProofs` |
| `InvitesWelcomeOnce`, `ClosedNeverOpens` | `ClientInvitesProofs` |

They are about the sets of that run, any values in them, and the assumption TLC evaluates there (`ValueAssumption`). What TLC and the
provers are asked is thus one formula; the general statement is the component's theorem.

### What is only model-checked

- The liveness properties `ClaimedCommandFinishes` and `LockReleased`: fairness and ENABLED are out of
  the prover's reach.
- `TypeOK` of AccountSync: it has a retry time in the naturals, and that the backoff `2^attempt`, a recursive
  definition, is a natural number cannot be proved. `SyncTyped` has it in the integers, which is all that is needed.
- The violations of section 15, which are counterexamples and need no proof.

## 15. Disagreements between promises and code

### An unresolved write without quarantine

README.md:189-190 promises that "Ambiguous outcomes quarantine the exact target until a
read-only reconciliation resolves them", and db.py:597-600 that "Only a conclusive
read-only reconciliation removes this row". `ledger_lapse_crash` finds a history that ends otherwise:

1. Command A acquires the target's lock; its handler is then held up for more than the
   lease (the checks between lock and claim call Meta).
2. Command B of the same target acquires the lapsed lock: A is still queued, so nothing
   fences it.
3. B claims. A's handler wakes up and claims A: `claim_queued` (db.py:1367) looks at neither
   lock nor lease. Both are in progress. A would fail at the renewal and be recorded as
   a conflict.
4. B renews and sends its POST. Now the processes die.
5. The offline recovery makes both unknown. There is one quarantine row per target:
   `_upsert_target_quarantine` (db.py:1036) leaves the first owner, which is A when A comes
   first in `updated_at` order.
6. Reconciling A with a conclusive answer lifts the quarantine. B, whose POST may or may not
   have been applied, is unknown and its target is open to previews and writes.

It takes a lapsed lease and a crash in one history; with either excluded the promise holds
(`ledger_spared`).

### The last owner, by invite

platform_admin.py:207-208 says of the last-active-owner invariant that it "is deliberately never
bypassed, including by platform administrators", and every member and user operation
has a guard for it. `accept_invite` has none: it sets the role of an existing membership to
the invite's (line 951). `access_owner_invite`: the only owner of an agency is sent an invite as a
member, accepts it, and the agency has no owner.

### The last owner, by deletion of another agency

`delete_agency` demotes members of the deleted agency who serve no other *active* agency
(line 547 with 489), but the owners that count include those of suspended agencies (line
228). Without invites and with two agencies TLC finds: a user owns a suspended agency and is a member of
another one; when that is deleted he becomes a client and the suspended agency has no
active owner. `patch_user` refuses the same change (auth_arch.py:407).

### A suspension that is undone without its grants

`patch_agency` reads the row outside the write lock and writes back what the payload leaves out.
`access_patch_race`: one request renames an agency and has read 'active'; another suspends it
and removes its members' grants; the first writes 'active' back, sees no change
of status and rebuilds nothing. README.md:168 promises active members of an active
agency the grants of its bindings.

### A budget of one client on an account of another

`patch_budget` refuses when the account is not the client's: "account_id must belong to client_id"
(main.py:7227; docs/auth_tenant_model.md:7 makes account budgets tenant-owned through that
relation). It reads account and budget before the store takes the lock, and the store
does not look again. `budgets_patch_race`: a request moves a budget of client c1 to account a2 of client
c2 and has passed the check; another one moves a2, which no budget names yet, to c1; the store
then writes a budget of c2 on an account of c1. Two overlapping patches of one budget can do the same, as
the store merges each payload with the row the other has left. While calls do not overlap
the rule holds (`budgets`, theorem `CallsKeepClients`).

### A binding to credentials nobody verified

integration_credentials.py:480-482: "Never carry an old money-write binding across credential
replacement; verified discovery must bind it again." A discovery keeps the id of the row from before
its calls to the provider, and `bind_provider_account` asks only, before its INSERT, that the row is
active and covers the client. `credentials_stale_discovery`: the row's credentials are replaced in
between, which ends the bindings there are; then the discovery binds the account to the row
with its new credentials.

### Two primary subjects of one user

main.py:2584-2585: "One canonical Facebook subject per primary application and internal user."
`signin_two_links`: two callbacks of a user with two Facebook accounts both read his
identities before either inserts, and both are linked.

### Disagreements no run is kept for

Each was met while modelling; the definitions named are in the modules.

- *A session for a disabled user* (`SignIn!DisabledGetNoSession`). auth_facade.py:69-70: "Disabled
  users must not have their identity refreshed or receive a new session." `_issue_session`
  (auth_arch.py:699-705) reads the user in one transaction and inserts in another; a deactivation in
  between revokes the sessions there are. The session is worthless while the user is disabled, as
  every use checks him again, and works once he is reactivated.
- *A rediscovery mark that a synchronization clears* (`Credentials!OnlyDiscoveryClears`).
  ad_account_discovery.py:414-415: "A successful provider discovery is the only operation that may
  rebind an account after it changes clients." `run_sync` writes back the metadata it read at the start of
  the batch (ad_account_sync.py:818), from before the account changed clients.
- *A failed acceptance that reopens an invite.* main.py:2251-2253: "A concurrent revoke/archive
  therefore wins cleanly instead of being overwritten after provisioning." A revocation while the
  invite is `accepted` changes nothing; if provisioning then fails, the invite is pending again
  (main.py:2315-2323). The same compensation removes access that another acceptance has granted in
  between, and the lazy expiry of `StartAccept`/`Expire` overwrites an `accepted` that came after its read.
- *An account that goes and comes back.* An account moved from c1 to c2 and back keeps its binding,
  which is usable again, as the binding only names the client. (`Usable` of Credentials)
- *Freshness past days never asked for.* A run with an explicit `date_from` moves `latest_data_date`
  forward; days before its range and after the old newest day are not fetched by any later default run.
  `FreshnessIsIngested` says only that the newest day is there.
- *A credential that a patch puts back.* integration_credentials.py:480-482 wants no credential restored to
  an old binding; `patch` (550-626) reads its row without a lock and writes every column back. If the row is
  replaced, archived, rotated or patched by another call in between, the older credentials, status or key return: a row
  that was archived is active again, or one whose key was removed since is unreadable. Bindings survive that if the
  patch itself changes nothing. The row is encrypted for the owner it names even then, as both columns come from one
  read. (`late` in Credentials; the three properties of section 9 except it, and nothing else)
- *A binding of a row that was switched off.* `bind_provider_account` reads the row's status (1064-1070) and inserts
  (1093) with nothing held in between; a row archived or suspended there has its binding after all. It is worth nothing
  while the row is off, as `resolve_bound_credential` looks again, and ends when it is switched on
  (`BindingsEndWithStatus`), except by an overtaken patch.
- *One account in two spellings.* db.py:66-69 and 147-149 mean the triggers to hold the rule against every
  writer, but they do not see through what the stores do. With `customers/12` on record, inactive, from an older release,
  its reactivation has passed its check when another client creates `12`; the trigger reads two accounts and lets both be
  active. (`Foreign` in AssignmentConflicts; `NoNewContest` is about what the triggers read as one)
- *Rows older than the canonical form.* Within one client the check outside the transaction is all there is: the unique
  index compares stored ids, so two racing moves of rows of different spelling meet in one client.
- *Reports in several transactions.* ad_stats.py:77-79 wants row_count consistent with totals; `aggregate`
  reads rows and scope in several transactions, so an account archived in between can make
  them differ for that one answer. `QualityJudgesTotals` is about one state.

## 16. What is not modelled

- **Of the modelled components**: cryptography of tokens, states and envelopes; audit records; listing and
  reading routes other than the reports of section 12; provider parsing; the in-memory stores,
  which only tests use. Of users: passwords, the expiry and refresh of sessions, and the switch to
  Envidicy ID only. Of discovery: the import of new accounts and the inbox clients it
  may create. Of Envidicy: logout transactions, project bindings and pilot cohorts.
- **PostgreSQL's wider interleavings** of transactions that do not take the lock (hazard at
  platform_admin.py:625): in the plan.
- **Alerts**: in the plan. Known from reading: they are processed after the lease of the run is released,
  so two runs may report in the other order; two raises of one fingerprint both insert and the second
  fails with the rest of its batch (alerts.py:78); an acknowledgement of a resolved alert makes it
  'acked' with its `resolved_at` kept.
- **Rate limiter**: local to a process, in the plan as a pure function. **Access rules** (`acl.py`) only read the
  tables of section 4. **Operational actions and audit log** are append-only.
- **Insights, metric aggregation**: read-only arithmetic. **Provider adapters**: HTTP and parsing; what they may
  answer is chosen freely. **Secrets, settings, schemas, migrations, operator scripts for migrations, the
  frontend**: configuration, cryptography or pure input and output.
