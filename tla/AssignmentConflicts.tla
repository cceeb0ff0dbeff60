------------------------- MODULE AssignmentConflicts -------------------------
(***************************************************************************)
(* Which client an advertising account of a provider is assigned to.       *)
(*                                                                         *)
(* The provider's account is its identity: platform and canonical external *)
(* id.  At most one active client should hold it.  A database may be older *)
(* than that rule and hold duplicates; writes may make no new ones, and an *)
(* administrator or agency manager settles an old one with                 *)
(* resolve_conflict, which names a winner and archives the losers together *)
(* with their budgets, if nothing has changed since the group was listed.  *)
(*                                                                         *)
(* The stores check before, and outside, the transaction that writes; the  *)
(* triggers of the schema repeat one of the checks inside it, over ids     *)
(* they normalize less thoroughly than the stores do.                      *)
(***************************************************************************)
EXTENDS Naturals, FiniteSets

CONSTANTS
    Writers,       \* handlers that create or patch accounts, or restore clients
    Reviewers,     \* sessions that list and resolve conflicts
    Clients, Accounts, Identities,
    Dressed,       \* spellings of an id the triggers see through: act_1, 1-2
    Foreign,       \* spellings only the stores see through: customers/12
    Canonical,     \* canonical_external_account_id itself
    NoAccount, Keep, Idle

VARIABLES
    clientLive,    \* clients whose status is active
    account,       \* ad_accounts
    acctBudget,    \* the account-scope budget of each account
    scope,         \* clients each reviewer may act for
    pending,       \* what a writer has checked and not yet written
    listed         \* the group a reviewer has read and not yet settled

acRows == <<clientLive, account, acctBudget, scope>>
acVars == <<acRows, pending, listed>>

Spellings == {Canonical} \cup Dressed \cup Foreign

\* id and spelling make external_account_id.  Rows older than the canonicalization
\* may have any spelling.
Account == [client: Clients, id: Identities, spelling: Spellings, active: BOOLEAN]

AccountPatch ==
    [client: Clients \cup {Keep}, id: Identities \cup {Keep}, active: BOOLEAN \cup {Keep}]

Pending ==
    [op: {"create"}, account: Accounts, row: Account]
    \cup [op: {"patch"}, account: Accounts, patch: AccountPatch]
    \cup [op: {"restore"}, client: Clients]

\* What group_version is a hash of.  A row written since carries another
\* updated_at, whatever its contents: touched.
Group ==
    [id: Identities, accounts: SUBSET Accounts, budgets: SUBSET Accounts, touched: BOOLEAN]

TypeOK ==
    /\ clientLive \subseteq Clients
    /\ account \in [Accounts -> Account \cup {NoAccount}]
    /\ acctBudget \in [Accounts -> {"none", "active", "archived"}]
    /\ scope \in [Reviewers -> SUBSET Clients]
    /\ pending \in [Writers -> Pending \cup {Idle}]
    /\ listed \in [Reviewers -> Group \cup {Idle}]

Mapped(a) == account[a] # NoAccount

-----------------------------------------------------------------------------
(* Rules *)

\* Accounts other than x that hold identity i actively for an active client
\* other than c.
HeldElsewhere(i, c, x) ==
    {a \in Accounts \ {x} :
        Mapped(a) /\ account[a].id = i /\ account[a].active
            /\ account[a].client # c /\ account[a].client \in clientLive}

\* _assert_unique_identity_available: compares canonical forms, any status.
UniqueInClient(c, i, x) ==
    \A a \in Accounts \ {x} : Mapped(a) => ~(account[a].client = c /\ account[a].id = i)

\* UNIQUE (client_id, platform, external_account_id): compares what is stored.
UniqueIndex(row, x) ==
    \A a \in Accounts \ {x} : Mapped(a) =>
        ~(/\ account[a].client = row.client
          /\ account[a].id = row.id
          /\ account[a].spelling = row.spelling)

\* What the triggers compare: dressing is stripped, anything else stays.
Seen(row) == <<row.id, IF row.spelling \in Foreign THEN row.spelling ELSE Canonical>>

\* The EXISTS of the triggers: accounts other than x that they take for the
\* row's and that are active for an active client other than c.
SeenElsewhere(row, c, x) ==
    {a \in Accounts \ {x} :
        Mapped(a) /\ Seen(account[a]) = Seen(row) /\ account[a].active
            /\ account[a].client # c /\ account[a].client \in clientLive}

\* _active_conflict_groups
ActiveOf(i) ==
    {a \in Accounts :
        Mapped(a) /\ account[a].id = i /\ account[a].active /\ account[a].client \in clientLive}

Conflict(i) == Cardinality(ActiveOf(i)) > 1

-----------------------------------------------------------------------------
\* Groups, once accounts accts and budgets of accounts of budgets are written.
Touched(groups, accts, budgets) ==
    [r \in Reviewers |->
        IF groups[r] # Idle /\ (groups[r].accounts \cap accts # {}
                                \/ groups[r].budgets \cap budgets # {})
        THEN [groups[r] EXCEPT !.touched = TRUE]
        ELSE groups[r]]

Touch(accts, budgets) == listed' = Touched(listed, accts, budgets)

\* Tables as an older release left them: the unique index is all that holds.
Init ==
    /\ clientLive \in SUBSET Clients
    /\ account \in [Accounts -> Account \cup {NoAccount}]
    /\ \A a \in Accounts : Mapped(a) => UniqueIndex(account[a], a)
    /\ acctBudget = [a \in Accounts |-> "none"]
    /\ scope = [r \in Reviewers |-> Clients]
    /\ pending = [w \in Writers |-> Idle]
    /\ listed = [r \in Reviewers |-> Idle]

-----------------------------------------------------------------------------
(* Accounts *)

\* The store is called for an existing client; the trigger and the index have
\* the last word.
StartCreate(w, a, c, i, act) ==
    /\ pending[w] = Idle
    /\ ~Mapped(a)
    /\ c \in clientLive
    /\ UniqueInClient(c, i, a)
    /\ act => HeldElsewhere(i, c, a) = {}
    /\ pending' = [pending EXCEPT ![w] =
            [op |-> "create", account |-> a,
             row |-> [client |-> c, id |-> i, spelling |-> Canonical, active |-> act]]]
    /\ UNCHANGED <<acRows, listed>>

Given(new, old) == IF new = Keep THEN old ELSE new

\* A new external id is stored in its canonical form.
Patched(row, p) ==
    [client   |-> Given(p.client, row.client),
     id       |-> Given(p.id, row.id),
     spelling |-> IF p.id = Keep THEN row.spelling ELSE Canonical,
     active   |-> Given(p.active, row.active)]

IdentityChanged(row, p) ==
    \/ p.client \notin {Keep, row.client}
    \/ p.id \notin {Keep, row.id}
    \/ p.active \notin {Keep, row.active}

\* patch_ad_account, then SqliteAdAccountStore.patch up to its UPDATE.
PatchChecks(a, p) ==
    LET row == account[a]
        new == Patched(row, p) IN
    /\ p.client # Keep \/ p.active = TRUE => new.client \in clientLive
    /\ new.client # row.client => acctBudget[a] = "none"
    /\ IdentityChanged(row, p) =>
        /\ UniqueInClient(new.client, new.id, a)
        /\ new.active => HeldElsewhere(new.id, new.client, a) = {}

StartPatch(w, a, p) ==
    /\ pending[w] = Idle
    /\ Mapped(a)
    /\ PatchChecks(a, p)
    /\ pending' = [pending EXCEPT ![w] = [op |-> "patch", account |-> a, patch |-> p]]
    /\ UNCHANGED <<acRows, listed>>

\* trg_ad_accounts_active_assignment_insert and _update: an update that leaves
\* status, client and external id as they are is not looked at.
TriggerAllows(a, row) ==
    row.active /\ (Mapped(a) => \/ ~account[a].active
                                \/ account[a].client # row.client
                                \/ account[a].id # row.id
                                \/ account[a].spelling # row.spelling)
        => SeenElsewhere(row, row.client, a) = {}

\* The INSERT or UPDATE, or the 409 the trigger or the index turns it into.
WriteAccount(w, a, row) ==
    /\ IF TriggerAllows(a, row) /\ UniqueIndex(row, a)
       THEN account' = [account EXCEPT ![a] = row] /\ Touch({a}, {})
       ELSE UNCHANGED <<account, listed>>
    /\ pending' = [pending EXCEPT ![w] = Idle]
    /\ UNCHANGED <<clientLive, acctBudget, scope>>

Doing(w) == IF pending[w] = Idle THEN "idle" ELSE pending[w].op

\* The id is fresh: no other row has it.
FinishCreate(w) ==
    /\ Doing(w) = "create"
    /\ ~Mapped(pending[w].account)
    /\ WriteAccount(w, pending[w].account, pending[w].row)

\* Only the fields of the payload are written, over the row as it is now.
FinishPatch(w) ==
    /\ Doing(w) = "patch"
    /\ WriteAccount(w, pending[w].account, Patched(account[pending[w].account], pending[w].patch))

ArchiveAccount(a) ==
    /\ Mapped(a)
    /\ account' = [account EXCEPT ![a].active = FALSE]
    /\ Touch({a}, {})
    /\ UNCHANGED <<clientLive, acctBudget, scope, pending>>

-----------------------------------------------------------------------------
(* Clients and budgets *)

ArchiveClient(c) ==
    /\ c \in clientLive
    /\ clientLive' = clientLive \ {c}
    /\ UNCHANGED <<account, acctBudget, scope, pending, listed>>

\* _ensure_client_restore_assignments_available
RestoreAllowed(c) ==
    \A a \in Accounts : Mapped(a) /\ account[a].client = c /\ account[a].active
        => HeldElsewhere(account[a].id, c, a) = {}

StartRestore(w, c) ==
    /\ pending[w] = Idle
    /\ c \notin clientLive
    /\ RestoreAllowed(c)
    /\ pending' = [pending EXCEPT ![w] = [op |-> "restore", client |-> c]]
    /\ UNCHANGED <<acRows, listed>>

\* Mutant: the schema has no trigger on clients.
NoRestoreTrigger(c) == TRUE

\* trg_clients_active_assignment_restore
RestoreTrigger(c) == c \notin clientLive =>
    \A a \in Accounts : Mapped(a) /\ account[a].client = c /\ account[a].active
        => SeenElsewhere(account[a], c, a) = {}

FinishRestore(w) ==
    LET c == pending[w].client IN
    /\ Doing(w) = "restore"
    /\ IF RestoreTrigger(c)
       THEN clientLive' = clientLive \cup {c}
       ELSE UNCHANGED clientLive
    /\ pending' = [pending EXCEPT ![w] = Idle]
    /\ UNCHANGED <<account, acctBudget, scope, listed>>

\* Budgets as this component sees them: every write of one bumps its version.
CreateBudget(a) ==
    /\ Mapped(a) /\ account[a].active /\ account[a].client \in clientLive
    /\ acctBudget[a] # "active"
    /\ acctBudget' = [acctBudget EXCEPT ![a] = "active"]
    /\ UNCHANGED <<clientLive, account, scope, pending, listed>>

EditBudget(a, status) ==
    /\ acctBudget[a] = "active"
    /\ acctBudget' = [acctBudget EXCEPT ![a] = status]
    /\ Touch({}, {a})
    /\ UNCHANGED <<clientLive, account, scope, pending>>

-----------------------------------------------------------------------------
(* Conflicts *)

\* An agency gains or loses a client; an actor who is no longer an active admin,
\* owner or manager may act for none.
ChangeScope(r, S) ==
    /\ S # scope[r]
    /\ scope' = [scope EXCEPT ![r] = S]
    /\ UNCHANGED <<clientLive, account, acctBudget, pending, listed>>

ActiveBudgets(accts) == {a \in accts : acctBudget[a] = "active"}

ClientsOf(accts) == {account[a].client : a \in accts}

\* _build_group: the candidates, their active budgets, and the version.
Shown(i) ==
    [id |-> i, accounts |-> ActiveOf(i), budgets |-> ActiveBudgets(ActiveOf(i)), touched |-> FALSE]

ListConflicts(r, i) ==
    /\ Conflict(i)
    /\ ClientsOf(ActiveOf(i)) \subseteq scope[r]
    /\ listed' = [listed EXCEPT ![r] = Shown(i)]
    /\ UNCHANGED <<acRows, pending>>

\* Mutant: the version is computed over the accounts alone.
UnchangedAccounts(g) ==
    /\ ActiveOf(g.id) = g.accounts
    /\ ~g.touched

\* The expected ids and the group_version of the payload against the rows under
\* the lock.
StillAsListed(g) ==
    /\ ActiveOf(g.id) = g.accounts
    /\ ActiveBudgets(ActiveOf(g.id)) = g.budgets
    /\ ~g.touched

\* resolve_conflict under BEGIN IMMEDIATE; any refusal rolls everything back.
Resolve(r, winner, policy) ==
    LET g      == listed[r]
        losers == g.accounts \ {winner}
        spent  == ActiveBudgets(losers) IN
    /\ g # Idle
    /\ Conflict(g.id)
    /\ ClientsOf(ActiveOf(g.id)) \subseteq scope[r]
    /\ StillAsListed(g)
    /\ winner \in g.accounts
    /\ policy = "archive" \/ spent = {}
    /\ account' = [a \in Accounts |->
            IF a \in losers THEN [account[a] EXCEPT !.active = FALSE] ELSE account[a]]
    /\ acctBudget' = [a \in Accounts |-> IF a \in spent THEN "archived" ELSE acctBudget[a]]
    /\ listed' = Touched([listed EXCEPT ![r] = Idle], losers, spent)
    /\ UNCHANGED <<clientLive, scope, pending>>

-----------------------------------------------------------------------------
Next ==
    \/ \E w \in Writers, a \in Accounts :
        \/ \E c \in Clients, i \in Identities, act \in BOOLEAN : StartCreate(w, a, c, i, act)
        \/ \E p \in AccountPatch : StartPatch(w, a, p)
    \/ \E w \in Writers : FinishCreate(w) \/ FinishPatch(w) \/ FinishRestore(w)
    \/ \E w \in Writers, c \in Clients : StartRestore(w, c)
    \/ \E c \in Clients : ArchiveClient(c)
    \/ \E a \in Accounts :
        \/ ArchiveAccount(a)
        \/ CreateBudget(a)
        \/ \E s \in {"active", "archived"} : EditBudget(a, s)
    \/ \E r \in Reviewers, S \in SUBSET Clients : ChangeScope(r, S)
    \/ \E r \in Reviewers, i \in Identities : ListConflicts(r, i)
    \/ \E r \in Reviewers, x \in Accounts, policy \in {"reject", "archive"} : Resolve(r, x, policy)

Spec == Init /\ [][Next]_acVars

-----------------------------------------------------------------------------
(* Properties *)

\* Rows the triggers take for one account, active for different active clients.
SeenActive(v) ==
    {a \in Accounts :
        Mapped(a) /\ Seen(account[a]) = v /\ account[a].active /\ account[a].client \in clientLive}

SeenContested(v) == \E a, b \in SeenActive(v) : account[a].client # account[b].client

\* Whatever the writers checked, and whatever happened since, no write makes two
\* active clients hold rows that the triggers take for one account.  Duplicates of
\* an older release may stay.  The code does not keep this of rows that only the
\* stores take for one: a check that is overtaken lets 12 in beside customers/12.
\* (the triggers of db.py; create and patch of SqliteAdAccountStore; patch of clients)
MakesNoContest == \A v \in Identities \X Spellings : SeenContested(v)' => SeenContested(v)

NoNewContest == [][MakesNoContest]_acVars

Settles(r) == listed[r] # Idle /\ listed'[r] = Idle

\* A resolution archives no budget the reviewer was not shown.
ArchivesOnlyShown ==
    \A r \in Reviewers : Settles(r) =>
        ActiveBudgets(Accounts) \ ActiveBudgets(Accounts)' \subseteq listed[r].budgets

OnlyShownBudgetsArchived == [][ArchivesOnlyShown]_acVars
=============================================================================
