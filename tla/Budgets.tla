------------------------------- MODULE Budgets -------------------------------
(***************************************************************************)
(* Manual budgets of clients and of their advertising accounts, with the   *)
(* parts of clients and accounts that the budget rules read.               *)
(*                                                                         *)
(* A route first checks the account and the client, each in a read of its  *)
(* own, then calls the store, which repeats only the rules about budgets   *)
(* inside BEGIN IMMEDIATE.  Every operation may run undisturbed; those in  *)
(* Racing may also be overtaken between the two.  A transfer repeats all   *)
(* its checks under the lock, an archiving has none that could go stale.   *)
(* There is one currency; amounts count a unit of money.                   *)
(***************************************************************************)
EXTENDS Naturals, FiniteSetsExt

CONSTANTS
    Handlers, Clients, Accounts,
    BudgetIds,     \* bound: rows the budgets table may come to hold
    LastDay,       \* bound: periods lie within 1 .. LastDay
    MaxAmount,     \* bound: amounts in payloads, and what transfers add up to
    FieldSets,     \* bound: sets of fields a budget patch may name
    Racing,        \* subset of {"create", "patch", "account"}
    NoAccount,     \* account_id of a client-scope budget
    NoBudget, Keep, Idle

ASSUME BoundAssumption == LastDay \in Nat /\ MaxAmount \in Nat
ASSUME ScopeAssumption == NoAccount \notin Accounts
ASSUME PatchAssumption == Keep \notin Accounts

VARIABLES
    live,      \* clients whose status is active
    account,   \* ad_accounts: client_id and status
    budget,    \* budgets
    local      \* what a handler between route checks and store remembers

tables == <<live, account, budget>>
vars   == <<tables, local>>

Periods == {p \in [from: 1 .. LastDay, to: 1 .. LastDay] : p.from <= p.to}

\* scope is 'client' exactly when account_id is null (_validate_scope).
Budget(amounts) ==
    [client: Clients, account: Accounts \cup {NoAccount}, amount: amounts,
     period: Periods, active: BOOLEAN]

ASSUME NullAssumption == NoBudget \notin Budget(Nat)

Account == [client: Clients, active: BOOLEAN]

NewBudgets == {v \in Budget(0 .. MaxAmount) : v.active}

\* Payloads of PATCH; Keep stands for a field that is not named.
BudgetPatches ==
    {p \in [client: Clients \cup {Keep}, account: Accounts \cup {NoAccount, Keep},
            amount: (0 .. MaxAmount) \cup {Keep}, period: Periods \cup {Keep},
            active: BOOLEAN \cup {Keep}] :
        {f \in DOMAIN p : p[f] # Keep} \in FieldSets}

AccountPatches ==
    [client: Clients \cup {Keep}, active: BOOLEAN \cup {Keep}]

Local ==
    [op: {"create"}, value: NewBudgets]
    \cup [op: {"patch"}, id: BudgetIds, patch: BudgetPatches]
    \cup [op: {"account"}, account: Accounts, patch: AccountPatches]

TypeOK ==
    /\ live \subseteq Clients
    /\ account \in [Accounts -> Account]
    /\ budget \in [BudgetIds -> Budget(Nat) \cup {NoBudget}]
    /\ local \in [Handlers -> Local \cup {Idle}]

-----------------------------------------------------------------------------
(* The rules the store enforces, over a table B *)

Exists(id) == budget[id] # NoBudget
Unused     == {id \in BudgetIds : ~Exists(id)}

Overlap(p, q) == p.from <= q.to /\ q.from <= p.to

\* Two active budgets of one scope key that share a day.
Clash(v, w) ==
    /\ v.active /\ w.active
    /\ Overlap(v.period, w.period)
    /\ v.account = w.account
    /\ v.account = NoAccount => v.client = w.client

\* Mutant: periods that only share a boundary day pass.
FreeOfOverlapButBoundary(B, id, v) ==
    \A k \in BudgetIds \ {id} : B[k] # NoBudget =>
        ~(Clash(v, B[k]) /\ v.period.from < B[k].period.to /\ B[k].period.from < v.period.to)

\* _assert_no_overlap
FreeOfOverlap(B, id, v) ==
    \A k \in BudgetIds \ {id} : B[k] # NoBudget => ~Clash(v, B[k])

\* Active budgets of client c and the given scope that overlap period p.
OfAccounts(B, c, p) ==
    {k \in BudgetIds : B[k] # NoBudget /\ B[k].active /\ B[k].client = c
                        /\ B[k].account # NoAccount /\ Overlap(B[k].period, p)}

OfClient(B, c, p) ==
    {k \in BudgetIds : B[k] # NoBudget /\ B[k].active /\ B[k].client = c
                        /\ B[k].account = NoAccount /\ Overlap(B[k].period, p)}

Sum(B, ids) == MapThenSumSet(LAMBDA k : B[k].amount, ids)

\* Mutant: it is enough to fit under one of the client's budgets.
WithinSomeCap(B, id, v) ==
    IF v.account = NoAccount
    THEN Sum(B, OfAccounts(B, v.client, v.period) \ {id}) <= v.amount
    ELSE \/ OfClient(B, v.client, v.period) = {}
         \/ \E k \in OfClient(B, v.client, v.period) :
            Sum(B, OfAccounts(B, v.client, B[k].period) \ {id}) + v.amount <= B[k].amount

\* _assert_client_account_allocation_limit.  An account budget counts in full
\* against every client budget it overlaps.
WithinCaps(B, id, v) ==
    IF v.account = NoAccount
    THEN Sum(B, OfAccounts(B, v.client, v.period) \ {id}) <= v.amount
    ELSE \A k \in OfClient(B, v.client, v.period) :
            Sum(B, OfAccounts(B, v.client, B[k].period) \ {id}) + v.amount <= B[k].amount

Acceptable(B, id, v) == v.active => FreeOfOverlap(B, id, v) /\ WithinCaps(B, id, v)

-----------------------------------------------------------------------------
Given(new, old) == IF new = Keep THEN old ELSE new

Merged(b, p) ==
    [client  |-> Given(p.client, b.client),
     account |-> Given(p.account, b.account),
     amount  |-> Given(p.amount, b.amount),
     period  |-> Given(p.period, b.period),
     active  |-> Given(p.active, b.active)]

Remember(h, r) == local' = [local EXCEPT ![h] = r]

Init ==
    /\ live = Clients
    /\ account \in [Accounts -> [client: Clients, active: {TRUE}]]
    /\ budget = [id \in BudgetIds |-> NoBudget]
    /\ local = [h \in Handlers |-> Idle]

-----------------------------------------------------------------------------
(* Clients and accounts *)

\* PATCH and DELETE of a client: one UPDATE of the status.
SetClientStatus(c, act) ==
    /\ live' = IF act THEN live \cup {c} ELSE live \ {c}
    /\ UNCHANGED <<account, budget, local>>

ArchiveAccount(a) ==
    /\ account' = [account EXCEPT ![a].active = FALSE]
    /\ UNCHANGED <<live, budget, local>>

\* Mutant: archived budgets do not keep the account.
AccountChecksActiveOnly(a, p) ==
    LET c == Given(p.client, account[a].client) IN
    /\ p.client # Keep \/ p.active = TRUE => c \in live
    /\ c # account[a].client =>
        \A id \in BudgetIds : Exists(id) /\ budget[id].active => budget[id].account # a

\* patch_ad_account: a budget of any status keeps the account with its client.
AccountChecks(a, p) ==
    LET c == Given(p.client, account[a].client) IN
    /\ p.client # Keep \/ p.active = TRUE => c \in live
    /\ c # account[a].client => \A id \in BudgetIds : Exists(id) => budget[id].account # a

\* Only the named fields are written.
WriteAccount(a, p) ==
    account' = [account EXCEPT ![a] =
        [client |-> Given(p.client, @.client), active |-> Given(p.active, @.active)]]

PatchAccount(a, p) ==
    /\ AccountChecks(a, p)
    /\ WriteAccount(a, p)
    /\ UNCHANGED <<live, budget, local>>

StartPatchAccount(h, a, p) ==
    /\ "account" \in Racing
    /\ local[h] = Idle
    /\ AccountChecks(a, p)
    /\ Remember(h, [op |-> "account", account |-> a, patch |-> p])
    /\ UNCHANGED tables

Doing(h) == IF local[h] = Idle THEN "idle" ELSE local[h].op

FinishPatchAccount(h) ==
    /\ Doing(h) = "account"
    /\ WriteAccount(local[h].account, local[h].patch)
    /\ Remember(h, Idle)
    /\ UNCHANGED <<live, budget>>

-----------------------------------------------------------------------------
(* Create *)

CreateChecks(v) ==
    /\ v.client \in live
    /\ v.account # NoAccount => account[v.account] = [client |-> v.client, active |-> TRUE]

StoreNew(v) ==
    \E id \in Unused : Acceptable(budget, id, v) /\ budget' = [budget EXCEPT ![id] = v]

CreateBudget(v) ==
    /\ CreateChecks(v)
    /\ StoreNew(v)
    /\ UNCHANGED <<live, account, local>>

StartCreate(h, v) ==
    /\ "create" \in Racing
    /\ local[h] = Idle
    /\ CreateChecks(v)
    /\ Remember(h, [op |-> "create", value |-> v])
    /\ UNCHANGED tables

\* The store refuses what has become unacceptable meanwhile.
FinishCreate(h) ==
    /\ Doing(h) = "create"
    /\ \/ StoreNew(local[h].value)
       \/ /\ \A id \in Unused : ~Acceptable(budget, id, local[h].value)
          /\ UNCHANGED budget
    /\ Remember(h, Idle)
    /\ UNCHANGED <<live, account>>

-----------------------------------------------------------------------------
(* Patch and archive *)

\* Mutant: the account's status is checked only where the payload names a status.
PatchChecksOnActivation(was, p) ==
    LET v == Merged(was, p)
        a == IF p.account \in Accounts THEN p.account ELSE was.account IN
    /\ v.active => v.client \in live
    /\ a # NoAccount =>
        /\ account[a].client = v.client
        /\ p.active = TRUE => account[a].active

\* patch_budget: an account_id that is null in the payload leaves the account of
\* the row in the check.
PatchChecks(was, p) ==
    LET v == Merged(was, p)
        a == IF p.account \in Accounts THEN p.account ELSE was.account IN
    /\ v.active => v.client \in live
    /\ a # NoAccount =>
        /\ account[a].client = v.client
        /\ v.active => account[a].active

\* Mutant: only a new amount is checked, not a new period, account or status.
StorePatchAmountOnly(id, p) ==
    /\ p.amount # Keep => Acceptable(budget, id, Merged(budget[id], p))
    /\ FreeOfOverlap(budget, id, Merged(budget[id], p))
    /\ budget' = [budget EXCEPT ![id] = Merged(@, p)]

\* The merge is with the row as it is under the lock.
StorePatch(id, p) ==
    /\ Acceptable(budget, id, Merged(budget[id], p))
    /\ budget' = [budget EXCEPT ![id] = Merged(@, p)]

\* A patch that would change nothing returns early.
PatchBudget(id, p) ==
    /\ Exists(id)
    /\ Merged(budget[id], p) # budget[id]
    /\ PatchChecks(budget[id], p)
    /\ StorePatch(id, p)
    /\ UNCHANGED <<live, account, local>>

StartPatch(h, id, p) ==
    /\ "patch" \in Racing
    /\ local[h] = Idle
    /\ Exists(id)
    /\ PatchChecks(budget[id], p)
    /\ Remember(h, [op |-> "patch", id |-> id, patch |-> p])
    /\ UNCHANGED tables

FinishPatch(h) ==
    LET id == local[h].id
        p  == local[h].patch IN
    /\ Doing(h) = "patch"
    /\ \/ StorePatch(id, p)
       \/ ~Acceptable(budget, id, Merged(budget[id], p)) /\ UNCHANGED budget
    /\ Remember(h, Idle)
    /\ UNCHANGED <<live, account>>

ArchiveBudget(id) ==
    /\ Exists(id)
    /\ budget' = [budget EXCEPT ![id].active = FALSE]
    /\ UNCHANGED <<live, account, local>>

-----------------------------------------------------------------------------
(* Transfer between account budgets of one client *)

\* Mutant: what the target had is overwritten.
CreditReplacing(B, s, a, amount) ==
    LET targets == {k \in OfAccounts(B, s.client, s.period) : B[k].account = a} IN
    \/ \E k \in targets :
        LET v == [B[k] EXCEPT !.amount = amount] IN
        /\ WithinCaps(B, k, v)
        /\ budget' = [B EXCEPT ![k] = v]
    \/ /\ targets = {}
       /\ \E k \in Unused :
            LET v == [s EXCEPT !.account = a, !.amount = amount] IN
            /\ Acceptable(B, k, v)
            /\ budget' = [B EXCEPT ![k] = v]

\* Which of several target budgets is credited depends on versions and times of
\* update; any may be.
Credit(B, s, a, amount) ==
    LET targets == {k \in OfAccounts(B, s.client, s.period) : B[k].account = a} IN
    \/ \E k \in targets :
        LET v == [B[k] EXCEPT !.amount = @ + amount] IN
        /\ v.amount <= MaxAmount
        /\ WithinCaps(B, k, v)
        /\ budget' = [B EXCEPT ![k] = v]
    \/ /\ targets = {}
       /\ \E k \in Unused :
            LET v == [s EXCEPT !.account = a, !.amount = amount] IN
            /\ Acceptable(B, k, v)
            /\ budget' = [B EXCEPT ![k] = v]

\* Mutant: the balance of the source is not checked.
TransferOverdrawn(id, a, amount) ==
    LET s == budget[id] IN
    /\ Exists(id)
    /\ s.active /\ s.account \notin {NoAccount, a}
    /\ s.client \in live
    /\ \A b \in {s.account, a} : account[b] = [client |-> s.client, active |-> TRUE]
    /\ Credit([budget EXCEPT ![id].amount = @ - amount], s, a, amount)
    /\ UNCHANGED <<live, account, local>>

Transfer(id, a, amount) ==
    LET s == budget[id] IN
    /\ Exists(id)
    /\ s.active /\ s.account \notin {NoAccount, a}
    /\ amount <= s.amount
    /\ s.client \in live
    /\ \A b \in {s.account, a} : account[b] = [client |-> s.client, active |-> TRUE]
    /\ Credit([budget EXCEPT ![id].amount = @ - amount], s, a, amount)
    /\ UNCHANGED <<live, account, local>>

-----------------------------------------------------------------------------
Next ==
    \/ \E c \in Clients, act \in BOOLEAN : SetClientStatus(c, act)
    \/ \E a \in Accounts : ArchiveAccount(a)
    \/ \E a \in Accounts, p \in AccountPatches : PatchAccount(a, p)
    \/ \E v \in NewBudgets : CreateBudget(v)
    \/ \E id \in BudgetIds : ArchiveBudget(id)
    \/ \E id \in BudgetIds, p \in BudgetPatches : PatchBudget(id, p)
    \/ \E id \in BudgetIds, a \in Accounts, n \in 1 .. MaxAmount : Transfer(id, a, n)
    \/ \E h \in Handlers :
        \/ \E a \in Accounts, p \in AccountPatches : StartPatchAccount(h, a, p)
        \/ \E v \in NewBudgets : StartCreate(h, v)
        \/ \E id \in BudgetIds, p \in BudgetPatches : StartPatch(h, id, p)
        \/ FinishPatchAccount(h)
        \/ FinishCreate(h)
        \/ FinishPatch(h)

Spec == Init /\ [][Next]_vars

-----------------------------------------------------------------------------
(* Properties *)

\* Active budgets of one client (client scope) or of one account (account
\* scope) never share a day, however the handlers interleave.
NoOverlap ==
    \A i, k \in BudgetIds :
        i # k /\ Exists(i) /\ Exists(k) => ~Clash(budget[i], budget[k])

\* A client's active budget covers all that is allocated to the client's
\* accounts over any period the two share: creating, patching, reactivating and
\* transferring all preserve it, whichever of the two sides they touch.
CapRespected ==
    \A i \in BudgetIds :
        Exists(i) /\ budget[i].active /\ budget[i].account = NoAccount =>
            Sum(budget, OfAccounts(budget, budget[i].client, budget[i].period))
                <= budget[i].amount

\* A step that changes two budgets moves money between two accounts of one
\* client: what is allocated to the accounts of each client stays the same.
TransferConserves ==
    [][Cardinality({i \in BudgetIds : budget'[i] # budget[i]}) > 1 =>
        \A c \in Clients :
            LET whole == [from |-> 1, to |-> LastDay] IN
            Sum(budget, OfAccounts(budget, c, whole)) = Sum(budget', OfAccounts(budget', c, whole))
      ]_vars

\* A budget of an account, archived ones included, belongs to the account's
\* client, although both rows can be moved to another client.
BudgetsFollowAccounts ==
    \A id \in BudgetIds :
        Exists(id) /\ budget[id].account # NoAccount =>
            account[budget[id].account].client = budget[id].client

KeepsToLiveAccounts ==
    \A id \in BudgetIds :
        budget'[id] # budget[id] /\ budget'[id] # NoBudget /\ budget'[id].active =>
            /\ budget'[id].client \in live
            /\ budget'[id].account # NoAccount => account[budget'[id].account].active

\* A budget that is active after a call that changed it had an active account
\* and an active client at that moment.
OnlyLiveAccountsAreBudgeted == [][KeepsToLiveAccounts]_vars
=============================================================================
