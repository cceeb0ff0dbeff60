---------------------------- MODULE MCBudgetCalls ----------------------------
(***************************************************************************)
(* Three ways to look at one instance.  "calls": no call is overtaken; two *)
(* budgets, two accounts and two clients come and go in any order.         *)
(* Otherwise all accounts are one client's.  "caps": three budgets with    *)
(* amounts that add up.  "races": requests are overtaken between check and *)
(* store, among two budgets.                                               *)
(***************************************************************************)
EXTENDS MCBudgets

VARIABLE focus

Owners == {account[a].client : a \in Accounts}

MCInit ==
    /\ Init
    /\ \/ focus = "calls"
       \/ focus \in {"caps", "races"} /\ Cardinality(Owners) = 1

Archiving == (\E a \in Accounts : ArchiveAccount(a)) \/ \E id \in BudgetIds : ArchiveBudget(id)

Fields(p) == {f \in DOMAIN p : p[f] # Keep}

\* At most two budgets, of an amount of at most 1.
FewAndSmall ==
    /\ Cardinality({id \in BudgetIds : Exists(id)'}) <= 2
    /\ \A id \in BudgetIds : Exists(id)' => budget'[id].amount <= 1

Calls ==
    /\ \/ Archiving
       \/ \E c \in Clients, act \in BOOLEAN : SetClientStatus(c, act)
       \/ \E a \in Accounts, p \in AccountPatches : PatchAccount(a, p)
       \/ \E v \in NewBudgets : v.amount <= 1 /\ CreateBudget(v)
       \/ \E id \in BudgetIds, p \in BudgetPatches :
            p.amount # 2 /\ Fields(p) # {"period", "active"} /\ PatchBudget(id, p)
       \/ \E id \in BudgetIds, a \in Accounts : Transfer(id, a, 1)
    /\ FewAndSmall

Caps ==
    \/ \E id \in BudgetIds : ArchiveBudget(id)
    \/ \E v \in NewBudgets : v.client \in Owners /\ CreateBudget(v)
    \/ \E id \in BudgetIds, p \in BudgetPatches : p.client = Keep /\ PatchBudget(id, p)
    \/ \E id \in BudgetIds, a \in Accounts, n \in 1 .. MaxAmount : Transfer(id, a, n)

\* The client stays active: its archiving would only disable calls.
Races ==
    /\ \/ Archiving
       \/ \E id \in BudgetIds, a \in Accounts : Transfer(id, a, 1)
       \/ \E h \in Handlers, a \in Accounts, p \in [client : Owners \cup {Keep}, active : BOOLEAN \cup {Keep}] :
            PatchAccount(a, p) \/ StartPatchAccount(h, a, p)
       \/ \E h \in Handlers, v \in NewBudgets :
            v.client \in Owners /\ v.amount <= 1 /\ (CreateBudget(v) \/ StartCreate(h, v))
       \/ \E h \in Handlers, id \in BudgetIds, p \in BudgetPatches :
            /\ p.client = Keep /\ p.amount # 2 /\ Fields(p) # {"period", "active"}
            /\ PatchBudget(id, p) \/ StartPatch(h, id, p)
       \/ \E h \in Handlers : FinishPatchAccount(h) \/ FinishCreate(h) \/ FinishPatch(h)
    /\ FewAndSmall

MCNext ==
    /\ CASE focus = "calls" -> Calls [] focus = "caps" -> Caps [] focus = "races" -> Races
    /\ UNCHANGED focus

MCSpec == MCInit /\ [][MCNext]_<<vars, focus>>

\* While calls follow one another, a budget that is active after one that changed
\* it had an active account and an active client.  (patch_budget)
CallsKeepToLiveAccounts == [][(focus = "calls") => KeepsToLiveAccounts]_vars
=============================================================================
