---------------------------- MODULE AccountProofs ----------------------------
(***************************************************************************)
(* What holds of an advertising account for every set of clients,          *)
(* accounts, writers, runs and uploads: which client it is assigned to,    *)
(* what a synchronization stores and claims of it, what a report says of   *)
(* its statistics, and who may change its budget at Meta.                  *)
(*                                                                         *)
(* The four components share the accounts and clients but no variable, and *)
(* each has its section, with its inductive invariant, below.              *)
(***************************************************************************)
EXTENDS Integers, FiniteSetTheorems, SequenceTheorems, TLAPS

CONSTANTS
    Clients, Accounts, NoAccount, Idle,
    \* of AssignmentConflicts
    Writers, Reviewers, Identities, Dressed, Foreign, Canonical, Keep,
    \* of AccountSync
    Runners, Requested, LeaseTtl, StaleAfter, MaxDelay, Overlap, Lookback, LastTick, MaxRows,
    MaxAttempt, Errors, NoOne, NoJob,
    \* of DailyStats
    NoClient, Platforms, Externals, Days, StatsStaleAfter, Uploads, NoKey, NoRow, Patched,
    \* of BudgetGate
    Together, MaxGrant

VARIABLES
    clientLive, account, acctBudget, scope, pending, listed,
    now, lease, job, meta, eligible, ingested, run,
    statClient, statAccount, stat, replay, accepted, newest,
    held, role, rank, boundCred, shaky, request

Conflicts == INSTANCE AssignmentConflicts
Sync      == INSTANCE AccountSync
Stats     == INSTANCE DailyStats WITH
                client <- statClient, account <- statAccount, StaleAfter <- StatsStaleAfter
Gate      == INSTANCE BudgetGate WITH cred <- boundCred

-----------------------------------------------------------------------------
\* A set of numbers that is not empty has a last one.

LEMMA SubsetInduction ==
    ASSUME NEW S, IsFiniteSet(S), NEW P,
           ASSUME NEW T \in SUBSET S, \A U \in SUBSET T : U # T => U \in P
           PROVE  T \in P
    PROVE  \A T \in SUBSET S : T \in P
  <1> DEFINE Bad == (SUBSET S) \ P
  <1> SUFFICES ASSUME Bad # {} PROVE FALSE
    OBVIOUS
  <1>1. IsWellFoundedOn(StrictSubsetOrdering(S), SUBSET S)
    <2>1. FiniteSubsetsOf(S) = SUBSET S
      BY FS_FiniteSubsetsOfFinite
    <2>2. IsWellFoundedOn(StrictSubsetOrdering(S), FiniteSubsetsOf(S))
      BY FS_StrictSubsetOrderingWellFounded
    <2> QED
      BY <2>1, <2>2, Zenon
  <1>2. PICK T \in Bad : \A U \in Bad : ~ (<<U, T>> \in StrictSubsetOrdering(S))
    <2>1. Bad \subseteq SUBSET S
      OBVIOUS
    <2> HIDE DEF Bad
    <2> QED
      BY <1>1, <2>1, WFMin
  <1>3. ASSUME NEW U \in SUBSET T, U # T PROVE U \in P
    BY <1>2, <1>3 DEF StrictSubsetOrdering
  <1> QED
    BY <1>2, <1>3

LEMMA LastOfSome ==
    ASSUME NEW S, IsFiniteSet(S), S \subseteq Int
    PROVE  \A T \in SUBSET S : T # {} => \E x \in T : \A y \in T : x >= y
<1> DEFINE P == {T \in SUBSET S : T # {} => \E x \in T : \A y \in T : x >= y}
<1>1. ASSUME NEW T \in SUBSET S, \A U \in SUBSET T : U # T => U \in P
      PROVE  T \in P
  <2>1. CASE T = {}
    BY <2>1
  <2>2. CASE T # {}
    <3>1. PICK t \in T : TRUE BY <2>2
    <3>2. T \ {t} \in P BY <1>1, <3>1
    <3>3. CASE T \ {t} = {}
      <4>1. \A y \in T : t >= y BY <3>1, <3>3
      <4>2. QED BY <3>1, <4>1
    <3>4. CASE T \ {t} # {}
      <4>1. PICK m \in T \ {t} : \A y \in T \ {t} : m >= y BY <3>2, <3>4
      <4>2. t \in Int /\ m \in Int /\ T \subseteq Int BY <3>1, <4>1
      <4>3. CASE t >= m
        <5>1. \A y \in T : t >= y BY <4>1, <4>2, <4>3
        <5>2. QED BY <3>1, <5>1
      <4>4. CASE ~(t >= m)
        <5>1. \A y \in T : m >= y BY <4>1, <4>2, <4>4
        <5>2. QED BY <4>1, <5>1
      <4>5. QED BY <4>3, <4>4
    <3>5. QED BY <3>3, <3>4
  <2>3. QED BY <2>1, <2>2
<1> HIDE DEF P
<1>2. \A T \in SUBSET S : T \in P BY <1>1, SubsetInduction
<1>3. QED BY <1>2 DEF P

-----------------------------------------------------------------------------
(* Assignments and their conflicts *)

\* No account, no call and no group is like none.
ConflictNulls ==
    NoAccount \notin Conflicts!Account /\ Idle \notin Conflicts!Pending
        /\ Idle \notin Conflicts!Group

\* A patch is of an account that exists, and stays so.
PatchesAreOfAccounts ==
    \A w \in Writers : Conflicts!Doing(w) = "patch" => Conflicts!Mapped(pending[w].account)

ConflictInv == Conflicts!TypeOK /\ PatchesAreOfAccounts

LEMMA PendingIs ==
    ASSUME ConflictNulls, Conflicts!TypeOK, NEW w \in Writers
    PROVE  /\ Conflicts!Doing(w) = "create" => /\ pending[w].account \in Accounts
                                               /\ pending[w].row \in Conflicts!Account
           /\ Conflicts!Doing(w) = "patch"  => /\ pending[w].account \in Accounts
                                               /\ pending[w].patch \in Conflicts!AccountPatch
           /\ Conflicts!Doing(w) = "restore" => pending[w].client \in Clients
BY DEF Conflicts!TypeOK, Conflicts!Pending, Conflicts!Doing

LEMMA PatchedTyped ==
    ASSUME NEW row \in Conflicts!Account, NEW p \in Conflicts!AccountPatch
    PROVE  Conflicts!Patched(row, p) \in Conflicts!Account
BY DEF Conflicts!Patched, Conflicts!Given, Conflicts!Account, Conflicts!AccountPatch, Conflicts!Spellings

\* Whoever is touched is still there.
LEMMA TouchedTyped ==
    ASSUME ConflictNulls, NEW groups \in [Reviewers -> Conflicts!Group \cup {Idle}], NEW accts,
           NEW budgets
    PROVE  /\ Conflicts!Touched(groups, accts, budgets)
                  \in [Reviewers -> Conflicts!Group \cup {Idle}]
           /\ \A r \in Reviewers : groups[r] # Idle =>
                  Conflicts!Touched(groups, accts, budgets)[r] # Idle
<1>1. \A g \in Conflicts!Group : [g EXCEPT !.touched = TRUE] \in Conflicts!Group
  BY DEF Conflicts!Group
<1>2. ASSUME NEW r \in Reviewers
      PROVE  /\ Conflicts!Touched(groups, accts, budgets)[r] \in Conflicts!Group \cup {Idle}
             /\ groups[r] # Idle => Conflicts!Touched(groups, accts, budgets)[r] # Idle
  BY <1>1 DEF Conflicts!Touched, ConflictNulls
<1>3. QED BY <1>2 DEF Conflicts!Touched

LEMMA WriteAccountTyped ==
    ASSUME ConflictNulls, ConflictInv, NEW w \in Writers, NEW a \in Accounts,
           NEW row \in Conflicts!Account,
           Conflicts!WriteAccount(w, a, row)
    PROVE  ConflictInv'
<1>1. account' \in [Accounts -> Conflicts!Account \cup {NoAccount}]
      /\ \A b \in Accounts : Conflicts!Mapped(b) => Conflicts!Mapped(b)'
  BY DEF Conflicts!WriteAccount, ConflictInv, Conflicts!TypeOK, Conflicts!Mapped, ConflictNulls
<1>2. listed' \in [Reviewers -> Conflicts!Group \cup {Idle}]
  BY TouchedTyped DEF Conflicts!WriteAccount, Conflicts!Touch, ConflictInv, Conflicts!TypeOK
<1>3. pending' \in [Writers -> Conflicts!Pending \cup {Idle}]
      /\ \A v \in Writers : pending'[v] \in {pending[v], Idle}
  BY DEF Conflicts!WriteAccount, ConflictInv, Conflicts!TypeOK
<1>4. Conflicts!TypeOK'
  BY <1>1, <1>2, <1>3 DEF Conflicts!WriteAccount, ConflictInv, Conflicts!TypeOK
<1>5. ASSUME NEW v \in Writers, Conflicts!Doing(v)' = "patch"
      PROVE  Conflicts!Mapped(pending[v].account)'
  <2>1. pending'[v] = pending[v] /\ Conflicts!Doing(v) = "patch" BY <1>3, <1>5 DEF Conflicts!Doing
  <2>2. pending[v].account \in Accounts /\ Conflicts!Mapped(pending[v].account)
    BY <2>1, PendingIs DEF ConflictInv, PatchesAreOfAccounts
  <2>3. QED BY <1>1, <2>1, <2>2 DEF Conflicts!Mapped
<1>6. QED BY <1>4, <1>5 DEF ConflictInv, PatchesAreOfAccounts

\* Where accounts and what is pending stay.
LEMMA PatchesStay ==
    ASSUME ConflictNulls, ConflictInv, Conflicts!TypeOK', UNCHANGED pending,
           \A b \in Accounts : Conflicts!Mapped(b) => Conflicts!Mapped(b)'
    PROVE  ConflictInv'
<1>1. ASSUME NEW v \in Writers, Conflicts!Doing(v)' = "patch"
      PROVE  Conflicts!Mapped(pending[v].account)'
  <2>1. Conflicts!Doing(v) = "patch" BY <1>1 DEF Conflicts!Doing
  <2>2. pending[v].account \in Accounts /\ Conflicts!Mapped(pending[v].account)
    BY <2>1, PendingIs DEF ConflictInv, PatchesAreOfAccounts
  <2>3. QED BY <2>2 DEF Conflicts!Mapped
<1>2. QED BY <1>1 DEF ConflictInv, PatchesAreOfAccounts

LEMMA ConflictInvKept ==
    ASSUME ConflictNulls, ConflictInv, [Conflicts!Next]_(Conflicts!acVars)
    PROVE  ConflictInv'
<1>1. ASSUME NEW w \in Writers, NEW a \in Accounts, NEW c \in Clients, NEW i \in Identities,
             NEW act \in BOOLEAN, Conflicts!StartCreate(w, a, c, i, act)
      PROVE  ConflictInv'
  <2> DEFINE p == [op |-> "create", account |-> a,
                   row |-> [client |-> c, id |-> i, spelling |-> Canonical, active |-> act]]
  <2>1. p \in Conflicts!Pending
    BY DEF Conflicts!Pending, Conflicts!Account, Conflicts!Spellings
  <2>2. pending' = [pending EXCEPT ![w] = p] /\ UNCHANGED <<Conflicts!acRows, listed>>
    BY <1>1 DEF Conflicts!StartCreate
  <2>3. p.op = "create" OBVIOUS
  <2> HIDE DEF p
  <2>4. QED BY <2>1, <2>2, <2>3
    DEF ConflictInv, Conflicts!TypeOK, PatchesAreOfAccounts, Conflicts!Doing, Conflicts!Mapped,
        Conflicts!acRows
<1>2. ASSUME NEW w \in Writers, NEW a \in Accounts, NEW q \in Conflicts!AccountPatch,
             Conflicts!StartPatch(w, a, q)
      PROVE  ConflictInv'
  <2> DEFINE p == [op |-> "patch", account |-> a, patch |-> q]
  <2>1. p \in Conflicts!Pending BY DEF Conflicts!Pending
  <2>2. pending' = [pending EXCEPT ![w] = p] /\ UNCHANGED <<Conflicts!acRows, listed>>
            /\ Conflicts!Mapped(a)
    BY <1>2 DEF Conflicts!StartPatch
  <2>3. p.account = a OBVIOUS
  <2> HIDE DEF p
  <2>4. QED BY <2>1, <2>2, <2>3
    DEF ConflictInv, Conflicts!TypeOK, PatchesAreOfAccounts, Conflicts!Doing, Conflicts!Mapped,
        Conflicts!acRows
<1>3. ASSUME NEW w \in Writers, Conflicts!FinishCreate(w) PROVE ConflictInv'
  BY <1>3, PendingIs, WriteAccountTyped DEF Conflicts!FinishCreate, ConflictInv
<1>4. ASSUME NEW w \in Writers, Conflicts!FinishPatch(w) PROVE ConflictInv'
  <2>1. pending[w].account \in Accounts /\ pending[w].patch \in Conflicts!AccountPatch
        /\ account[pending[w].account] \in Conflicts!Account
    BY <1>4, PendingIs
    DEF Conflicts!FinishPatch, ConflictInv, PatchesAreOfAccounts, Conflicts!Mapped, Conflicts!TypeOK
  <2>2. QED BY <1>4, <2>1, PatchedTyped, WriteAccountTyped DEF Conflicts!FinishPatch
<1>5. ASSUME NEW w \in Writers, Conflicts!FinishRestore(w) PROVE ConflictInv'
  <2>1. pending[w].client \in Clients BY <1>5, PendingIs DEF Conflicts!FinishRestore, ConflictInv
  <2>2. Conflicts!TypeOK' BY <1>5, <2>1 DEF Conflicts!FinishRestore, ConflictInv, Conflicts!TypeOK
  <2>3. \A v \in Writers : Conflicts!Doing(v)' = "patch" =>
            Conflicts!Doing(v) = "patch" /\ pending'[v] = pending[v]
    BY <1>5 DEF Conflicts!FinishRestore, Conflicts!Doing, ConflictInv, Conflicts!TypeOK
  <2>4. QED
    BY <1>5, <2>2, <2>3
    DEF Conflicts!FinishRestore, ConflictInv, PatchesAreOfAccounts, Conflicts!Mapped
<1>6. ASSUME NEW w \in Writers, NEW c \in Clients, Conflicts!StartRestore(w, c) PROVE ConflictInv'
  <2> DEFINE p == [op |-> "restore", client |-> c]
  <2>1. p \in Conflicts!Pending BY DEF Conflicts!Pending
  <2>2. pending' = [pending EXCEPT ![w] = p] /\ UNCHANGED <<Conflicts!acRows, listed>>
    BY <1>6 DEF Conflicts!StartRestore
  <2>3. p.op = "restore" OBVIOUS
  <2> HIDE DEF p
  <2>4. QED BY <2>1, <2>2, <2>3
    DEF ConflictInv, Conflicts!TypeOK, PatchesAreOfAccounts, Conflicts!Doing, Conflicts!Mapped,
        Conflicts!acRows
<1>7. ASSUME NEW c \in Clients, Conflicts!ArchiveClient(c) PROVE ConflictInv'
  BY <1>7
  DEF Conflicts!ArchiveClient, ConflictInv, Conflicts!TypeOK, PatchesAreOfAccounts,
      Conflicts!Doing, Conflicts!Mapped
<1>8. ASSUME NEW a \in Accounts, Conflicts!ArchiveAccount(a) PROVE ConflictInv'
  <2>1. [account[a] EXCEPT !.active = FALSE] \in Conflicts!Account
    BY <1>8
    DEF Conflicts!ArchiveAccount, Conflicts!Mapped, ConflictInv, Conflicts!TypeOK, Conflicts!Account
  <2>2. account' = [account EXCEPT ![a] = [account[a] EXCEPT !.active = FALSE]]
    BY <1>8 DEF Conflicts!ArchiveAccount, ConflictInv, Conflicts!TypeOK
  <2>3. account' \in [Accounts -> Conflicts!Account \cup {NoAccount}]
        /\ \A b \in Accounts : Conflicts!Mapped(b) => Conflicts!Mapped(b)'
    BY <2>1, <2>2 DEF ConflictInv, Conflicts!TypeOK, Conflicts!Mapped, ConflictNulls
  <2>4. listed' \in [Reviewers -> Conflicts!Group \cup {Idle}]
    BY <1>8, TouchedTyped
    DEF Conflicts!ArchiveAccount, Conflicts!Touch, ConflictInv, Conflicts!TypeOK
  <2>5. Conflicts!TypeOK'
    BY <1>8, <2>3, <2>4 DEF Conflicts!ArchiveAccount, ConflictInv, Conflicts!TypeOK
  <2>6. QED BY <1>8, <2>3, <2>5, PatchesStay DEF Conflicts!ArchiveAccount
<1>9. ASSUME NEW a \in Accounts, Conflicts!CreateBudget(a) PROVE ConflictInv'
  BY <1>9
  DEF Conflicts!CreateBudget, ConflictInv, Conflicts!TypeOK, PatchesAreOfAccounts,
      Conflicts!Doing, Conflicts!Mapped
<1>10. ASSUME NEW a \in Accounts, NEW s \in {"active", "archived"}, Conflicts!EditBudget(a, s)
       PROVE  ConflictInv'
  <2>1. listed' \in [Reviewers -> Conflicts!Group \cup {Idle}]
    BY <1>10, TouchedTyped DEF Conflicts!EditBudget, Conflicts!Touch, ConflictInv, Conflicts!TypeOK
  <2>2. QED BY <1>10, <2>1
    DEF Conflicts!EditBudget, ConflictInv, Conflicts!TypeOK, PatchesAreOfAccounts,
        Conflicts!Doing, Conflicts!Mapped
<1>11. ASSUME NEW r \in Reviewers, NEW S \in SUBSET Clients, Conflicts!ChangeScope(r, S)
       PROVE  ConflictInv'
  BY <1>11
  DEF Conflicts!ChangeScope, ConflictInv, Conflicts!TypeOK, PatchesAreOfAccounts,
      Conflicts!Doing, Conflicts!Mapped
<1>12. ASSUME NEW r \in Reviewers, NEW i \in Identities, Conflicts!ListConflicts(r, i)
       PROVE  ConflictInv'
  <2>1. Conflicts!Shown(i) \in Conflicts!Group
    BY DEF Conflicts!Shown, Conflicts!Group, Conflicts!ActiveOf, Conflicts!ActiveBudgets
  <2>2. listed' \in [Reviewers -> Conflicts!Group \cup {Idle}]
    BY <1>12, <2>1 DEF Conflicts!ListConflicts, ConflictInv, Conflicts!TypeOK
  <2>3. QED BY <1>12, <2>2
    DEF Conflicts!ListConflicts, Conflicts!acRows, ConflictInv, Conflicts!TypeOK,
        PatchesAreOfAccounts, Conflicts!Doing, Conflicts!Mapped
<1>13. ASSUME NEW r \in Reviewers, NEW x \in Accounts, NEW policy \in {"reject", "archive"},
              Conflicts!Resolve(r, x, policy)
       PROVE  ConflictInv'
  <2> DEFINE losers == listed[r].accounts \ {x}
             spent  == Conflicts!ActiveBudgets(losers)
             left   == [listed EXCEPT ![r] = Idle]
  <2>1. account' = [a \in Accounts |->
            IF a \in losers THEN [account[a] EXCEPT !.active = FALSE] ELSE account[a]]
        /\ acctBudget' = [a \in Accounts |-> IF a \in spent THEN "archived" ELSE acctBudget[a]]
        /\ listed' = Conflicts!Touched(left, losers, spent)
        /\ UNCHANGED <<clientLive, scope, pending>>
    BY <1>13 DEF Conflicts!Resolve
  <2>2. \A a \in losers : account[a] \in Conflicts!Account
    BY <1>13
    DEF Conflicts!Resolve, Conflicts!StillAsListed, Conflicts!ActiveOf, Conflicts!Mapped,
        ConflictInv, Conflicts!TypeOK
  <2>3. \A a \in losers : [account[a] EXCEPT !.active = FALSE] \in Conflicts!Account
    BY <2>2 DEF Conflicts!Account
  <2>4. left \in [Reviewers -> Conflicts!Group \cup {Idle}] BY DEF ConflictInv, Conflicts!TypeOK
  <2> HIDE DEF losers, spent, left
  <2>5. account' \in [Accounts -> Conflicts!Account \cup {NoAccount}]
        /\ \A b \in Accounts : Conflicts!Mapped(b) => Conflicts!Mapped(b)'
    BY <2>1, <2>3 DEF ConflictInv, Conflicts!TypeOK, Conflicts!Mapped, ConflictNulls
  <2>6. acctBudget' \in [Accounts -> {"none", "active", "archived"}]
    BY <2>1 DEF ConflictInv, Conflicts!TypeOK
  <2>7. listed' \in [Reviewers -> Conflicts!Group \cup {Idle}] BY <2>1, <2>4, TouchedTyped
  <2>8. Conflicts!TypeOK' BY <2>1, <2>5, <2>6, <2>7 DEF ConflictInv, Conflicts!TypeOK
  <2>9. QED BY <2>1, <2>5, <2>8, PatchesStay
<1>14. CASE UNCHANGED Conflicts!acVars
  BY <1>14
  DEF Conflicts!acVars, Conflicts!acRows, ConflictInv, Conflicts!TypeOK, PatchesAreOfAccounts,
      Conflicts!Doing, Conflicts!Mapped
<1>15. QED
  BY <1>1, <1>2, <1>3, <1>4, <1>5, <1>6, <1>7, <1>8, <1>9, <1>10, <1>11, <1>12, <1>13, <1>14
  DEF Conflicts!Next

\* Whoever is in the way of the account that is written was there before.
LEMMA WriteMakesNoContest ==
    ASSUME ConflictNulls, ConflictInv, NEW w \in Writers, NEW x \in Accounts,
           NEW row \in Conflicts!Account,
           Conflicts!WriteAccount(w, x, row)
    PROVE  Conflicts!MakesNoContest
<1>1. CASE UNCHANGED account
  BY <1>1
  DEF Conflicts!WriteAccount, Conflicts!MakesNoContest, Conflicts!SeenContested, Conflicts!SeenActive,
      Conflicts!Mapped
<1>2. CASE account' = [account EXCEPT ![x] = row] /\ Conflicts!TriggerAllows(x, row)
  <2> SUFFICES ASSUME NEW v \in Identities \X Conflicts!Spellings, NEW a \in Conflicts!SeenActive(v)',
                      NEW b \in Conflicts!SeenActive(v)',
                      account'[a].client # account'[b].client
               PROVE  Conflicts!SeenContested(v)
    BY DEF Conflicts!MakesNoContest, Conflicts!SeenContested
  <2>1. clientLive' = clientLive BY DEF Conflicts!WriteAccount
  <2>2. account'[x] = row /\ \A c \in Accounts : c # x => account'[c] = account[c]
    BY <1>2 DEF ConflictInv, Conflicts!TypeOK
  <2>3. \A c \in Conflicts!SeenActive(v)' : c # x => c \in Conflicts!SeenActive(v)
    BY <2>1, <2>2 DEF Conflicts!SeenActive, Conflicts!Mapped
  \* x itself and one more.
  <2>4. ASSUME NEW c \in Conflicts!SeenActive(v)', c # x, x \in Conflicts!SeenActive(v)',
               account'[c].client # row.client
        PROVE  Conflicts!SeenContested(v)
    <3>1. c \in Conflicts!SeenActive(v) /\ account'[c] = account[c]
      BY <2>2, <2>3, <2>4 DEF Conflicts!SeenActive
    <3>2. row.active /\ Conflicts!Seen(row) = v BY <2>2, <2>4 DEF Conflicts!SeenActive
    <3>3. c \in Conflicts!SeenElsewhere(row, row.client, x)
      BY <2>4, <3>1, <3>2 DEF Conflicts!SeenElsewhere, Conflicts!SeenActive
    <3>4. Conflicts!Mapped(x) /\ account[x].active /\ account[x].client = row.client
              /\ Conflicts!Seen(account[x]) = v
      BY <1>2, <3>2, <3>3 DEF Conflicts!TriggerAllows, Conflicts!Seen
    <3>5. row.client \in clientLive BY <2>1, <2>2, <2>4 DEF Conflicts!SeenActive
    <3>6. x \in Conflicts!SeenActive(v) BY <3>4, <3>5 DEF Conflicts!SeenActive
    <3>7. QED BY <2>4, <3>1, <3>4, <3>6 DEF Conflicts!SeenContested
  <2>5. CASE a = x
    BY <2>2, <2>4, <2>5
  <2>6. CASE b = x
    BY <2>2, <2>4, <2>6
  <2>7. CASE a # x /\ b # x
    <3>1. a \in Conflicts!SeenActive(v) /\ b \in Conflicts!SeenActive(v) BY <2>3, <2>7
    <3>2. account'[a] = account[a] /\ account'[b] = account[b]
      BY <2>2, <2>7, <3>1 DEF Conflicts!SeenActive
    <3>3. QED BY <3>1, <3>2 DEF Conflicts!SeenContested
  <2>8. QED BY <2>5, <2>6, <2>7
<1>3. QED BY <1>1, <1>2 DEF Conflicts!WriteAccount

\* Accounts that are only archived contest nothing new.
LEMMA ArchivingMakesNoContest ==
    ASSUME clientLive' \subseteq clientLive,
           \A a \in Accounts : Conflicts!Mapped(a)' /\ account'[a].active =>
               account'[a] = account[a]
    PROVE  Conflicts!MakesNoContest
BY DEF Conflicts!MakesNoContest, Conflicts!SeenContested, Conflicts!SeenActive, Conflicts!Mapped

LEMMA RestoreMakesNoContest ==
    ASSUME ConflictNulls, ConflictInv, NEW w \in Writers, Conflicts!FinishRestore(w)
    PROVE  Conflicts!MakesNoContest
<1> DEFINE c == pending[w].client
<1>1. UNCHANGED account BY DEF Conflicts!FinishRestore
<1>2. CASE UNCHANGED clientLive
  BY <1>1, <1>2, ArchivingMakesNoContest
<1>3. CASE c \notin clientLive /\ clientLive' = clientLive \cup {c} /\ Conflicts!RestoreTrigger(c)
  <2> SUFFICES ASSUME NEW v \in Identities \X Conflicts!Spellings,
                      NEW a \in Conflicts!SeenActive(v)', NEW b \in Conflicts!SeenActive(v)',
                      account[a].client # account[b].client
               PROVE  Conflicts!SeenContested(v)
    BY <1>1, <1>3 DEF Conflicts!MakesNoContest, Conflicts!SeenContested, Conflicts!SeenActive
  <2>1. \A d \in Conflicts!SeenActive(v)' : d \in Conflicts!SeenActive(v) \/ account[d].client = c
    BY <1>1, <1>3 DEF Conflicts!SeenActive, Conflicts!Mapped
  <2>2. \A d \in Conflicts!SeenActive(v)' : d \in Accounts /\ Conflicts!Mapped(d)
            /\ account[d].active /\ Conflicts!Seen(account[d]) = v
    BY <1>1 DEF Conflicts!SeenActive, Conflicts!Mapped
  <2>3. ASSUME NEW d \in Conflicts!SeenActive(v)', NEW e \in Conflicts!SeenActive(v)',
               account[d].client = c,
               account[e].client # c
        PROVE  FALSE
    <3>1. e \in Conflicts!SeenActive(v) BY <2>1, <2>3
    <3>2. e # d BY <2>3
    <3>3. e \in Conflicts!SeenElsewhere(account[d], c, d)
      <4>1. /\ e \in Accounts \ {d} /\ Conflicts!Mapped(e)
            /\ Conflicts!Seen(account[e]) = v
            /\ account[e].active /\ account[e].client \in clientLive
        BY <3>1, <3>2 DEF Conflicts!SeenActive
      <4>2. Conflicts!Seen(account[d]) = v BY <2>2, <2>3
      <4>3. QED BY <2>3, <4>1, <4>2 DEF Conflicts!SeenElsewhere
    <3>4. Conflicts!SeenElsewhere(account[d], c, d) = {}
      BY <1>3, <2>2, <2>3 DEF Conflicts!RestoreTrigger
    <3>5. QED BY <2>2, <3>3, <3>4
  <2>4. a \in Conflicts!SeenActive(v) /\ b \in Conflicts!SeenActive(v) BY <2>1, <2>3
  <2>5. QED BY <2>4 DEF Conflicts!SeenContested
<1>4. c \in clientLive /\ clientLive' = clientLive \cup {c} => UNCHANGED clientLive OBVIOUS
<1>5. QED BY <1>2, <1>3, <1>4 DEF Conflicts!FinishRestore

LEMMA NoContestStep ==
    ASSUME ConflictNulls, ConflictInv, [Conflicts!Next]_(Conflicts!acVars)
    PROVE  Conflicts!MakesNoContest
<1>1. ASSUME NEW w \in Writers, Conflicts!FinishCreate(w) PROVE Conflicts!MakesNoContest
  BY <1>1, PendingIs, WriteMakesNoContest DEF Conflicts!FinishCreate, ConflictInv
<1>2. ASSUME NEW w \in Writers, Conflicts!FinishPatch(w) PROVE Conflicts!MakesNoContest
  <2>1. pending[w].account \in Accounts /\ pending[w].patch \in Conflicts!AccountPatch
        /\ account[pending[w].account] \in Conflicts!Account
    BY <1>2, PendingIs
    DEF Conflicts!FinishPatch, ConflictInv, PatchesAreOfAccounts, Conflicts!Mapped, Conflicts!TypeOK
  <2>2. QED BY <1>2, <2>1, PatchedTyped, WriteMakesNoContest DEF Conflicts!FinishPatch
<1>3. ASSUME NEW w \in Writers, Conflicts!FinishRestore(w) PROVE Conflicts!MakesNoContest
  BY <1>3, RestoreMakesNoContest
<1>4. CASE clientLive' \subseteq clientLive /\ UNCHANGED account
  BY <1>4, ArchivingMakesNoContest
<1>5. ASSUME NEW a \in Accounts, Conflicts!ArchiveAccount(a) PROVE Conflicts!MakesNoContest
  <2>1. ~account'[a].active /\ \A b \in Accounts : b # a => account'[b] = account[b]
    BY <1>5
    DEF Conflicts!ArchiveAccount, Conflicts!Mapped, ConflictInv, Conflicts!TypeOK, Conflicts!Account
  <2>2. clientLive' = clientLive BY <1>5 DEF Conflicts!ArchiveAccount
  <2>3. QED BY <2>1, <2>2, ArchivingMakesNoContest
<1>6. ASSUME NEW r \in Reviewers, NEW x \in Accounts, NEW policy \in {"reject", "archive"},
             Conflicts!Resolve(r, x, policy)
      PROVE  Conflicts!MakesNoContest
  <2> DEFINE losers == listed[r].accounts \ {x}
  <2>1. \A a \in losers : account[a] \in Conflicts!Account
    BY <1>6
    DEF Conflicts!Resolve, Conflicts!StillAsListed, Conflicts!ActiveOf, Conflicts!Mapped,
        ConflictInv, Conflicts!TypeOK
  <2>2. \A a \in losers : ~[account[a] EXCEPT !.active = FALSE].active BY <2>1 DEF Conflicts!Account
  <2>3. account' = [a \in Accounts |->
            IF a \in losers THEN [account[a] EXCEPT !.active = FALSE] ELSE account[a]]
        /\ clientLive' = clientLive
    BY <1>6 DEF Conflicts!Resolve
  <2> HIDE DEF losers
  <2>4. QED BY <2>2, <2>3, ArchivingMakesNoContest
<1>7. QED
  BY <1>1, <1>2, <1>3, <1>4, <1>5, <1>6
  DEF Conflicts!Next, Conflicts!acVars, Conflicts!acRows, Conflicts!StartCreate,
      Conflicts!StartPatch, Conflicts!StartRestore, Conflicts!ArchiveClient, Conflicts!CreateBudget,
      Conflicts!EditBudget, Conflicts!ChangeScope, Conflicts!ListConflicts

\* Only a resolution ends a review, and only its own.
LEMMA OnlyResolveSettles ==
    ASSUME ConflictNulls, ConflictInv, [Conflicts!Next]_(Conflicts!acVars), NEW r \in Reviewers,
           Conflicts!Settles(r)
    PROVE  \E x \in Accounts, policy \in {"reject", "archive"} : Conflicts!Resolve(r, x, policy)
<1>1. listed \in [Reviewers -> Conflicts!Group \cup {Idle}] BY DEF ConflictInv, Conflicts!TypeOK
<1>2. \A accts, budgets : ~Conflicts!Touch(accts, budgets)
  BY <1>1, TouchedTyped DEF Conflicts!Touch, Conflicts!Settles
<1>3. ~UNCHANGED listed BY DEF Conflicts!Settles
<1>4. ASSUME NEW w \in Writers, NEW a, NEW row, Conflicts!WriteAccount(w, a, row) PROVE FALSE
  BY <1>2, <1>3, <1>4 DEF Conflicts!WriteAccount
<1>5. ASSUME NEW q \in Reviewers, NEW i \in Identities, Conflicts!ListConflicts(q, i) PROVE FALSE
  <2>1. Conflicts!Shown(i) \in Conflicts!Group
    BY DEF Conflicts!Shown, Conflicts!Group, Conflicts!ActiveOf, Conflicts!ActiveBudgets
  <2>2. QED BY <1>1, <1>5, <2>1 DEF Conflicts!ListConflicts, Conflicts!Settles, ConflictNulls
<1>6. ASSUME NEW q \in Reviewers, q # r, NEW x, NEW policy, Conflicts!Resolve(q, x, policy)
      PROVE  FALSE
  <2> DEFINE left == [listed EXCEPT ![q] = Idle]
  <2>1. left \in [Reviewers -> Conflicts!Group \cup {Idle}] /\ left[r] # Idle
    BY <1>1, <1>6 DEF Conflicts!Settles
  <2>2. \E accts, budgets : listed' = Conflicts!Touched(left, accts, budgets)
    BY <1>6 DEF Conflicts!Resolve
  <2> HIDE DEF left
  <2>3. QED BY <2>1, <2>2, TouchedTyped DEF Conflicts!Settles
<1>7. QED
  BY <1>2, <1>3, <1>4, <1>5, <1>6
  DEF Conflicts!Next, Conflicts!acVars, Conflicts!acRows, Conflicts!StartCreate,
      Conflicts!StartPatch, Conflicts!StartRestore, Conflicts!FinishCreate, Conflicts!FinishPatch,
      Conflicts!FinishRestore, Conflicts!ArchiveClient, Conflicts!ArchiveAccount,
      Conflicts!CreateBudget, Conflicts!EditBudget, Conflicts!ChangeScope

LEMMA ShownStep ==
    ASSUME ConflictNulls, ConflictInv, [Conflicts!Next]_(Conflicts!acVars)
    PROVE  Conflicts!ArchivesOnlyShown
<1> SUFFICES ASSUME NEW r \in Reviewers, Conflicts!Settles(r), NEW a \in Accounts,
                    acctBudget[a] = "active", acctBudget'[a] # "active"
             PROVE  a \in listed[r].budgets
  BY DEF Conflicts!ArchivesOnlyShown, Conflicts!ActiveBudgets
<1>1. PICK x \in Accounts, policy \in {"reject", "archive"} : Conflicts!Resolve(r, x, policy)
  BY OnlyResolveSettles
<1>2. a \in Conflicts!ActiveBudgets(listed[r].accounts \ {x}) BY <1>1 DEF Conflicts!Resolve
<1>3. listed[r].budgets = Conflicts!ActiveBudgets(listed[r].accounts)
  BY <1>1 DEF Conflicts!Resolve, Conflicts!StillAsListed
<1>4. QED BY <1>2, <1>3 DEF Conflicts!ActiveBudgets

\* Types, and that a patch under way is of an account that exists: what the stores
\* check holds for the rows they write over.  (ad_accounts.py, clients.py)
THEOREM ConflictsTyped == ASSUME ConflictNulls PROVE Conflicts!Spec => []Conflicts!TypeOK
<1>1. Conflicts!Init => ConflictInv
  BY DEF Conflicts!Init, ConflictInv, Conflicts!TypeOK, PatchesAreOfAccounts, Conflicts!Doing
<1>2. ConflictInv /\ [Conflicts!Next]_(Conflicts!acVars) => ConflictInv' BY ConflictInvKept
<1>3. ConflictInv => Conflicts!TypeOK BY DEF ConflictInv
<1>4. QED BY <1>1, <1>2, <1>3, PTL DEF Conflicts!Spec

\* No write, however long ago it was checked, makes two active clients hold rows that the
\* triggers take for one account.  Rows that only the stores take for one are not covered,
\* and the code does not cover them.  (create, patch; the triggers of db.py)
THEOREM NoContestIsMade == ASSUME ConflictNulls PROVE Conflicts!Spec => Conflicts!NoNewContest
<1>1. Conflicts!Init => ConflictInv
  BY DEF Conflicts!Init, ConflictInv, Conflicts!TypeOK, PatchesAreOfAccounts, Conflicts!Doing
<1>2. ConflictInv /\ [Conflicts!Next]_(Conflicts!acVars) => ConflictInv' BY ConflictInvKept
<1>3. ConflictInv /\ [Conflicts!Next]_(Conflicts!acVars) => Conflicts!MakesNoContest
  BY NoContestStep
<1>4. QED BY <1>1, <1>2, <1>3, PTL DEF Conflicts!Spec, Conflicts!NoNewContest

\* A resolution archives the budgets that were shown to its reviewer and no other, whatever
\* was written since.  (resolve_conflict: group_version under BEGIN IMMEDIATE)
THEOREM OnlyShownArchived == ASSUME ConflictNulls
PROVE  Conflicts!Spec => Conflicts!OnlyShownBudgetsArchived
<1>1. Conflicts!Init => ConflictInv
  BY DEF Conflicts!Init, ConflictInv, Conflicts!TypeOK, PatchesAreOfAccounts, Conflicts!Doing
<1>2. ConflictInv /\ [Conflicts!Next]_(Conflicts!acVars) => ConflictInv' BY ConflictInvKept
<1>3. ConflictInv /\ [Conflicts!Next]_(Conflicts!acVars) => Conflicts!ArchivesOnlyShown BY ShownStep
<1>4. QED BY <1>1, <1>2, <1>3, PTL DEF Conflicts!Spec, Conflicts!OnlyShownBudgetsArchived

-----------------------------------------------------------------------------
(* Runs of the synchronization *)

\* The lengths of time and the bounds are numbers, and no lease is like none.
SyncBounds ==
    /\ LastTick \in Nat \ {0} /\ LeaseTtl \in Int /\ MaxDelay \in Int
    /\ MaxAttempt \in Nat \ {0}
    /\ Errors \subseteq BOOLEAN
    /\ NoOne \notin [holder: Runners, until: Int]

Jobs == [ok: BOOLEAN, retryable: BOOLEAN, attempt: 1 .. MaxAttempt, next: Int, at: 0 .. LastTick]

Doings ==
    [account: Accounts, ok: BOOLEAN, retryable: BOOLEAN, newest: 0 .. LastTick, at: Sync!Days]

Fetching == {"record", "metadata"}

Started == {"accounts", "record", "metadata"}

Runs ==
    [stage: {"select", "begin", "accounts", "record", "metadata"}, due: BOOLEAN, force: BOOLEAN,
     from: Requested \cup {0}, todo: SUBSET Accounts, overtaken: BOOLEAN, beside: BOOLEAN,
     metas: [Accounts -> Sync!Metadata] \cup {Idle},
         jobs: [Accounts -> Jobs \cup {NoJob}] \cup {Idle},
     doing: Doings \cup {Idle}]

\* Nor is a run like none.
SyncNulls == Idle \notin Runs

SyncTyped ==
    /\ now \in Sync!Days
    /\ lease \in [{"due", "run"} -> [holder: Runners, until: Int] \cup {NoOne}]
    /\ job \in [Accounts -> Jobs \cup {NoJob}]
    /\ meta \in [Accounts -> Sync!Metadata]
    /\ eligible \subseteq Accounts
    /\ ingested \in [Accounts -> SUBSET Sync!Days]
    /\ run \in [Runners -> Runs \cup {Idle}]

\* What a run works with: what it read, while accounts are left, and the account it is at.
Equipped ==
    \A r \in Runners :
        /\ Sync!Stage(r) \in Started /\ run[r].todo # {} =>
              run[r].metas \in [Accounts -> Sync!Metadata]
                  /\ run[r].jobs \in [Accounts -> Jobs \cup {NoJob}]
        /\ Sync!Stage(r) \in Fetching =>
               run[r].doing \in Doings /\ run[r].doing.account \in run[r].todo

\* A run that was not overtaken still has the lease.
KeepsLease == \A r \in Sync!Running : ~run[r].overtaken => Sync!Holds(r, "run")

Alone(r) == r \in Sync!Running /\ ~run[r].overtaken /\ ~run[r].beside

\* One that began with no other, and was not overtaken, is the only one.
AloneIsAlone == \A r \in Runners : Alone(r) => \A q \in Sync!Running : q = r

\* Only errors are retried.
RetriesFollowErrors ==
    /\ \A a \in Accounts : job[a] # NoJob /\ job[a].retryable => ~job[a].ok
    /\ \A r \in Runners : Sync!Stage(r) \in Fetching /\ run[r].doing.retryable => ~run[r].doing.ok

\* What such a run read of the accounts ahead of it is still so.
KnowsTheJobs ==
    \A r \in Runners : Alone(r) /\ Sync!Stage(r) \in Started =>
        \A a \in run[r].todo :
            run[r].jobs[a] = job[a] \/ (Sync!Stage(r) = "metadata" /\ run[r].doing.account = a)

\* Whatever is said of the newest day, by the accounts and by what runs remember.
Said(m, a) == m.latest = 0 \/ m.latest \in ingested[a]

OnlySaidOfIngested ==
    /\ \A a \in Accounts : Said(meta[a], a)
    /\ \A r \in Runners : Sync!Stage(r) \in Started =>
          \A a \in run[r].todo : Said(run[r].metas[a], a)
    /\ \A r \in Runners : Sync!Stage(r) \in Fetching /\ run[r].doing.newest # 0 =>
          run[r].doing.newest \in ingested[run[r].doing.account]

SyncInv ==
    /\ SyncTyped /\ Equipped /\ KeepsLease /\ AloneIsAlone
    /\ RetriesFollowErrors /\ KnowsTheJobs /\ OnlySaidOfIngested

-----------------------------------------------------------------------------
LEMMA MaxOfDays ==
    ASSUME NEW n \in Nat, NEW T \in SUBSET (1 .. n), T # {}
    PROVE  Sync!Max(T) \in T /\ \A y \in T : Sync!Max(T) >= y
<1>1. IsFiniteSet(1 .. n) BY FS_Interval
<1>2. 1 .. n \subseteq Int OBVIOUS
<1>3. \E x \in T : \A y \in T : x >= y BY <1>1, <1>2, LastOfSome
<1>4. QED BY <1>3 DEF Sync!Max

LEMMA MinOfTwo ==
    ASSUME NEW a \in Int, NEW b \in Int
    PROVE  Sync!Min({a, b}) = IF a <= b THEN a ELSE b
<1>1. CASE a <= b
  <2>1. a \in {a, b} /\ \A y \in {a, b} : a =< y BY <1>1
  <2>2. \A x \in {a, b} : (\A y \in {a, b} : x =< y) => x = a BY <1>1
  <2>3. QED BY <1>1, <2>1, <2>2 DEF Sync!Min
<1>2. CASE ~(a <= b)
  <2>1. b \in {a, b} /\ \A y \in {a, b} : b =< y BY <1>2
  <2>2. \A x \in {a, b} : (\A y \in {a, b} : x =< y) => x = b BY <1>2
  <2>3. QED BY <1>2, <2>1, <2>2 DEF Sync!Min
<1>3. QED BY <1>1, <1>2

-----------------------------------------------------------------------------
LEMMA AttemptTyped ==
    ASSUME SyncBounds, NEW prev \in Jobs \cup {NoJob}
    PROVE  Sync!Attempt(prev) \in 1 .. MaxAttempt
<1>1. CASE prev # NoJob /\ ~prev.ok /\ prev.retryable
  <2>1. prev.attempt \in 1 .. MaxAttempt BY <1>1 DEF Jobs
  <2>2. prev.attempt + 1 \in Int /\ MaxAttempt \in Int BY <2>1 DEF SyncBounds
  <2>3. Sync!Attempt(prev) = Sync!Min({prev.attempt + 1, MaxAttempt}) BY <1>1 DEF Sync!Attempt
  <2>4. QED BY <2>1, <2>2, <2>3, MinOfTwo DEF SyncBounds
<1>2. CASE ~(prev # NoJob /\ ~prev.ok /\ prev.retryable)
  BY <1>2 DEF Sync!Attempt, SyncBounds
<1>3. QED BY <1>1, <1>2

LEMMA DelayTyped ==
    ASSUME SyncBounds, NEW n \in 1 .. MaxAttempt
    PROVE  Sync!Delay(n) \in Int
<1>1. n - 1 \in Nat BY DEF SyncBounds
<1>2. 2 ^ (n - 1) \in Int BY <1>1
<1>3. MaxDelay \in Int BY DEF SyncBounds
<1>4. Sync!Min({MaxDelay, 2 ^ (n - 1)}) \in {MaxDelay, 2 ^ (n - 1)} BY <1>2, <1>3, MinOfTwo
<1>5. QED BY <1>2, <1>3, <1>4 DEF Sync!Delay

LEMMA NotIdle ==
    ASSUME SyncTyped, NEW r \in Runners, Sync!Stage(r) # "idle"
    PROVE  run[r] \in Runs /\ run[r] # Idle /\ Sync!Stage(r) = run[r].stage
BY DEF Sync!Stage, SyncTyped

LEMMA FreshTyped ==
    ASSUME NEW due \in BOOLEAN, NEW force \in BOOLEAN, NEW from \in Requested \cup {0},
           NEW todo \in SUBSET Accounts
    PROVE  /\ Sync!Fresh(due, force, from, todo) \in Runs
           /\ \A b \in BOOLEAN : [Sync!Fresh(due, force, from, todo) EXCEPT !.beside = b] \in Runs
           /\ [Sync!Fresh(due, force, from, todo) EXCEPT !.stage = "select"] \in Runs
BY DEF Sync!Fresh, Runs

LEMMA EnterTyped ==
    ASSUME SyncTyped, NEW r \in Runners, NEW due \in BOOLEAN, NEW force \in BOOLEAN,
           NEW from \in Requested \cup {0}, NEW todo \in SUBSET Accounts,
           Sync!Enter(r, Sync!Fresh(due, force, from, todo))
    PROVE  run' \in [Runners -> Runs \cup {Idle}]
<1>1. [Sync!Fresh(due, force, from, todo) EXCEPT !.beside = Sync!Running # {}] \in Runs
  <2>1. (Sync!Running # {}) \in BOOLEAN OBVIOUS
  <2>2. \A b \in BOOLEAN : [Sync!Fresh(due, force, from, todo) EXCEPT !.beside = b] \in Runs
    BY FreshTyped
  <2>3. QED BY <2>1, <2>2
<1>2. \A q \in Sync!Running : q \in Runners /\ run[q] \in Runs BY NotIdle DEF Sync!Running
<1>3. \A q \in Sync!Running : [run[q] EXCEPT !.overtaken = TRUE] \in Runs
  <2>1. \A rec \in Runs : [rec EXCEPT !.overtaken = TRUE] \in Runs BY DEF Runs
  <2>2. QED BY <1>2, <2>1
<1>4. \A q \in Runners : run[q] \in Runs \cup {Idle} BY DEF SyncTyped
<1>5. QED BY <1>1, <1>3, <1>4 DEF Sync!Enter

LEMMA LeaseTyped ==
    ASSUME SyncBounds, SyncTyped, NEW r \in Runners
    PROVE  /\ \A key \in {"due", "run"} :
                 Sync!Granted(key, r)
                     \in [{"due", "run"} -> [holder: Runners, until: Int] \cup {NoOne}]
           /\ \A keys : Sync!Released(r, keys)
                  \in [{"due", "run"} -> [holder: Runners, until: Int] \cup {NoOne}]
<1>1. now + LeaseTtl \in Int BY DEF SyncBounds, SyncTyped, Sync!Days
<1>2. [holder |-> r, until |-> now + LeaseTtl] \in [holder: Runners, until: Int] BY <1>1
<1>3. QED BY <1>2 DEF SyncTyped, Sync!Granted, Sync!Released

LEMMA RestedTyped ==
    ASSUME NEW rec \in Runs, NEW a
    PROVE  Sync!Rested(rec, a) \in Runs
BY DEF Sync!Rested, Runs

\* What the steps of a run make of its record.
LEMMA BeginMakes ==
    ASSUME SyncTyped, NEW r \in Runners, Sync!Begin(r)
    PROVE  run' = [run EXCEPT ![r] = [run[r] EXCEPT
                      !.stage = "accounts", !.metas = meta, !.jobs = job, !.todo = @ \cap eligible]]
<1>1. run[r] \in Runs BY NotIdle DEF Sync!Begin
<1>2. run' = [run EXCEPT ![r].stage = "accounts", ![r].metas = meta, ![r].jobs = job,
                         ![r].todo = @ \cap eligible]
  BY DEF Sync!Begin
<1>3. run \in [Runners -> Runs \cup {Idle}] BY DEF SyncTyped
<1>4. DOMAIN run' = Runners BY <1>2, <1>3
<1>5. \A q \in Runners : q # r => run'[q] = run[q] BY <1>2, <1>3
<1>6. run'[r] = [run[r] EXCEPT !.stage = "accounts", !.metas = meta, !.jobs = job,
                               !.todo = @ \cap eligible]
  BY <1>1, <1>2, <1>3 DEF Runs
<1>7. QED BY <1>2, <1>3, <1>4, <1>5, <1>6

LEMMA FetchMakes ==
    ASSUME SyncTyped, NEW r \in Runners, run[r] \in Runs, NEW d,
           run' = [run EXCEPT ![r].stage = "record", ![r].doing = d]
    PROVE  run' = [run EXCEPT ![r] = [run[r] EXCEPT !.stage = "record", !.doing = d]]
<1> DEFINE r1 == [run EXCEPT ![r].stage = "record"]
<1>1. r1 = [run EXCEPT ![r] = [run[r] EXCEPT !.stage = "record"]] BY DEF SyncTyped
<1>2. [r1 EXCEPT ![r].doing = d]
      = [run EXCEPT ![r] = [run[r] EXCEPT !.stage = "record", !.doing = d]]
  BY <1>1 DEF SyncTyped, Runs
<1>3. QED BY <1>2

LEMMA RunChanged ==
    ASSUME SyncTyped, NEW r \in Runners, NEW rec, run' = [run EXCEPT ![r] = rec]
    PROVE  /\ run'[r] = rec
           /\ \A q \in Runners : q # r => run'[q] = run[q]
           /\ rec \in Runs \cup {Idle} => run' \in [Runners -> Runs \cup {Idle}]
BY DEF SyncTyped

LEMMA DoingTyped ==
    ASSUME SyncTyped, NEW a \in Accounts, NEW ok \in BOOLEAN, NEW retryable \in BOOLEAN,
           NEW last \in 0 .. LastTick
    PROVE  Sync!Done(a, ok, retryable, last) \in Doings
BY DEF Sync!Done, Doings, SyncTyped

LEMMA NewestTyped ==
    ASSUME SyncBounds, NEW days \in SUBSET Sync!Days
    PROVE  /\ (IF days = {} THEN 0 ELSE Sync!Max(days)) \in 0 .. LastTick
           /\ days # {} => Sync!Max(days) \in days
<1>1. LastTick \in Nat BY DEF SyncBounds
<1>2. days # {} => Sync!Max(days) \in days BY <1>1, MaxOfDays DEF Sync!Days
<1>3. days # {} => Sync!Max(days) \in 0 .. LastTick
  <2> DEFINE m == Sync!Max(days)
  <2>1. days # {} => m \in 1 .. LastTick BY <1>2 DEF Sync!Days
  <2> HIDE DEF m
  <2>2. days # {} => m \in 0 .. LastTick BY <2>1, <1>1
  <2>3. QED BY <2>2 DEF m
<1>4. 0 \in 0 .. LastTick BY <1>1
<1>5. QED BY <1>2, <1>3, <1>4

LEMMA NextMetaTyped ==
    ASSUME NEW m \in Sync!Metadata, NEW d \in Doings, NEW from
    PROVE  Sync!NextMeta(m, d, from) \in Sync!Metadata
BY DEF Sync!NextMeta, Sync!Metadata, Doings

LEMMA SyncTypedAtFirst == ASSUME SyncBounds PROVE Sync!Init => SyncTyped
BY DEF Sync!Init, SyncTyped, SyncBounds, Sync!Days, Sync!Metadata

LEMMA SyncTypedKept ==
    ASSUME SyncBounds PROVE SyncTyped /\ Equipped /\ [Sync!Next]_(Sync!syncVars) => SyncTyped'
<1> SUFFICES ASSUME SyncTyped, Equipped, [Sync!Next]_(Sync!syncVars) PROVE SyncTyped'
    OBVIOUS
<1>1. ASSUME NEW r \in Runners, NEW accts \in SUBSET Accounts, NEW force \in BOOLEAN,
             NEW from \in Requested, Sync!StartManual(r, accts, force, from)
      PROVE  SyncTyped'
  <2>1. run' \in [Runners -> Runs \cup {Idle}] BY <1>1, EnterTyped DEF Sync!StartManual
  <2>2. lease' = Sync!Granted("run", r) BY <1>1 DEF Sync!StartManual
  <2>3. QED BY <1>1, <2>1, <2>2, LeaseTyped DEF Sync!StartManual, SyncTyped
<1>2. ASSUME NEW r \in Runners, Sync!StartDue(r) PROVE SyncTyped'
  <2>1. [Sync!Fresh(TRUE, FALSE, 0, {}) EXCEPT !.stage = "select"] \in Runs BY FreshTyped
  <2>2. run' \in [Runners -> Runs \cup {Idle}] BY <1>2, <2>1, RunChanged DEF Sync!StartDue
  <2>3. lease' = Sync!Granted("due", r) BY <1>2 DEF Sync!StartDue
  <2>4. QED BY <1>2, <2>2, <2>3, LeaseTyped DEF Sync!StartDue, SyncTyped
<1>3. ASSUME NEW r \in Runners, Sync!SelectDue(r) PROVE SyncTyped'
  <2> DEFINE batch == {a \in eligible : Sync!Due(a)}
  <2>1. CASE batch # {} /\ Sync!Available("run")
    <3>1. lease' = Sync!Granted("run", r) /\ Sync!Enter(r, Sync!Fresh(TRUE, FALSE, 0, batch))
      BY <1>3, <2>1 DEF Sync!SelectDue
    <3>2. batch \in SUBSET Accounts BY DEF SyncTyped
    <3> HIDE DEF batch
    <3>3. run' \in [Runners -> Runs \cup {Idle}] BY <3>1, <3>2, EnterTyped
    <3>4. QED BY <1>3, <3>1, <3>3, LeaseTyped DEF Sync!SelectDue, SyncTyped
  <2>2. CASE ~(batch # {} /\ Sync!Available("run"))
    <3>1. lease' = Sync!Released(r, {"due"}) /\ run' = [run EXCEPT ![r] = Idle]
      BY <1>3, <2>2 DEF Sync!SelectDue
    <3>2. QED BY <1>3, <3>1, RunChanged, LeaseTyped DEF Sync!SelectDue, SyncTyped
  <2>3. QED BY <2>1, <2>2
<1>4. ASSUME NEW r \in Runners, Sync!Begin(r) PROVE SyncTyped'
  <2>1. run[r] \in Runs BY <1>4, NotIdle DEF Sync!Begin
  <2>2. [run[r] EXCEPT !.stage = "accounts", !.metas = meta, !.jobs = job, !.todo = @ \cap eligible]
        \in Runs
    BY <2>1 DEF Runs, SyncTyped
  <2>3. run' \in [Runners -> Runs \cup {Idle}] BY <1>4, <2>2, BeginMakes, RunChanged
  <2>4. QED BY <1>4, <2>3 DEF Sync!Begin, SyncTyped
<1>5. ASSUME NEW r \in Runners, NEW a \in Accounts, Sync!Skip(r, a) PROVE SyncTyped'
  <2>1. run[r] \in Runs BY <1>5, NotIdle DEF Sync!Skip
  <2>2. run' = [run EXCEPT ![r] = Sync!Rested(run[r], a)] BY <1>5 DEF Sync!Skip, SyncTyped
  <2>3. run' \in [Runners -> Runs \cup {Idle}] BY <2>1, <2>2, RestedTyped, RunChanged
  <2>4. QED BY <1>5, <2>3 DEF Sync!Skip, SyncTyped
<1>6. ASSUME NEW r \in Runners, NEW a \in Accounts, NEW days \in SUBSET Sync!Days,
             Sync!FetchRows(r, a, days)
      PROVE  SyncTyped'
  <2> DEFINE d == Sync!Done(a, TRUE, FALSE, IF days = {} THEN 0 ELSE Sync!Max(days))
  <2>1. run[r] \in Runs BY <1>6, NotIdle DEF Sync!FetchRows
  <2>2. d \in Doings BY NewestTyped, DoingTyped
  <2>3. run' = [run EXCEPT ![r] = [run[r] EXCEPT !.stage = "record", !.doing = d]]
    BY <1>6, <2>1, FetchMakes DEF Sync!FetchRows
  <2> HIDE DEF d
  <2>4. [run[r] EXCEPT !.stage = "record", !.doing = d] \in Runs BY <2>1, <2>2 DEF Runs
  <2>5. run' \in [Runners -> Runs \cup {Idle}] BY <2>3, <2>4, RunChanged
  <2>6. QED BY <1>6, <2>5 DEF Sync!FetchRows, SyncTyped
<1>7. ASSUME NEW r \in Runners, NEW a \in Accounts, NEW retryable \in Errors,
             Sync!FetchError(r, a, retryable)
      PROVE  SyncTyped'
  <2> DEFINE d == Sync!Done(a, FALSE, retryable, 0)
  <2>1. run[r] \in Runs BY <1>7, NotIdle DEF Sync!FetchError
  <2>2. d \in Doings
    <3>1. retryable \in BOOLEAN /\ FALSE \in BOOLEAN /\ 0 \in 0 .. LastTick BY DEF SyncBounds
    <3>2. QED BY <3>1, DoingTyped
  <2>3. run' = [run EXCEPT ![r] = [run[r] EXCEPT !.stage = "record", !.doing = d]]
    BY <1>7, <2>1, FetchMakes DEF Sync!FetchError
  <2> HIDE DEF d
  <2>4. [run[r] EXCEPT !.stage = "record", !.doing = d] \in Runs BY <2>1, <2>2 DEF Runs
  <2>5. run' \in [Runners -> Runs \cup {Idle}] BY <2>3, <2>4, RunChanged
  <2>6. QED BY <1>7, <2>5 DEF Sync!FetchError, SyncTyped
<1>8. ASSUME NEW r \in Runners, Sync!RecordJob(r) PROVE SyncTyped'
  <2> DEFINE d == run[r].doing
             n == Sync!Attempt(run[r].jobs[d.account])
  <2>1. run[r] \in Runs /\ Sync!Stage(r) = "record" BY <1>8, NotIdle DEF Sync!RecordJob
  <2>2. d \in Doings /\ run[r].jobs[d.account] \in Jobs \cup {NoJob}
    <3>1. d \in Doings /\ d.account \in run[r].todo BY <2>1 DEF Equipped, Fetching
    <3>2. run[r].jobs \in [Accounts -> Jobs \cup {NoJob}] BY <2>1, <3>1 DEF Equipped, Started
    <3>3. QED BY <3>1, <3>2 DEF Doings
  <2>3. n \in 1 .. MaxAttempt BY <2>2, AttemptTyped
  <2> HIDE DEF n
  <2>4. Sync!Delay(n) \in Int BY <2>3, DelayTyped
  <2>5. d.at \in Int /\ now \in 0 .. LastTick /\ MaxAttempt \in Nat \ {0} /\ LastTick \in Nat
    BY <2>2 DEF Doings, Sync!Days, SyncTyped, SyncBounds
  <2>6. [ok |-> d.ok, retryable |-> d.retryable, attempt |-> IF d.ok THEN 1 ELSE n,
         next |-> IF d.retryable THEN d.at + Sync!Delay(n) ELSE 0,
         at |-> IF d.ok THEN now ELSE 0] \in Jobs
    BY <2>2, <2>3, <2>4, <2>5 DEF Jobs, Doings
  <2>7. job' \in [Accounts -> Jobs \cup {NoJob}] BY <1>8, <2>6 DEF Sync!RecordJob, SyncTyped, n
  <2>8. run' \in [Runners -> Runs \cup {Idle}]
    BY <1>8, <2>1 DEF Sync!RecordJob, SyncTyped, Runs
  <2>9. QED BY <1>8, <2>7, <2>8 DEF Sync!RecordJob, SyncTyped
<1>9. ASSUME NEW r \in Runners, Sync!WriteMetadata(r) PROVE SyncTyped'
  <2> DEFINE d == run[r].doing
  <2>1. run[r] \in Runs /\ Sync!Stage(r) = "metadata" BY <1>9, NotIdle DEF Sync!WriteMetadata
  <2>2. d \in Doings /\ run[r].metas[d.account] \in Sync!Metadata
    <3>1. d \in Doings /\ d.account \in run[r].todo BY <2>1 DEF Equipped, Fetching
    <3>2. run[r].metas \in [Accounts -> Sync!Metadata] BY <2>1, <3>1 DEF Equipped, Started
    <3>3. QED BY <3>1, <3>2 DEF Doings
  <2>3. Sync!NextMeta(run[r].metas[d.account], d, run[r].from) \in Sync!Metadata
    BY <2>2, NextMetaTyped
  <2>4. meta' \in [Accounts -> Sync!Metadata] BY <1>9, <2>3 DEF Sync!WriteMetadata, SyncTyped
  <2>5. [run[r] EXCEPT !.stage = "accounts", !.doing = Idle] \in Runs BY <2>1 DEF Runs
  <2>6. run' = [run EXCEPT ![r] =
            Sync!Rested([run[r] EXCEPT !.stage = "accounts", !.doing = Idle], d.account)]
    BY <1>9 DEF Sync!WriteMetadata, SyncTyped
  <2>7. Sync!Rested([run[r] EXCEPT !.stage = "accounts", !.doing = Idle], d.account) \in Runs
    BY <2>5, RestedTyped
  <2>8. run' \in [Runners -> Runs \cup {Idle}] BY <2>6, <2>7, RunChanged
  <2>9. QED BY <1>9, <2>4, <2>8 DEF Sync!WriteMetadata, SyncTyped
<1>10. ASSUME NEW r \in Runners, Sync!Finish(r) PROVE SyncTyped'
  BY <1>10, RunChanged, LeaseTyped DEF Sync!Finish, SyncTyped
<1>11. ASSUME NEW r \in Runners, Sync!Heartbeat(r) PROVE SyncTyped'
  BY <1>11, LeaseTyped DEF Sync!Heartbeat, SyncTyped
<1>12. ASSUME NEW r \in Runners, Sync!Crash(r) PROVE SyncTyped'
  BY <1>12, RunChanged DEF Sync!Crash, SyncTyped
<1>13. CASE Sync!Tick
  BY <1>13 DEF Sync!Tick, SyncTyped, Sync!Days, SyncBounds
<1>14. ASSUME NEW a \in Accounts, Sync!ToggleEligible(a) PROVE SyncTyped'
  BY <1>14 DEF Sync!ToggleEligible, SyncTyped
<1>15. CASE UNCHANGED Sync!syncVars
  BY <1>15 DEF Sync!syncVars, SyncTyped
<1>16. \A days \in UNION {Sync!kSubset(n, Sync!Days) : n \in 0 .. MaxRows} :
           days \in SUBSET Sync!Days
  BY DEF Sync!kSubset
<1>17. QED
  BY <1>1, <1>2, <1>3, <1>4, <1>5, <1>6, <1>7, <1>8, <1>9, <1>10, <1>11, <1>12, <1>13, <1>14,
     <1>15, <1>16 DEF Sync!Next

-----------------------------------------------------------------------------
(* What a step does to the leases and to who runs. *)

Others(r) == \A q \in Runners : q # r => run'[q] = run[q]

Enters(r) ==
    /\ r \notin Sync!Running /\ lease' = Sync!Granted("run", r)
    /\ run'[r] \in Runs /\ run'[r].stage = "begin" /\ ~run'[r].overtaken
    /\ run'[r].beside = (Sync!Running # {})
    /\ \A q \in Runners : q # r =>
          IF q \in Sync!Running /\ Sync!Holds(q, "run")
          THEN run'[q] = [run[q] EXCEPT !.overtaken = TRUE]
          ELSE run'[q] = run[q]

Leaves(r) ==
    /\ run'[r] = Idle /\ Others(r)
    /\ lease' = lease \/ \E keys : lease' = Sync!Released(r, keys)

Queues(r) ==
    run'[r] \in Runs /\ run'[r].stage = "select" /\ Others(r) /\ lease' = Sync!Granted("due", r)

GoesOn(r) ==
    /\ r \in Sync!Running /\ Others(r) /\ UNCHANGED lease
    /\ run'[r] \in Runs /\ run'[r].stage \in Started
    /\ run'[r].overtaken = run[r].overtaken /\ run'[r].beside = run[r].beside

Renews(r) == r \in Sync!Running /\ Sync!Holds(r, "run") /\ lease' = Sync!Granted("run", r)
    /\ UNCHANGED run

LEMMA RestedKeeps ==
    ASSUME NEW rec \in Runs, NEW a
    PROVE  /\ Sync!Rested(rec, a).stage = rec.stage
           /\ Sync!Rested(rec, a).overtaken = rec.overtaken
                  /\ Sync!Rested(rec, a).beside = rec.beside
           /\ Sync!Rested(rec, a).doing = rec.doing /\ Sync!Rested(rec, a).force = rec.force
           /\ Sync!Rested(rec, a).todo = rec.todo \ {a}
           /\ rec.todo # {a} => Sync!Rested(rec, a).metas = rec.metas
                  /\ Sync!Rested(rec, a).jobs = rec.jobs
BY DEF Sync!Rested, Runs

LEMMA EnterMakes ==
    ASSUME SyncTyped, NEW r \in Runners, r \notin Sync!Running, NEW due \in BOOLEAN,
           NEW force \in BOOLEAN,
           NEW from \in Requested \cup {0}, NEW todo \in SUBSET Accounts,
           Sync!Enter(r, Sync!Fresh(due, force, from, todo)), lease' = Sync!Granted("run", r)
    PROVE  Enters(r)
<1>1. run'[r] = [Sync!Fresh(due, force, from, todo) EXCEPT !.beside = Sync!Running # {}]
  BY DEF Sync!Enter
<1>2. run'[r] \in Runs
  <2>1. [Sync!Fresh(due, force, from, todo) EXCEPT !.beside = Sync!Running # {}] \in Runs
    BY FreshTyped
  <2>2. QED BY <1>1, <2>1
<1>3. run'[r].stage = "begin" /\ ~run'[r].overtaken /\ run'[r].beside = (Sync!Running # {})
  BY <1>1 DEF Sync!Fresh
<1>4. \A q \in Runners : q # r =>
          IF q \in Sync!Running /\ Sync!Holds(q, "run")
          THEN run'[q] = [run[q] EXCEPT !.overtaken = TRUE]
          ELSE run'[q] = run[q]
  BY DEF Sync!Enter
<1>5. QED BY <1>2, <1>3, <1>4 DEF Enters

LEMMA StepKinds ==
    ASSUME SyncBounds, SyncTyped, Equipped, [Sync!Next]_(Sync!syncVars)
    PROVE  \/ \E r \in Runners : Enters(r) \/ Leaves(r) \/ Queues(r) \/ GoesOn(r) \/ Renews(r)
           \/ UNCHANGED <<run, lease>>
<1>1. ASSUME NEW r \in Runners, NEW accts \in SUBSET Accounts, NEW force \in BOOLEAN,
             NEW from \in Requested, Sync!StartManual(r, accts, force, from)
      PROVE  Enters(r)
  <2>1. r \notin Sync!Running BY <1>1 DEF Sync!StartManual, Sync!Running, Sync!Stage
  <2>2. Sync!Enter(r, Sync!Fresh(FALSE, force, from, accts)) /\ lease' = Sync!Granted("run", r)
    BY <1>1 DEF Sync!StartManual
  <2>3. QED BY <2>1, <2>2, EnterMakes
<1>2. ASSUME NEW r \in Runners, Sync!StartDue(r) PROVE Queues(r)
  <2>1. [Sync!Fresh(TRUE, FALSE, 0, {}) EXCEPT !.stage = "select"] \in Runs BY FreshTyped
  <2>2. run' = [run EXCEPT ![r] = [Sync!Fresh(TRUE, FALSE, 0, {}) EXCEPT !.stage = "select"]]
        /\ lease' = Sync!Granted("due", r)
    BY <1>2 DEF Sync!StartDue
  <2>3. run'[r] = [Sync!Fresh(TRUE, FALSE, 0, {}) EXCEPT !.stage = "select"] /\ Others(r)
    BY <2>2, RunChanged DEF Others
  <2>4. run'[r].stage = "select" BY <2>3 DEF Sync!Fresh
  <2>5. QED BY <2>1, <2>2, <2>3, <2>4 DEF Queues
<1>3. ASSUME NEW r \in Runners, Sync!SelectDue(r) PROVE Enters(r) \/ Leaves(r)
  <2> DEFINE batch == {a \in eligible : Sync!Due(a)}
  <2>1. CASE batch # {} /\ Sync!Available("run")
    <3>1. lease' = Sync!Granted("run", r) /\ Sync!Enter(r, Sync!Fresh(TRUE, FALSE, 0, batch))
      BY <1>3, <2>1 DEF Sync!SelectDue
    <3>2. r \notin Sync!Running BY <1>3 DEF Sync!SelectDue, Sync!Running
    <3>3. batch \in SUBSET Accounts BY DEF SyncTyped
    <3> HIDE DEF batch
    <3>4. QED BY <3>1, <3>2, <3>3, EnterMakes
  <2>2. CASE ~(batch # {} /\ Sync!Available("run"))
    <3>1. lease' = Sync!Released(r, {"due"}) /\ run' = [run EXCEPT ![r] = Idle]
      BY <1>3, <2>2 DEF Sync!SelectDue
    <3>2. QED BY <3>1, RunChanged DEF Leaves, Others
  <2>3. QED BY <2>1, <2>2
<1>4. ASSUME NEW r \in Runners, Sync!Begin(r) PROVE GoesOn(r)
  <2>1. run[r] \in Runs /\ r \in Sync!Running BY <1>4, NotIdle DEF Sync!Begin, Sync!Running
  <2> DEFINE rec == [run[r] EXCEPT
                        !.stage = "accounts", !.metas = meta, !.jobs = job, !.todo =
                            @ \cap eligible]
  <2>2. run'[r] = rec /\ Others(r) BY <1>4, BeginMakes, RunChanged DEF Others
  <2>3. rec \in Runs /\ rec.stage = "accounts" /\ rec.overtaken = run[r].overtaken
        /\ rec.beside = run[r].beside
    BY <2>1 DEF Runs, SyncTyped
  <2>4. QED BY <1>4, <2>1, <2>2, <2>3 DEF GoesOn, Sync!Begin, Started
<1>5. ASSUME NEW r \in Runners, NEW a \in Accounts, Sync!Skip(r, a) PROVE GoesOn(r)
  <2>1. run[r] \in Runs /\ r \in Sync!Running /\ run[r].stage = "accounts"
    BY <1>5, NotIdle DEF Sync!Skip, Sync!Running
  <2>2. run' = [run EXCEPT ![r] = Sync!Rested(run[r], a)] BY <1>5 DEF Sync!Skip, SyncTyped
  <2>3. run'[r] = Sync!Rested(run[r], a) /\ Others(r) BY <2>2, RunChanged DEF Others
  <2>4. QED BY <1>5, <2>1, <2>3, RestedTyped, RestedKeeps DEF GoesOn, Sync!Skip, Started
<1>6. ASSUME NEW r \in Runners, NEW d \in Doings, Sync!Stage(r) = "accounts",
             run' = [run EXCEPT ![r].stage = "record", ![r].doing = d], UNCHANGED lease
      PROVE  GoesOn(r)
  <2>1. run[r] \in Runs /\ r \in Sync!Running BY <1>6, NotIdle DEF Sync!Running
  <2> DEFINE rec == [run[r] EXCEPT !.stage = "record", !.doing = d]
  <2>2. run' = [run EXCEPT ![r] = rec] BY <1>6, <2>1, FetchMakes
  <2>3. run'[r] = rec /\ Others(r) BY <2>2, RunChanged DEF Others
  <2>4. rec \in Runs /\ rec.stage = "record" /\ rec.overtaken = run[r].overtaken
        /\ rec.beside = run[r].beside
    BY <2>1 DEF Runs
  <2>5. QED BY <1>6, <2>1, <2>3, <2>4 DEF GoesOn, Started
<1>7. ASSUME NEW r \in Runners, NEW a \in Accounts, NEW days \in SUBSET Sync!Days,
             Sync!FetchRows(r, a, days)
      PROVE  GoesOn(r)
  <2> DEFINE d == Sync!Done(a, TRUE, FALSE, IF days = {} THEN 0 ELSE Sync!Max(days))
  <2>1. d \in Doings BY NewestTyped, DoingTyped
  <2>2. Sync!Stage(r) = "accounts" /\ run' = [run EXCEPT ![r].stage = "record", ![r].doing = d]
        /\ UNCHANGED lease
    BY <1>7 DEF Sync!FetchRows
  <2> HIDE DEF d
  <2>3. QED BY <2>1, <2>2, <1>6
<1>8. ASSUME NEW r \in Runners, NEW a \in Accounts, NEW retryable \in Errors,
             Sync!FetchError(r, a, retryable)
      PROVE  GoesOn(r)
  <2> DEFINE d == Sync!Done(a, FALSE, retryable, 0)
  <2>1. d \in Doings
    <3>1. retryable \in BOOLEAN /\ FALSE \in BOOLEAN /\ 0 \in 0 .. LastTick BY DEF SyncBounds
    <3>2. QED BY <3>1, DoingTyped
  <2>2. Sync!Stage(r) = "accounts" /\ run' = [run EXCEPT ![r].stage = "record", ![r].doing = d]
        /\ UNCHANGED lease
    BY <1>8 DEF Sync!FetchError
  <2> HIDE DEF d
  <2>3. QED BY <2>1, <2>2, <1>6
<1>9. ASSUME NEW r \in Runners, Sync!RecordJob(r) PROVE GoesOn(r)
  <2>1. run[r] \in Runs /\ r \in Sync!Running BY <1>9, NotIdle DEF Sync!RecordJob, Sync!Running
  <2> DEFINE rec == [run[r] EXCEPT !.stage = "metadata"]
  <2>2. run' = [run EXCEPT ![r] = rec] BY <1>9, <2>1 DEF Sync!RecordJob, SyncTyped
  <2>3. run'[r] = rec /\ Others(r) BY <2>2, RunChanged DEF Others
  <2>4. rec \in Runs /\ rec.stage = "metadata" /\ rec.overtaken = run[r].overtaken
        /\ rec.beside = run[r].beside
    BY <2>1 DEF Runs
  <2>5. QED BY <1>9, <2>1, <2>3, <2>4 DEF GoesOn, Sync!RecordJob, Started
<1>10. ASSUME NEW r \in Runners, Sync!WriteMetadata(r) PROVE GoesOn(r)
  <2>1. run[r] \in Runs /\ r \in Sync!Running BY <1>10, NotIdle DEF Sync!WriteMetadata, Sync!Running
  <2> DEFINE rec == [run[r] EXCEPT !.stage = "accounts", !.doing = Idle]
             a   == run[r].doing.account
  <2>2. rec \in Runs /\ rec.stage = "accounts" /\ rec.overtaken = run[r].overtaken
        /\ rec.beside = run[r].beside
    BY <2>1 DEF Runs
  <2>3. run' = [run EXCEPT ![r] = Sync!Rested(rec, a)] BY <1>10 DEF Sync!WriteMetadata, SyncTyped
  <2>4. run'[r] = Sync!Rested(rec, a) /\ Others(r) BY <2>3, RunChanged DEF Others
  <2> HIDE DEF rec, a
  <2>5. Sync!Rested(rec, a) \in Runs /\ Sync!Rested(rec, a).stage = rec.stage
        /\ Sync!Rested(rec, a).overtaken = rec.overtaken /\ Sync!Rested(rec, a).beside = rec.beside
    BY <2>2, RestedTyped, RestedKeeps
  <2>6. QED BY <1>10, <2>1, <2>2, <2>4, <2>5 DEF GoesOn, Sync!WriteMetadata, Started
<1>11. ASSUME NEW r \in Runners, Sync!Finish(r) PROVE Leaves(r)
  BY <1>11, RunChanged DEF Sync!Finish, Leaves, Others
<1>12. ASSUME NEW r \in Runners, Sync!Heartbeat(r) PROVE Renews(r)
  BY <1>12 DEF Sync!Heartbeat, Renews
<1>13. ASSUME NEW r \in Runners, Sync!Crash(r) PROVE Leaves(r)
  BY <1>13, RunChanged DEF Sync!Crash, Leaves, Others
<1>14. CASE Sync!Tick
  BY <1>14 DEF Sync!Tick
<1>15. ASSUME NEW a \in Accounts, Sync!ToggleEligible(a) PROVE UNCHANGED <<run, lease>>
  BY <1>15 DEF Sync!ToggleEligible
<1>16. CASE UNCHANGED Sync!syncVars
  BY <1>16 DEF Sync!syncVars
<1>17. \A days \in UNION {Sync!kSubset(n, Sync!Days) : n \in 0 .. MaxRows} :
           days \in SUBSET Sync!Days
  BY DEF Sync!kSubset
<1>18. QED
  BY <1>1, <1>2, <1>3, <1>4, <1>5, <1>7, <1>8, <1>9, <1>10, <1>11, <1>12, <1>13, <1>14,
     <1>15, <1>16, <1>17 DEF Sync!Next

\* Whose record stays as it is stays where it is.
LEMMA SameStage ==
    ASSUME NEW q \in Runners, run'[q] = run[q]
    PROVE  Sync!Stage(q)' = Sync!Stage(q) /\ (q \in Sync!Running' <=> q \in Sync!Running)
BY DEF Sync!Stage, Sync!Running

LEMMA StageAfter ==
    ASSUME SyncNulls, NEW q \in Runners, run'[q] \in Runs
    PROVE  /\ Sync!Stage(q)' = run'[q].stage
           /\ q \in Sync!Running' <=> run'[q].stage # "select"
BY DEF Sync!Stage, Sync!Running, SyncNulls, Runs

LEMMA WhoRuns ==
    ASSUME SyncNulls, SyncTyped, NEW r \in Runners
    PROVE  /\ Enters(r) =>
                /\ r \in Sync!Running'
                /\ \A q \in Runners : q # r => (q \in Sync!Running' <=> q \in Sync!Running)
                /\ \A q \in Sync!Running : run'[q].overtaken <=>
                       run[q].overtaken \/ Sync!Holds(q, "run")
                /\ \A q \in Sync!Running : run'[q].beside = run[q].beside
           /\ Leaves(r) \/ Queues(r) =>
                  \A q \in Sync!Running' : q # r /\ q \in Sync!Running /\ run'[q] = run[q]
           /\ GoesOn(r) => Sync!Running' = Sync!Running
<1>1. \A q \in Sync!Running : q \in Runners /\ run[q] \in Runs BY NotIdle DEF Sync!Running
<1>2. ASSUME Enters(r)
      PROVE  /\ r \in Sync!Running'
             /\ \A q \in Runners : q # r => (q \in Sync!Running' <=> q \in Sync!Running)
             /\ \A q \in Sync!Running : run'[q].overtaken <=>
                    run[q].overtaken \/ Sync!Holds(q, "run")
             /\ \A q \in Sync!Running : run'[q].beside = run[q].beside
  <2>1. r \in Sync!Running' BY <1>2, StageAfter DEF Enters
  <2>2. ASSUME NEW q \in Runners, q # r, q \in Sync!Running, Sync!Holds(q, "run")
        PROVE  q \in Sync!Running' /\ run'[q].overtaken /\ run'[q].beside = run[q].beside
    <3>1. run'[q] = [run[q] EXCEPT !.overtaken = TRUE] BY <1>2, <2>2 DEF Enters
    <3>2. run[q] \in Runs BY <1>1, <2>2
    <3>3. run'[q] \in Runs /\ run'[q].stage = run[q].stage /\ run'[q].overtaken
          /\ run'[q].beside = run[q].beside
      BY <3>1, <3>2 DEF Runs
    <3>4. run[q].stage # "select" BY <2>2, NotIdle DEF Sync!Running
    <3>5. QED BY <3>3, <3>4, StageAfter
  <2>3. ASSUME NEW q \in Runners, q # r, ~(q \in Sync!Running /\ Sync!Holds(q, "run"))
        PROVE  run'[q] = run[q]
    BY <1>2, <2>3 DEF Enters
  <2>4. \A q \in Runners : q # r => (q \in Sync!Running' <=> q \in Sync!Running)
    BY <2>2, <2>3, SameStage
  <2>5. r \notin Sync!Running BY <1>2 DEF Enters
  <2>6. \A q \in Sync!Running : run'[q].overtaken <=> run[q].overtaken \/ Sync!Holds(q, "run")
    BY <1>1, <2>2, <2>3, <2>5
  <2>7. \A q \in Sync!Running : run'[q].beside = run[q].beside
    BY <1>1, <2>2, <2>3, <2>5
  <2>8. QED BY <2>1, <2>4, <2>6, <2>7
<1>3. ASSUME Leaves(r) \/ Queues(r), NEW q \in Sync!Running'
      PROVE  q # r /\ q \in Sync!Running /\ run'[q] = run[q]
  <2>1. q \in Runners BY DEF Sync!Running
  <2>2. r \notin Sync!Running'
    <3>1. CASE Leaves(r) BY <3>1 DEF Leaves, Sync!Running, Sync!Stage
    <3>2. CASE Queues(r) BY <3>2, StageAfter DEF Queues
    <3>3. QED BY <1>3, <3>1, <3>2
  <2>3. q # r BY <2>2
  <2>4. run'[q] = run[q] BY <1>3, <2>1, <2>3 DEF Leaves, Queues, Others
  <2>5. QED BY <2>1, <2>3, <2>4, SameStage
<1>4. ASSUME GoesOn(r) PROVE Sync!Running' = Sync!Running
  <2>1. r \in Sync!Running' /\ r \in Sync!Running BY <1>4, StageAfter DEF GoesOn, Started
  <2>2. \A q \in Runners : q # r => (q \in Sync!Running' <=> q \in Sync!Running)
    BY <1>4, SameStage DEF GoesOn, Others
  <2>3. Sync!Running \subseteq Runners /\ Sync!Running' \subseteq Runners BY DEF Sync!Running
  <2>4. QED BY <2>1, <2>2, <2>3
<1>5. QED BY <1>2, <1>3, <1>4

LEMMA LeaseAfter ==
    ASSUME SyncBounds, SyncTyped, NEW r \in Runners
    PROVE  /\ lease' = Sync!Granted("run", r) => Sync!Holds(r, "run")'
           /\ lease' = Sync!Granted("due", r) => lease'["run"] = lease["run"]
           /\ \A keys, q : lease' = Sync!Released(r, keys) /\ Sync!Holds(q, "run") /\ q # r
                              => Sync!Holds(q, "run")'
<1>1. now + LeaseTtl \in Int BY DEF SyncBounds, SyncTyped, Sync!Days
<1>2. [holder |-> r, until |-> now + LeaseTtl] # NoOne BY <1>1 DEF SyncBounds
<1>3. lease' = Sync!Granted("run", r) => Sync!Holds(r, "run")'
  BY <1>2 DEF Sync!Granted, Sync!Holds, SyncTyped
<1>4. lease' = Sync!Granted("due", r) => lease'["run"] = lease["run"] BY DEF Sync!Granted, SyncTyped
<1>5. ASSUME NEW keys, NEW q, lease' = Sync!Released(r, keys), Sync!Holds(q, "run"), q # r
      PROVE  Sync!Holds(q, "run")'
  BY <1>5 DEF Sync!Released, Sync!Holds, SyncTyped
<1>6. QED BY <1>3, <1>4, <1>5

\* A run loses its lease only to one that takes it, and so is overtaken.
LEMMA LeaseKept ==
    ASSUME SyncBounds, SyncNulls, SyncTyped, Equipped, KeepsLease, [Sync!Next]_(Sync!syncVars)
    PROVE  KeepsLease'
<1> SUFFICES ASSUME NEW q \in Sync!Running', ~run'[q].overtaken PROVE Sync!Holds(q, "run")'
    BY DEF KeepsLease
<1>1. q \in Runners BY DEF Sync!Running
<1>2. ASSUME NEW r \in Runners, Enters(r) PROVE Sync!Holds(q, "run")'
  <2>1. CASE q = r
    BY <1>2, <2>1, LeaseAfter DEF Enters
  <2>2. CASE q # r
    <3>1. q \in Sync!Running /\ ~run[q].overtaken /\ ~Sync!Holds(q, "run")
      BY <1>1, <1>2, <2>2, WhoRuns
    <3>2. QED BY <3>1 DEF KeepsLease
  <2>3. QED BY <2>1, <2>2
<1>3. ASSUME NEW r \in Runners, Leaves(r) PROVE Sync!Holds(q, "run")'
  <2>1. q # r /\ q \in Sync!Running /\ run'[q] = run[q] BY <1>3, WhoRuns
  <2>2. Sync!Holds(q, "run") BY <2>1 DEF KeepsLease
  <2>3. CASE lease' = lease BY <2>2, <2>3 DEF Sync!Holds
  <2>4. CASE \E keys : lease' = Sync!Released(r, keys) BY <2>1, <2>2, <2>4, LeaseAfter
  <2>5. QED BY <1>3, <2>3, <2>4 DEF Leaves
<1>4. ASSUME NEW r \in Runners, Queues(r) PROVE Sync!Holds(q, "run")'
  <2>1. q # r /\ q \in Sync!Running /\ run'[q] = run[q] BY <1>4, WhoRuns
  <2>2. Sync!Holds(q, "run") BY <2>1 DEF KeepsLease
  <2>3. lease'["run"] = lease["run"] BY <1>4, LeaseAfter DEF Queues
  <2>4. QED BY <2>2, <2>3 DEF Sync!Holds
<1>5. ASSUME NEW r \in Runners, GoesOn(r) PROVE Sync!Holds(q, "run")'
  <2>1. q \in Sync!Running /\ lease' = lease BY <1>5, WhoRuns DEF GoesOn
  <2>2. ~run[q].overtaken BY <1>1, <1>5 DEF GoesOn, Others
  <2>3. QED BY <2>1, <2>2 DEF KeepsLease, Sync!Holds
<1>6. ASSUME NEW r \in Runners, Renews(r) PROVE Sync!Holds(q, "run")'
  <2>1. q \in Sync!Running /\ ~run[q].overtaken BY <1>1, <1>6, SameStage DEF Renews
  <2>2. Sync!Holds(q, "run") BY <2>1 DEF KeepsLease
  <2>3. q = r BY <1>6, <2>2 DEF Renews, Sync!Holds
  <2>4. QED BY <1>6, <2>3, LeaseAfter DEF Renews
<1>7. CASE UNCHANGED <<run, lease>>
  <2>1. q \in Sync!Running /\ ~run[q].overtaken BY <1>1, <1>7, SameStage
  <2>2. QED BY <1>7, <2>1 DEF KeepsLease, Sync!Holds
<1>8. QED BY <1>2, <1>3, <1>4, <1>5, <1>6, <1>7, StepKinds

LEMMA AloneStays ==
    ASSUME SyncBounds, SyncNulls, SyncTyped, Equipped, KeepsLease, AloneIsAlone,
           [Sync!Next]_(Sync!syncVars)
    PROVE  /\ AloneIsAlone'
           /\ \A q \in Runners : Alone(q)' =>
                  Alone(q) \/ (q \notin Sync!Running /\ Sync!Stage(q)' = "begin")
<1> SUFFICES ASSUME NEW q \in Runners, Alone(q)'
             PROVE  /\ \A p \in Sync!Running' : p = q
                    /\ Alone(q) \/ (q \notin Sync!Running /\ Sync!Stage(q)' = "begin")
    BY DEF AloneIsAlone
<1>1. q \in Sync!Running' /\ ~run'[q].overtaken /\ ~run'[q].beside BY DEF Alone
<1>2. Sync!Running' \subseteq Runners /\ Sync!Running \subseteq Runners BY DEF Sync!Running
<1>3. Alone(q) => \A p \in Sync!Running : p = q BY DEF AloneIsAlone
<1>4. ASSUME NEW r \in Runners, Enters(r)
      PROVE  /\ \A p \in Sync!Running' : p = q
             /\ q \notin Sync!Running /\ Sync!Stage(q)' = "begin"
  <2>1. q = r
    <3>1. SUFFICES ASSUME q # r PROVE FALSE OBVIOUS
    <3>2. q \in Sync!Running /\ ~run[q].overtaken /\ ~Sync!Holds(q, "run")
      BY <1>1, <1>4, <3>1, WhoRuns
    <3>3. QED BY <3>2 DEF KeepsLease
  <2>2. Sync!Running = {} BY <1>1, <1>4, <2>1 DEF Enters
  <2>3. \A p \in Sync!Running' : p = q BY <1>2, <1>4, <2>1, <2>2, WhoRuns
  <2>4. Sync!Stage(q)' = "begin" BY <1>4, <2>1, StageAfter DEF Enters
  <2>5. QED BY <2>2, <2>3, <2>4
<1>5. ASSUME NEW r \in Runners, Leaves(r) \/ Queues(r)
      PROVE  (\A p \in Sync!Running' : p = q) /\ Alone(q)
  <2>1. \A p \in Sync!Running' : p \in Sync!Running /\ run'[p] = run[p] BY <1>5, WhoRuns
  <2>2. Alone(q) BY <1>1, <2>1 DEF Alone
  <2>3. QED BY <1>3, <2>1, <2>2
<1>6. ASSUME NEW r \in Runners, GoesOn(r) PROVE (\A p \in Sync!Running' : p = q) /\ Alone(q)
  <2>1. Sync!Running' = Sync!Running BY <1>6, WhoRuns
  <2>2. ~run[q].overtaken /\ ~run[q].beside BY <1>1, <1>6 DEF GoesOn, Others
  <2>3. Alone(q) BY <1>1, <2>1, <2>2 DEF Alone
  <2>4. QED BY <1>3, <2>1, <2>3
<1>7. ASSUME UNCHANGED run PROVE (\A p \in Sync!Running' : p = q) /\ Alone(q)
  <2>1. \A p \in Sync!Running' : p \in Sync!Running /\ run'[p] = run[p] BY <1>2, <1>7, SameStage
  <2>2. Alone(q) BY <1>1, <2>1 DEF Alone
  <2>3. QED BY <1>3, <2>1, <2>2
<1>8. QED BY <1>4, <1>5, <1>6, <1>7, StepKinds DEF Renews

-----------------------------------------------------------------------------
(* What a step does to the work of the runs and to the tables. *)

SameWork(q) ==
    /\ Sync!Stage(q)' = Sync!Stage(q)
    /\ Sync!Stage(q) \in Started =>
          /\ run'[q].todo = run[q].todo /\ run'[q].metas = run[q].metas
          /\ run'[q].jobs = run[q].jobs /\ run'[q].doing = run[q].doing

Rests(r) == Sync!Stage(r)' \notin Started /\ UNCHANGED <<job, meta, ingested>>

BeginsWork(r) ==
    /\ Sync!Stage(r) = "begin" /\ Sync!Stage(r)' = "accounts"
    /\ run'[r].metas = meta /\ run'[r].jobs = job /\ run'[r].todo \subseteq Accounts
    /\ UNCHANGED <<job, meta, ingested>>

\* One account fewer; what was read is kept while there are more.
NextOne(r, a) ==
    /\ Sync!Stage(r)' = "accounts" /\ run'[r].todo = run[r].todo \ {a}
    /\ run'[r].todo # {} => run'[r].metas = run[r].metas /\ run'[r].jobs = run[r].jobs

Skips(r, a) ==
    Sync!Stage(r) = "accounts" /\ NextOne(r, a) /\ UNCHANGED <<job, meta, ingested>>

Fetches(r, d) ==
    /\ Sync!Stage(r) = "accounts" /\ Sync!Stage(r)' = "record"
    /\ run'[r].todo = run[r].todo /\ run'[r].metas = run[r].metas /\ run'[r].jobs = run[r].jobs
    /\ run'[r].doing = d /\ d \in Doings /\ d.account \in run[r].todo
    /\ ~Sync!TooEarly(r, d.account)
    /\ d.retryable => ~d.ok
    /\ \A a \in Accounts : ingested[a] \subseteq ingested'[a]
    /\ d.newest # 0 => d.newest \in ingested'[d.account]
    /\ UNCHANGED <<job, meta>>

Records(r) ==
    /\ Sync!Stage(r) = "record" /\ Sync!Stage(r)' = "metadata"
    /\ run'[r].todo = run[r].todo /\ run'[r].metas = run[r].metas /\ run'[r].jobs = run[r].jobs
    /\ run'[r].doing = run[r].doing
    /\ \A a \in Accounts : a # run[r].doing.account => job'[a] = job[a]
    /\ job'[run[r].doing.account].retryable = run[r].doing.retryable
    /\ job'[run[r].doing.account].ok = run[r].doing.ok
    /\ UNCHANGED <<meta, ingested>>

Writes(r) ==
    /\ Sync!Stage(r) = "metadata" /\ NextOne(r, run[r].doing.account)
    /\ \A a \in Accounts : a # run[r].doing.account => meta'[a] = meta[a]
    /\ \/ meta'[run[r].doing.account].latest = run[r].metas[run[r].doing.account].latest
       \/ run[r].doing.newest # 0 /\ meta'[run[r].doing.account].latest = run[r].doing.newest
    /\ UNCHANGED <<job, ingested>>

Works(r) ==
    \/ Rests(r) \/ BeginsWork(r) \/ Records(r) \/ Writes(r)
    \/ \E a \in Accounts : Skips(r, a)
    \/ \E d \in Doings : Fetches(r, d)

Alike(r) == \A q \in Runners : q # r => SameWork(q)

LEMMA SameRecord ==
    ASSUME NEW q \in Runners, run'[q] = run[q]
    PROVE  SameWork(q)
BY SameStage DEF SameWork

LEMMA OthersAlike ==
    ASSUME SyncNulls, SyncTyped, NEW r \in Runners, Others(r) \/ Enters(r)
    PROVE  Alike(r)
<1> SUFFICES ASSUME NEW q \in Runners, q # r PROVE SameWork(q)
    BY DEF Alike
<1>1. CASE run'[q] = run[q] BY <1>1, SameRecord
<1>2. CASE run'[q] # run[q]
  <2>1. q \in Sync!Running /\ run'[q] = [run[q] EXCEPT !.overtaken = TRUE]
    BY <1>2 DEF Others, Enters
  <2>2. run[q] \in Runs /\ Sync!Stage(q) = run[q].stage BY <2>1, NotIdle DEF Sync!Running
  <2>3. run'[q] \in Runs /\ run'[q].stage = run[q].stage
        /\ run'[q].todo = run[q].todo /\ run'[q].metas = run[q].metas
        /\ run'[q].jobs = run[q].jobs /\ run'[q].doing = run[q].doing
    BY <2>1, <2>2 DEF Runs
  <2>4. Sync!Stage(q)' = Sync!Stage(q) BY <2>2, <2>3, StageAfter
  <2>5. QED BY <2>3, <2>4 DEF SameWork
<1>3. QED BY <1>1, <1>2

LEMMA OneAlike ==
    ASSUME SyncNulls, SyncTyped, NEW r \in Runners, NEW rec, run' = [run EXCEPT ![r] = rec]
    PROVE  Alike(r)
BY RunChanged, OthersAlike DEF Others

LEMMA StepWorks ==
    ASSUME SyncBounds, SyncNulls, SyncTyped, Equipped, [Sync!Next]_(Sync!syncVars)
    PROVE  \/ \E r \in Runners : Alike(r) /\ Works(r)
           \/ (\A q \in Runners : SameWork(q)) /\ UNCHANGED <<job, meta, ingested>>
<1>1. ASSUME NEW r \in Runners, NEW accts \in SUBSET Accounts, NEW force \in BOOLEAN,
             NEW from \in Requested, Sync!StartManual(r, accts, force, from)
      PROVE  Alike(r) /\ Rests(r)
  <2>1. r \notin Sync!Running BY <1>1 DEF Sync!StartManual, Sync!Running, Sync!Stage
  <2>2. Sync!Enter(r, Sync!Fresh(FALSE, force, from, accts)) /\ lease' = Sync!Granted("run", r)
    BY <1>1 DEF Sync!StartManual
  <2>3. Enters(r) BY <2>1, <2>2, EnterMakes
  <2>4. Sync!Stage(r)' = "begin" BY <2>3, StageAfter DEF Enters
  <2>5. QED BY <1>1, <2>3, <2>4, OthersAlike DEF Rests, Started, Sync!StartManual
<1>2. ASSUME NEW r \in Runners, Sync!StartDue(r) PROVE Alike(r) /\ Rests(r)
  <2> DEFINE rec == [Sync!Fresh(TRUE, FALSE, 0, {}) EXCEPT !.stage = "select"]
  <2>1. rec \in Runs /\ rec.stage = "select" BY FreshTyped DEF Sync!Fresh
  <2>2. run' = [run EXCEPT ![r] = rec] BY <1>2 DEF Sync!StartDue
  <2> HIDE DEF rec
  <2>3. Sync!Stage(r)' = "select" BY <2>1, <2>2, RunChanged, StageAfter
  <2>4. QED BY <1>2, <2>2, <2>3, OneAlike DEF Rests, Started, Sync!StartDue
<1>3. ASSUME NEW r \in Runners, Sync!SelectDue(r) PROVE Alike(r) /\ Rests(r)
  <2> DEFINE batch == {a \in eligible : Sync!Due(a)}
  <2>1. CASE batch # {} /\ Sync!Available("run")
    <3>1. lease' = Sync!Granted("run", r) /\ Sync!Enter(r, Sync!Fresh(TRUE, FALSE, 0, batch))
      BY <1>3, <2>1 DEF Sync!SelectDue
    <3>2. r \notin Sync!Running BY <1>3 DEF Sync!SelectDue, Sync!Running
    <3>3. batch \in SUBSET Accounts BY DEF SyncTyped
    <3> HIDE DEF batch
    <3>4. Enters(r) BY <3>1, <3>2, <3>3, EnterMakes
    <3>5. Sync!Stage(r)' = "begin" BY <3>4, StageAfter DEF Enters
    <3>6. QED BY <1>3, <3>4, <3>5, OthersAlike DEF Rests, Started, Sync!SelectDue
  <2>2. CASE ~(batch # {} /\ Sync!Available("run"))
    <3>1. run' = [run EXCEPT ![r] = Idle]
      BY <1>3, <2>2 DEF Sync!SelectDue
    <3>2. Sync!Stage(r)' = "idle" BY <3>1, RunChanged DEF Sync!Stage
    <3>3. QED BY <1>3, <3>1, <3>2, OneAlike DEF Rests, Started, Sync!SelectDue
  <2>3. QED BY <2>1, <2>2
<1>4. ASSUME NEW r \in Runners, Sync!Begin(r) PROVE Alike(r) /\ BeginsWork(r)
  <2>1. run[r] \in Runs BY <1>4, NotIdle DEF Sync!Begin
  <2> DEFINE rec == [run[r] EXCEPT
                        !.stage = "accounts", !.metas = meta, !.jobs = job, !.todo =
                            @ \cap eligible]
  <2>2. run' = [run EXCEPT ![r] = rec] BY <1>4, BeginMakes
  <2>3. rec \in Runs /\ rec.stage = "accounts" /\ rec.metas = meta /\ rec.jobs = job
        /\ rec.todo \subseteq Accounts
    BY <2>1 DEF Runs, SyncTyped
  <2> HIDE DEF rec
  <2>4. run'[r] = rec BY <2>2, RunChanged
  <2>5. QED BY <1>4, <2>2, <2>3, <2>4, StageAfter, OneAlike DEF BeginsWork, Sync!Begin
<1>5. ASSUME NEW r \in Runners, NEW rec \in Runs, NEW a, rec.stage = "accounts",
             rec.todo = run[r].todo, rec.metas = run[r].metas, rec.jobs = run[r].jobs,
             run' = [run EXCEPT ![r] = Sync!Rested(rec, a)]
      PROVE  Alike(r) /\ NextOne(r, a)
  <2>1. run'[r] = Sync!Rested(rec, a) BY <1>5, RunChanged
  <2>2. Sync!Rested(rec, a) \in Runs BY RestedTyped
  <2>3. Sync!Stage(r)' = "accounts" BY <1>5, <2>1, <2>2, RestedKeeps, StageAfter
  <2>4. rec.todo \ {a} # {} => rec.todo # {a} OBVIOUS
  <2>5. NextOne(r, a) BY <1>5, <2>1, <2>3, <2>4, RestedKeeps DEF NextOne
  <2>6. QED BY <1>5, <2>5, OneAlike
<1>6. ASSUME NEW r \in Runners, NEW a \in Accounts, Sync!Skip(r, a) PROVE Alike(r) /\ Skips(r, a)
  <2>1. run[r] \in Runs /\ run[r].stage = "accounts" /\ Sync!Stage(r) = "accounts"
    BY <1>6, NotIdle DEF Sync!Skip
  <2>2. run' = [run EXCEPT ![r] = Sync!Rested(run[r], a)] BY <1>6 DEF Sync!Skip, SyncTyped
  <2>3. Alike(r) /\ NextOne(r, a) BY <2>1, <2>2, <1>5
  <2>4. QED BY <1>6, <2>1, <2>3 DEF Skips, Sync!Skip
<1>7. ASSUME NEW r \in Runners, NEW d \in Doings, Sync!Stage(r) = "accounts",
             run' = [run EXCEPT ![r].stage = "record", ![r].doing = d]
      PROVE  /\ Alike(r) /\ Sync!Stage(r)' = "record"
             /\ run'[r].todo = run[r].todo /\ run'[r].metas = run[r].metas
             /\ run'[r].jobs = run[r].jobs /\ run'[r].doing = d
  <2>1. run[r] \in Runs BY <1>7, NotIdle
  <2> DEFINE rec == [run[r] EXCEPT !.stage = "record", !.doing = d]
  <2>2. run' = [run EXCEPT ![r] = rec] BY <1>7, <2>1, FetchMakes
  <2>3. rec \in Runs /\ rec.stage = "record" /\ rec.todo = run[r].todo /\ rec.metas = run[r].metas
        /\ rec.jobs = run[r].jobs /\ rec.doing = d
    BY <2>1 DEF Runs
  <2> HIDE DEF rec
  <2>4. run'[r] = rec BY <2>2, RunChanged
  <2>5. QED BY <2>2, <2>3, <2>4, StageAfter, OneAlike
<1>8. ASSUME NEW r \in Runners, NEW a \in Accounts, NEW days \in SUBSET Sync!Days,
             Sync!FetchRows(r, a, days)
      PROVE  Alike(r) /\ \E d \in Doings : Fetches(r, d)
  <2> DEFINE d == Sync!Done(a, TRUE, FALSE, IF days = {} THEN 0 ELSE Sync!Max(days))
  <2>1. d \in Doings BY NewestTyped, DoingTyped
  <2>2. d.account = a /\ ~d.retryable /\ d.newest = (IF days = {} THEN 0 ELSE Sync!Max(days))
    BY DEF Sync!Done
  <2>3. Sync!Stage(r) = "accounts" /\ run' = [run EXCEPT ![r].stage = "record", ![r].doing = d]
        /\ a \in run[r].todo /\ ~Sync!TooEarly(r, a)
    BY <1>8 DEF Sync!FetchRows
  <2> HIDE DEF d
  <2>4. ingested' = [ingested EXCEPT ![a] = @ \cup days] BY <1>8 DEF Sync!FetchRows
  <2>5. ingested'[a] = ingested[a] \cup days
            /\ \A b \in Accounts : ingested[b] \subseteq ingested'[b]
    BY <2>4 DEF SyncTyped
  <2>6. d.newest # 0 => d.newest \in ingested'[a] BY <2>2, <2>5, NewestTyped
  <2>7. UNCHANGED <<job, meta>> BY <1>8 DEF Sync!FetchRows
  <2>8. Alike(r) /\ Fetches(r, d)
    BY <2>1, <2>2, <2>3, <2>5, <2>6, <2>7, <1>7 DEF Fetches
  <2>9. QED BY <2>1, <2>8
<1>9. ASSUME NEW r \in Runners, NEW a \in Accounts, NEW retryable \in Errors,
             Sync!FetchError(r, a, retryable)
      PROVE  Alike(r) /\ \E d \in Doings : Fetches(r, d)
  <2> DEFINE d == Sync!Done(a, FALSE, retryable, 0)
  <2>1. d \in Doings
    <3>1. retryable \in BOOLEAN /\ FALSE \in BOOLEAN /\ 0 \in 0 .. LastTick BY DEF SyncBounds
    <3>2. QED BY <3>1, DoingTyped
  <2>2. d.account = a /\ ~d.ok /\ d.newest = 0
    BY DEF Sync!Done
  <2>3. Sync!Stage(r) = "accounts" /\ run' = [run EXCEPT ![r].stage = "record", ![r].doing = d]
        /\ a \in run[r].todo /\ ~Sync!TooEarly(r, a)
    BY <1>9 DEF Sync!FetchError
  <2> HIDE DEF d
  <2>4. UNCHANGED <<job, meta, ingested>> BY <1>9 DEF Sync!FetchError
  <2>5. Alike(r) /\ Fetches(r, d)
    BY <2>1, <2>2, <2>3, <2>4, <1>7 DEF Fetches
  <2>6. QED BY <2>1, <2>5
<1>10. ASSUME NEW r \in Runners, Sync!RecordJob(r) PROVE Alike(r) /\ Records(r)
  <2>1. run[r] \in Runs /\ Sync!Stage(r) = "record" BY <1>10, NotIdle DEF Sync!RecordJob
  <2> DEFINE rec == [run[r] EXCEPT !.stage = "metadata"]
             d   == run[r].doing
  <2>2. run' = [run EXCEPT ![r] = rec] BY <1>10, <2>1 DEF Sync!RecordJob, SyncTyped
  <2>3. rec \in Runs /\ rec.stage = "metadata" /\ rec.todo = run[r].todo
        /\ rec.metas = run[r].metas /\ rec.jobs = run[r].jobs /\ rec.doing = run[r].doing
    BY <2>1 DEF Runs
  <2> HIDE DEF rec
  <2>4. run'[r] = rec BY <2>2, RunChanged
  <2>5. d.account \in Accounts BY <2>1 DEF Equipped, Fetching, Doings
  <2>6. /\ \A a \in Accounts : a # d.account => job'[a] = job[a]
        /\ job'[d.account].retryable = d.retryable /\ job'[d.account].ok = d.ok
    BY <1>10, <2>5 DEF Sync!RecordJob, SyncTyped
  <2>7. UNCHANGED <<meta, ingested>> BY <1>10 DEF Sync!RecordJob
  <2>8. QED BY <2>1, <2>2, <2>3, <2>4, <2>6, <2>7, StageAfter, OneAlike DEF Records
<1>11. ASSUME NEW r \in Runners, Sync!WriteMetadata(r) PROVE Alike(r) /\ Writes(r)
  <2>1. run[r] \in Runs /\ Sync!Stage(r) = "metadata" BY <1>11, NotIdle DEF Sync!WriteMetadata
  <2> DEFINE rec == [run[r] EXCEPT !.stage = "accounts", !.doing = Idle]
             d   == run[r].doing
  <2>2. rec \in Runs /\ rec.stage = "accounts" /\ rec.todo = run[r].todo
        /\ rec.metas = run[r].metas /\ rec.jobs = run[r].jobs
    BY <2>1 DEF Runs
  <2>3. run' = [run EXCEPT ![r] = Sync!Rested(rec, d.account)]
    BY <1>11 DEF Sync!WriteMetadata, SyncTyped
  <2> HIDE DEF rec
  <2>4. Alike(r) /\ NextOne(r, d.account) BY <2>2, <2>3, <1>5
  <2>5. d.account \in Accounts BY <2>1 DEF Equipped, Fetching, Doings
  <2>6. meta' = [meta EXCEPT ![d.account] = Sync!NextMeta(run[r].metas[d.account], d, run[r].from)]
    BY <1>11 DEF Sync!WriteMetadata
  <2>7. /\ \A a \in Accounts : a # d.account => meta'[a] = meta[a]
        /\ meta'[d.account] = Sync!NextMeta(run[r].metas[d.account], d, run[r].from)
    BY <2>5, <2>6 DEF SyncTyped
  <2>8. \/ meta'[d.account].latest = run[r].metas[d.account].latest
        \/ d.newest # 0 /\ meta'[d.account].latest = d.newest
    BY <2>7 DEF Sync!NextMeta
  <2>9. UNCHANGED <<job, ingested>> BY <1>11 DEF Sync!WriteMetadata
  <2>10. QED BY <2>1, <2>4, <2>7, <2>8, <2>9 DEF Writes
<1>12. ASSUME NEW r \in Runners, Sync!Finish(r) \/ Sync!Crash(r) PROVE Alike(r) /\ Rests(r)
  <2>1. run' = [run EXCEPT ![r] = Idle] BY <1>12 DEF Sync!Finish, Sync!Crash
  <2>2. Sync!Stage(r)' = "idle" BY <2>1, RunChanged DEF Sync!Stage
  <2>3. QED BY <1>12, <2>1, <2>2, OneAlike DEF Rests, Started, Sync!Finish, Sync!Crash
<1>13. ASSUME UNCHANGED run PROVE \A q \in Runners : SameWork(q)
  BY <1>13, SameRecord
<1>14. ASSUME NEW r \in Runners, Sync!Heartbeat(r) PROVE UNCHANGED <<run, job, meta, ingested>>
  BY <1>14 DEF Sync!Heartbeat
<1>15. CASE Sync!Tick
  BY <1>13, <1>15 DEF Sync!Tick
<1>16. ASSUME NEW a \in Accounts, Sync!ToggleEligible(a)
       PROVE  UNCHANGED <<run, job, meta, ingested>>
  BY <1>16 DEF Sync!ToggleEligible
<1>17. CASE UNCHANGED Sync!syncVars
  BY <1>13, <1>17 DEF Sync!syncVars
<1>18. \A days \in UNION {Sync!kSubset(n, Sync!Days) : n \in 0 .. MaxRows} :
           days \in SUBSET Sync!Days
  BY DEF Sync!kSubset
<1>19. ASSUME NEW r \in Runners,
              \/ \E accts \in SUBSET Accounts \ {{}}, force \in BOOLEAN, from \in Requested :
                    Sync!StartManual(r, accts, force, from)
              \/ Sync!StartDue(r) \/ Sync!SelectDue(r) \/ Sync!Begin(r)
              \/ \E a \in Accounts :
                    \/ Sync!Skip(r, a)
                    \/ \E days \in UNION {Sync!kSubset(n, Sync!Days) : n \in 0 .. MaxRows} :
                           Sync!FetchRows(r, a, days)
                    \/ \E retryable \in Errors : Sync!FetchError(r, a, retryable)
              \/ Sync!RecordJob(r) \/ Sync!WriteMetadata(r) \/ Sync!Finish(r) \/ Sync!Crash(r)
       PROVE  Alike(r) /\ Works(r)
  BY <1>1, <1>2, <1>3, <1>4, <1>6, <1>8, <1>9, <1>10, <1>11, <1>12, <1>18, <1>19 DEF Works
<1>20. QED
  BY <1>13, <1>14, <1>15, <1>16, <1>17, <1>19 DEF Sync!Next

LEMMA EquippedKept ==
    ASSUME SyncBounds, SyncNulls, SyncTyped, Equipped, [Sync!Next]_(Sync!syncVars)
    PROVE  Equipped'
<1> SUFFICES ASSUME NEW q \in Runners
             PROVE  /\ Sync!Stage(q)' \in Started /\ run'[q].todo # {} =>
                          /\ run'[q].metas \in [Accounts -> Sync!Metadata]
                          /\ run'[q].jobs \in [Accounts -> Jobs \cup {NoJob}]
                    /\ Sync!Stage(q)' \in Fetching =>
                          run'[q].doing \in Doings /\ run'[q].doing.account \in run'[q].todo
    BY DEF Equipped
<1>1. /\ Sync!Stage(q) \in Started /\ run[q].todo # {} =>
            /\ run[q].metas \in [Accounts -> Sync!Metadata]
            /\ run[q].jobs \in [Accounts -> Jobs \cup {NoJob}]
      /\ Sync!Stage(q) \in Fetching =>
             run[q].doing \in Doings /\ run[q].doing.account \in run[q].todo
  BY DEF Equipped
<1>2. CASE SameWork(q)
  BY <1>1, <1>2 DEF SameWork, Started, Fetching
<1>3. CASE Works(q)
  <2>1. CASE Rests(q) BY <2>1 DEF Rests, Started, Fetching
  <2>2. CASE BeginsWork(q) BY <2>2 DEF BeginsWork, SyncTyped, Fetching
  <2>3. CASE Records(q) BY <1>1, <2>3 DEF Records, Started, Fetching
  <2>4. CASE Writes(q)
    <3>1. Sync!Stage(q) \in Started /\ NextOne(q, run[q].doing.account) BY <2>4 DEF Writes, Started
    <3>2. QED BY <1>1, <3>1 DEF NextOne, Fetching
  <2>5. ASSUME NEW a \in Accounts, Skips(q, a)
        PROVE  /\ Sync!Stage(q)' \in Started /\ run'[q].todo # {} =>
                     /\ run'[q].metas \in [Accounts -> Sync!Metadata]
                     /\ run'[q].jobs \in [Accounts -> Jobs \cup {NoJob}]
               /\ Sync!Stage(q)' \notin Fetching
    <3>1. Sync!Stage(q) \in Started /\ NextOne(q, a) BY <2>5 DEF Skips, Started
    <3>2. QED BY <1>1, <3>1 DEF NextOne, Fetching
  <2>6. ASSUME NEW d \in Doings, Fetches(q, d)
        PROVE  /\ run'[q].metas \in [Accounts -> Sync!Metadata]
               /\ run'[q].jobs \in [Accounts -> Jobs \cup {NoJob}]
               /\ run'[q].doing \in Doings /\ run'[q].doing.account \in run'[q].todo
    <3>1. Sync!Stage(q) \in Started /\ run[q].todo # {} BY <2>6 DEF Fetches, Started
    <3>2. QED BY <1>1, <2>6, <3>1 DEF Fetches
  <2>7. QED BY <1>3, <2>1, <2>2, <2>3, <2>4, <2>5, <2>6 DEF Works
<1>4. QED BY <1>2, <1>3, StepWorks DEF Alike

LEMMA RetriesKept ==
    ASSUME SyncBounds, SyncNulls, SyncTyped, Equipped, RetriesFollowErrors,
           [Sync!Next]_(Sync!syncVars)
    PROVE  RetriesFollowErrors'
<1>1. ASSUME NEW a \in Accounts PROVE job'[a] # NoJob /\ job'[a].retryable => ~job'[a].ok
  <2>1. job[a] # NoJob /\ job[a].retryable => ~job[a].ok BY DEF RetriesFollowErrors
  <2>2. CASE job'[a] = job[a] BY <2>1, <2>2
  <2>3. ASSUME NEW r \in Runners, Records(r)
        PROVE  job'[a] # NoJob /\ job'[a].retryable => ~job'[a].ok
    <3>1. run[r].doing.retryable => ~run[r].doing.ok
      BY <2>3 DEF Records, RetriesFollowErrors, Fetching
    <3>2. CASE a = run[r].doing.account BY <2>3, <3>1, <3>2 DEF Records
    <3>3. CASE a # run[r].doing.account BY <2>1, <2>3, <3>3 DEF Records
    <3>4. QED BY <3>2, <3>3
  <2>4. QED
    BY <2>2, <2>3, StepWorks DEF Works, Rests, BeginsWork, Writes, Skips, Fetches
<1>2. ASSUME NEW q \in Runners, Sync!Stage(q)' \in Fetching, run'[q].doing.retryable
      PROVE  ~run'[q].doing.ok
  <2>1. Sync!Stage(q) \in Fetching /\ run[q].doing.retryable => ~run[q].doing.ok
    BY DEF RetriesFollowErrors
  <2>2. CASE SameWork(q) BY <1>2, <2>1, <2>2 DEF SameWork, Started, Fetching
  <2>3. CASE Works(q)
    <3>1. CASE Records(q) BY <1>2, <2>1, <3>1 DEF Records, Fetching
    <3>2. ASSUME NEW d \in Doings, Fetches(q, d) PROVE ~run'[q].doing.ok
      BY <1>2, <3>2 DEF Fetches
    <3>3. QED
      BY <1>2, <2>3, <3>1, <3>2
      DEF Works, Rests, BeginsWork, Writes, Skips, NextOne, Started, Fetching
  <2>4. QED BY <2>2, <2>3, StepWorks DEF Alike
<1>3. QED BY <1>1, <1>2 DEF RetriesFollowErrors

LEMMA KnownJobsKept ==
    ASSUME SyncBounds, SyncNulls, SyncTyped, Equipped, KeepsLease, AloneIsAlone, KnowsTheJobs,
           [Sync!Next]_(Sync!syncVars)
    PROVE  KnowsTheJobs'
<1> SUFFICES ASSUME NEW q \in Runners, Alone(q)', Sync!Stage(q)' \in Started, NEW a \in run'[q].todo
             PROVE  run'[q].jobs[a] = job'[a]
                    \/ (Sync!Stage(q)' = "metadata" /\ run'[q].doing.account = a)
    BY DEF KnowsTheJobs
<1>1. Alone(q) BY AloneStays DEF Started
<1>2. Sync!Stage(q) \in Started => \A b \in run[q].todo :
                 run[q].jobs[b] = job[b] \/ (Sync!Stage(q) = "metadata" /\ run[q].doing.account = b)
  BY <1>1 DEF KnowsTheJobs
<1>3. \A r \in Runners : Sync!Stage(r) = "record" => r = q
  BY <1>1 DEF AloneIsAlone, Sync!Running
<1>4. CASE SameWork(q)
  <2>1. job' = job \/ \E r \in Runners : Records(r) /\ Alike(r)
    BY StepWorks DEF Works, Rests, BeginsWork, Writes, Skips, Fetches
  <2>2. ASSUME NEW r \in Runners, Records(r) PROVE FALSE
    <3>1. r = q BY <1>3, <2>2 DEF Records
    <3>2. QED BY <1>4, <2>2, <3>1 DEF SameWork, Records
  <2>3. job' = job BY <2>1, <2>2
  <2>4. QED BY <1>2, <1>4, <2>3 DEF SameWork
<1>5. CASE Works(q)
  <2>1. CASE Rests(q) BY <2>1 DEF Rests
  <2>2. CASE BeginsWork(q) BY <2>2 DEF BeginsWork
  <2>3. CASE Records(q)
    <3>1. a \in Accounts
      <4>1. run[q].todo \subseteq Accounts BY <2>3, NotIdle DEF Records, Runs
      <4>2. QED BY <2>3, <4>1 DEF Records
    <3>2. CASE a = run[q].doing.account BY <2>3, <3>2 DEF Records
    <3>3. CASE a # run[q].doing.account
      <4>1. run[q].jobs[a] = job[a] BY <1>2, <2>3 DEF Records, Started
      <4>2. QED BY <2>3, <3>1, <3>3, <4>1 DEF Records
    <3>4. QED BY <3>2, <3>3
  <2>4. CASE Writes(q)
    <3>1. Sync!Stage(q) = "metadata" /\ a \in run[q].todo /\ a # run[q].doing.account
          /\ run'[q].jobs = run[q].jobs /\ job' = job
      BY <2>4 DEF Writes, NextOne
    <3>2. QED BY <1>2, <3>1 DEF Started
  <2>5. ASSUME NEW b \in Accounts, Skips(q, b)
        PROVE  run'[q].jobs[a] = job'[a]
    <3>1. Sync!Stage(q) = "accounts" /\ a \in run[q].todo /\ run'[q].jobs = run[q].jobs
              /\ job' = job
      BY <2>5 DEF Skips, NextOne
    <3>2. QED BY <1>2, <3>1 DEF Started
  <2>6. ASSUME NEW d \in Doings, Fetches(q, d)
        PROVE  run'[q].jobs[a] = job'[a]
    <3>1. Sync!Stage(q) = "accounts" /\ a \in run[q].todo /\ run'[q].jobs = run[q].jobs
              /\ job' = job
      BY <2>6 DEF Fetches
    <3>2. QED BY <1>2, <3>1 DEF Started
  <2>7. QED BY <1>5, <2>1, <2>2, <2>3, <2>4, <2>5, <2>6 DEF Works
<1>6. QED BY <1>4, <1>5, StepWorks DEF Alike

LEMMA SaidKept ==
    ASSUME SyncBounds, SyncNulls, SyncTyped, Equipped, OnlySaidOfIngested,
           [Sync!Next]_(Sync!syncVars)
    PROVE  OnlySaidOfIngested'
<1>1. \A a \in Accounts : ingested[a] \subseteq ingested'[a]
  BY StepWorks DEF Works, Rests, BeginsWork, Writes, Skips, Fetches, Records
<1>2. \A a \in Accounts : \A m : Said(m, a) => (m.latest = 0 \/ m.latest \in ingested'[a])
  BY <1>1 DEF Said
<1>3. ASSUME NEW a \in Accounts PROVE meta'[a].latest = 0 \/ meta'[a].latest \in ingested'[a]
  <2>1. Said(meta[a], a) BY DEF OnlySaidOfIngested
  <2>2. CASE meta'[a] = meta[a] BY <1>2, <2>1, <2>2
  <2>3. ASSUME NEW r \in Runners, Writes(r)
        PROVE  meta'[a].latest = 0 \/ meta'[a].latest \in ingested'[a]
    <3> DEFINE d == run[r].doing
    <3>1. Sync!Stage(r) = "metadata" BY <2>3 DEF Writes
    <3>2. d \in Doings /\ d.account \in run[r].todo BY <3>1 DEF Equipped, Fetching
    <3>3. Said(run[r].metas[d.account], d.account) BY <3>1, <3>2 DEF OnlySaidOfIngested, Started
    <3>4. d.newest # 0 => d.newest \in ingested[d.account]
      BY <3>1 DEF OnlySaidOfIngested, Fetching
    <3>5. CASE a = d.account BY <1>1, <1>2, <2>3, <3>3, <3>4, <3>5 DEF Writes
    <3>6. CASE a # d.account BY <1>2, <2>1, <2>3, <3>6 DEF Writes
    <3>7. QED BY <3>5, <3>6
  <2>4. QED BY <2>2, <2>3, StepWorks DEF Works, Rests, BeginsWork, Skips, Fetches, Records
<1>4. ASSUME NEW q \in Runners, Sync!Stage(q)' \in Started, NEW a \in run'[q].todo
      PROVE  run'[q].metas[a].latest = 0 \/ run'[q].metas[a].latest \in ingested'[a]
  <2>1. ASSUME Sync!Stage(q) \in Started, a \in run[q].todo
        PROVE  Said(run[q].metas[a], a) /\ a \in Accounts
    <3>1. Said(run[q].metas[a], a) BY <2>1 DEF OnlySaidOfIngested
    <3>2. run[q].todo \subseteq Accounts BY <2>1, NotIdle DEF Started, Runs
    <3>3. QED BY <2>1, <3>1, <3>2
  <2>2. CASE SameWork(q) BY <1>2, <1>4, <2>1, <2>2 DEF SameWork
  <2>3. CASE Works(q)
    <3>1. CASE Rests(q) BY <1>4, <3>1 DEF Rests
    <3>2. CASE BeginsWork(q)
      <4>1. a \in Accounts /\ run'[q].metas = meta BY <1>4, <3>2 DEF BeginsWork
      <4>2. Said(meta[a], a) BY <4>1 DEF OnlySaidOfIngested
      <4>3. QED BY <1>2, <4>1, <4>2
    <3>3. CASE Records(q) BY <1>2, <1>4, <2>1, <3>3 DEF Records, Started
    <3>4. CASE Writes(q) BY <1>2, <1>4, <2>1, <3>4 DEF Writes, NextOne, Started
    <3>5. ASSUME NEW b \in Accounts, Skips(q, b)
          PROVE  run'[q].metas[a].latest = 0 \/ run'[q].metas[a].latest \in ingested'[a]
      BY <1>2, <1>4, <2>1, <3>5 DEF Skips, NextOne, Started
    <3>6. ASSUME NEW d \in Doings, Fetches(q, d)
          PROVE  run'[q].metas[a].latest = 0 \/ run'[q].metas[a].latest \in ingested'[a]
      BY <1>2, <1>4, <2>1, <3>6 DEF Fetches, Started
    <3>7. QED BY <2>3, <3>1, <3>2, <3>3, <3>4, <3>5, <3>6 DEF Works
  <2>4. QED BY <2>2, <2>3, StepWorks DEF Alike
<1>5. ASSUME NEW q \in Runners, Sync!Stage(q)' \in Fetching, run'[q].doing.newest # 0
      PROVE  run'[q].doing.newest \in ingested'[run'[q].doing.account]
  <2>1. ASSUME Sync!Stage(q) \in Fetching
        PROVE  /\ run[q].doing.account \in Accounts
               /\ run[q].doing.newest # 0 => run[q].doing.newest \in ingested[run[q].doing.account]
    BY <2>1 DEF Equipped, OnlySaidOfIngested, Doings
  <2>2. CASE SameWork(q) BY <1>1, <1>5, <2>1, <2>2 DEF SameWork, Started, Fetching
  <2>3. CASE Works(q)
    <3>1. CASE Records(q) BY <1>1, <1>5, <2>1, <3>1 DEF Records, Fetching
    <3>2. ASSUME NEW d \in Doings, Fetches(q, d)
          PROVE  run'[q].doing.newest \in ingested'[run'[q].doing.account]
      BY <1>5, <3>2 DEF Fetches
    <3>3. QED
      BY <1>5, <2>3, <3>1, <3>2
      DEF Works, Rests, BeginsWork, Writes, Skips, NextOne, Started, Fetching
  <2>4. QED BY <2>2, <2>3, StepWorks DEF Alike
<1>6. QED BY <1>3, <1>4, <1>5 DEF OnlySaidOfIngested, Said

-----------------------------------------------------------------------------
LEMMA SyncInvAtFirst == ASSUME SyncBounds PROVE Sync!Init => SyncInv
<1>1. Sync!Init => SyncTyped BY SyncTypedAtFirst
<1>2. Sync!Init => \A r \in Runners : Sync!Stage(r) = "idle" BY DEF Sync!Init, Sync!Stage
<1>3. Sync!Init => Sync!Running = {} BY <1>2 DEF Sync!Running
<1>4. Sync!Init => \A a \in Accounts : meta[a].latest = 0 /\ job[a] = NoJob BY DEF Sync!Init
<1>5. QED
  BY <1>1, <1>2, <1>3, <1>4
  DEF SyncInv, Equipped, KeepsLease, AloneIsAlone, Alone, RetriesFollowErrors, KnowsTheJobs,
      OnlySaidOfIngested, Said, Started, Fetching

\* What a run holds, knows and says, in every interleaving of runs, heartbeats, crashes and
\* lapses.  (ad_account_sync.py)
THEOREM SyncInvariant == ASSUME SyncBounds, SyncNulls PROVE Sync!Spec => []SyncInv
<1>1. Sync!Init => SyncInv BY SyncInvAtFirst
<1>2. SyncInv /\ [Sync!Next]_(Sync!syncVars) => SyncInv'
  BY SyncTypedKept, EquippedKept, LeaseKept, AloneStays, RetriesKept, KnownJobsKept, SaidKept
  DEF SyncInv
<1>3. QED BY <1>1, <1>2, PTL DEF Sync!Spec

\* Two runs are inside the exclusive sync only if the lease of one ran out.
\* (acquire_lease; run_sync_exclusive, run_due_sync)
THEOREM RunsAlone == ASSUME SyncBounds, SyncNulls PROVE Sync!Spec => []Sync!AloneUnlessOvertaken
<1>1. SyncInv => Sync!AloneUnlessOvertaken
  <2> SUFFICES ASSUME SyncInv, NEW q \in Sync!Running, NEW r \in Sync!Running, q # r,
                      ~run[q].overtaken, ~run[r].overtaken
               PROVE  FALSE
      BY DEF Sync!AloneUnlessOvertaken
  <2>1. Sync!Holds(q, "run") /\ Sync!Holds(r, "run") BY DEF SyncInv, KeepsLease
  <2>2. QED BY <2>1 DEF Sync!Holds
<1>2. QED BY <1>1, SyncInvariant, PTL

\* The newest day an account claims to have data of was stored.  (run_sync, next_meta)
THEOREM ClaimsWhatIsThere == ASSUME SyncBounds, SyncNulls
PROVE  Sync!Spec => []Sync!FreshnessIsIngested
<1>1. SyncInv => Sync!FreshnessIsIngested
  BY DEF SyncInv, OnlySaidOfIngested, Sync!FreshnessIsIngested, Said
<1>2. QED BY <1>1, SyncInvariant, PTL

\* A run alone waits for the retry time of the last job, as it is now, not only as it read it.
\* (run_sync)
THEOREM BackoffIsHonoured == ASSUME SyncBounds, SyncNulls PROVE Sync!Spec => Sync!BackoffHonoured
<1>1. SyncInv /\ [Sync!Next]_(Sync!syncVars) => Sync!KeepsBackoff
  <2> SUFFICES ASSUME SyncInv, [Sync!Next]_(Sync!syncVars), NEW r \in Runners,
                      Sync!Stage(r) = "accounts", Sync!Stage(r)' = "record",
                      ~run[r].overtaken, ~run[r].beside, ~run[r].force,
                      job[run'[r].doing.account] # NoJob, job[run'[r].doing.account].retryable,
                      run'[r].doing.account \in Accounts
               PROVE  job[run'[r].doing.account].next <= now
      BY DEF Sync!KeepsBackoff
  <2>1. SyncTyped /\ Equipped BY DEF SyncInv
  <2>2. PICK d \in Doings : Fetches(r, d)
    <3>1. ~SameWork(r) BY DEF SameWork
    <3>2. Works(r) BY <2>1, <3>1, StepWorks DEF Alike
    <3>3. QED BY <3>2 DEF Works, Rests, BeginsWork, Records, Writes, Skips, NextOne, Started
  <2> DEFINE a == run'[r].doing.account
  <2>3. a = d.account /\ a \in run[r].todo /\ ~Sync!TooEarly(r, a) BY <2>2 DEF Fetches
  <2>4. Alone(r) BY DEF Alone, Sync!Running
  <2>5. run[r].jobs[a] = job[a] BY <2>3, <2>4 DEF SyncInv, KnowsTheJobs, Started
  <2>6. ~job[a].ok BY DEF SyncInv, RetriesFollowErrors
  <2>7. ~(now < job[a].next) BY <2>3, <2>5, <2>6 DEF Sync!TooEarly
  <2>8. job[a] \in Jobs /\ now \in Int BY <2>1 DEF SyncTyped, Sync!Days
  <2>9. job[a].next \in Int BY <2>8 DEF Jobs
  <2>10. QED BY <2>7, <2>8, <2>9
<1>2. QED BY <1>1, SyncInvariant, PTL DEF Sync!Spec, Sync!BackoffHonoured

-----------------------------------------------------------------------------
(* Daily statistics and reports *)

\* The rows of an upload are not like none.
StatNulls == \A u \in Uploads : u.rows # NoRow

\* A key that was accepted is in the table of replays.
KeysAreKept ==
    /\ DOMAIN replay = Stats!Keys
    /\ accepted \subseteq Uploads
    /\ \A u \in accepted : u.key # NoKey => replay[u.key] # NoRow

StatInv == KeysAreKept /\ Stats!RetriesNeverRevert

\* Whatever arrives again under its key, and however late, puts nothing back.
\* (ad_stats.py, ingest: the table of replays is read and written with the rows)
THEOREM NothingReverts == ASSUME StatNulls PROVE Stats!Spec => []Stats!RetriesNeverRevert
<1>1. Stats!Init => StatInv
  BY DEF Stats!Init, StatInv, KeysAreKept, Stats!RetriesNeverRevert
<1>2. StatInv /\ [Stats!Next]_(Stats!vars) => StatInv'
  <2> SUFFICES ASSUME StatInv, [Stats!Next]_(Stats!vars) PROVE StatInv'
    OBVIOUS
  <2>1. ASSUME NEW u \in Uploads, Stats!Ingest(u) PROVE StatInv'
    <3>1. u.key # NoKey => u.key \in Stats!Keys BY DEF Stats!Keys
    <3>2. ~(u.key # NoKey /\ u \in accepted)
      BY <2>1 DEF Stats!Ingest, Stats!Replayed, StatInv, KeysAreKept
    <3>3. Stats!RetriesNeverRevert'
      BY <2>1, <3>2 DEF Stats!Ingest, Stats!Upserted, StatInv, Stats!RetriesNeverRevert
    <3>4. DOMAIN replay' = Stats!Keys /\ (accepted \subseteq Uploads)'
      BY <2>1 DEF Stats!Ingest, StatInv, KeysAreKept
    <3>5. ASSUME NEW v \in accepted', v.key # NoKey PROVE replay'[v.key] # NoRow
      <4>1. CASE v.key = u.key
        BY <2>1, <3>1, <3>5, <4>1 DEF Stats!Ingest, StatInv, KeysAreKept, StatNulls
      <4>2. CASE v.key # u.key
        BY <2>1, <3>5, <4>2 DEF Stats!Ingest, StatInv, KeysAreKept, Stats!Keys
      <4>3. QED BY <4>1, <4>2
    <3>6. QED BY <3>3, <3>4, <3>5 DEF StatInv, KeysAreKept
  <2>2. ASSUME NEW a, Stats!PatchAccount(a) PROVE StatInv'
    BY <2>2 DEF Stats!PatchAccount, StatInv, KeysAreKept, Stats!RetriesNeverRevert
  <2>3. ASSUME NEW c, Stats!SwitchClient(c) PROVE StatInv'
    BY <2>3 DEF Stats!SwitchClient, StatInv, KeysAreKept, Stats!RetriesNeverRevert
  <2>4. CASE UNCHANGED Stats!vars
    BY <2>4 DEF Stats!vars, StatInv, KeysAreKept, Stats!RetriesNeverRevert
  <2>5. QED BY <2>1, <2>2, <2>3, <2>4 DEF Stats!Next
<1>3. StatInv => Stats!RetriesNeverRevert BY DEF StatInv
<1>4. QED BY <1>1, <1>2, <1>3, PTL DEF Stats!Spec

-----------------------------------------------------------------------------
\* The rows that are totalled are of accounts that are judged.
LEMMA TotalsAreJudged == ASSUME NEW s PROVE Stats!Relevant(s) = Stats!Listed(s)
BY DEF Stats!Relevant, Stats!Listed, Stats!AccountsInScope, Stats!Cells

\* The day that stands for an account is the day of one of its rows.
LEMMA LatestIsListed ==
    ASSUME Days \subseteq Int, NEW s \in Stats!Scopes, NEW a \in Stats!WithData(s)
    PROVE  \E e \in Stats!Listed(s) : e[1] = a /\ e[2] = Stats!Latest(s, a)
<1> DEFINE T == {e[2] : e \in {r \in Stats!Relevant(s) : r[1] = a}}
<1>1. s.from \in Int /\ s.to \in Int BY DEF Stats!Scopes
<1>2. T \in SUBSET (s.from .. s.to) BY TotalsAreJudged DEF Stats!Listed
<1>3. T # {} BY DEF Stats!WithData
<1>4. IsFiniteSet(s.from .. s.to) BY <1>1, FS_Interval
<1>5. s.from .. s.to \subseteq Int OBVIOUS
<1> HIDE DEF T
<1>6. \E x \in T : \A y \in T : x >= y BY <1>2, <1>3, <1>4, <1>5, LastOfSome
<1>7. Stats!Max(T) \in T BY <1>6 DEF Stats!Max
<1>8. Stats!Max(T) = Stats!Latest(s, a) BY DEF Stats!Latest, T
<1>9. QED BY <1>7, <1>8, TotalsAreJudged DEF T

\* What a report says of its data is said of the very rows it totals, in every state and
\* for every scope.  (ad_stats.py, aggregate; _data_quality)
THEOREM QualityIsOfTotals ==
    ASSUME Days \subseteq Int, StatsStaleAfter \in Int
    PROVE  Stats!Spec => []Stats!QualityJudgesTotals
<1>1. Stats!QualityJudgesTotals
  <2> SUFFICES ASSUME NEW s \in Stats!Scopes
               PROVE  /\ Stats!Cardinality(Stats!Relevant(s)) = Stats!Cardinality(Stats!Listed(s))
                      /\ Stats!Quality(s) = "fresh" =>
                          \A a \in Accounts :
                            Stats!Selects(s, a) /\ (Stats!Historical(s) \/ Stats!Operative(a))
                                /\ a \notin Stats!Contested =>
                                \E e \in Stats!Listed(s) : e[1] = a
                                    /\ s.asOf - e[2] <= StatsStaleAfter
    BY DEF Stats!QualityJudgesTotals, Stats!Reported
  <2>1. Stats!Cardinality(Stats!Relevant(s)) = Stats!Cardinality(Stats!Listed(s)) BY TotalsAreJudged
  <2>2. ASSUME Stats!Quality(s) = "fresh", NEW a \in Accounts, Stats!Selects(s, a),
               Stats!Historical(s) \/ Stats!Operative(a), a \notin Stats!Contested
        PROVE  \E e \in Stats!Listed(s) : e[1] = a /\ s.asOf - e[2] <= StatsStaleAfter
    <3>1. a \in Stats!AccountsInScope(s) BY <2>2 DEF Stats!AccountsInScope
    <3>2. Stats!WithData(s) = Stats!AccountsInScope(s) /\ Stats!Stale(s) = {}
      BY <2>2 DEF Stats!Quality
    <3>3. ~(s.asOf - Stats!Latest(s, a) > StatsStaleAfter) BY <3>1, <3>2 DEF Stats!Stale
    <3>4. PICK e \in Stats!Listed(s) : e[1] = a /\ e[2] = Stats!Latest(s, a)
      BY <3>1, <3>2, LatestIsListed
    <3>5. s.asOf \in Int /\ e[2] \in Int BY <3>4 DEF Stats!Scopes, Stats!Listed, Stats!Cells
    <3>6. QED BY <3>3, <3>4, <3>5
  <2>3. QED BY <2>1, <2>2
<1>2. QED BY <1>1, PTL

-----------------------------------------------------------------------------
(* Who may change the budget at Meta *)

Proofs ==
    [role: Gate!Roles, rank: Gate!Ranks \cup {"none"}, capability: BOOLEAN, grant: 1 .. MaxGrant]

\* A request before its execution began, and after.
Early == [stage: {"previewed", "confirmed"}, field: Gate!Fields, proof: Proofs]

Late ==
    [stage: {"gate", "posted"}, field: Gate!Fields, proof: Proofs, token: 1 .. MaxGrant,
     todo: Seq(SUBSET Gate!Facts), saw: SUBSET Gate!Facts, rank: Gate!Ranks, cred: Gate!Credential,
     gone: SUBSET Gate!Shaky]

GateTyped ==
    /\ held \subseteq Gate!Facts
    /\ role \in Gate!Roles /\ rank \in Gate!Ranks /\ boundCred \in Gate!Credential
    /\ request # Idle => request \in Early \cup Late

\* The read of the gate at which a fact is looked up; the role comes with the user,
\* the rank with the agency, the credential with the binding.
Place(f) ==
    CASE f = "feature" -> 1
      [] f = "rollout" -> 2
      [] f = "session" -> 3
      [] f \in {"user", "role"} -> 4
      [] f = "access" -> 5
      [] f \in {"account", "assigned"} -> 6
      [] f = "client" -> 7
      [] f = "uncontested" -> 8
      [] f \in {"bound", "cred"} -> 9
      [] f = "adminwrites" -> 10
      [] f \in {"agency", "rank"} -> 11
      [] f = "served" -> 12
      [] f = "spendcap" -> 13

Rest(n) == SubSeq(Gate!Reads, n + 1, 13)

\* What the request remembers of a fact that was missing when it was read, so that the
\* checks before the POST will refuse.
Noticed(f) ==
    CASE f = "rank" -> request.rank # request.proof.rank
      [] f = "cred" -> request.cred.grant # request.proof.grant
      [] f = "role" -> FALSE
      [] OTHER      -> f \notin Gate!Refusing /\ f \notin request.saw

\* After n of the reads.
Watched(n) ==
    /\ request.todo = Rest(n)
    /\ \A f \in request.saw : Place(f) <= n
    /\ \A f \in request.gone : Place(f) <= n => Noticed(f)

AtGate == request # Idle /\ request.stage = "gate"

-----------------------------------------------------------------------------
LEMMA ReadsTyped ==
    Gate!Reads \in Seq(SUBSET Gate!Facts) /\ Len(Gate!Reads) = 13
        /\ \A i \in 1 .. 13 : Gate!Reads[i] \in SUBSET Gate!Facts
<1>1. Gate!Reads \in Seq(SUBSET Gate!Facts) /\ Len(Gate!Reads) = 13 BY DEF Gate!Reads, Gate!Facts
<1>2. \A i \in 1 .. Len(Gate!Reads) : Gate!Reads[i] \in SUBSET Gate!Facts BY <1>1, ElementOfSeq
<1>3. QED BY <1>1, <1>2

LEMMA RestTyped == \A n \in 0 .. 13 : Rest(n) \in Seq(SUBSET Gate!Facts)
<1>1. ASSUME NEW n \in 0 .. 13 PROVE Rest(n) \in Seq(SUBSET Gate!Facts)
  <2>1. \A i \in n + 1 .. 13 : Gate!Reads[i] \in SUBSET Gate!Facts
    <3>1. \A i \in n + 1 .. 13 : i \in 1 .. 13 OBVIOUS
    <3>2. QED BY <3>1, ReadsTyped
  <2>2. QED BY <2>1, SubSeqProperties DEF Rest
<1>2. QED BY <1>1

\* The gate reads one row after the other.
LEMMA RestStep ==
    ASSUME NEW n \in 0 .. 13
    PROVE  /\ Rest(n) # <<>> => n < 13
           /\ n < 13 => Head(Rest(n)) = Gate!Reads[n + 1] /\ Tail(Rest(n)) = Rest(n + 1)
           /\ Rest(13) = <<>>
           /\ Rest(n) = <<>> => n = 13
           /\ Rest(0) = Gate!Reads
<1>1. Rest(13) = <<>> BY SubSeqEmpty DEF Rest
<1>2. ASSUME n < 13 PROVE Head(Rest(n)) = Gate!Reads[n + 1] /\ Tail(Rest(n)) = Rest(n + 1)
  <2>1. n + 1 \in 1 .. Len(Gate!Reads) /\ 13 \in n + 1 .. Len(Gate!Reads) BY <1>2, ReadsTyped
  <2>2. Head(SubSeq(Gate!Reads, n + 1, 13)) = Gate!Reads[n + 1]
        /\ Tail(SubSeq(Gate!Reads, n + 1, 13)) = SubSeq(Gate!Reads, n + 1 + 1, 13)
    BY <2>1, ReadsTyped, HeadTailOfSubSeq
  <2>3. QED BY <2>2 DEF Rest
<1>3. Rest(n) = <<>> => n = 13
  <2>1. \A i \in n + 1 .. 13 : Gate!Reads[i] \in SUBSET Gate!Facts
    <3>1. \A i \in n + 1 .. 13 : i \in 1 .. 13 OBVIOUS
    <3>2. QED BY <3>1, ReadsTyped
  <2>2. Len(Rest(n)) = IF n + 1 <= 13 THEN 13 - (n + 1) + 1 ELSE 0
    BY <2>1, SubSeqProperties DEF Rest
  <2>3. Rest(n) = <<>> => Len(Rest(n)) = 0 OBVIOUS
  <2>4. QED BY <2>2, <2>3
<1>4. Rest(0) = Gate!Reads
  <2>1. SubSeq(Gate!Reads, 1, 13) = Gate!Reads BY ReadsTyped, SubSeqFull
  <2>2. QED BY <2>1 DEF Rest
<1>5. QED BY <1>1, <1>2, <1>3, <1>4

\* Each fact has its one row.
LEMMA RowOfFact ==
    ASSUME NEW f \in Gate!Facts, NEW n \in 1 .. 13
    PROVE  f \in Gate!Reads[n] <=> Place(f) = n
<1>1. n \in {1, 2, 3, 4, 5, 6, 7, 8, 9, 10, 11, 12, 13} OBVIOUS
<1>2. QED BY <1>1 DEF Gate!Reads, Place, Gate!Facts

LEMMA PlaceRange ==
    ASSUME NEW f \in Gate!Shaky
    PROVE  Place(f) \in 1 .. 13
BY DEF Place, Gate!Shaky, Gate!Facts

-----------------------------------------------------------------------------
LEMMA ProofTyped ==
    ASSUME NEW H, NEW r \in Gate!Roles, NEW k \in Gate!Ranks, NEW c \in Gate!Credential
    PROVE  Gate!Proof(H, r, k, c) \in Proofs
BY DEF Gate!Proof, Proofs, Gate!Capability, Gate!Credential

LEMMA TypedAtFirst == ASSUME MaxGrant \in Nat \ {0} PROVE Gate!Init => GateTyped
BY DEF Gate!Init, GateTyped, Gate!Facts, Gate!Ranks, Gate!Credential

LEMMA TypedKept == GateTyped /\ [Gate!Next]_(Gate!gateVars) => GateTyped'
<1> SUFFICES ASSUME GateTyped, [Gate!Next]_(Gate!gateVars) PROVE GateTyped'
    OBVIOUS
<1>. USE DEF GateTyped
<1>1. ASSUME NEW field \in Gate!Fields, Gate!Preview(field) PROVE GateTyped'
  <2>1. Gate!Proof(held, role, rank, boundCred) \in Proofs BY ProofTyped
  <2>2. request' \in Early BY <1>1, <2>1 DEF Gate!Preview, Early
  <2>3. QED BY <1>1, <2>2 DEF Gate!Preview
<1>2. ASSUME Gate!Confirm PROVE GateTyped'
  <2>1. request' \in Early BY <1>2 DEF Gate!Confirm, Early, Late
  <2>2. QED BY <1>2, <2>1 DEF Gate!Confirm
<1>3. ASSUME Gate!Abandon PROVE GateTyped'
  BY <1>3 DEF Gate!Abandon
<1>4. ASSUME Gate!Execute PROVE GateTyped'
  <2>1. request \in Early BY <1>4 DEF Gate!Execute, Early, Late
  <2>2. boundCred.grant \in 1 .. MaxGrant BY DEF Gate!Credential
  <2>3. Gate!Lacking(held, role, rank, boundCred) \in SUBSET Gate!Shaky
    BY DEF Gate!Lacking, Gate!Needed, Gate!Shaky, Gate!Facts, Gate!Switched
  <2>4. Gate!Reads \in Seq(SUBSET Gate!Facts) BY ReadsTyped
  <2>5. request' \in Late BY <1>4, <2>1, <2>2, <2>3, <2>4 DEF Gate!Execute, Early, Late
  <2>6. QED BY <1>4, <2>5 DEF Gate!Execute
<1>5. ASSUME Gate!ReadNext PROVE GateTyped'
  <2>1. request \in Late /\ request.todo \in Seq(SUBSET Gate!Facts) /\ request.todo # <<>>
    BY <1>5 DEF Gate!ReadNext, Early, Late
  <2>2. Head(request.todo) \in SUBSET Gate!Facts /\ Tail(request.todo) \in Seq(SUBSET Gate!Facts)
    BY <2>1, HeadTailProperties
  <2>3. CASE request' = Idle
    BY <2>3, <1>5 DEF Gate!ReadNext
  <2>4. CASE request' # Idle
    <3>1. request' = [request EXCEPT
                        !.todo = Tail(@),
                        !.saw  = @ \cup (Head(request.todo) \cap held),
                        !.rank = IF "agency" \in Head(request.todo) THEN rank ELSE @,
                        !.cred = IF "bound" \in Head(request.todo) THEN boundCred ELSE @]
      BY <1>5, <2>4 DEF Gate!ReadNext
    <3>2. request' \in Late BY <3>1, <2>1, <2>2 DEF Late
    <3>3. QED BY <1>5, <3>2 DEF Gate!ReadNext
  <2>5. QED BY <2>3, <2>4
<1>6. ASSUME Gate!Post PROVE GateTyped'
  <2>1. request \in Late BY <1>6 DEF Gate!Post, Early, Late
  <2>2. [request EXCEPT !.stage = "posted"] \in Late BY <2>1 DEF Late
  <2>3. request' = Idle \/ request' = [request EXCEPT !.stage = "posted"] BY <1>6 DEF Gate!Post
  <2>4. QED BY <1>6, <2>2, <2>3 DEF Gate!Post
<1>7. ASSUME NEW H, NEW r, NEW k, NEW c, Gate!Watching(H, r, k, c)
      PROVE  request' # Idle => request' \in Early \cup Late
  BY <1>7 DEF Gate!Watching, Early, Late
<1>8. ASSUME NEW f \in Gate!Facts, Gate!Switch(f) PROVE GateTyped'
  BY <1>8, <1>7 DEF Gate!Switch
<1>9. ASSUME NEW r \in Gate!Roles, Gate!ChangeRole(r) PROVE GateTyped'
  BY <1>9, <1>7 DEF Gate!ChangeRole
<1>10. ASSUME NEW k \in Gate!Ranks, Gate!ChangeRank(k) PROVE GateTyped'
  BY <1>10, <1>7 DEF Gate!ChangeRank
<1>11. ASSUME NEW c \in Gate!Credential, Gate!Rebind(c) PROVE GateTyped'
  BY <1>11, <1>7 DEF Gate!Rebind
<1>12. ASSUME UNCHANGED Gate!gateVars PROVE GateTyped'
  BY <1>12 DEF Gate!gateVars
<1>13. QED
  BY <1>1, <1>2, <1>3, <1>4, <1>5, <1>6, <1>8, <1>9, <1>10, <1>11, <1>12 DEF Gate!Next

-----------------------------------------------------------------------------
LEMMA NeededFacts == GateTyped /\ request # Idle => Gate!Needed \subseteq Gate!Shaky
BY DEF GateTyped, Gate!Needed, Gate!Shaky, Gate!Facts, Gate!Switched, Early, Late

LEMMA AtGateIsLate ==
    ASSUME GateTyped, request # Idle, request.stage \in {"gate", "posted"}
    PROVE  request \in Late
BY DEF GateTyped, Early, Late

\* What the gate has found and what is lacking now.
GateWatch ==
    /\ AtGate => request.gone \subseteq Gate!Lacking(held, role, rank, boundCred)
    /\ AtGate => \E n \in 0 .. 13 : Watched(n)

\* When others change something, what was lacking and is not any more leaves gone.
LEMMA WatchingKeeps ==
    ASSUME GateTyped, GateWatch, Gate!Watching(held', role', rank', boundCred')
    PROVE  GateWatch'
<1>1. CASE AtGate
  <2>1. request \in Late BY <1>1, AtGateIsLate DEF AtGate
  <2> DEFINE new == [request EXCEPT !.gone = @ \cap Gate!Lacking(held', role', rank', boundCred')]
  <2>2. request' = new BY <1>1 DEF Gate!Watching, AtGate
  <2>3. new \in Late BY <2>1 DEF Late
  <2>4. /\ request'.field = request.field /\ request'.proof = request.proof
        /\ request'.todo = request.todo /\ request'.saw = request.saw
        /\ request'.rank = request.rank /\ request'.cred = request.cred
        /\ request'.gone = request.gone \cap Gate!Lacking(held', role', rank', boundCred')
    BY <2>1, <2>2 DEF Late
  <2>5. Gate!Needed' = Gate!Needed BY <2>4 DEF Gate!Needed
  <2>6. Gate!Lacking(held, role, rank, boundCred)' = Gate!Lacking(held', role', rank', boundCred')
    BY <2>4, <2>5 DEF Gate!Lacking
  <2>7. request'.gone \subseteq Gate!Lacking(held, role, rank, boundCred)' BY <2>4, <2>6
  <2>8. PICK n \in 0 .. 13 : Watched(n) BY <1>1 DEF GateWatch
  <2>9. \A f : Noticed(f) => Noticed(f)' BY <2>4 DEF Noticed
  <2>10. Watched(n)' BY <2>4, <2>8, <2>9 DEF Watched
  <2>11. QED BY <2>7, <2>10 DEF GateWatch
<1>2. CASE ~AtGate
  <2>1. ~AtGate' BY <1>2 DEF AtGate, Gate!Watching
  <2>2. QED BY <2>1 DEF GateWatch
<1>3. QED BY <1>1, <1>2

\* One read more: a fact that was lacking all the time is noticed where it is read, or
\* the attempt ends there.
LEMMA ReadingNotices ==
    ASSUME GateTyped, GateWatch, Gate!ReadNext
    PROVE  GateWatch'
<1>1. CASE request' = Idle
  BY <1>1 DEF GateWatch, AtGate
<1>2. CASE request' # Idle
  <2>1. AtGate /\ request.todo # <<>> BY DEF Gate!ReadNext, AtGate
  <2>2. request \in Late BY <2>1, AtGateIsLate DEF AtGate
  <2>3. PICK n \in 0 .. 13 : Watched(n) BY <2>1 DEF GateWatch
  <2>4. request.todo = Rest(n) /\ n < 13 /\ Head(request.todo) = Gate!Reads[n + 1]
        /\ Tail(request.todo) = Rest(n + 1)
    BY <2>1, <2>3, RestStep DEF Watched
  <2> DEFINE row == Gate!Reads[n + 1]
  <2>5. /\ row \cap Gate!Refusing \subseteq held
        /\ "user" \in row => role = request.proof.role
        /\ request' = [request EXCEPT
                        !.todo = Tail(@),
                        !.saw  = @ \cup (row \cap held),
                        !.rank = IF "agency" \in row THEN rank ELSE @,
                        !.cred = IF "bound" \in row THEN boundCred ELSE @]
    BY <1>2, <2>4 DEF Gate!ReadNext
  <2>6. /\ request'.field = request.field /\ request'.proof = request.proof
        /\ request'.todo = Rest(n + 1) /\ request'.saw = request.saw \cup (row \cap held)
        /\ request'.rank = IF "agency" \in row THEN rank ELSE request.rank
        /\ request'.cred = IF "bound" \in row THEN boundCred ELSE request.cred
        /\ request'.gone = request.gone
    BY <2>2, <2>4, <2>5 DEF Late
  <2>7. UNCHANGED <<held, role, rank, boundCred>> BY DEF Gate!ReadNext
  <2>8. Gate!Needed' = Gate!Needed BY <2>6 DEF Gate!Needed
  <2>9. Gate!Lacking(held, role, rank, boundCred)' = Gate!Lacking(held, role, rank, boundCred)
    BY <2>6, <2>7, <2>8 DEF Gate!Lacking
  <2>10. request.gone \subseteq Gate!Lacking(held, role, rank, boundCred) BY <2>1 DEF GateWatch
  <2>11. request.gone \subseteq Gate!Shaky /\ request.saw \subseteq Gate!Facts BY <2>2 DEF Late
  <2>12. \A f \in Gate!Facts : f \in row <=> Place(f) = n + 1 BY <2>4, RowOfFact
  <2>13. n \in Int /\ n + 1 \in 0 .. 13 BY <2>4
  <2>14. \A f \in Gate!Shaky : Place(f) \in Int BY PlaceRange
  <2>15. \A f \in request'.saw : Place(f) <= n + 1
    <3> SUFFICES ASSUME NEW f \in request'.saw PROVE Place(f) <= n + 1
        OBVIOUS
    <3>1. f \in Gate!Facts /\ (f \in request.saw \/ f \in row)
      BY <2>6, <2>11, <2>12, RowOfFact, ReadsTyped, <2>4
    <3>2. Place(f) \in Int BY <3>1, <2>14 DEF Gate!Shaky
    <3>3. QED BY <3>1, <3>2, <2>3, <2>12, <2>13 DEF Watched
  <2>16. ASSUME NEW f \in request.gone, Place(f) <= n + 1 PROVE Noticed(f)'
    <3>1. f \in Gate!Lacking(held, role, rank, boundCred) /\ f \in Gate!Shaky BY <2>10, <2>11
    <3>2. CASE Place(f) <= n
      <4>1. Noticed(f) BY <2>3, <3>2 DEF Watched
      <4>2. ~(Place(f) = n + 1) BY <3>2, <3>1, <2>14, <2>13
      <4>3. CASE f = "rank"
        <5>1. Place("agency") = Place("rank") BY DEF Place
        <5>2. "agency" \notin row BY <4>2, <4>3, <5>1, <2>12 DEF Gate!Facts
        <5>3. QED BY <4>1, <4>3, <5>2, <2>6 DEF Noticed
      <4>4. CASE f = "cred"
        <5>1. Place("bound") = Place("cred") BY DEF Place
        <5>2. "bound" \notin row BY <4>2, <4>4, <5>1, <2>12 DEF Gate!Facts
        <5>3. QED BY <4>1, <4>4, <5>2, <2>6 DEF Noticed
      <4>5. CASE f \notin {"rank", "cred"}
        <5>1. f # "role" /\ f \notin Gate!Refusing /\ f \notin request.saw BY <4>1, <4>5 DEF Noticed
        <5>2. f \in Gate!Facts BY <3>1, <4>5, <5>1 DEF Gate!Shaky
        <5>3. f \notin row BY <5>2, <4>2, <2>12
        <5>4. QED BY <5>1, <5>3, <4>5, <2>6 DEF Noticed
      <4>6. QED BY <4>3, <4>4, <4>5
    <3>3. CASE Place(f) = n + 1
      <4>1. CASE f = "rank"
        <5>1. Place("agency") = Place("rank") BY DEF Place
        <5>2. "agency" \in row BY <3>3, <4>1, <5>1, <2>12 DEF Gate!Facts
        <5>3. rank # request.proof.rank BY <3>1, <4>1 DEF Gate!Lacking
        <5>4. QED BY <4>1, <5>2, <5>3, <2>6 DEF Noticed
      <4>2. CASE f = "cred"
        <5>1. Place("bound") = Place("cred") BY DEF Place
        <5>2. "bound" \in row BY <3>3, <4>2, <5>1, <2>12 DEF Gate!Facts
        <5>3. boundCred.grant # request.proof.grant BY <3>1, <4>2 DEF Gate!Lacking
        <5>4. QED BY <4>2, <5>2, <5>3, <2>6 DEF Noticed
      <4>3. CASE f = "role"
        <5>1. Place("user") = Place("role") BY DEF Place
        <5>2. "user" \in row BY <3>3, <4>3, <5>1, <2>12 DEF Gate!Facts
        <5>3. role # request.proof.role BY <3>1, <4>3 DEF Gate!Lacking
        <5>4. QED BY <5>2, <5>3, <2>5
      <4>4. CASE f \notin {"rank", "cred", "role"}
        <5>1. f \in Gate!Facts BY <3>1, <4>4 DEF Gate!Shaky
        <5>2. f \in row BY <5>1, <3>3, <2>12
        <5>3. f \notin held BY <3>1, <4>4 DEF Gate!Lacking
        <5>4. f \notin Gate!Refusing BY <5>2, <5>3, <2>5
        <5>5. f \notin request.saw
          <6>1. f \in request.saw => Place(f) <= n BY <2>3 DEF Watched
          <6>2. QED BY <6>1, <3>3, <2>13
        <5>6. QED BY <4>4, <5>3, <5>4, <5>5, <2>6 DEF Noticed
      <4>5. QED BY <4>1, <4>2, <4>3, <4>4
    <3>4. QED BY <3>2, <3>3, <2>16, <3>1, <2>14, <2>13
  <2>17. Watched(n + 1)' BY <2>6, <2>15, <2>16 DEF Watched
  <2>18. QED BY <2>6, <2>9, <2>10, <2>13, <2>17 DEF GateWatch
<1>3. QED BY <1>1, <1>2

LEMMA ExecutionBeginsGate ==
    ASSUME GateTyped, Gate!Execute
    PROVE  GateWatch'
<1>1. request \in Early BY DEF Gate!Execute, GateTyped, Early, Late
<1>2. /\ request'.field = request.field /\ request'.proof = request.proof
      /\ request'.todo = Rest(0) /\ request'.saw = {}
      /\ request'.gone = Gate!Lacking(held, role, rank, boundCred)
  <2>1. Rest(0) = Gate!Reads BY RestStep
  <2>2. QED BY <2>1 DEF Gate!Execute
<1>3. UNCHANGED <<held, role, rank, boundCred>> BY DEF Gate!Execute
<1>4. Gate!Needed' = Gate!Needed BY <1>2 DEF Gate!Needed
<1>5. Gate!Lacking(held, role, rank, boundCred)' = Gate!Lacking(held, role, rank, boundCred)
  BY <1>2, <1>3, <1>4 DEF Gate!Lacking
<1>6. Gate!Lacking(held, role, rank, boundCred) \subseteq Gate!Shaky
  BY NeededFacts DEF Gate!Lacking, Gate!Execute
<1>7. \A f \in request'.gone : ~(Place(f) <= 0) BY <1>2, <1>6, PlaceRange
<1>8. Watched(0)' BY <1>2, <1>7 DEF Watched
<1>9. QED BY <1>2, <1>5, <1>8 DEF GateWatch

LEMMA GateWatchKept == GateTyped /\ GateWatch /\ [Gate!Next]_(Gate!gateVars) => GateWatch'
<1> SUFFICES ASSUME GateTyped, GateWatch, [Gate!Next]_(Gate!gateVars) PROVE GateWatch'
    OBVIOUS
<1>1. CASE Gate!Execute
  BY <1>1, ExecutionBeginsGate
<1>2. CASE Gate!ReadNext
  BY <1>2, ReadingNotices
<1>3. ASSUME NEW field \in Gate!Fields, Gate!Preview(field) PROVE GateWatch'
  BY <1>3 DEF Gate!Preview, GateWatch, AtGate
<1>4. CASE Gate!Confirm
  <2>1. request' = Idle \/ request'.stage = "confirmed"
    BY <1>4 DEF Gate!Confirm, GateTyped, Early, Late
  <2>2. QED BY <2>1 DEF GateWatch, AtGate
<1>5. CASE Gate!Abandon
  BY <1>5 DEF Gate!Abandon, GateWatch, AtGate
<1>6. CASE Gate!Post
  <2>1. request \in Late BY <1>6, AtGateIsLate DEF Gate!Post
  <2>2. request' = Idle \/ request'.stage = "posted" BY <1>6, <2>1 DEF Gate!Post, Late
  <2>3. QED BY <2>2 DEF GateWatch, AtGate
<1>7. ASSUME NEW f \in Gate!Facts, Gate!Switch(f) PROVE GateWatch'
  <2>1. Gate!Watching(held', role', rank', boundCred') BY <1>7 DEF Gate!Switch
  <2>2. QED BY <2>1, WatchingKeeps
<1>8. ASSUME NEW r \in Gate!Roles, Gate!ChangeRole(r) PROVE GateWatch'
  <2>1. Gate!Watching(held', role', rank', boundCred') BY <1>8 DEF Gate!ChangeRole
  <2>2. QED BY <2>1, WatchingKeeps
<1>9. ASSUME NEW k \in Gate!Ranks, Gate!ChangeRank(k) PROVE GateWatch'
  <2>1. Gate!Watching(held', role', rank', boundCred') BY <1>9 DEF Gate!ChangeRank
  <2>2. QED BY <2>1, WatchingKeeps
<1>10. ASSUME NEW c \in Gate!Credential, Gate!Rebind(c) PROVE GateWatch'
  <2>1. Gate!Watching(held', role', rank', boundCred') BY <1>10 DEF Gate!Rebind
  <2>2. QED BY <2>1, WatchingKeeps
<1>11. CASE UNCHANGED Gate!gateVars
  <2>1. UNCHANGED <<held, role, rank, boundCred, request>> BY <1>11 DEF Gate!gateVars
  <2>2. Gate!Lacking(held, role, rank, boundCred)' = Gate!Lacking(held, role, rank, boundCred)
    BY <2>1 DEF Gate!Lacking, Gate!Needed
  <2>3. \A n : Watched(n) => Watched(n)' BY <2>1 DEF Watched, Noticed
  <2>4. QED BY <2>1, <2>2, <2>3 DEF GateWatch, AtGate
<1>12. QED
  BY <1>1, <1>2, <1>3, <1>4, <1>5, <1>6, <1>7, <1>8, <1>9, <1>10, <1>11 DEF Gate!Next

-----------------------------------------------------------------------------
\* The checks before the POST refuse whatever was noticed: nothing that is lacking and
\* noticed is among what the request needs.
LEMMA ChecksNeedAll ==
    ASSUME GateTyped, GateWatch, AtGate, request.todo = <<>>,
           request.field = "spend_cap" => "spendcap" \in request.saw,
           Gate!MayWrite(request.saw, request.proof.role, request.rank, request.cred,
               request.field),
           Gate!SameProof(request.proof,
                          Gate!Proof(request.saw, request.proof.role, request.rank, request.cred))
    PROVE  request.gone = {}
<1>1. request \in Late BY AtGateIsLate DEF AtGate
<1>2. PICK n \in 0 .. 13 : Watched(n) BY DEF GateWatch
<1>3. n = 13 BY <1>2, RestStep DEF Watched
<1>4. request.gone \subseteq Gate!Needed BY DEF GateWatch, Gate!Lacking
<1>5. request.gone \subseteq Gate!Shaky BY <1>1 DEF Late
<1>6. \A f \in request.gone : Noticed(f)
  BY <1>2, <1>3, <1>5, PlaceRange DEF Watched
<1> DEFINE r == request.proof.role
<1>7. r \in Gate!Roles /\ request.field \in Gate!Fields BY <1>1 DEF Late, Proofs
<1>8. request.proof = [role |-> r, rank |-> IF r = "agency" THEN request.rank ELSE "none",
                       capability |-> Gate!Capability(request.saw, r, request.rank),
                       grant |-> request.cred.grant]
  BY DEF Gate!SameProof, Gate!Proof
<1>9. ~Noticed("cred")
  BY <1>8 DEF Noticed
<1>10. r = "agency" => ~Noticed("rank")
  BY <1>8 DEF Noticed
<1>11. ~Noticed("role") BY DEF Noticed
<1>12. \A f \in Gate!Refusing : ~Noticed(f)
  BY DEF Noticed, Gate!Refusing
<1>13. \A f \in request.saw : f \in Gate!Facts => ~Noticed(f)
  BY DEF Noticed, Gate!Facts
<1>14. "assigned" \in request.saw BY DEF Gate!MayWrite
<1>15. r # "admin" => "access" \in request.saw BY DEF Gate!MayWrite
<1>16. r = "admin" => "adminwrites" \in request.saw BY <1>7 DEF Gate!MayWrite, Gate!Roles
<1>17. r = "agency" => {"agency", "served"} \subseteq request.saw
  BY <1>7 DEF Gate!MayWrite, Gate!Roles
<1>18. ASSUME NEW f \in request.gone PROVE FALSE
  <2>1. f \in Gate!Needed /\ Noticed(f) BY <1>4, <1>6, <1>18
  <2>2. f \notin Gate!Refusing \cup {"role", "cred"} BY <2>1, <1>9, <1>11, <1>12
  <2>3. f \in {"assigned", "spendcap", "adminwrites", "access", "agency", "served", "rank"}
        /\ (f = "spendcap" => request.field = "spend_cap")
        /\ (f = "adminwrites" => r = "admin")
        /\ (f = "access" => r # "admin")
        /\ (f \in {"agency", "served", "rank"} => r = "agency")
    BY <2>1, <2>2, <1>7 DEF Gate!Needed, Gate!Refusing, Gate!Switched, Gate!Roles
  <2>4. f \in request.saw \/ (f = "rank" /\ r = "agency")
    BY <2>3, <1>14, <1>15, <1>16, <1>17
  <2>5. f \in Gate!Facts \/ (f = "rank" /\ r = "agency")
    BY <2>3 DEF Gate!Facts
  <2>6. QED BY <2>1, <2>4, <2>5, <1>10, <1>13
<1>19. QED BY <1>18

\* What holds of a request from its execution on.
GateKept ==
    /\ request # Idle /\ request.stage \in {"gate", "posted"} => request.token = request.proof.grant
    /\ Gate!PostedAsPreviewed
    /\ Gate!WithdrawnInTimeStops

LEMMA KeptAtPost ==
    ASSUME GateTyped, GateWatch, GateKept, Gate!Post
    PROVE  GateKept'
<1>1. CASE request' = Idle
  BY <1>1 DEF GateKept, Gate!Posted, Gate!PostedAsPreviewed, Gate!WithdrawnInTimeStops
<1>2. CASE request' # Idle
  <2>1. request \in Late /\ AtGate /\ request.todo = <<>> BY AtGateIsLate DEF Gate!Post, AtGate
  <2>2. /\ request' = [request EXCEPT !.stage = "posted"]
        /\ request.field = "spend_cap" => "spendcap" \in request.saw
        /\ Gate!MayWrite(request.saw, request.proof.role, request.rank, request.cred, request.field)
        /\ Gate!SameProof(request.proof,
                          Gate!Proof(request.saw, request.proof.role, request.rank, request.cred))
    BY <1>2 DEF Gate!Post
  <2>3. request.gone = {} BY <2>1, <2>2, ChecksNeedAll
  <2>4. request.proof.role = "agency" => request.proof.rank = request.rank
    BY <2>2 DEF Gate!SameProof, Gate!Proof
  <2>5. request.token = request.proof.grant BY <2>1 DEF GateKept, AtGate
  <2>6. /\ request'.token = request.token /\ request'.proof = request.proof
        /\ request'.rank = request.rank /\ request'.gone = request.gone
    BY <2>1, <2>2 DEF Late
  <2>7. QED
    BY <2>3, <2>4, <2>5, <2>6 DEF GateKept, Gate!PostedAsPreviewed, Gate!WithdrawnInTimeStops
<1>3. QED BY <1>1, <1>2

LEMMA KeptOtherwise ==
    ASSUME GateTyped, GateKept, [Gate!Next]_(Gate!gateVars), ~Gate!Post
    PROVE  GateKept'
<1>1. ASSUME NEW field \in Gate!Fields, Gate!Preview(field) PROVE GateKept'
  BY <1>1 DEF Gate!Preview, GateKept, Gate!Posted, Gate!PostedAsPreviewed, Gate!WithdrawnInTimeStops
<1>2. CASE Gate!Confirm
  <2>1. request' = Idle \/ request'.stage = "confirmed"
    BY <1>2 DEF Gate!Confirm, GateTyped, Early, Late
  <2>2. QED BY <2>1 DEF GateKept, Gate!Posted, Gate!PostedAsPreviewed, Gate!WithdrawnInTimeStops
<1>3. CASE Gate!Abandon
  BY <1>3 DEF Gate!Abandon, GateKept, Gate!Posted, Gate!PostedAsPreviewed, Gate!WithdrawnInTimeStops
<1>4. CASE Gate!Execute
  <2>1. request'.stage = "gate" /\ request'.token = request'.proof.grant
    BY <1>4 DEF Gate!Execute, Gate!SameProof, Gate!Proof
  <2>2. QED BY <2>1 DEF GateKept, Gate!Posted, Gate!PostedAsPreviewed, Gate!WithdrawnInTimeStops
<1>5. CASE Gate!ReadNext
  <2>1. request \in Late BY <1>5, AtGateIsLate DEF Gate!ReadNext
  <2>2. request' = Idle \/ (request'.stage = "gate" /\ request'.token = request.token
                            /\ request'.proof = request.proof)
    BY <1>5, <2>1 DEF Gate!ReadNext, Late
  <2>3. QED
    BY <2>2, <1>5
    DEF Gate!ReadNext, GateKept, Gate!Posted, Gate!PostedAsPreviewed, Gate!WithdrawnInTimeStops
<1>6. ASSUME NEW H, NEW r, NEW k, NEW c, Gate!Watching(H, r, k, c) PROVE GateKept'
  <2>1. CASE AtGate
    <3>1. request \in Late BY <2>1, AtGateIsLate DEF AtGate
    <3>2. request' # Idle => request'.stage = "gate" /\ request'.token = request.token
                             /\ request'.proof = request.proof
      BY <1>6, <2>1, <3>1 DEF Gate!Watching, AtGate, Late
    <3>3. QED
      BY <2>1, <3>2
      DEF AtGate, GateKept, Gate!Posted, Gate!PostedAsPreviewed, Gate!WithdrawnInTimeStops
  <2>2. CASE ~AtGate
    <3>1. UNCHANGED request BY <1>6, <2>2 DEF Gate!Watching, AtGate
    <3>2. QED BY <3>1 DEF GateKept, Gate!Posted, Gate!PostedAsPreviewed, Gate!WithdrawnInTimeStops
  <2>3. QED BY <2>1, <2>2
<1>7. ASSUME NEW f \in Gate!Facts, Gate!Switch(f) PROVE GateKept'
  BY <1>6, <1>7 DEF Gate!Switch
<1>8. ASSUME NEW r \in Gate!Roles, Gate!ChangeRole(r) PROVE GateKept'
  BY <1>6, <1>8 DEF Gate!ChangeRole
<1>9. ASSUME NEW k \in Gate!Ranks, Gate!ChangeRank(k) PROVE GateKept'
  BY <1>6, <1>9 DEF Gate!ChangeRank
<1>10. ASSUME NEW c \in Gate!Credential, Gate!Rebind(c) PROVE GateKept'
  BY <1>6, <1>10 DEF Gate!Rebind
<1>11. CASE UNCHANGED Gate!gateVars
  BY <1>11
  DEF Gate!gateVars, GateKept, Gate!Posted, Gate!PostedAsPreviewed, Gate!WithdrawnInTimeStops
<1>12. QED
  BY <1>1, <1>2, <1>3, <1>4, <1>5, <1>7, <1>8, <1>9, <1>10, <1>11 DEF Gate!Next

GateInv == GateTyped /\ GateWatch /\ GateKept

\* What the gate has read and found gone it remembers until the POST.
\* (_meta_budget_final_execution_authorization)
THEOREM GateInvariant == ASSUME MaxGrant \in Nat \ {0} PROVE Gate!Spec => []GateInv
<1>1. Gate!Init => GateInv
  BY TypedAtFirst
  DEF Gate!Init, GateInv, GateWatch, AtGate, GateKept, Gate!Posted, Gate!PostedAsPreviewed,
      Gate!WithdrawnInTimeStops
<1>2. GateInv /\ [Gate!Next]_(Gate!gateVars) => GateInv'
  BY TypedKept, GateWatchKept, KeptAtPost, KeptOtherwise DEF GateInv
<1>3. QED BY <1>1, <1>2, PTL DEF Gate!Spec

\* A right that is gone before the gate, and stays gone, stops the POST.
\* (_meta_budget_final_execution_authorization; execute)
THEOREM WithdrawalStops == ASSUME MaxGrant \in Nat \ {0}
PROVE  Gate!Spec => []Gate!WithdrawnInTimeStops
<1>1. GateInv => Gate!WithdrawnInTimeStops BY DEF GateInv, GateKept
<1>2. QED BY <1>1, GateInvariant, PTL

\* What is posted stands on the actor, tenant and credential of the preview.
\* (assert_budget_command_context_matches)
THEOREM PostsAsPreviewed == ASSUME MaxGrant \in Nat \ {0}
PROVE  Gate!Spec => []Gate!PostedAsPreviewed
<1>1. GateInv => Gate!PostedAsPreviewed BY DEF GateInv, GateKept
<1>2. QED BY <1>1, GateInvariant, PTL

LEMMA RecoveryByPolicy == Gate!RecoveryOutlivesSwitch
BY DEF Gate!RecoveryOutlivesSwitch, Gate!MayReconcile, Gate!MayWrite

\* Whatever is switched off, what was posted can be reconciled.
\* (authorize_budget_reconciliation)
THEOREM RecoveryOutlives == Gate!Spec => []Gate!RecoveryOutlivesSwitch
BY RecoveryByPolicy, PTL

\* A request carries what its stage needs.  (main.py, the three budget command routes)
THEOREM GateTypes ==
    ASSUME MaxGrant \in Nat \ {0}, Together \subseteq SUBSET Gate!Shaky
    PROVE  Gate!Spec => []Gate!TypeOK
<1>1. Gate!Init => shaky \subseteq Gate!Shaky BY DEF Gate!Init
<1>2. shaky \subseteq Gate!Shaky /\ [Gate!Next]_(Gate!gateVars) => (shaky \subseteq Gate!Shaky)'
  BY
  DEF Gate!Next, Gate!gateVars, Gate!Preview, Gate!Confirm, Gate!Abandon, Gate!Execute,
      Gate!ReadNext, Gate!Post, Gate!Switch, Gate!ChangeRole,
         Gate!ChangeRank, Gate!Rebind, Gate!Shaky, Gate!Facts
<1>3. GateInv /\ shaky \subseteq Gate!Shaky => Gate!TypeOK
  BY DEF GateInv, GateTyped, Gate!TypeOK, Early, Late
<1>4. QED BY <1>1, <1>2, <1>3, GateInvariant, PTL DEF Gate!Spec
=============================================================================

