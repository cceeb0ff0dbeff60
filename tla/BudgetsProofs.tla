---------------------------- MODULE BudgetsProofs ----------------------------
(***************************************************************************)
(* Theorems of Budgets, for any clients, accounts, budgets and periods:    *)
(* overlaps, owners, and sums of amounts, which are finite.                *)
(***************************************************************************)
EXTENDS MCBudgetCalls, FiniteSetTheorems, TLAPS

\* Rows of budgets are never deleted, so that the row a patch was checked
\* against is still there when it is merged.
PatchesExisting == \A h \in Handlers : Doing(h) = "patch" => Exists(local[h].id)

WellTyped == TypeOK /\ PatchesExisting

-----------------------------------------------------------------------------
(* Payloads and rows *)

\* A merged row has the type of a row.
LEMMA MergedType ==
    ASSUME NEW b \in Budget(Nat), NEW p \in BudgetPatches
    PROVE  Merged(b, p) \in Budget(Nat)
  <1>1. /\ p.client \in Clients \cup {Keep}
        /\ p.account \in Accounts \cup {NoAccount, Keep}
        /\ p.amount \in (0 .. MaxAmount) \cup {Keep}
        /\ p.period \in Periods \cup {Keep}
        /\ p.active \in BOOLEAN \cup {Keep}
    BY DEF BudgetPatches
  <1>2. p.amount # Keep => p.amount \in Nat
    BY <1>1, BoundAssumption
  <1> QED
    BY <1>1, <1>2 DEF Merged, Given, Budget

\* What a handler that is under way remembers.
LEMMA LocalType ==
    ASSUME TypeOK, NEW h \in Handlers
    PROVE  /\ Doing(h) = "create" => local[h].value \in NewBudgets
           /\ Doing(h) = "patch" =>
                local[h].id \in BudgetIds /\ local[h].patch \in BudgetPatches
           /\ Doing(h) = "account" =>
                local[h].account \in Accounts /\ local[h].patch \in AccountPatches
  <1>1. local[h] \in Local \cup {Idle}
    BY DEF TypeOK
  <1>2. CASE local[h] = Idle
    BY <1>2 DEF Doing
  <1>3. CASE local[h] \in [op: {"create"}, value: NewBudgets]
    BY <1>3 DEF Doing
  <1>4. CASE local[h] \in [op: {"patch"}, id: BudgetIds, patch: BudgetPatches]
    BY <1>4 DEF Doing
  <1>5. CASE local[h] \in [op: {"account"}, account: Accounts, patch: AccountPatches]
    BY <1>5 DEF Doing
  <1> QED
    BY <1>1, <1>2, <1>3, <1>4, <1>5 DEF Local

LEMMA NewBudgetsType == NewBudgets \subseteq Budget(Nat)
  BY BoundAssumption DEF NewBudgets, Budget

-----------------------------------------------------------------------------
(* Type correctness *)

LEMMA InitType == Init => WellTyped
  BY DEF Init, WellTyped, TypeOK, Account, PatchesExisting, Doing

Tables == [BudgetIds -> Budget(Nat) \cup {NoBudget}]

Put(B, id, v) == [B EXCEPT ![id] = v]

WithAmount(v, n)  == [v EXCEPT !.amount = n]
WithAccount(v, a) == [v EXCEPT !.account = a]

\* Tables that differ in amounts only.
SameButAmounts(B, C) ==
    \A id \in BudgetIds :
        \/ B[id] = NoBudget /\ C[id] = NoBudget
        \/ /\ B[id] \in Budget(Nat) /\ C[id] \in Budget(Nat)
           /\ B[id].client = C[id].client /\ B[id].account = C[id].account
           /\ B[id].period = C[id].period /\ B[id].active = C[id].active

\* One row is written.
LEMMA PutType ==
    ASSUME NEW B \in Tables, NEW id \in BudgetIds, NEW v \in Budget(Nat)
    PROVE  /\ Put(B, id, v) \in Tables
           /\ Put(B, id, v)[id] = v
           /\ \A k \in BudgetIds \ {id} : Put(B, id, v)[k] = B[k]
  BY DEF Tables, Put

LEMMA AmountChange ==
    ASSUME NEW B \in Tables, NEW id \in BudgetIds, B[id] \in Budget(Nat), NEW n \in Nat
    PROVE  /\ Put(B, id, WithAmount(B[id], n)) \in Tables
           /\ SameButAmounts(B, Put(B, id, WithAmount(B[id], n)))
  <1> DEFINE v == WithAmount(B[id], n)
             C == Put(B, id, v)
  <1>1. /\ v \in Budget(Nat) /\ v.client = B[id].client /\ v.account = B[id].account
        /\ v.period = B[id].period /\ v.active = B[id].active
    BY DEF Budget, WithAmount
  <1>2. C \in Tables /\ C[id] = v /\ \A k \in BudgetIds \ {id} : C[k] = B[k]
    BY <1>1, PutType
  <1> HIDE DEF C, v
  <1>3. SameButAmounts(B, C)
    BY <1>1, <1>2 DEF SameButAmounts, Tables
  <1> QED
    BY <1>2, <1>3 DEF C, v

LEMMA StoreNewType ==
    ASSUME TypeOK, NEW v \in NewBudgets, StoreNew(v)
    PROVE  budget' \in Tables
  <1>1. PICK id \in Unused : budget' = [budget EXCEPT ![id] = v]
    BY DEF StoreNew
  <1> QED
    BY <1>1, NewBudgetsType, PutType DEF Unused, TypeOK, Put, Tables

LEMMA StorePatchType ==
    ASSUME TypeOK, NEW id \in BudgetIds, Exists(id), NEW p \in BudgetPatches,
           StorePatch(id, p)
    PROVE  budget' \in Tables
  <1>1. budget[id] \in Budget(Nat)
    BY DEF TypeOK, Exists
  <1>2. Merged(budget[id], p) \in Budget(Nat)
    BY <1>1, MergedType
  <1>3. budget' = [budget EXCEPT ![id] = Merged(budget[id], p)]
    BY DEF StorePatch
  <1> QED
    BY <1>2, <1>3, PutType DEF TypeOK, Put, Tables

LEMMA WriteAccountType ==
    ASSUME TypeOK, NEW a \in Accounts, NEW p \in AccountPatches, WriteAccount(a, p)
    PROVE  account' \in [Accounts -> Account]
  BY DEF TypeOK, WriteAccount, AccountPatches, Given, Account

\* A transfer changes amounts within the table, and may then open a budget like
\* the source for the target account.
LEMMA TransferWrites ==
    ASSUME TypeOK, NEW id \in BudgetIds, NEW a \in Accounts, NEW n \in 1 .. MaxAmount,
           Transfer(id, a, n)
    PROVE  \E B \in Tables :
             /\ SameButAmounts(budget, B)
             /\ \/ budget' = B
                \/ \E k \in Unused, v \in Budget(Nat) :
                     /\ Acceptable(B, k, v)
                     /\ v.account = a /\ v.client = budget[id].client
                     /\ budget' = Put(B, k, v)
  <1> DEFINE s == budget[id]
             B == Put(budget, id, WithAmount(s, s.amount - n))
  <1>1. s \in Budget(Nat) /\ n <= s.amount /\ budget \in Tables
    BY DEF Transfer, Exists, TypeOK, Tables
  <1>2. n \in Nat /\ s.amount \in Nat /\ s.amount - n \in Nat
    BY <1>1, BoundAssumption DEF Budget
  <1>3. B \in Tables /\ SameButAmounts(budget, B)
    BY <1>1, <1>2, AmountChange
  <1>4. Credit(B, s, a, n)
    BY DEF Transfer, Put, WithAmount
  <1> HIDE DEF B, s
  <1>5. CASE \E k \in BudgetIds : B[k] # NoBudget /\ budget' = Put(B, k, WithAmount(B[k], B[k].amount + n))
    <2>1. PICK k \in BudgetIds :
            B[k] # NoBudget /\ budget' = Put(B, k, WithAmount(B[k], B[k].amount + n))
      BY <1>5
    <2>2. B[k] \in Budget(Nat)
      BY <1>3, <2>1 DEF Tables
    <2>3. B[k].amount + n \in Nat
      BY <1>2, <2>2 DEF Budget
    <2>4. budget' \in Tables /\ SameButAmounts(B, budget')
      BY <1>3, <2>1, <2>2, <2>3, AmountChange
    <2>5. SameButAmounts(budget, budget')
      BY <1>3, <2>4, NullAssumption DEF SameButAmounts
    <2> QED
      BY <2>4, <2>5
  <1>6. CASE \E k \in Unused :
                Acceptable(B, k, WithAmount(WithAccount(s, a), n))
                    /\ budget' = Put(B, k, WithAmount(WithAccount(s, a), n))
    <2> DEFINE v == WithAmount(WithAccount(s, a), n)
    <2>1. v \in Budget(Nat) /\ v.account = a /\ v.client = s.client
      BY <1>1, <1>2 DEF Budget, WithAmount, WithAccount
    <2> QED
      BY <1>3, <1>6, <2>1 DEF s
  <1>7. \/ \E k \in BudgetIds :
            B[k] # NoBudget /\ budget' = Put(B, k, WithAmount(B[k], B[k].amount + n))
        \/ \E k \in Unused :
            Acceptable(B, k, WithAmount(WithAccount(s, a), n))
                /\ budget' = Put(B, k, WithAmount(WithAccount(s, a), n))
    BY <1>4 DEF Credit, OfAccounts, Put, WithAmount, WithAccount
  <1> QED
    BY <1>5, <1>6, <1>7

LEMMA TransferType ==
    ASSUME TypeOK, NEW id \in BudgetIds, NEW a \in Accounts, NEW n \in 1 .. MaxAmount,
           Transfer(id, a, n)
    PROVE  budget' \in Tables
  BY TransferWrites, PutType DEF Unused

LEMMA TypeStep ==
    ASSUME WellTyped, [Next]_vars
    PROVE  TypeOK'
  <1> TypeOK /\ PatchesExisting
    BY DEF WellTyped
  <1> USE DEF tables
  <1>1. ASSUME NEW c \in Clients, NEW act \in BOOLEAN, SetClientStatus(c, act)
        PROVE  TypeOK'
    BY <1>1 DEF SetClientStatus, TypeOK
  <1>2. ASSUME NEW a \in Accounts, ArchiveAccount(a)
        PROVE  TypeOK'
    BY <1>2 DEF ArchiveAccount, TypeOK, Account
  <1>3. ASSUME NEW a \in Accounts, NEW p \in AccountPatches, PatchAccount(a, p)
        PROVE  TypeOK'
    BY <1>3, WriteAccountType DEF PatchAccount, TypeOK
  <1>4. ASSUME NEW v \in NewBudgets, CreateBudget(v)
        PROVE  TypeOK'
    BY <1>4, StoreNewType DEF CreateBudget, TypeOK, Tables
  <1>5. ASSUME NEW id \in BudgetIds, ArchiveBudget(id)
        PROVE  TypeOK'
    <2>1. budget[id] \in Budget(Nat)
      BY <1>5 DEF ArchiveBudget, Exists, TypeOK
    <2>2. [budget[id] EXCEPT !.active = FALSE] \in Budget(Nat)
      BY <2>1 DEF Budget
    <2>3. budget' = [budget EXCEPT ![id] = [budget[id] EXCEPT !.active = FALSE]]
      BY <1>5 DEF ArchiveBudget
    <2> QED
      BY <1>5, <2>2, <2>3, PutType DEF ArchiveBudget, TypeOK, Tables, Put
  <1>6. ASSUME NEW id \in BudgetIds, NEW p \in BudgetPatches, PatchBudget(id, p)
        PROVE  TypeOK'
    BY <1>6, StorePatchType DEF PatchBudget, TypeOK, Tables
  <1>7. ASSUME NEW id \in BudgetIds, NEW a \in Accounts, NEW n \in 1 .. MaxAmount,
               Transfer(id, a, n)
        PROVE  TypeOK'
    BY <1>7, TransferType DEF Transfer, TypeOK, Tables
  <1>8. ASSUME NEW h \in Handlers, NEW a \in Accounts, NEW p \in AccountPatches,
               StartPatchAccount(h, a, p)
        PROVE  TypeOK'
    BY <1>8 DEF StartPatchAccount, Remember, TypeOK, Local
  <1>9. ASSUME NEW h \in Handlers, NEW v \in NewBudgets, StartCreate(h, v)
        PROVE  TypeOK'
    BY <1>9 DEF StartCreate, Remember, TypeOK, Local
  <1>10. ASSUME NEW h \in Handlers, NEW id \in BudgetIds, NEW p \in BudgetPatches,
                StartPatch(h, id, p)
         PROVE  TypeOK'
    BY <1>10 DEF StartPatch, Remember, TypeOK, Local
  <1>11. ASSUME NEW h \in Handlers, FinishPatchAccount(h)
         PROVE  TypeOK'
    BY <1>11, LocalType, WriteAccountType DEF FinishPatchAccount, Remember, TypeOK
  <1>12. ASSUME NEW h \in Handlers, FinishCreate(h)
         PROVE  TypeOK'
    BY <1>12, LocalType, StoreNewType DEF FinishCreate, Remember, TypeOK, Tables
  <1>13. ASSUME NEW h \in Handlers, FinishPatch(h)
         PROVE  TypeOK'
    BY <1>13, LocalType, StorePatchType DEF FinishPatch, Remember, TypeOK, PatchesExisting, Tables
  <1>14. CASE UNCHANGED vars
    BY <1>14 DEF vars, TypeOK
  <1> QED
    BY <1>1, <1>2, <1>3, <1>4, <1>5, <1>6, <1>7, <1>8, <1>9, <1>10, <1>11, <1>12, <1>13,
       <1>14 DEF Next

-----------------------------------------------------------------------------
(* What a step does to the budgets *)

\* Archiving writes a row that is acceptable because it is not active.
LEMMA BudgetStep ==
    ASSUME WellTyped, [Next]_vars
    PROVE  \/ UNCHANGED budget
           \/ \E id \in BudgetIds, v \in Budget(Nat) :
                Acceptable(budget, id, v) /\ budget' = Put(budget, id, v)
           \/ \E id \in BudgetIds, a \in Accounts, n \in 1 .. MaxAmount : Transfer(id, a, n)
  <1> DEFINE Write(id, v) == Acceptable(budget, id, v) /\ budget' = Put(budget, id, v)
             Puts == \E id \in BudgetIds, v \in Budget(Nat) : Write(id, v)
  <1> TypeOK /\ PatchesExisting
    BY DEF WellTyped
  <1>1. ASSUME NEW v \in NewBudgets, StoreNew(v)
        PROVE  Puts
    BY <1>1, NewBudgetsType DEF StoreNew, Unused, Put
  <1>2. ASSUME NEW id \in BudgetIds, Exists(id), NEW p \in BudgetPatches, StorePatch(id, p)
        PROVE  Puts
    <2>1. budget[id] \in Budget(Nat)
      BY <1>2 DEF TypeOK, Exists
    <2>2. Merged(budget[id], p) \in Budget(Nat)
      BY <2>1, MergedType
    <2>3. Write(id, Merged(budget[id], p))
      BY <1>2 DEF StorePatch, Put
    <2> QED
      BY <2>2, <2>3
  <1>3. ASSUME NEW id \in BudgetIds, ArchiveBudget(id)
        PROVE  Puts
    <2> DEFINE v == [budget[id] EXCEPT !.active = FALSE]
    <2>1. budget[id] \in Budget(Nat)
      BY <1>3 DEF ArchiveBudget, Exists, TypeOK
    <2>2. v \in Budget(Nat) /\ ~v.active
      BY <2>1 DEF Budget
    <2>3. budget' = Put(budget, id, v)
      BY <1>3 DEF ArchiveBudget, Put
    <2>4. Acceptable(budget, id, v)
      BY <2>2 DEF Acceptable
    <2> QED
      BY <2>2, <2>3, <2>4
  <1>4. ASSUME NEW h \in Handlers, FinishCreate(h)
        PROVE  UNCHANGED budget \/ Puts
    BY <1>1, <1>4, LocalType DEF FinishCreate
  <1>5. ASSUME NEW h \in Handlers, FinishPatch(h)
        PROVE  UNCHANGED budget \/ Puts
    BY <1>2, <1>5, LocalType DEF FinishPatch, PatchesExisting
  <1>6. ASSUME NEW id \in BudgetIds, NEW p \in BudgetPatches, PatchBudget(id, p)
        PROVE  Puts
    BY <1>2, <1>6 DEF PatchBudget
  <1>7. ASSUME NEW v \in NewBudgets, CreateBudget(v)
        PROVE  Puts
    BY <1>1, <1>7 DEF CreateBudget
  <1> HIDE DEF Puts
  <1>8. \/ UNCHANGED budget \/ Puts
        \/ \E id \in BudgetIds, a \in Accounts, n \in 1 .. MaxAmount : Transfer(id, a, n)
    BY <1>3, <1>4, <1>5, <1>6, <1>7
       DEF Next, vars, tables, SetClientStatus, ArchiveAccount, PatchAccount,
           StartPatchAccount, StartCreate, StartPatch, FinishPatchAccount
  <1> QED
    BY <1>8 DEF Puts

\* No step removes a row.
LEMMA RowsStay ==
    ASSUME WellTyped, [Next]_vars
    PROVE  \A id \in BudgetIds : Exists(id) => Exists(id)'
  <1> SUFFICES ASSUME NEW id \in BudgetIds, Exists(id)
               PROVE  Exists(id)'
    OBVIOUS
  <1>1. TypeOK /\ budget \in Tables
    BY DEF WellTyped, TypeOK, Tables
  <1>2. ASSUME NEW k \in BudgetIds, NEW v \in Budget(Nat), NEW B \in Tables,
               B[id] # NoBudget, budget' = Put(B, k, v)
        PROVE  Exists(id)'
    BY <1>2, PutType, NullAssumption DEF Exists
  <1>3. ASSUME NEW B, SameButAmounts(budget, B)
        PROVE  B[id] # NoBudget
    BY <1>3, NullAssumption DEF SameButAmounts, Exists
  <1>4. ASSUME NEW k \in BudgetIds, NEW a \in Accounts, NEW n \in 1 .. MaxAmount,
               Transfer(k, a, n)
        PROVE  Exists(id)'
    BY <1>1, <1>2, <1>3, <1>4, TransferWrites DEF Exists, Unused
  <1> QED
    BY <1>1, <1>2, <1>4, BudgetStep DEF Exists

LEMMA ExistingStep ==
    ASSUME WellTyped, [Next]_vars
    PROVE  PatchesExisting'
  <1> SUFFICES ASSUME NEW g \in Handlers, Doing(g)' = "patch"
               PROVE  Exists(local[g].id)'
    BY DEF PatchesExisting
  <1> TypeOK /\ PatchesExisting
    BY DEF WellTyped
  <1>1. CASE local'[g] = local[g]
    <2>1. Doing(g) = "patch"
      BY <1>1 DEF Doing
    <2>2. Exists(local[g].id) /\ local[g].id \in BudgetIds
      BY <2>1, LocalType DEF PatchesExisting
    <2> QED
      BY <1>1, <2>2, RowsStay DEF Exists
  <1>2. CASE local'[g] # local[g]
    <2>1. local'[g] # Idle /\ local'[g].op = "patch"
      BY DEF Doing
    <2>2. \E id \in BudgetIds, p \in BudgetPatches : StartPatch(g, id, p)
      <3>1. ASSUME NEW h \in Handlers, NEW r, Remember(h, r), r = Idle \/ r.op # "patch"
            PROVE  FALSE
        BY <1>2, <2>1, <3>1 DEF Remember, TypeOK
      <3>2. ASSUME NEW h \in Handlers, NEW id \in BudgetIds, NEW p \in BudgetPatches,
                   StartPatch(h, id, p)
            PROVE  h = g
        BY <1>2, <3>2 DEF StartPatch, Remember, TypeOK
      <3> QED
        BY <1>2, <3>1, <3>2
           DEF Next, vars, tables, SetClientStatus, ArchiveAccount, PatchAccount,
               CreateBudget, ArchiveBudget, PatchBudget, Transfer, StartPatchAccount,
               StartCreate, FinishPatchAccount, FinishCreate, FinishPatch
    <2>3. PICK id \in BudgetIds, p \in BudgetPatches : StartPatch(g, id, p)
      BY <2>2
    <2> QED
      BY <2>3 DEF StartPatch, Remember, TypeOK, Exists, tables
  <1> QED
    BY <1>1, <1>2

LEMMA WellTypedStep == WellTyped /\ [Next]_vars => WellTyped'
  BY TypeStep, ExistingStep DEF WellTyped

\* The tables and the handlers stay well typed; amounts in particular never
\* become negative, by a transfer or otherwise.
THEOREM TypeCorrect == Spec => []TypeOK
  <1>1. WellTyped => TypeOK
    BY DEF WellTyped
  <1> QED
    BY InitType, WellTypedStep, <1>1, PTL DEF Spec

-----------------------------------------------------------------------------
(* Periods never overlap *)

Disjoint(B) ==
    \A i, k \in BudgetIds :
        i # k /\ B[i] # NoBudget /\ B[k] # NoBudget => ~Clash(B[i], B[k])

LEMMA DisjointWithoutAmounts ==
    ASSUME NEW B, NEW C, Disjoint(B), SameButAmounts(B, C)
    PROVE  Disjoint(C)
  BY NullAssumption DEF Disjoint, SameButAmounts, Clash

LEMMA DisjointPut ==
    ASSUME NEW B \in Tables, Disjoint(B), NEW id \in BudgetIds, NEW v \in Budget(Nat),
           Acceptable(B, id, v)
    PROVE  Disjoint(Put(B, id, v))
  <1> DEFINE C == Put(B, id, v)
  <1>1. ASSUME NEW k \in BudgetIds, k # id, B[k] # NoBudget
        PROVE  ~Clash(v, B[k]) /\ ~Clash(B[k], v)
    <2>1. ~Clash(v, B[k])
      BY <1>1 DEF Acceptable, FreeOfOverlap, Clash
    <2> QED
      BY <2>1 DEF Clash, Overlap
  <1>2. C[id] = v /\ \A k \in BudgetIds \ {id} : C[k] = B[k]
    BY PutType
  <1> HIDE DEF C
  <1>3. Disjoint(C)
    BY <1>1, <1>2 DEF Disjoint
  <1> QED
    BY <1>3 DEF C

LEMMA NoOverlapStep == WellTyped /\ NoOverlap /\ [Next]_vars => NoOverlap'
  <1> SUFFICES ASSUME WellTyped, NoOverlap, [Next]_vars
               PROVE  Disjoint(budget')
    BY DEF NoOverlap, Disjoint, Exists
  <1>1. TypeOK /\ budget \in Tables /\ Disjoint(budget)
    BY DEF WellTyped, TypeOK, Tables, NoOverlap, Disjoint, Exists
  <1>2. ASSUME NEW id \in BudgetIds, NEW v \in Budget(Nat), Acceptable(budget, id, v),
               budget' = Put(budget, id, v)
        PROVE  Disjoint(budget')
    BY <1>1, <1>2, DisjointPut
  <1>3. ASSUME NEW id \in BudgetIds, NEW a \in Accounts, NEW n \in 1 .. MaxAmount,
               Transfer(id, a, n)
        PROVE  Disjoint(budget')
    <2>1. ASSUME NEW B, SameButAmounts(budget, B), budget' = B
          PROVE  Disjoint(budget')
      BY <1>1, <2>1, DisjointWithoutAmounts
    <2>2. ASSUME NEW B \in Tables, NEW k \in Unused, NEW v \in Budget(Nat),
                 SameButAmounts(budget, B), Acceptable(B, k, v),
                 budget' = Put(B, k, v)
          PROVE  Disjoint(budget')
      BY <1>1, <2>2, DisjointWithoutAmounts, DisjointPut DEF Unused
    <2> QED
      BY <1>1, <1>3, <2>1, <2>2, TransferWrites
  <1>4. CASE UNCHANGED budget
    BY <1>1, <1>4
  <1> QED
    BY <1>2, <1>3, <1>4, BudgetStep

\* Whatever calls overtake each other between their checks and the store, two
\* active budgets of one scope key never share a day.
THEOREM PeriodsDisjoint == Spec => []NoOverlap
  <1>1. Init => NoOverlap
    BY DEF Init, NoOverlap, Exists
  <1> QED
    BY InitType, WellTypedStep, NoOverlapStep, <1>1, PTL DEF Spec

-----------------------------------------------------------------------------
(* Budgets of accounts stay with the client of the account *)

\* What BudgetsFollowAccounts says of one row.
Follows(v) == v.account # NoAccount => account[v.account].client = v.client

FollowInv ==
    /\ \A h \in Handlers : local[h] = Idle
    /\ BudgetsFollowAccounts

LEMMA FollowPut ==
    ASSUME WellTyped, BudgetsFollowAccounts, UNCHANGED account,
           NEW id \in BudgetIds, NEW v \in Budget(Nat), Follows(v), budget' = Put(budget, id, v)
    PROVE  BudgetsFollowAccounts'
  <1>1. budget'[id] = v /\ \A k \in BudgetIds \ {id} : budget'[k] = budget[k]
    BY PutType DEF WellTyped, TypeOK, Tables
  <1> QED
    BY <1>1 DEF BudgetsFollowAccounts, Follows, Exists

\* The checks of the route make the merged row follow its account.
LEMMA PatchFollows ==
    ASSUME WellTyped, BudgetsFollowAccounts, NEW id \in BudgetIds, Exists(id),
           NEW p \in BudgetPatches, PatchChecks(budget[id], p)
    PROVE  Follows(Merged(budget[id], p))
  <1> DEFINE was == budget[id]
             v == Merged(was, p)
             a == IF p.account \in Accounts THEN p.account ELSE was.account
  <1>1. was \in Budget(Nat) /\ p.account \in Accounts \cup {NoAccount, Keep}
    BY DEF WellTyped, TypeOK, Exists, BudgetPatches
  <1>2. v.account = Given(p.account, was.account)
    BY DEF Merged
  <1>3. v.account # NoAccount => v.account = a
    BY <1>1, <1>2, PatchAssumption, ScopeAssumption DEF Given
  <1>4. a # NoAccount => account[a].client = v.client
    BY DEF PatchChecks
  <1> QED
    BY <1>3, <1>4 DEF Follows

LEMMA FollowStep ==
    ASSUME Racing = {}, WellTyped, FollowInv, [Next]_vars
    PROVE  FollowInv'
  <1> TypeOK /\ BudgetsFollowAccounts /\ \A h \in Handlers : Doing(h) = "idle"
    BY DEF WellTyped, FollowInv, Doing
  <1>1. ASSUME NEW c \in Clients, NEW act \in BOOLEAN, SetClientStatus(c, act)
        PROVE  UNCHANGED <<account, budget, local>>
    BY <1>1 DEF SetClientStatus
  <1>2. ASSUME NEW a \in Accounts, ArchiveAccount(a)
        PROVE  BudgetsFollowAccounts' /\ UNCHANGED local
    BY <1>2, ScopeAssumption
       DEF ArchiveAccount, BudgetsFollowAccounts, TypeOK, Account, Budget, Exists
  <1>3. ASSUME NEW a \in Accounts, NEW p \in AccountPatches, PatchAccount(a, p)
        PROVE  BudgetsFollowAccounts' /\ UNCHANGED local
    <2>1. /\ account'[a].client = Given(p.client, account[a].client)
          /\ \A b \in Accounts \ {a} : account'[b] = account[b]
      BY <1>3 DEF PatchAccount, WriteAccount, TypeOK
    <2>2. account'[a].client # account[a].client =>
            \A id \in BudgetIds : Exists(id) => budget[id].account # a
      BY <1>3, <2>1 DEF PatchAccount, AccountChecks
    <2>3. \A id \in BudgetIds : Exists(id) => budget[id].account \in Accounts \cup {NoAccount}
      BY DEF TypeOK, Exists, Budget
    <2> QED
      BY <1>3, <2>1, <2>2, <2>3 DEF PatchAccount, BudgetsFollowAccounts, Exists
  <1>4. ASSUME NEW v \in NewBudgets, CreateBudget(v)
        PROVE  BudgetsFollowAccounts' /\ UNCHANGED local
    <2>1. Follows(v)
      BY <1>4 DEF CreateBudget, CreateChecks, Follows
    <2>2. PICK id \in BudgetIds : budget' = Put(budget, id, v)
      BY <1>4 DEF CreateBudget, StoreNew, Unused, Put
    <2> QED
      BY <1>4, <2>1, <2>2, FollowPut, NewBudgetsType DEF CreateBudget
  <1>5. ASSUME NEW id \in BudgetIds, ArchiveBudget(id)
        PROVE  BudgetsFollowAccounts' /\ UNCHANGED local
    <2> DEFINE v == [budget[id] EXCEPT !.active = FALSE]
    <2>1. budget[id] \in Budget(Nat) /\ Exists(id)
      BY <1>5 DEF ArchiveBudget, Exists, TypeOK
    <2>2. v \in Budget(Nat) /\ v.account = budget[id].account /\ v.client = budget[id].client
      BY <2>1 DEF Budget
    <2>3. budget' = Put(budget, id, v) /\ UNCHANGED <<account, local>>
      BY <1>5 DEF ArchiveBudget, Put
    <2> HIDE DEF v
    <2>4. Follows(v)
      BY <2>1, <2>2 DEF Follows, BudgetsFollowAccounts
    <2> QED
      BY <2>2, <2>3, <2>4, FollowPut
  <1>6. ASSUME NEW id \in BudgetIds, NEW p \in BudgetPatches, PatchBudget(id, p)
        PROVE  BudgetsFollowAccounts' /\ UNCHANGED local
    <2>1. budget[id] \in Budget(Nat) /\ Exists(id)
      BY <1>6 DEF PatchBudget, Exists, TypeOK
    <2>2. Merged(budget[id], p) \in Budget(Nat) /\ Follows(Merged(budget[id], p))
      BY <1>6, <2>1, MergedType, PatchFollows DEF PatchBudget
    <2>3. budget' = Put(budget, id, Merged(budget[id], p)) /\ UNCHANGED <<account, local>>
      BY <1>6 DEF PatchBudget, StorePatch, Put
    <2> QED
      BY <2>2, <2>3, FollowPut
  <1>7. ASSUME NEW id \in BudgetIds, NEW a \in Accounts, NEW n \in 1 .. MaxAmount,
               Transfer(id, a, n)
        PROVE  BudgetsFollowAccounts' /\ UNCHANGED local
    <2>1. account[a].client = budget[id].client /\ UNCHANGED <<account, local>>
      BY <1>7 DEF Transfer
    <2>2. PICK B \in Tables :
             /\ SameButAmounts(budget, B)
             /\ \/ budget' = B
                \/ \E k \in Unused, v \in Budget(Nat) :
                     /\ Acceptable(B, k, v)
                     /\ v.account = a /\ v.client = budget[id].client
                     /\ budget' = Put(B, k, v)
      BY <1>7, TransferWrites
    <2>3. \A k \in BudgetIds : B[k] # NoBudget => Follows(B[k])
      BY <2>2, NullAssumption DEF SameButAmounts, BudgetsFollowAccounts, Follows, Exists
    <2>4. CASE budget' = B
      BY <2>1, <2>3, <2>4 DEF BudgetsFollowAccounts, Follows, Exists
    <2>5. ASSUME NEW k \in Unused, NEW v \in Budget(Nat), v.account = a,
                 v.client = budget[id].client, budget' = Put(B, k, v)
          PROVE  BudgetsFollowAccounts'
      <3>1. budget'[k] = v /\ \A i \in BudgetIds \ {k} : budget'[i] = B[i]
        BY <2>5, PutType DEF Unused
      <3> QED
        BY <2>1, <2>3, <2>5, <3>1 DEF BudgetsFollowAccounts, Follows, Exists
    <2> QED
      BY <2>1, <2>2, <2>4, <2>5
  <1>8. UNCHANGED vars => UNCHANGED <<account, budget, local>>
    BY DEF vars, tables
  <1>9. \/ UNCHANGED <<account, budget, local>>
        \/ BudgetsFollowAccounts' /\ UNCHANGED local
    BY <1>1, <1>2, <1>3, <1>4, <1>5, <1>6, <1>7, <1>8
       DEF Next, StartPatchAccount, StartCreate, StartPatch, FinishPatchAccount,
           FinishCreate, FinishPatch, vars, tables
  <1> QED
    BY <1>9 DEF FollowInv, BudgetsFollowAccounts, Exists

\* As long as no call is overtaken between its checks and the store, no sequence
\* of moves of budgets and accounts separates a budget from its account's client.
THEOREM CallsKeepClients ==
    ASSUME Racing = {}
    PROVE  Spec => []BudgetsFollowAccounts
  <1>1. Init => FollowInv
    BY DEF Init, FollowInv, BudgetsFollowAccounts, Exists
  <1>2. WellTyped /\ FollowInv /\ [Next]_vars => FollowInv'
    BY FollowStep
  <1>3. FollowInv => BudgetsFollowAccounts
    BY DEF FollowInv
  <1> QED
    BY InitType, WellTypedStep, <1>1, <1>2, <1>3, PTL DEF Spec

-----------------------------------------------------------------------------
(* Sums.  The fold of Sum is a recursive function on subsets.  Its equation is *)
(* proved from the subsets of a finite set being well-founded, with the set of *)
(* those that have a property in place of the property.                        *)

Some(s) == CHOOSE x \in s : TRUE

Summing(iter, B, S) == iter =
    [s \in SUBSET S |-> IF s = {} THEN 0 ELSE B[Some(s)].amount + iter[s \ {Some(s)}]]

SumsOf(B, S) == CHOOSE iter : Summing(iter, B, S)

LEMMA SumIs == ASSUME NEW B, NEW S PROVE Sum(B, S) = SumsOf(B, S)[S]
BY DEF Sum, MapThenSumSet, MapThenFoldSet, SumsOf, Summing, Some

LEMMA SubsetInduction ==
    ASSUME NEW S, IsFiniteSet(S), NEW P,
           ASSUME NEW T \in SUBSET S, \A U \in SUBSET T : U # T => U \in P
           PROVE  T \in P
    PROVE  \A T \in SUBSET S : T \in P
  <1> DEFINE Bad == (SUBSET S) \ P
  <1> SUFFICES ASSUME Bad # {} PROVE FALSE
    OBVIOUS
  <1>1. IsWellFoundedOn(StrictSubsetOrdering(S), SUBSET S)
    <2>1. FiniteSubsetsOf(S) = SUBSET S
      BY FS_FiniteSubsetsOfFinite
    <2>2. IsWellFoundedOn(StrictSubsetOrdering(S), FiniteSubsetsOf(S))
      BY FS_StrictSubsetOrderingWellFounded
    <2> QED
      BY <2>1, <2>2, Zenon
  <1>2. PICK T \in Bad : \A U \in Bad : ~ (<<U, T>> \in StrictSubsetOrdering(S))
    <2>1. Bad \subseteq SUBSET S
      OBVIOUS
    <2> HIDE DEF Bad
    <2> QED
      BY <1>1, <2>1, WFMin
  <1>3. ASSUME NEW U \in SUBSET T, U # T PROVE U \in P
    BY <1>2, <1>3 DEF StrictSubsetOrdering
  <1> QED
    BY <1>2, <1>3

LEMMA SomeIn == ASSUME NEW s, s # {} PROVE Some(s) \in s
BY DEF Some

LEMMA SummingIs ==
    ASSUME NEW B, NEW S, NEW g, Summing(g, B, S), NEW s \in SUBSET S
    PROVE  g[s] = IF s = {} THEN 0 ELSE B[Some(s)].amount + g[s \ {Some(s)}]
BY DEF Summing

LEMMA Agree ==
    ASSUME NEW B, NEW S, IsFiniteSet(S), NEW D \in SUBSET S, NEW E \in SUBSET S, 
           NEW g, NEW h, Summing(g, B, D), Summing(h, B, E)
    PROVE  \A s \in SUBSET S : s \subseteq D /\ s \subseteq E => g[s] = h[s]
  <1> DEFINE P == {s \in SUBSET S : s \subseteq D /\ s \subseteq E => g[s] = h[s]}
  <1>1. ASSUME NEW T \in SUBSET S, \A U \in SUBSET T : U # T => U \in P
        PROVE  T \in P
    <2> SUFFICES ASSUME T \subseteq D, T \subseteq E PROVE g[T] = h[T]
      OBVIOUS
    <2>1. CASE T = {}
      BY <2>1, SummingIs
    <2>2. CASE T # {}
      <3> DEFINE U == T \ {Some(T)}
      <3>1. U \in SUBSET T /\ U # T
        BY <2>2, SomeIn
      <3>2. g[U] = h[U]
        BY <1>1, <3>1
      <3>3. g[T] = B[Some(T)].amount + g[U]
        BY <2>2, SummingIs
      <3>4. h[T] = B[Some(T)].amount + h[U]
        BY <2>2, SummingIs
      <3> QED
        BY <3>2, <3>3, <3>4
    <2> QED
      BY <2>1, <2>2
  <1> HIDE DEF P
  <1>2. \A T \in SUBSET S : T \in P
    BY <1>1, SubsetInduction
  <1> QED
    BY <1>2 DEF P

LEMMA SumsExist ==
    ASSUME NEW B, NEW S, IsFiniteSet(S)
    PROVE  \A D \in SUBSET S : Summing(SumsOf(B, D), B, D)
  <1> DEFINE P == {D \in SUBSET S : \E g : Summing(g, B, D)}
  <1>1. ASSUME NEW D \in SUBSET S, \A U \in SUBSET D : U # D => U \in P
        PROVE  D \in P
    <2> DEFINE Rest(s) == s \ {Some(s)}
               G(s) == SumsOf(B, s)
               h == [s \in SUBSET D |-> IF s = {} THEN 0 ELSE B[Some(s)].amount + G(Rest(s))[Rest(s)]]
    <2>1. ASSUME NEW U \in SUBSET D, U # D
          PROVE  Summing(G(U), B, U)
      BY <1>1, <2>1, Zenon DEF SumsOf
    <2>2. ASSUME NEW s \in SUBSET D, s # {}
          PROVE  h[Rest(s)] = G(Rest(s))[Rest(s)]
      <3> DEFINE u == Rest(s)
      <3>1. u \in SUBSET D /\ u # D /\ u \in SUBSET S
        BY <2>2, SomeIn
      <3>2. Summing(G(u), B, u)
        BY <2>1, <3>1
      <3>3. CASE u = {}
        <4>1. G(u)[u] = 0
          BY <3>2, <3>3, SummingIs
        <4> QED
          BY <3>1, <3>3, <4>1
      <3>4. CASE u # {}
        <4> DEFINE v == Rest(u)
        <4>1. v \in SUBSET u /\ v # u /\ v \in SUBSET D /\ v # D /\ v \in SUBSET S
          BY <3>1, <3>4, SomeIn
        <4>2. Summing(G(v), B, v)
          BY <2>1, <4>1
        <4>3. G(u)[v] = G(v)[v]
          <5> HIDE DEF u, v, G
          <5> QED BY <3>1, <3>2, <4>1, <4>2, Agree
        <4>4. G(u)[u] = B[Some(u)].amount + G(u)[v]
          <5>1. u \in SUBSET u
            OBVIOUS
          <5> HIDE DEF u, G
          <5> QED
            BY <3>2, <3>4, <5>1, SummingIs
        <4>5. h[u] = B[Some(u)].amount + G(v)[v]
          BY <3>1, <3>4
        <4> QED
          BY <4>3, <4>4, <4>5
      <3> QED
        BY <3>3, <3>4
    <2>3. h = [s \in SUBSET D |-> IF s = {} THEN 0 ELSE B[Some(s)].amount + h[Rest(s)]]
      BY <2>2
    <2>4. Summing(h, B, D)
      BY <2>3 DEF Summing
    <2> QED
      BY <2>4
  <1> HIDE DEF P
  <1>2. \A D \in SUBSET S : D \in P
    BY <1>1, SubsetInduction
  <1> QED
    BY <1>2, Zenon DEF P, SumsOf

LEMMA SumStep ==
    ASSUME NEW B, NEW S, IsFiniteSet(S)
    PROVE  Sum(B, S) = IF S = {} THEN 0 ELSE B[Some(S)].amount + Sum(B, S \ {Some(S)})
  <1>1. Summing(SumsOf(B, S), B, S)
    BY SumsExist
  <1>2. Sum(B, S) = IF S = {} THEN 0 ELSE B[Some(S)].amount + SumsOf(B, S)[S \ {Some(S)}]
    BY <1>1, SummingIs, SumIs
  <1> DEFINE U == S \ {Some(S)}
  <1>3. Summing(SumsOf(B, U), B, U)
    BY SumsExist
  <1>4. SumsOf(B, U)[U] = SumsOf(B, S)[U]
    BY <1>1, <1>3, Agree
  <1> QED
    BY <1>2, <1>4, SumIs

LEMMA SumOfNone == \A B : Sum(B, {}) = 0
  <1> SUFFICES ASSUME NEW B PROVE Sum(B, {}) = 0
    OBVIOUS
  <1>1. Sum(B, {}) = IF {} = {} THEN 0 ELSE B[Some({})].amount + Sum(B, {} \ {Some({})})
    BY FS_EmptySet, SumStep, Zenon
  <1> QED
    BY <1>1

LEMMA SumNat ==
    ASSUME NEW B, NEW S, IsFiniteSet(S), \A k \in S : B[k].amount \in Nat
    PROVE  \A T \in SUBSET S : Sum(B, T) \in Nat
  <1> DEFINE P == {T \in SUBSET S : Sum(B, T) \in Nat}
  <1>1. ASSUME NEW T \in SUBSET S, \A U \in SUBSET T : U # T => U \in P
        PROVE  T \in P
    <2>1. IsFiniteSet(T)
      BY FS_Subset
    <2>2. CASE T = {}
      BY <2>2, SumOfNone
    <2>3. CASE T # {}
      <3>1. Some(T) \in T /\ T \ {Some(T)} \in P
        BY <1>1, <2>3, SomeIn
      <3>2. B[Some(T)].amount \in Nat /\ Sum(B, T \ {Some(T)}) \in Nat
        BY <3>1
      <3> QED
        BY <2>1, <2>3, <3>2, SumStep
    <2> QED
      BY <2>2, <2>3
  <1> HIDE DEF P
  <1>2. \A T \in SUBSET S : T \in P
    BY <1>1, SubsetInduction
  <1> QED
    BY <1>2 DEF P

\* The order in which the elements are taken does not matter.
LEMMA SumTakes ==
    ASSUME NEW B, NEW S, IsFiniteSet(S), \A k \in S : B[k].amount \in Nat
    PROVE  \A T \in SUBSET S : \A x \in T : Sum(B, T) = B[x].amount + Sum(B, T \ {x})
  <1> DEFINE P == {T \in SUBSET S : \A x \in T : Sum(B, T) = B[x].amount + Sum(B, T \ {x})}
  <1>1. ASSUME NEW T \in SUBSET S, \A U \in SUBSET T : U # T => U \in P
        PROVE  T \in P
    <2> SUFFICES ASSUME NEW x \in T PROVE Sum(B, T) = B[x].amount + Sum(B, T \ {x})
      OBVIOUS
    <2> DEFINE y == Some(T)
               R == T \ {x, y}
    <2>1. IsFiniteSet(T)
      BY FS_Subset
    <2>2. y \in T /\ Sum(B, T) = B[y].amount + Sum(B, T \ {y})
      BY <2>1, SomeIn, SumStep
    <2>3. CASE x # y
      <3>1. T \ {y} \in P /\ T \ {x} \in P
        BY <1>1, <2>2
      <3>2. x \in T \ {y} /\ (T \ {y}) \ {x} = R /\ y \in T \ {x} /\ (T \ {x}) \ {y} = R
        BY <2>2, <2>3
      <3> HIDE DEF R, y
      <3>3. Sum(B, T \ {y}) = B[x].amount + Sum(B, R)
        BY <3>1, <3>2
      <3>4. Sum(B, T \ {x}) = B[y].amount + Sum(B, R)
        BY <3>1, <3>2
      <3>5. B[x].amount \in Nat /\ B[y].amount \in Nat /\ Sum(B, R) \in Nat
        BY <2>2, SumNat DEF R
      <3> QED
        BY <2>2, <3>3, <3>4, <3>5
    <2> QED
      BY <2>2, <2>3
  <1> HIDE DEF P
  <1>2. \A T \in SUBSET S : T \in P
    BY <1>1, SubsetInduction
  <1> QED
    BY <1>2 DEF P

\* Less in every budget is less in all.
LEMMA SumSmaller ==
    ASSUME NEW B, NEW C, NEW S, IsFiniteSet(S),
           \A k \in S : B[k].amount \in Nat /\ C[k].amount \in Nat /\ B[k].amount <= C[k].amount
    PROVE  \A T \in SUBSET S : Sum(B, T) <= Sum(C, T)
  <1> DEFINE P == {T \in SUBSET S : Sum(B, T) <= Sum(C, T)}
  <1>1. ASSUME NEW T \in SUBSET S, \A U \in SUBSET T : U # T => U \in P
        PROVE  T \in P
    <2>1. IsFiniteSet(T)
      BY FS_Subset
    <2>2. CASE T = {}
      BY <2>2, SumOfNone
    <2>3. CASE T # {}
      <3> DEFINE y == Some(T)
                 R == T \ {y}
      <3>1. y \in T /\ R \in P /\ R \in SUBSET S
        BY <1>1, <2>3, SomeIn
      <3>2. Sum(B, T) = B[y].amount + Sum(B, R) /\ Sum(C, T) = C[y].amount + Sum(C, R)
        BY <2>1, <2>3, SumStep
      <3>3. Sum(B, R) \in Nat /\ Sum(C, R) \in Nat /\ Sum(B, R) <= Sum(C, R)
        BY <3>1, SumNat
      <3>4. B[y].amount \in Nat /\ C[y].amount \in Nat /\ B[y].amount <= C[y].amount
        BY <3>1
      <3> HIDE DEF y, R
      <3> QED
        BY <3>2, <3>3, <3>4
    <2> QED
      BY <2>2, <2>3
  <1> HIDE DEF P
  <1>2. \A T \in SUBSET S : T \in P
    BY <1>1, SubsetInduction
  <1> QED
    BY <1>2 DEF P

\* Part of the budgets is not more than all of them.
LEMMA SumPart ==
    ASSUME NEW B, NEW S, IsFiniteSet(S), \A k \in S : B[k].amount \in Nat, NEW T \in SUBSET S
    PROVE  Sum(B, T) <= Sum(B, S)
  <1> DEFINE P == {U \in SUBSET S : T \subseteq U => Sum(B, T) <= Sum(B, U)}
  <1>1. ASSUME NEW U \in SUBSET S, \A V \in SUBSET U : V # U => V \in P
        PROVE  U \in P
    <2> SUFFICES ASSUME T \subseteq U PROVE Sum(B, T) <= Sum(B, U)
      OBVIOUS
    <2>1. Sum(B, T) \in Nat /\ Sum(B, U) \in Nat
      BY SumNat
    <2>2. ASSUME NEW x \in U \ T PROVE Sum(B, T) <= Sum(B, U)
      <3>1. U \ {x} \in P /\ T \subseteq U \ {x} /\ U \ {x} \in SUBSET S
        BY <1>1, <2>2
      <3>2. Sum(B, U) = B[x].amount + Sum(B, U \ {x})
        BY <2>2, SumTakes
      <3>3. B[x].amount \in Nat /\ Sum(B, U \ {x}) \in Nat
        BY <2>2, <3>1, SumNat
      <3> QED
        BY <2>1, <3>1, <3>2, <3>3
    <2>3. CASE U = T
      BY <2>1, <2>3
    <2> QED
      BY <2>2, <2>3
  <1> HIDE DEF P
  <1>2. \A U \in SUBSET S : U \in P
    BY <1>1, SubsetInduction
  <1> QED
    BY <1>2 DEF P

LEMMA SumSame ==
    ASSUME NEW B, NEW C, NEW S, IsFiniteSet(S),
           \A k \in S : B[k].amount \in Nat /\ B[k].amount = C[k].amount
    PROVE  Sum(B, S) = Sum(C, S)
  <1>1. \A k \in S : /\ C[k].amount \in Nat
                     /\ B[k].amount <= C[k].amount /\ C[k].amount <= B[k].amount
    OBVIOUS
  <1>2. S \in SUBSET S
    OBVIOUS
  <1>3. Sum(B, S) <= Sum(C, S)
    <2>1. \A T \in SUBSET S : Sum(B, T) <= Sum(C, T)
      BY <1>1, SumSmaller
    <2> QED
      BY <1>2, <2>1, Zenon
  <1>4. Sum(C, S) <= Sum(B, S)
    <2>1. \A T \in SUBSET S : Sum(C, T) <= Sum(B, T)
      BY <1>1, SumSmaller
    <2> QED
      BY <1>2, <2>1, Zenon
  <1>5. Sum(B, S) \in Nat
    BY <1>2, SumNat
  <1>6. Sum(C, S) \in Nat
    <2>1. \A T \in SUBSET S : Sum(C, T) \in Nat
      BY <1>1, SumNat
    <2> QED
      BY <1>2, <2>1, Zenon
  <1> QED
    BY <1>3, <1>4, <1>5, <1>6

LEMMA SumTakesOne ==
    ASSUME NEW B, NEW S, IsFiniteSet(S), \A k \in S : B[k].amount \in Nat, NEW x \in S
    PROVE  Sum(B, S) = B[x].amount + Sum(B, S \ {x})
  <1>1. ASSUME NEW T \in SUBSET S, NEW y \in T
        PROVE  Sum(B, T) = B[y].amount + Sum(B, T \ {y})
    BY SumTakes
  <1>2. S \in SUBSET S
    OBVIOUS
  <1> QED
    BY <1>1, <1>2, Zenon

LEMMA SumTakesTwo ==
    ASSUME NEW B, NEW S, IsFiniteSet(S), \A k \in S : B[k].amount \in Nat,
           NEW x \in S, NEW y \in S, x # y
    PROVE  Sum(B, S) = B[x].amount + (B[y].amount + Sum(B, S \ {x, y}))
  <1> DEFINE T == S \ {x}
  <1>1. Sum(B, S) = B[x].amount + Sum(B, T)
    BY SumTakesOne
  <1>2. IsFiniteSet(T) /\ y \in T /\ T \ {y} = S \ {x, y} /\ \A k \in T : B[k].amount \in Nat
    BY FS_Subset
  <1> HIDE DEF T
  <1>3. Sum(B, T) = B[y].amount + Sum(B, T \ {y})
    BY <1>2, SumTakesOne
  <1> QED
    BY <1>1, <1>2, <1>3

-----------------------------------------------------------------------------
(* What is allocated to accounts stays under the client's budget *)

Capped(B) ==
    \A i \in BudgetIds :
        B[i] # NoBudget /\ B[i].active /\ B[i].account = NoAccount =>
            Sum(B, OfAccounts(B, B[i].client, B[i].period)) <= B[i].amount

LEMMA OfAccountsType ==
    ASSUME NEW B \in Tables, NEW c, NEW p, IsFiniteSet(BudgetIds)
    PROVE  /\ OfAccounts(B, c, p) \in SUBSET BudgetIds
           /\ IsFiniteSet(OfAccounts(B, c, p))
           /\ \A k \in OfAccounts(B, c, p) : B[k] \in Budget(Nat) /\ B[k].amount \in Nat
  <1>1. OfAccounts(B, c, p) \in SUBSET BudgetIds
    BY DEF OfAccounts
  <1>2. IsFiniteSet(OfAccounts(B, c, p))
    BY <1>1, FS_Subset
  <1>3. \A k \in OfAccounts(B, c, p) : B[k] \in Budget(Nat)
    BY DEF OfAccounts, Tables
  <1> QED
    BY <1>1, <1>2, <1>3 DEF Budget

\* A row that is written within the limits keeps every limit, those of the
\* client's other budgets and its own.
LEMMA CappedPut ==
    ASSUME IsFiniteSet(BudgetIds), NEW B \in Tables, Capped(B), NEW id \in BudgetIds,
           NEW v \in Budget(Nat), v.active => WithinCaps(B, id, v)
    PROVE  Capped(Put(B, id, v))
  <1> DEFINE C == Put(B, id, v)
  <1>1. C \in Tables /\ C[id] = v /\ \A k \in BudgetIds \ {id} : C[k] = B[k]
    BY PutType
  <1>2. v.amount \in Nat
    BY DEF Budget
  <1> HIDE DEF C
  <1> SUFFICES ASSUME NEW i \in BudgetIds, C[i] # NoBudget, C[i].active, C[i].account = NoAccount
               PROVE  Sum(C, OfAccounts(C, C[i].client, C[i].period)) <= C[i].amount
    BY DEF C, Capped
  <1> DEFINE S == OfAccounts(C, C[i].client, C[i].period)
             R == S \ {id}
             O == OfAccounts(B, C[i].client, C[i].period)
  <1>3. IsFiniteSet(S) /\ \A k \in S : C[k].amount \in Nat
    BY <1>1, OfAccountsType
  <1>4. IsFiniteSet(R) /\ R \in SUBSET S
    BY <1>3, FS_Subset
  <1>5. R = O \ {id}
    BY <1>1 DEF OfAccounts
  <1>6. IsFiniteSet(O) /\ \A k \in O : B[k].amount \in Nat
    BY OfAccountsType
  <1>7. R \in SUBSET O /\ R \in SUBSET BudgetIds
    BY <1>5 DEF OfAccounts
  <1>8. Sum(C, R) = Sum(B, R)
    <2>1. \A k \in R : B[k].amount \in Nat /\ B[k].amount = C[k].amount
      BY <1>1, <1>6, <1>7
    <2> HIDE DEF R
    <2> QED
      BY <1>4, <2>1, SumSame
  <1>9. Sum(B, R) \in Nat /\ Sum(B, O) \in Nat /\ Sum(B, R) <= Sum(B, O)
    BY <1>6, <1>7, SumNat, SumPart
  <1>10. CASE i = id
    <2>1. id \notin S
      BY <1>1, <1>10 DEF OfAccounts
    <2>2. Sum(B, O \ {id}) <= v.amount
      BY <1>1, <1>10 DEF WithinCaps
    <2> QED
      BY <1>1, <1>5, <1>8, <1>10, <2>1, <2>2
  <1>11. CASE i # id /\ id \notin S
    <2>1. C[i] = B[i]
      BY <1>1, <1>11
    <2>2. Sum(B, O) <= B[i].amount
      BY <2>1 DEF Capped
    <2>3. S = R
      BY <1>11
    <2>4. B[i].amount \in Nat
      BY <2>1 DEF Tables, Budget
    <2> QED
      BY <1>8, <1>9, <2>1, <2>2, <2>3, <2>4
  <1>12. CASE i # id /\ id \in S
    <2>1. C[i] = B[i]
      BY <1>1, <1>12
    <2>2. v.active /\ v.client = B[i].client /\ v.account # NoAccount
          /\ Overlap(v.period, B[i].period)
      BY <1>1, <1>12, <2>1 DEF OfAccounts
    <2>3. i \in OfClient(B, v.client, v.period)
      BY <2>1, <2>2 DEF OfClient, Overlap
    <2>4. Sum(B, R) + v.amount <= B[i].amount
      BY <1>5, <2>1, <2>2, <2>3 DEF WithinCaps
    <2>5. Sum(C, S) = v.amount + Sum(C, R)
      <3> HIDE DEF S
      <3>1. Sum(C, S) = C[id].amount + Sum(C, S \ {id})
        BY <1>3, <1>12, SumTakesOne
      <3> QED
        BY <1>1, <3>1
    <2>6. B[i].amount \in Nat
      BY <2>1 DEF Tables, Budget
    <2> QED
      BY <1>2, <1>8, <1>9, <2>1, <2>4, <2>5, <2>6
  <1> QED
    BY <1>10, <1>11, <1>12

\* Less for an account leaves all limits kept.
LEMMA CappedLess ==
    ASSUME IsFiniteSet(BudgetIds), NEW B \in Tables, Capped(B), NEW id \in BudgetIds,
           B[id] \in Budget(Nat), B[id].account # NoAccount, NEW n \in Nat, n <= B[id].amount
    PROVE  Capped(Put(B, id, WithAmount(B[id], n)))
  <1> DEFINE v == WithAmount(B[id], n)
             C == Put(B, id, v)
  <1>1. /\ v \in Budget(Nat) /\ v.client = B[id].client /\ v.account = B[id].account
        /\ v.period = B[id].period /\ v.active = B[id].active /\ v.amount = n
    BY DEF Budget, WithAmount
  <1>2. C \in Tables /\ C[id] = v /\ \A k \in BudgetIds \ {id} : C[k] = B[k]
    BY <1>1, PutType
  <1>3. SameButAmounts(B, C)
    BY AmountChange
  <1> HIDE DEF C, v
  <1> SUFFICES ASSUME NEW i \in BudgetIds, C[i] # NoBudget, C[i].active, C[i].account = NoAccount
               PROVE  Sum(C, OfAccounts(C, C[i].client, C[i].period)) <= C[i].amount
    BY DEF C, v, Capped
  <1>4. i # id /\ C[i] = B[i]
    BY <1>1, <1>2
  <1> DEFINE S == OfAccounts(B, B[i].client, B[i].period)
  <1>5. OfAccounts(C, C[i].client, C[i].period) = S
    BY <1>3, <1>4, NullAssumption DEF OfAccounts, SameButAmounts
  <1>6. IsFiniteSet(S) /\ \A k \in S : B[k].amount \in Nat /\ C[k].amount \in Nat
    BY <1>2, <1>5, OfAccountsType
  <1>7. \A k \in S : C[k].amount <= B[k].amount
    BY <1>1, <1>2, <1>6 DEF OfAccounts
  <1> HIDE DEF S
  <1>8. Sum(C, S) <= Sum(B, S) /\ Sum(C, S) \in Nat /\ Sum(B, S) \in Nat
    BY <1>6, <1>7, SumSmaller, SumNat
  <1>9. Sum(B, S) <= B[i].amount /\ B[i].amount \in Nat
    BY <1>4 DEF S, Capped, Tables, Budget
  <1> QED
    BY <1>4, <1>5, <1>8, <1>9

\* A transfer takes from one budget and puts as much into another one of the
\* client, which is there or is opened, within the limits.
LEMMA TransferPuts ==
    ASSUME TypeOK, NEW id \in BudgetIds, NEW a \in Accounts, NEW n \in 1 .. MaxAmount,
           Transfer(id, a, n)
    PROVE  /\ budget[id] \in Budget(Nat) /\ budget[id].active /\ budget[id].account # NoAccount
           /\ n <= budget[id].amount /\ n \in Nat /\ budget[id].amount - n \in Nat
           /\ \E k \in BudgetIds \ {id}, v \in Budget(Nat) :
                /\ WithinCaps(Put(budget, id, WithAmount(budget[id], budget[id].amount - n)), k, v)
                /\ budget' = Put(Put(budget, id, WithAmount(budget[id], budget[id].amount - n)), k, v)
                /\ v.active /\ v.account = a /\ v.client = budget[id].client
                /\ \/ budget[k] = NoBudget /\ v.amount = n
                   \/ /\ budget[k] \in Budget(Nat) /\ v.amount = budget[k].amount + n
                      /\ budget[k].active /\ budget[k].account = a
                      /\ budget[k].client = budget[id].client
  <1> DEFINE s == budget[id]
             B == Put(budget, id, WithAmount(s, s.amount - n))
  <1>1. s \in Budget(Nat) /\ n <= s.amount /\ budget \in Tables
        /\ s.active /\ s.account # NoAccount /\ s.account # a
    BY DEF Transfer, Exists, TypeOK, Tables
  <1>2. n \in Nat /\ s.amount \in Nat /\ s.amount - n \in Nat
    BY <1>1, BoundAssumption DEF Budget
  <1>3. B \in Tables /\ B[id] = WithAmount(s, s.amount - n) /\ \A k \in BudgetIds \ {id} : B[k] = budget[k]
    <2>1. WithAmount(s, s.amount - n) \in Budget(Nat)
      BY <1>1, <1>2 DEF WithAmount, Budget
    <2> QED
      BY <1>1, <2>1, PutType
  <1>4. B[id].account = s.account
    BY <1>1, <1>3 DEF WithAmount, Budget
  <1>5. Credit(B, s, a, n)
    BY DEF Transfer, Put, WithAmount
  <1>6. a # NoAccount
    BY ScopeAssumption
  <1> DEFINE Wanted == \E k \in BudgetIds \ {id}, v \in Budget(Nat) :
                /\ WithinCaps(B, k, v)
                /\ budget' = Put(B, k, v)
                /\ v.active /\ v.account = a /\ v.client = s.client
                /\ \/ budget[k] = NoBudget /\ v.amount = n
                   \/ /\ budget[k] \in Budget(Nat) /\ v.amount = budget[k].amount + n
                      /\ budget[k].active /\ budget[k].account = a
                      /\ budget[k].client = s.client
  <1> HIDE DEF B, s
  <1>7. ASSUME NEW k \in OfAccounts(B, s.client, s.period), B[k].account = a,
               WithinCaps(B, k, WithAmount(B[k], B[k].amount + n)),
               budget' = Put(B, k, WithAmount(B[k], B[k].amount + n))
        PROVE  Wanted
    <2>1. k \in BudgetIds /\ B[k] \in Budget(Nat) /\ B[k].active /\ B[k].client = s.client
      BY <1>3 DEF OfAccounts, Tables
    <2>2. k # id /\ B[k] = budget[k]
      BY <1>1, <1>3, <1>4, <1>7, <2>1
    <2> DEFINE v == WithAmount(B[k], B[k].amount + n)
    <2>3. v \in Budget(Nat) /\ v.active /\ v.account = a /\ v.client = s.client
          /\ v.amount = B[k].amount + n
      <3>1. B[k].amount + n \in Nat
        BY <1>2, <2>1 DEF Budget
      <3> QED
        BY <1>7, <2>1, <3>1 DEF WithAmount, Budget
    <2> HIDE DEF v
    <2>4. WithinCaps(B, k, v) /\ budget' = Put(B, k, v)
      BY <1>7 DEF v
    <2> QED
      BY <1>7, <2>1, <2>2, <2>3, <2>4
  <1>8. ASSUME NEW k \in Unused, Acceptable(B, k, WithAmount(WithAccount(s, a), n)),
               budget' = Put(B, k, WithAmount(WithAccount(s, a), n))
        PROVE  Wanted
    <2> DEFINE v == WithAmount(WithAccount(s, a), n)
    <2>1. v \in Budget(Nat) /\ v.account = a /\ v.client = s.client /\ v.active /\ v.amount = n
      BY <1>1, <1>2 DEF Budget, WithAmount, WithAccount
    <2>2. k \in BudgetIds \ {id} /\ budget[k] = NoBudget
      BY <1>1, NullAssumption DEF Unused, Exists, s
    <2> HIDE DEF v
    <2>3. WithinCaps(B, k, v) /\ budget' = Put(B, k, v)
      BY <1>8, <2>1 DEF v, Acceptable
    <2> QED
      BY <2>1, <2>2, <2>3
  <1>9. Wanted
    BY <1>5, <1>7, <1>8 DEF Credit, Put, WithAmount, WithAccount
  <1> QED
    BY <1>1, <1>2, <1>9 DEF B, s

LEMMA CappedStep ==
    ASSUME IsFiniteSet(BudgetIds), WellTyped, Capped(budget), [Next]_vars
    PROVE  Capped(budget')
  <1>1. TypeOK /\ budget \in Tables
    BY DEF WellTyped, TypeOK, Tables
  <1>2. ASSUME NEW id \in BudgetIds, NEW v \in Budget(Nat), Acceptable(budget, id, v),
               budget' = Put(budget, id, v)
        PROVE  Capped(budget')
    BY <1>1, <1>2, CappedPut DEF Acceptable
  <1>3. ASSUME NEW id \in BudgetIds, NEW a \in Accounts, NEW n \in 1 .. MaxAmount,
               Transfer(id, a, n)
        PROVE  Capped(budget')
    <2> DEFINE B == Put(budget, id, WithAmount(budget[id], budget[id].amount - n))
    <2>1. PICK k \in BudgetIds, v \in Budget(Nat) : WithinCaps(B, k, v) /\ budget' = Put(B, k, v)
      BY <1>1, <1>3, TransferPuts
    <2>2. /\ budget[id] \in Budget(Nat) /\ budget[id].account # NoAccount
          /\ budget[id].amount - n \in Nat /\ n \in Nat /\ budget[id].amount \in Nat
      BY <1>1, <1>3, TransferPuts DEF Budget
    <2>3. budget[id].amount - n <= budget[id].amount
      BY <2>2
    <2>4. B \in Tables /\ Capped(B)
      BY <1>1, <2>2, <2>3, CappedLess, AmountChange
    <2> HIDE DEF B
    <2> QED
      BY <2>1, <2>4, CappedPut
  <1> QED
    BY <1>1, <1>2, <1>3, BudgetStep

\* A client's active budget covers what is allocated to the client's accounts
\* over any period they share, however many calls overtake each other between
\* their checks and the store.  (_assert_client_account_allocation_limit)
THEOREM CapsHold ==
    ASSUME IsFiniteSet(BudgetIds)
    PROVE  Spec => []CapRespected
  <1>1. Init => Capped(budget)
    BY DEF Init, Capped
  <1>2. WellTyped /\ Capped(budget) /\ [Next]_vars => Capped(budget')
    BY CappedStep
  <1>3. Capped(budget) <=> CapRespected
    BY DEF Capped, CapRespected, Exists
  <1>4. Capped(budget') <=> CapRespected'
    BY DEF Capped, CapRespected, Exists
  <1>5. WellTyped /\ CapRespected /\ [Next]_vars => CapRespected'
    BY <1>2, <1>3, <1>4
  <1>6. Init => CapRespected
    BY <1>1, <1>3
  <1> QED
    BY InitType, WellTypedStep, <1>5, <1>6, PTL DEF Spec

-----------------------------------------------------------------------------
(* A transfer conserves what the accounts of a client have *)

Whole == [from |-> 1, to |-> LastDay]

Allocated(B, c) == Sum(B, OfAccounts(B, c, Whole))

LEMMA TransferStep ==
    ASSUME IsFiniteSet(BudgetIds), TypeOK, NEW id \in BudgetIds, NEW a \in Accounts,
           NEW n \in 1 .. MaxAmount, Transfer(id, a, n), NEW c \in Clients
    PROVE  Allocated(budget, c) = Allocated(budget', c)
  <1> DEFINE s == budget[id]
             w == WithAmount(s, s.amount - n)
             B == Put(budget, id, w)
  <1>1. PICK k \in BudgetIds \ {id}, v \in Budget(Nat) :
          /\ budget' = Put(B, k, v)
          /\ v.active /\ v.account = a /\ v.client = s.client
          /\ \/ budget[k] = NoBudget /\ v.amount = n
             \/ /\ budget[k] \in Budget(Nat) /\ v.amount = budget[k].amount + n
                /\ budget[k].active /\ budget[k].account = a
                /\ budget[k].client = s.client
    BY TransferPuts
  <1>2. /\ s \in Budget(Nat) /\ s.active /\ s.account # NoAccount
        /\ n \in Nat /\ s.amount - n \in Nat /\ s.amount \in Nat
    BY TransferPuts DEF Budget
  <1>3. w \in Budget(Nat) /\ w.client = s.client /\ w.account = s.account /\ w.period = s.period
        /\ w.active = s.active /\ w.amount = s.amount - n
    BY <1>2 DEF WithAmount, Budget
  <1> HIDE DEF s, w
  <1>4. budget \in Tables /\ B \in Tables /\ B[id] = w /\ \A i \in BudgetIds \ {id} : B[i] = budget[i]
    BY <1>3, PutType DEF TypeOK, Tables
  <1>5. budget' \in Tables /\ budget'[id] = w /\ budget'[k] = v
        /\ \A i \in BudgetIds \ {id, k} : budget'[i] = budget[i]
    <2> HIDE DEF B
    <2> QED
      BY <1>1, <1>4, PutType
  <1>6. a # NoAccount /\ id # k
    BY <1>1, ScopeAssumption
  \* Every period lies within the whole.
  <1>7. ASSUME NEW b \in Budget(Nat) PROVE Overlap(b.period, Whole)
    BY BoundAssumption DEF Budget, Periods, Overlap, Whole
  <1> DEFINE S == OfAccounts(budget, c, Whole)
             T == OfAccounts(budget', c, Whole)
             R == S \ {id, k}
  <1>8. /\ IsFiniteSet(S) /\ \A i \in S : budget[i].amount \in Nat
        /\ IsFiniteSet(T) /\ \A i \in T : budget'[i].amount \in Nat
    BY <1>4, <1>5, OfAccountsType
  <1>9. R = T \ {id, k}
    BY <1>5 DEF OfAccounts
  <1>10. R \in SUBSET S /\ R \in SUBSET T /\ R \in SUBSET BudgetIds
    BY <1>9 DEF OfAccounts
  <1>11. Sum(budget, R) = Sum(budget', R) /\ Sum(budget, R) \in Nat
    <2>1. IsFiniteSet(R)
      BY <1>8, <1>10, FS_Subset
    <2>2. \A i \in R : budget[i].amount \in Nat /\ budget[i].amount = budget'[i].amount
      BY <1>5, <1>8, <1>10
    <2>3. Sum(budget, R) \in Nat
      BY <1>8, <1>10, SumNat
    <2> HIDE DEF R
    <2> QED
      BY <2>1, <2>2, <2>3, SumSame
  <1>12. CASE c # s.client
    <2>1. id \notin S /\ id \notin T /\ k \notin T /\ k \notin S
      BY <1>1, <1>3, <1>5, <1>12, NullAssumption DEF OfAccounts, s
    <2>2. S = R /\ T = R
      BY <1>9, <2>1
    <2> QED
      BY <1>11, <2>2 DEF Allocated
  <1>13. CASE c = s.client
    <2>1. id \in S /\ budget[id] = s
      BY <1>2, <1>7, <1>13, NullAssumption DEF OfAccounts, s
    <2>2. id \in T
      BY <1>2, <1>3, <1>5, <1>7, <1>13, NullAssumption DEF OfAccounts
    <2>3. k \in T
      BY <1>1, <1>5, <1>6, <1>7, <1>13, NullAssumption DEF OfAccounts
    <2>4. Sum(budget', T) = (s.amount - n) + (v.amount + Sum(budget', R))
      <3>1. Sum(budget', T) = budget'[id].amount + (budget'[k].amount + Sum(budget', T \ {id, k}))
        <4> HIDE DEF T
        <4> QED
          BY <1>6, <1>8, <2>2, <2>3, SumTakesTwo
      <3> QED
        BY <1>3, <1>5, <1>9, <3>1
    <2> DEFINE whole  == Sum(budget, S)
               after  == Sum(budget', T)
               others == Sum(budget, R)
    <2>5. others \in Nat /\ after = (s.amount - n) + (v.amount + others)
      BY <1>11, <2>4
    <2>6. CASE budget[k] = NoBudget /\ v.amount = n
      <3>1. S \ {id} = R
        BY <2>6 DEF OfAccounts
      <3>2. Sum(budget, S) = s.amount + Sum(budget, S \ {id})
        <4> HIDE DEF S
        <4> QED
          BY <1>8, <2>1, SumTakesOne
      <3>3. whole = s.amount + others
        BY <3>1, <3>2
      <3> HIDE DEF whole, after, others
      <3>4. whole = after
        BY <1>2, <2>5, <2>6, <3>3
      <3> QED
        BY <3>4 DEF Allocated, whole, after
    <2>7. CASE /\ budget[k] \in Budget(Nat) /\ v.amount = budget[k].amount + n
               /\ budget[k].active /\ budget[k].account = a /\ budget[k].client = s.client
      <3>1. k \in S
        BY <1>6, <1>7, <1>13, <2>7, NullAssumption DEF OfAccounts
      <3>2. Sum(budget, S) = s.amount + (budget[k].amount + Sum(budget, R))
        <4>1. Sum(budget, S) = budget[id].amount + (budget[k].amount + Sum(budget, S \ {id, k}))
          <5> HIDE DEF S
          <5> QED
            BY <1>6, <1>8, <2>1, <3>1, SumTakesTwo
        <4> QED
          BY <2>1, <4>1
      <3>3. budget[k].amount \in Nat
        BY <2>7 DEF Budget
      <3>4. whole = s.amount + (budget[k].amount + others)
        BY <3>2
      <3> HIDE DEF whole, after, others
      <3>5. whole = after
        BY <1>2, <2>5, <2>7, <3>3, <3>4
      <3> QED
        BY <3>5 DEF Allocated, whole, after
    <2> QED
      BY <1>1, <2>6, <2>7
  <1> QED
    BY <1>12, <1>13

\* A transfer is the only step that changes more than one budget.
LEMMA ChangeOfMany ==
    ASSUME WellTyped, [Next]_vars,
           Cardinality({i \in BudgetIds : budget'[i] # budget[i]}) > 1
    PROVE  \E id \in BudgetIds, a \in Accounts, n \in 1 .. MaxAmount : Transfer(id, a, n)
  <1> DEFINE D == {i \in BudgetIds : budget'[i] # budget[i]}
  <1>1. CASE UNCHANGED budget
    <2>1. D = {}
      BY <1>1
    <2> QED
      BY <2>1, FS_EmptySet
  <1>2. ASSUME NEW id \in BudgetIds, NEW v \in Budget(Nat), budget' = Put(budget, id, v)
        PROVE  FALSE
    <2>1. D \in SUBSET {id}
      BY <1>2, PutType DEF WellTyped, TypeOK, Tables
    <2>2. IsFiniteSet({id}) /\ Cardinality({id}) = 1
      BY FS_Singleton
    <2> HIDE DEF D
    <2>3. Cardinality(D) <= 1 /\ Cardinality(D) \in Nat
      BY <2>1, <2>2, FS_Subset, FS_CardinalityType
    <2> QED
      BY <2>3 DEF D
  <1> QED
    BY <1>1, <1>2, BudgetStep

\* Whenever two budgets change at once, what is allocated to the accounts of each
\* client stays the same: no transfer loses or makes money.  (transfer)
THEOREM TransfersConserve ==
    ASSUME IsFiniteSet(BudgetIds)
    PROVE  Spec => TransferConserves
  <1> DEFINE Conserves ==
               Cardinality({i \in BudgetIds : budget'[i] # budget[i]}) > 1 =>
                 \A c \in Clients :
                   LET whole == [from |-> 1, to |-> LastDay] IN
                   Sum(budget, OfAccounts(budget, c, whole))
                       = Sum(budget', OfAccounts(budget', c, whole))
  <1>1. WellTyped /\ [Next]_vars => Conserves
    <2> SUFFICES ASSUME WellTyped, [Next]_vars,
                        Cardinality({i \in BudgetIds : budget'[i] # budget[i]}) > 1,
                        NEW c \in Clients
                 PROVE  Allocated(budget, c) = Allocated(budget', c)
      BY DEF Allocated, Whole
    <2> QED
      BY ChangeOfMany, TransferStep DEF WellTyped
  <1> QED
    BY InitType, WellTypedStep, <1>1, PTL DEF Spec, TransferConserves

-----------------------------------------------------------------------------
(* Budgets of what is live *)

\* Nobody is between the checks and the store of a creation or a patch.
StoresAtOnce == \A h \in Handlers : Doing(h) \in {"idle", "account"}

\* What a step leaves of the handlers: one may have begun a patch of an account.
LEMMA StoresAtOnceStep ==
    ASSUME "create" \notin Racing, "patch" \notin Racing, WellTyped, StoresAtOnce, [Next]_vars
    PROVE  StoresAtOnce'
  <1> TypeOK
    BY DEF WellTyped
  <1>1. \/ UNCHANGED local
        \/ \E h \in Handlers : Remember(h, Idle)
        \/ \E h \in Handlers, a \in Accounts, p \in AccountPatches : StartPatchAccount(h, a, p)
    BY DEF Next, vars, SetClientStatus, ArchiveAccount, PatchAccount, CreateBudget, ArchiveBudget,
         PatchBudget, Transfer, StartCreate, StartPatch, FinishPatchAccount, FinishCreate,
         FinishPatch
  <1>2. ASSUME NEW h \in Handlers, NEW r, Remember(h, r), r = Idle \/ r.op = "account"
        PROVE  StoresAtOnce'
    <2>1. \A g \in Handlers : local'[g] = local[g] \/ local'[g] = r
      BY <1>2 DEF Remember, TypeOK
    <2> QED
      BY <1>2, <2>1 DEF StoresAtOnce, Doing
  <1>3. ASSUME NEW h \in Handlers, NEW a \in Accounts, NEW p \in AccountPatches,
               StartPatchAccount(h, a, p)
        PROVE  StoresAtOnce'
    BY <1>2, <1>3 DEF StartPatchAccount
  <1>4. CASE UNCHANGED local
    BY <1>4 DEF StoresAtOnce, Doing
  <1> QED
    BY <1>1, <1>2, <1>3, <1>4

\* A row of an active client, on an active account where it has one.
Live(v) == v.client \in live /\ (v.account # NoAccount => account[v.account].active)

\* The checks of a patch are about the account of the merged row, whether the
\* payload or the row names it.
LEMMA PatchLive ==
    ASSUME NEW was \in Budget(Nat), NEW p \in BudgetPatches, PatchChecks(was, p),
           Merged(was, p).active
    PROVE  Live(Merged(was, p))
  <1> DEFINE v == Merged(was, p)
  <1>1. v.client \in live
    BY DEF PatchChecks
  <1>2. /\ p.account \in Accounts \cup {NoAccount, Keep}
        /\ was.account \in Accounts \cup {NoAccount}
    BY DEF BudgetPatches, Budget
  <1>3. v.account = Given(p.account, was.account)
    BY DEF Merged
  <1>4. ASSUME v.account # NoAccount
        PROVE  v.account = IF p.account \in Accounts THEN p.account ELSE was.account
    BY <1>2, <1>3, <1>4, PatchAssumption DEF Given
  <1>5. ASSUME v.account # NoAccount
        PROVE  account[v.account].active
    <2> DEFINE a == IF p.account \in Accounts THEN p.account ELSE was.account
    <2>1. a # NoAccount => (v.active => account[a].active)
      BY DEF PatchChecks
    <2>2. v.account = a
      BY <1>4, <1>5
    <2> HIDE DEF a, v
    <2>3. v.active
      BY DEF v
    <2> QED
      BY <1>5, <2>1, <2>2, <2>3
  <1> QED
    BY <1>1, <1>5 DEF Live

LEMMA PutLive ==
    ASSUME NEW B \in Tables, NEW k \in BudgetIds, NEW v \in Budget(Nat), v.active => Live(v),
           budget' = Put(B, k, v),
           \A i \in BudgetIds : B[i] # budget[i] /\ B[i] # NoBudget /\ B[i].active => Live(B[i])
    PROVE  KeepsToLiveAccounts
  <1>1. budget'[k] = v /\ \A i \in BudgetIds \ {k} : budget'[i] = B[i]
    BY PutType
  <1> QED
    BY <1>1 DEF KeepsToLiveAccounts, Live

LEMMA LiveStep ==
    ASSUME WellTyped, StoresAtOnce, [Next]_vars
    PROVE  KeepsToLiveAccounts
  <1>1. TypeOK /\ budget \in Tables
    BY DEF WellTyped, TypeOK, Tables
  <1>2. ASSUME NEW k \in BudgetIds, NEW v \in Budget(Nat), v.active => Live(v),
               budget' = Put(budget, k, v)
        PROVE  KeepsToLiveAccounts
    BY <1>1, <1>2, PutLive
  <1>3. ASSUME NEW v \in NewBudgets, CreateBudget(v)
        PROVE  KeepsToLiveAccounts
    <2>1. Live(v)
      BY <1>3 DEF CreateBudget, CreateChecks, Live
    <2>2. PICK k \in BudgetIds : budget' = Put(budget, k, v)
      BY <1>3 DEF CreateBudget, StoreNew, Unused, Put
    <2> QED
      BY <1>2, <2>1, <2>2, NewBudgetsType
  <1>4. ASSUME NEW id \in BudgetIds, ArchiveBudget(id)
        PROVE  KeepsToLiveAccounts
    <2> DEFINE v == [budget[id] EXCEPT !.active = FALSE]
    <2>1. v \in Budget(Nat) /\ ~v.active
      BY <1>1, <1>4 DEF ArchiveBudget, Exists, TypeOK, Budget
    <2>2. budget' = Put(budget, id, v)
      BY <1>4 DEF ArchiveBudget, Put
    <2> HIDE DEF v
    <2> QED
      BY <1>2, <2>1, <2>2
  <1>5. ASSUME NEW id \in BudgetIds, NEW p \in BudgetPatches, PatchBudget(id, p)
        PROVE  KeepsToLiveAccounts
    <2>1. budget[id] \in Budget(Nat)
      BY <1>1, <1>5 DEF PatchBudget, Exists, TypeOK
    <2>2. Merged(budget[id], p) \in Budget(Nat)
      BY <2>1, MergedType
    <2>3. Merged(budget[id], p).active => Live(Merged(budget[id], p))
      BY <1>5, <2>1, PatchLive DEF PatchBudget
    <2>4. budget' = Put(budget, id, Merged(budget[id], p))
      BY <1>5 DEF PatchBudget, StorePatch, Put
    <2> QED
      BY <1>2, <2>2, <2>3, <2>4
  <1>6. ASSUME NEW id \in BudgetIds, NEW a \in Accounts, NEW n \in 1 .. MaxAmount,
               Transfer(id, a, n)
        PROVE  KeepsToLiveAccounts
    <2> DEFINE s == budget[id]
               w == WithAmount(s, s.amount - n)
    <2>1. /\ s.client \in live
          /\ account[s.account] = [client |-> s.client, active |-> TRUE]
          /\ account[a] = [client |-> s.client, active |-> TRUE]
      BY <1>6 DEF Transfer
    <2>2. PICK k \in BudgetIds \ {id}, v \in Budget(Nat) :
            /\ budget' = Put(Put(budget, id, w), k, v)
            /\ v.account = a /\ v.client = s.client
      BY <1>1, <1>6, TransferPuts
    <2>3. Live(v)
      BY <2>1, <2>2 DEF Live
    <2>4. w \in Budget(Nat) /\ w.account = s.account /\ w.client = s.client
      BY <1>1, <1>6, TransferPuts DEF WithAmount, Budget
    <2>5. Live(w)
      BY <2>1, <2>4 DEF Live
    <2> HIDE DEF w
    <2>6. /\ Put(budget, id, w) \in Tables
          /\ Put(budget, id, w)[id] = w
          /\ \A i \in BudgetIds \ {id} : Put(budget, id, w)[i] = budget[i]
      BY <1>1, <2>4, PutType
    <2> QED
      BY <2>2, <2>3, <2>5, <2>6, PutLive
  <1>7. ASSUME NEW h \in Handlers
        PROVE  ~FinishCreate(h) /\ ~FinishPatch(h)
    BY DEF StoresAtOnce, FinishCreate, FinishPatch
  <1>8. CASE UNCHANGED budget
    BY <1>8 DEF KeepsToLiveAccounts
  <1> QED
    BY <1>3, <1>4, <1>5, <1>6, <1>7, <1>8
       DEF Next, vars, tables, SetClientStatus, ArchiveAccount, PatchAccount, StartPatchAccount,
           StartCreate, StartPatch, FinishPatchAccount

\* As long as no creation and no patch of a budget is overtaken between its
\* checks and the store, a budget that is active after a call that changed it had
\* an active account and client: a reactivation and either side of a transfer
\* included, and whatever happens to patches of accounts.
THEOREM LiveAccountsOnly ==
    ASSUME "create" \notin Racing, "patch" \notin Racing
    PROVE  Spec => OnlyLiveAccountsAreBudgeted
  <1>1. Init => StoresAtOnce
    BY DEF Init, StoresAtOnce, Doing
  <1>2. WellTyped /\ StoresAtOnce /\ [Next]_vars => StoresAtOnce'
    BY StoresAtOnceStep
  <1>3. WellTyped /\ StoresAtOnce /\ [Next]_vars => KeepsToLiveAccounts
    BY LiveStep
  <1>4. WellTyped /\ StoresAtOnce /\ [Next]_vars => [KeepsToLiveAccounts]_vars
    BY <1>3
  <1> QED
    BY InitType, WellTypedStep, <1>1, <1>2, <1>4, PTL DEF Spec, OnlyLiveAccountsAreBudgeted
\* The same for calls that follow one another beside histories in which they do not: where
\* the first state chose "calls", no call is ever under way.
\* (main.py, the budget routes; services/budgets.py)
THEOREM CallsKeepLive ==
    ASSUME MaxAmount # 0
    PROVE  MCSpec => CallsKeepToLiveAccounts
  <1> DEFINE Rested == WellTyped /\ \A h \in Handlers : Doing(h) = "idle"
  <1>1. Init => Rested
    BY InitType DEF Init, Doing
  <1>2. focus = "calls" /\ [MCNext]_<<vars, focus>> => [Next]_vars /\ UNCHANGED local
    <2> SUFFICES ASSUME focus = "calls", Calls
                 PROVE  Next /\ UNCHANGED local
      BY DEF MCNext, vars
    <2>1. 1 \in 1 .. MaxAmount
      BY BoundAssumption
    <2> QED
      BY <2>1 DEF Calls, Archiving, Next, SetClientStatus, ArchiveAccount, PatchAccount, CreateBudget,
                  ArchiveBudget, PatchBudget, Transfer
  <1>3. Rested /\ focus = "calls" /\ [MCNext]_<<vars, focus>> => Rested'
    BY <1>2, WellTypedStep DEF Doing
  <1>4. Rested /\ focus = "calls" /\ [MCNext]_<<vars, focus>>
        => [(focus = "calls") => KeepsToLiveAccounts]_vars
    <2>1. Rested => StoresAtOnce
      BY DEF StoresAtOnce
    <2> QED
      BY <1>2, <2>1, LiveStep
  <1>5. [MCNext]_<<vars, focus>> => ((focus = "calls")' <=> focus = "calls")
    BY DEF MCNext
  <1>6. ~(focus = "calls") => [(focus = "calls") => KeepsToLiveAccounts]_vars
    OBVIOUS
  <1>7. MCInit => Init
    BY DEF MCInit
  <1> HIDE DEF Rested
  <1> QED
    BY <1>1, <1>3, <1>4, <1>5, <1>6, <1>7, PTL DEF MCSpec, CallsKeepToLiveAccounts
=============================================================================
