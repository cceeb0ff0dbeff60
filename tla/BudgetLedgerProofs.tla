------------------------ MODULE BudgetLedgerProofs ------------------------
(***************************************************************************)
(* Safety of BudgetLedger for every set of processes, commands, previews,  *)
(* keys, targets and values, with leases that may lapse and processes that *)
(* may crash; the ledger as an implementation of LedgerPromise; and what   *)
(* holds besides in histories spared one of the two hazards.               *)
(***************************************************************************)
EXTENDS BudgetLedgerInvariant, SequenceTheorems, TLAPS

LEMMA InitIInv == Init => IInv
<1> SUFFICES ASSUME Init PROVE IInv
  OBVIOUS
<1> USE DEF Init
<1> DEFINE allNone == [n \in 1..MaxAttempts |-> "none"]
<1>1. ProviderTypeOK
  BY DEF ProviderTypeOK, PostState
<1>2. allNone \in [1..MaxAttempts -> Outcomes \cup {"none"}]
  OBVIOUS
<1>3. LedgerTypeOK
  BY <1>2, BoundAssumption DEF LedgerTypeOK, Created, Statuses
<1>4. LockTypeOK /\ ProcTypeOK
  BY BoundAssumption DEF LockTypeOK, ProcTypeOK, Labels
<1>5. CountInv /\ HandlerInv /\ FenceInv /\ UniqueConfirmation
  BY DEF CountInv, HandlerInv, FenceInv, UniqueConfirmation, Outcomes, Terminal,
         Executing, Reconciling, Writing, Created
<1>6. AttemptsLedger
  BY BoundAssumption DEF AttemptsLedger, AttemptFree, Outcomes, Terminal
<1>7. PostInv /\ HandlerPostInv /\ SettledOutcome /\ QuarantineOwnerUnknown
  BY DEF PostInv, HandlerPostInv, SettledOutcome, QuarantineOwnerUnknown, Created,
         Reconciling
<1> QED
  BY <1>1, <1>3, <1>4, <1>5, <1>6, <1>7 DEF IInv, TypeOK

-----------------------------------------------------------------------------
(* Type correctness *)

\* The five ways a handler moves keep the types of its locals, as long as no
\* created command disappears.
LEMMA MoveType ==
    ASSUME TypeOK, Created \subseteq Created', apiUp' \in BOOLEAN, NEW p \in Procs
    PROVE  /\ \A label \in Labels \ {"concluded", "r_read", "r_begun"} :
                 pc[p] # "idle" /\ GoTo(p, label) => ProcTypeOK'
           /\ \A label \in Labels \ {"r_begun"}, o \in Outcomes :
                 /\ pc[p] # "idle"
                 /\ label = "r_read" => pc[p] = "r_begun"
                 /\ Conclude(p, label, o)
                 => ProcTypeOK'
           /\ \A c \in Created', f \in BOOLEAN,
                 label \in {"submitted", "r_checked"} :
                 TakeUp(p, c, label, f) => ProcTypeOK'
           /\ pc[p] # "idle" /\ WindUp(p) => ProcTypeOK'
<1> USE DEF TypeOK, ProcTypeOK
<1>1. ASSUME NEW label \in Labels \ {"concluded", "r_read", "r_begun"},
             pc[p] # "idle", GoTo(p, label)
      PROVE  ProcTypeOK'
  BY <1>1 DEF GoTo
<1>2. ASSUME NEW label \in Labels \ {"r_begun"}, NEW o \in Outcomes,
             pc[p] # "idle", label = "r_read" => pc[p] = "r_begun",
             Conclude(p, label, o)
      PROVE  ProcTypeOK'
  BY <1>2 DEF Conclude, Outcomes, Terminal
<1>3. ASSUME NEW c \in Created', NEW f \in BOOLEAN,
             NEW label \in {"submitted", "r_checked"}, TakeUp(p, c, label, f)
      PROVE  ProcTypeOK'
  BY <1>3 DEF TakeUp, Created, Labels
<1>4. ASSUME pc[p] # "idle", WindUp(p)
      PROVE  ProcTypeOK'
  BY <1>4, BoundAssumption DEF WindUp, Labels, Holding
<1> QED
  BY <1>1, <1>2, <1>3, <1>4

LEMMA ForgetType ==
    ASSUME TypeOK, Created \subseteq Created', apiUp' \in BOOLEAN, NEW P, Forget(P)
    PROVE  ProcTypeOK'
<1> USE BoundAssumption DEF TypeOK, ProcTypeOK, Forget
<1>1. pc' \in [Procs -> Labels]
  BY DEF Labels
<1>2. /\ job' \in [Procs -> Commands \cup {NoCmd}]
      /\ out' \in [Procs -> Outcomes \cup {"none"}]
  <2>1. ASSUME NEW p \in Procs
        PROVE  /\ (IF p \in P THEN NoCmd ELSE job[p]) \in Commands \cup {NoCmd}
               /\ (IF p \in P THEN "none" ELSE out[p]) \in Outcomes \cup {"none"}
    BY Zenon
  <2> QED
    BY <2>1, Zenon
<1>3. base' \in [Procs -> 0..MaxAttempts] /\ finalize' \in [Procs -> BOOLEAN]
  <2>1. ASSUME NEW p \in Procs
        PROVE  (IF p \in P THEN 0 ELSE base[p]) \in 0..MaxAttempts
    OBVIOUS
  <2>2. ASSUME NEW p \in Procs
        PROVE  (IF p \in P THEN FALSE ELSE finalize[p]) \in BOOLEAN
    BY Zenon
  <2> QED
    BY <2>1, <2>2, Zenon
<1>4. ASSUME NEW p \in Procs
      PROVE  \/ p \in P /\ pc'[p] = "idle"
             \/ /\ pc'[p] = pc[p]
                /\ job'[p] = job[p]
                /\ out'[p] = out[p]
                /\ base'[p] = base[p]
  OBVIOUS
<1> QED
  BY <1>1, <1>2, <1>3, <1>4

\* Previews and Meta.
LEMMA EnvironmentType ==
    ASSUME IInv
    PROVE  /\ \A v \in Previews : IssuePreview(v) \/ ExpirePreview(v) => TypeOK'
           /\ \A v \in Previews, t \in Targets, a \in Values :
                 StartPreview(v, t, a) => TypeOK'
           /\ \A t \in Targets : LeaseExpires(t) => TypeOK'
           /\ \A t \in Targets, a \in Values : ExternalEdit(t, a) => TypeOK'
           /\ \A c \in Commands : Land(c) \/ Drop(c) \/ UnknownAges(c) => TypeOK'
<1> USE DEF TypeOK, IInv
<1>0. ASSUME UNCHANGED <<status, req>>
      PROVE  Created' = Created
  BY <1>0 DEF Created
<1>1. ASSUME NEW v \in Previews, IssuePreview(v)
      PROVE  TypeOK'
  <2> USE <1>1
  <2>1. preview[v] \in Preview /\ preview[v].state = "checked"
    BY DEF ProviderTypeOK, IssuePreview
  <2>2. value[preview[v].target] \in Values
    BY <2>1 DEF ProviderTypeOK, Preview
  <2>3. preview'[v] \in Preview
    BY <2>1, <2>2 DEF ProviderTypeOK, Preview, IssuePreview
  <2>4. ProviderTypeOK'
    BY <2>3 DEF ProviderTypeOK, IssuePreview, provider
  <2> QED
    BY <2>4, <1>0 DEF IssuePreview, ledger, local, LedgerTypeOK, LockTypeOK, ProcTypeOK
<1>2. ASSUME NEW v \in Previews, ExpirePreview(v)
      PROVE  TypeOK'
  <2> USE <1>2
  <2>1. preview[v] \in Preview /\ preview[v].state = "issued"
    BY DEF ProviderTypeOK, ExpirePreview
  <2>2. preview'[v] \in Preview
    BY <2>1 DEF ProviderTypeOK, Preview, ExpirePreview
  <2>3. ProviderTypeOK'
    BY <2>2 DEF ProviderTypeOK, ExpirePreview, provider
  <2> QED
    BY <2>3, <1>0 DEF ExpirePreview, ledger, local, LedgerTypeOK, LockTypeOK, ProcTypeOK
<1>3. ASSUME NEW v \in Previews, NEW t \in Targets, NEW a \in Values,
             StartPreview(v, t, a)
      PROVE  TypeOK'
  <2> USE <1>3
  <2>1. ProviderTypeOK'
    BY DEF ProviderTypeOK, Preview, StartPreview, provider
  <2> QED
    BY <2>1, <1>0 DEF StartPreview, ledger, local, LedgerTypeOK, LockTypeOK, ProcTypeOK
<1>4. ASSUME NEW t \in Targets, LeaseExpires(t)
      PROVE  TypeOK'
  <2> USE <1>4
  <2>1. lock[t] \in Lock
    BY DEF LockTypeOK, LeaseExpires, LeaseLive
  <2>2. LockTypeOK'
    BY <2>1 DEF LockTypeOK, Lock, LeaseExpires
  <2> QED
    BY <2>2, <1>0 DEF LeaseExpires, provider, ledger, local, ProviderTypeOK,
                      LedgerTypeOK, ProcTypeOK
<1>5. ASSUME NEW t \in Targets, NEW a \in Values, ExternalEdit(t, a)
      PROVE  TypeOK'
  BY <1>5, <1>0 DEF ExternalEdit, ledger, local, ProviderTypeOK, LedgerTypeOK,
                    LockTypeOK, ProcTypeOK
<1>6. ASSUME NEW c \in Commands, Land(c)
      PROVE  TypeOK'
  <2>1. req[c] \in Request
    BY <1>6 DEF Land, PostInv, LedgerTypeOK, Created
  <2> QED
    BY <1>6, <1>0, <2>1 DEF Land, ledger, local, ProviderTypeOK, PostState, LedgerTypeOK,
                            LockTypeOK, ProcTypeOK, Request
<1>7. ASSUME NEW c \in Commands, Drop(c)
      PROVE  TypeOK'
  BY <1>7, <1>0 DEF Drop, ledger, local, ProviderTypeOK, PostState, LedgerTypeOK,
                    LockTypeOK, ProcTypeOK
<1>8. ASSUME NEW c \in Commands, UnknownAges(c)
      PROVE  TypeOK'
  BY <1>8, <1>0 DEF UnknownAges, provider, local, ProviderTypeOK, LedgerTypeOK,
                    LockTypeOK, ProcTypeOK
<1> QED
  BY <1>1, <1>2, <1>3, <1>4, <1>5, <1>6, <1>7, <1>8

\* The command of a handler at work, and its target.
LEMMA JobType ==
    ASSUME TypeOK, NEW p \in Procs, pc[p] # "idle"
    PROVE  /\ job[p] \in Commands
           /\ job[p] \in Created
           /\ req[job[p]] \in Request
           /\ req[job[p]].target \in Targets
<1>1. job[p] \in Created /\ job[p] \in Commands
  BY DEF TypeOK, ProcTypeOK, Created
<1> QED
  BY <1>1 DEF TypeOK, LedgerTypeOK, Request

LEMMA ConfirmType ==
    ASSUME IInv, NEW p \in Procs, NEW v \in Previews, NEW k \in Keys, Confirm(p, v, k)
    PROVE  TypeOK'
<1> USE DEF IInv, TypeOK
<1> DEFINE r == RequestOf(v, k)
<1>1. preview[v] \in Preview /\ preview[v].state = "issued"
  BY DEF Confirm, ProviderTypeOK
<1>2. r \in Request
  BY <1>1 DEF RequestOf, Request, Preview
<1> HIDE DEF r
<1>3. CASE Replay(p, r)
  <2>1. UNCHANGED <<provider, preview, ledger, lock, quarantine, apiUp>> /\ Created' = Created
    BY <1>3 DEF Replay, Created, ledger
  <2>2. PICK c \in Created : TakeUp(p, c, "submitted", FALSE)
    BY <1>3 DEF Replay
  <2>3. ProcTypeOK'
    BY <2>1, <2>2, MoveType DEF ProcTypeOK
  <2> QED
    BY <2>1, <2>3 DEF provider, ledger, ProviderTypeOK, LedgerTypeOK, LockTypeOK
<1>4. CASE Create(p, r)
  <2>1. PICK c \in Commands \ Created :
          /\ req' = [req EXCEPT ![c] = r]
          /\ status' = [status EXCEPT ![c] = "queued"]
          /\ TakeUp(p, c, "submitted", FALSE)
    BY <1>4 DEF Create
  <2>2. UNCHANGED <<provider, preview, count, attempts, aged, lock, quarantine, apiUp>>
    BY <1>4 DEF Create
  <2>3. Created' = Created \cup {c}
    BY <2>1 DEF Created, LedgerTypeOK
  <2>4. LedgerTypeOK'
    BY <1>2, <2>1, <2>2, <2>3 DEF LedgerTypeOK, Statuses
  <2>5. ProcTypeOK'
    BY <2>1, <2>2, <2>3, MoveType DEF ProcTypeOK
  <2> QED
    BY <2>2, <2>4, <2>5 DEF provider, ProviderTypeOK, LockTypeOK
<1> QED
  BY <1>3, <1>4 DEF Confirm, r

\* Steps of a handler that touch neither the ledger nor the target tables.
LEMMA QuietStepType ==
    ASSUME IInv, NEW p \in Procs,
           PreflightFails(p) \/ ReadBefore(p) \/ FailBeforeWrite(p) \/ SendPost(p)
             \/ PostReturns(p) \/ ReadAfter(p) \/ BeginReconcile(p) \/ ReadForReconcile(p)
    PROVE  TypeOK'
<1> USE DEF IInv
<1>1. /\ UNCHANGED <<value, preview, ledger, lock, quarantine, apiUp>>
      /\ Created' = Created
      /\ pc[p] # "idle"
  BY DEF PreflightFails, ReadBefore, FailBeforeWrite, SendPost, PostReturns, ReadAfter,
         BeginReconcile, ReadForReconcile, provider, ledger, Created
<1>2. ProviderTypeOK'
  <2>1. CASE UNCHANGED provider
    BY <1>1, <2>1 DEF TypeOK, ProviderTypeOK, provider
  <2>2. CASE SendPost(p)
    BY <1>1, <2>2, JobType DEF SendPost, TypeOK, ProviderTypeOK, PostState
  <2> QED
    BY <2>1, <2>2 DEF PreflightFails, ReadBefore, FailBeforeWrite, PostReturns, ReadAfter,
                      BeginReconcile, ReadForReconcile
<1>3. ProcTypeOK'
  <2> USE <1>1, MoveType DEF Labels, Holding, Executing, Reconciling, Outcomes, Terminal
  <2>0. apiUp' \in BOOLEAN
    BY DEF TypeOK, ProcTypeOK
  <2>1. CASE PreflightFails(p)
    BY <2>0, <2>1 DEF PreflightFails
  <2>2. CASE ReadBefore(p)
    BY <2>0, <2>2 DEF ReadBefore
  <2>3. CASE FailBeforeWrite(p)
    BY <2>0, <2>3 DEF FailBeforeWrite
  <2>4. CASE SendPost(p)
    BY <2>0, <2>4 DEF SendPost
  <2>5. CASE PostReturns(p)
    BY <2>0, <2>5 DEF PostReturns
  <2>6. CASE ReadAfter(p)
    BY <2>0, <2>6 DEF ReadAfter
  <2>7. CASE BeginReconcile(p)
    <3>1. CASE WindUp(p)
      BY <2>0, <3>1
    <3>2. CASE /\ count[job[p]] < MaxAttempts
               /\ pc' = [pc EXCEPT ![p] = "r_begun"]
               /\ base' = [base EXCEPT ![p] = count[job[p]]]
               /\ UNCHANGED <<job, out, finalize>>
      BY <3>2, <1>1, JobType DEF TypeOK, ProcTypeOK, LedgerTypeOK
    <3> QED
      BY <2>7, <3>1, <3>2 DEF BeginReconcile
  <2>8. CASE ReadForReconcile(p)
    BY <2>0, <2>8 DEF ReadForReconcile
  <2> QED
    BY <2>1, <2>2, <2>3, <2>4, <2>5, <2>6, <2>7, <2>8
<1> QED
  BY <1>1, <1>2, <1>3 DEF TypeOK, ledger, LedgerTypeOK, LockTypeOK

\* Steps that write the lock row of the handler's target.
LEMMA LockStepType ==
    ASSUME IInv, NEW p \in Procs,
           AcquireLock(p) \/ ReconcileLock(p) \/ Renew(p) \/ Release(p)
    PROVE  TypeOK'
<1> USE DEF IInv
<1> DEFINE t == req[job[p]].target
<1>1. /\ UNCHANGED <<provider, preview, ledger, quarantine, apiUp>>
      /\ Created' = Created
      /\ pc[p] # "idle"
      /\ apiUp' \in BOOLEAN
  BY DEF AcquireLock, ReconcileLock, Renew, Release, ledger, Created, TypeOK, ProcTypeOK
<1>2. t \in Targets /\ job[p] \in Commands
  BY <1>1, JobType DEF TypeOK
<1>3. LockTypeOK'
  <2> USE <1>1, <1>2 DEF TypeOK, LockTypeOK
  <2>1. CASE UNCHANGED lock
    BY <2>1
  <2>2. CASE lock' = [lock EXCEPT ![t] = [cmd |-> job[p], holder |-> p, live |-> TRUE]]
    BY <2>2 DEF Lock
  <2>3. CASE Owns(p) /\ lock' = [lock EXCEPT ![t].live = TRUE]
    <3>1. lock[t] \in Lock
      BY <2>3 DEF Owns, Carries
    <3> QED
      BY <2>3, <3>1 DEF Lock
  <2>4. CASE lock' = [lock EXCEPT ![t] = NoLock]
    BY <2>4
  <2> QED
    BY <2>1, <2>2, <2>3, <2>4
       DEF AcquireLock, ReconcileLock, Acquire, Renew, CanRenew, Release
<1>4. ProcTypeOK'
  <2> USE <1>1, MoveType, ForgetType DEF Labels, Holding, Executing, Reconciling,
                                         Outcomes, Terminal
  <2>1. CASE AcquireLock(p)
    BY <2>1 DEF AcquireLock, Acquire
  <2>2. CASE ReconcileLock(p)
    BY <2>2 DEF ReconcileLock, Acquire
  <2>3. CASE Renew(p)
    BY <2>3 DEF Renew
  <2>4. CASE Release(p)
    BY <2>4 DEF Release
  <2> QED
    BY <2>1, <2>2, <2>3, <2>4
<1> QED
  BY <1>1, <1>3, <1>4 DEF TypeOK, provider, ledger, ProviderTypeOK, LedgerTypeOK

LEMMA AttemptsType ==
    ASSUME LedgerTypeOK, NEW c \in Commands, NEW n, NEW o \in Outcomes
    PROVE  [attempts EXCEPT ![c][n] = o]
             \in [Commands -> [1..MaxAttempts -> Outcomes \cup {"none"}]]
<1>1. [attempts[c] EXCEPT ![n] = o] \in [1..MaxAttempts -> Outcomes \cup {"none"}]
  BY DEF LedgerTypeOK
<1> QED
  BY <1>1 DEF LedgerTypeOK

LEMMA ClaimType ==
    ASSUME IInv, NEW p \in Procs, Claim(p)
    PROVE  TypeOK'
<1> USE DEF IInv
<1>1. /\ UNCHANGED <<provider, preview, req, attempts, aged, lock, quarantine, apiUp>>
      /\ pc[p] # "idle"
      /\ apiUp' \in BOOLEAN
  BY DEF Claim, TypeOK, ProcTypeOK
<1>2. Created' = Created
  BY JobType, <1>1 DEF Claim, CanClaim, Created, TypeOK, LedgerTypeOK
<1>3. LedgerTypeOK'
  <2>1. CASE CanClaim(job[p])
    <3>1. job[p] \in Commands /\ count[job[p]] = 0
      BY <1>1, <2>1, JobType DEF CanClaim, CountInv
    <3>2. /\ status' = [status EXCEPT ![job[p]] = "in_progress"]
          /\ count' = [count EXCEPT ![job[p]] = @ + 1]
      BY <2>1 DEF Claim
    <3>3. status' \in [Commands -> Statuses]
      BY <3>2 DEF TypeOK, LedgerTypeOK, Statuses
    <3>4. count' \in [Commands -> 0..MaxAttempts]
      BY <3>1, <3>2, BoundAssumption DEF TypeOK, LedgerTypeOK
    <3> QED
      BY <1>1, <1>2, <3>3, <3>4 DEF TypeOK, LedgerTypeOK
  <2>2. CASE ~CanClaim(job[p])
    BY <1>1, <1>2, <2>2 DEF Claim, TypeOK, LedgerTypeOK
  <2> QED
    BY <2>1, <2>2
<1>4. ProcTypeOK'
  BY <1>1, <1>2, MoveType DEF Claim, Labels, Holding, Executing
<1> QED
  BY <1>1, <1>3, <1>4 DEF TypeOK, provider, ProviderTypeOK, LockTypeOK

\* A quarantine row is written for a command of the ledger.
LEMMA QuarantineType ==
    ASSUME TypeOK, NEW c \in Commands
    PROVE  /\ WithQuarantine(c) \in [Targets -> Commands \cup {NoCmd}]
           /\ LiftQuarantine(c) \in [Targets -> Commands \cup {NoCmd}]
  BY DEF WithQuarantine, LiftQuarantine, TypeOK, LockTypeOK

LEMMA FinishType ==
    ASSUME IInv, NEW p \in Procs, Finish(p)
    PROVE  TypeOK'
<1> USE DEF IInv
<1> DEFINE c == job[p]
<1>1. /\ UNCHANGED <<provider, preview, req, count, lock, apiUp>>
      /\ pc[p] # "idle"
      /\ apiUp' \in BOOLEAN
      /\ out[p] \in Outcomes
  BY DEF Finish, TypeOK, ProcTypeOK
<1>2. c \in Commands
  BY <1>1, JobType DEF TypeOK
<1>3. Created' = Created
  BY <1>1, <1>2 DEF Finish, Created, TypeOK, LedgerTypeOK, Outcomes, Terminal
<1>4. LedgerTypeOK'
  <2>1. attempts' \in [Commands -> [1..MaxAttempts -> Outcomes \cup {"none"}]]
    <3>1. [attempts EXCEPT ![c][count[c]] = out[p]]
            \in [Commands -> [1..MaxAttempts -> Outcomes \cup {"none"}]]
      BY <1>1, <1>2, AttemptsType, Zenon DEF TypeOK
    <3>2. attempts' = [attempts EXCEPT ![c][count[c]] = out[p]] \/ attempts' = attempts
      BY DEF Finish
    <3> QED
      BY <3>1, <3>2 DEF TypeOK, LedgerTypeOK
  <2>2. status' \in [Commands -> Statuses] /\ aged' \in [Commands -> BOOLEAN]
    BY <1>1, <1>2 DEF Finish, TypeOK, LedgerTypeOK, Statuses
  <2> QED
    BY <1>1, <1>3, <2>1, <2>2 DEF TypeOK, LedgerTypeOK
<1>5. LockTypeOK'
  BY <1>1, <1>2, QuarantineType DEF Finish, TypeOK, LockTypeOK
<1>6. ProcTypeOK'
  BY <1>1, <1>3, MoveType DEF Finish
<1> QED
  BY <1>1, <1>4, <1>5, <1>6 DEF TypeOK, provider, ProviderTypeOK

\* A free attempt number above base is the next one of the ledger.
LEMMA NextReconciliation ==
    ASSUME IInv, NEW p \in Procs, pc[p] = "r_read",
           status[job[p]] = "unknown", AttemptFree(job[p], base[p] + 1)
    PROVE  base[p] \in Nat /\ base[p] = count[job[p]] /\ base[p] + 1 \in 1..MaxAttempts
<1> USE DEF IInv
<1>1. /\ job[p] \in Commands
      /\ base[p] \in 0..MaxAttempts
      /\ base[p] < MaxAttempts
      /\ count[job[p]] \in 0..MaxAttempts
  BY JobType DEF TypeOK, ProcTypeOK, LedgerTypeOK
<1>2. base[p] <= count[job[p]]
  BY DEF CountInv
<1>3. ~(base[p] + 1 <= count[job[p]])
  BY <1>1, BoundAssumption DEF AttemptsLedger, AttemptFree
<1> QED
  BY <1>1, <1>2, <1>3, BoundAssumption

LEMMA RecordType ==
    ASSUME IInv, NEW p \in Procs, RecordReconciliation(p)
    PROVE  TypeOK'
<1> USE DEF IInv
<1> DEFINE c == job[p]
<1>1. /\ UNCHANGED <<provider, preview, req, lock, apiUp>>
      /\ pc[p] # "idle"
      /\ apiUp' \in BOOLEAN
      /\ out[p] \in Outcomes
  BY DEF RecordReconciliation, TypeOK, ProcTypeOK
<1>2. c \in Commands
  BY <1>1, JobType DEF TypeOK
<1>3. Created' = Created
  BY <1>1, <1>2 DEF RecordReconciliation, Created, TypeOK, LedgerTypeOK, Outcomes, Terminal
<1>4. LedgerTypeOK'
  <2>1. CASE status[c] = "unknown" /\ AttemptFree(c, base[p] + 1)
    <3>1. count[c] + 1 \in 0..MaxAttempts
      BY <2>1, NextReconciliation, BoundAssumption DEF RecordReconciliation
    <3>2. attempts' \in [Commands -> [1..MaxAttempts -> Outcomes \cup {"none"}]]
      <4>1. [attempts EXCEPT ![c][base[p] + 1] = out[p]]
              \in [Commands -> [1..MaxAttempts -> Outcomes \cup {"none"}]]
        BY <1>1, <1>2, AttemptsType, Zenon DEF TypeOK
      <4> QED
        BY <2>1, <4>1 DEF RecordReconciliation
    <3>3. status' \in [Commands -> Statuses] /\ aged' \in [Commands -> BOOLEAN]
      BY <1>1, <1>2, <2>1 DEF RecordReconciliation, TypeOK, LedgerTypeOK, Statuses
    <3>4. count' \in [Commands -> 0..MaxAttempts]
      BY <1>2, <2>1, <3>1 DEF RecordReconciliation, TypeOK, LedgerTypeOK
    <3> QED
      BY <1>1, <1>3, <3>2, <3>3, <3>4 DEF TypeOK, LedgerTypeOK
  <2>2. CASE ~(status[c] = "unknown" /\ AttemptFree(c, base[p] + 1))
    BY <1>1, <1>3, <2>2 DEF RecordReconciliation, TypeOK, LedgerTypeOK
  <2> QED
    BY <2>1, <2>2
<1>5. LockTypeOK'
  BY <1>1, <1>2, QuarantineType DEF RecordReconciliation, TypeOK, LockTypeOK
<1>6. ProcTypeOK'
  BY <1>1, <1>3, MoveType DEF RecordReconciliation
<1> QED
  BY <1>1, <1>4, <1>5, <1>6 DEF TypeOK, provider, ProviderTypeOK

\* The interrupted attempt has no row yet, so recovery numbers it as the claim did.
LEMMA InterruptedAttempt ==
    ASSUME IInv, NEW c \in Interrupted
    PROVE  /\ c \in Commands
           /\ count[c] = 1
           /\ NextAttempt(c) = 1
           /\ \A n \in 1..MaxAttempts : AttemptFree(c, n)
<1>1. c \in Commands /\ status[c] = "in_progress" /\ count[c] = 1
  BY DEF Interrupted, IInv, CountInv
<1>2. \A n \in 1..MaxAttempts : AttemptFree(c, n)
  BY <1>1 DEF IInv, AttemptsLedger, AttemptFree
<1> DEFINE S == {1, count[c]}
                  \cup {n + 1 : n \in {m \in 1..MaxAttempts : attempts[c][m] # "none"}}
<1>3. S = {1}
  BY <1>1, <1>2 DEF AttemptFree
<1> HIDE DEF S
<1>4. Max(S) = 1
  BY <1>3 DEF Max
<1> QED
  BY <1>1, <1>2, <1>4 DEF NextAttempt, S

LEMMA CrashType ==
    ASSUME IInv,
           StopAll \/ Start \/ (\E p \in Procs : Crash(p))
             \/ (\E p \in Procs, c \in Commands, f \in BOOLEAN : StartReconcile(p, c, f))
    PROVE  TypeOK'
<1> USE DEF IInv
<1>1. UNCHANGED <<provider, preview, ledger, lock, quarantine>>
  BY DEF StopAll, Start, Crash, StartReconcile
<1>2. Created' = Created
  BY <1>1 DEF Created, ledger
<1>3. ProcTypeOK'
  <2>1. CASE StopAll
    BY <1>2, <2>1, ForgetType DEF StopAll
  <2>2. CASE Start
    BY <1>2, <2>2 DEF Start, TypeOK, ProcTypeOK, local
  <2>3. ASSUME NEW p \in Procs, Crash(p)
        PROVE  ProcTypeOK'
    BY <1>2, <2>3, ForgetType DEF Crash, TypeOK, ProcTypeOK
  <2>4. ASSUME NEW p \in Procs, NEW c \in Commands, NEW f \in BOOLEAN,
               StartReconcile(p, c, f)
        PROVE  ProcTypeOK'
    <3>1. c \in Created' /\ apiUp' \in BOOLEAN
      BY <1>2, <2>4 DEF StartReconcile, Created, TypeOK, ProcTypeOK
    <3> QED
      BY <1>2, <2>4, <3>1, MoveType DEF StartReconcile
  <2> QED
    BY <2>1, <2>2, <2>3, <2>4
<1> QED
  BY <1>1, <1>2, <1>3 DEF TypeOK, provider, ledger, ProviderTypeOK, LedgerTypeOK, LockTypeOK

LEMMA RecoverType ==
    ASSUME IInv, Recover
    PROVE  TypeOK'
<1> USE DEF IInv
<1>1. UNCHANGED <<provider, preview, req, apiUp, local>>
  BY DEF Recover
<1>2. Created' = Created
  BY DEF Recover, Created, Interrupted, TypeOK, LedgerTypeOK
<1>3. LedgerTypeOK'
  <2>1. status' \in [Commands -> Statuses] /\ aged' \in [Commands -> BOOLEAN]
    BY DEF Recover, TypeOK, LedgerTypeOK, Statuses, Outcomes
  <2>2. count' \in [Commands -> 0..MaxAttempts]
    BY InterruptedAttempt, BoundAssumption DEF Recover, TypeOK, LedgerTypeOK
  <2>3. ASSUME NEW c \in Commands
        PROVE  attempts'[c] \in [1..MaxAttempts -> Outcomes \cup {"none"}]
    BY DEF Recover, TypeOK, LedgerTypeOK, Outcomes
  <2>4. attempts' \in [Commands -> [1..MaxAttempts -> Outcomes \cup {"none"}]]
    BY <2>3 DEF Recover
  <2> QED
    BY <1>1, <1>2, <2>1, <2>2, <2>4 DEF TypeOK, LedgerTypeOK
<1>4. LockTypeOK'
  BY DEF Recover, TypeOK, LockTypeOK
<1> QED
  BY <1>1, <1>2, <1>3, <1>4 DEF TypeOK, provider, local, ProviderTypeOK, ProcTypeOK

LEMMA TypeStep == IInv /\ [Next]_vars => TypeOK'
<1> SUFFICES ASSUME IInv, [Next]_vars
             PROVE  TypeOK'
  OBVIOUS
<1>1. ASSUME NEW p \in Procs, Step(p)
      PROVE  TypeOK'
  BY <1>1, QuietStepType, LockStepType, ClaimType, FinishType, RecordType DEF Step
<1>2. ASSUME NEW p \in Procs, Call(p)
      PROVE  TypeOK'
  BY <1>2, ConfirmType, CrashType DEF Call
<1>3. CASE Environment
  BY <1>3, EnvironmentType, CrashType, RecoverType DEF Environment
<1>4. CASE UNCHANGED vars
  <2>1. Created' = Created
    BY <1>4 DEF vars, ledger, Created
  <2> QED
    BY <1>4, <2>1 DEF vars, provider, ledger, local, IInv, TypeOK, ProviderTypeOK,
                      LedgerTypeOK, LockTypeOK, ProcTypeOK
<1> QED
  BY <1>1, <1>2, <1>3, <1>4 DEF Next

-----------------------------------------------------------------------------
(* The ledger of attempts *)

\* What a reconciling handler remembers of attempt_count stays a lower bound:
\* handlers only get to r_begun by reading it, and no count ever decreases.
LEMMA BaseStep ==
    ASSUME IInv, [Next]_vars, \A c \in Commands : count'[c] >= count[c],
           NEW p \in Procs, pc'[p] \in {"r_begun", "r_read"}
    PROVE  base'[p] <= count'[job'[p]]
<1> USE DEF IInv, TypeOK
<1>1. CASE pc[p] \in {"r_begun", "r_read"} /\ UNCHANGED <<base[p], job[p]>>
  <2>1. job[p] \in Commands /\ base[p] <= count[job[p]]
    BY <1>1, JobType DEF CountInv
  <2>2. /\ base[p] \in Nat
        /\ count[job[p]] \in Nat
        /\ count'[job[p]] \in Nat
        /\ count'[job[p]] >= count[job[p]]
    BY <2>1, TypeStep, BoundAssumption DEF ProcTypeOK, LedgerTypeOK
  <2> QED
    BY <1>1, <2>1, <2>2
<1>2. CASE BeginReconcile(p)
  <2>1. /\ base'[p] = count[job[p]]
        /\ job'[p] = job[p]
        /\ count' = count
    BY <1>2 DEF BeginReconcile, WindUp, ProcTypeOK, ledger
  <2>2. count[job[p]] \in Nat
    BY <1>2, JobType, BoundAssumption DEF BeginReconcile, LedgerTypeOK
  <2> QED
    BY <2>1, <2>2
<1>3. ASSUME NEW q \in Procs, Step(q) \/ Call(q), ~BeginReconcile(p)
      PROVE  pc[p] \in {"r_begun", "r_read"} /\ UNCHANGED <<base[p], job[p]>>
  <2> USE <1>3 DEF ProcTypeOK, GoTo, Conclude, TakeUp, WindUp, Forget
  <2>1. CASE Call(q)
    BY <2>1 DEF Call, Confirm, Replay, Create, StartReconcile
  <2>2. CASE AcquireLock(q) \/ ReconcileLock(q)
    BY <2>2 DEF AcquireLock, ReconcileLock, Acquire
  <2>3. CASE Release(q) \/ PreflightFails(q) \/ Claim(q) \/ Finish(q)
               \/ RecordReconciliation(q) \/ SendPost(q) \/ BeginReconcile(q)
    BY <2>3 DEF Release, PreflightFails, Claim, Finish, RecordReconciliation, SendPost,
                BeginReconcile
  <2>4. CASE ReadBefore(q) \/ Renew(q) \/ FailBeforeWrite(q) \/ PostReturns(q)
               \/ ReadAfter(q) \/ ReadForReconcile(q)
    BY <2>4 DEF ReadBefore, Renew, FailBeforeWrite, PostReturns, ReadAfter,
                ReadForReconcile
  <2> QED
    BY <2>1, <2>2, <2>3, <2>4 DEF Step
<1>4. ASSUME Environment \/ UNCHANGED vars
      PROVE  pc[p] \in {"r_begun", "r_read"} /\ UNCHANGED <<base[p], job[p]>>
  BY ZenonT(60), <1>4 DEF Environment, vars, local, IssuePreview, ExpirePreview, StartPreview,
              LeaseExpires, ExternalEdit, Land, Drop, UnknownAges, Crash, StopAll, Start,
              Recover, Forget
<1> QED
  BY <1>1, <1>2, <1>3, <1>4 DEF Next

\* One command's row and attempts agree.
RowInv(c) ==
    /\ status[c] \in {"none", "queued"} => count[c] = 0
    /\ status[c] = "in_progress" => count[c] = 1
    /\ status[c] \in Outcomes => count[c] >= 1
    /\ LET last == IF status[c] = "in_progress" THEN count[c] - 1 ELSE count[c] IN
        /\ \A n \in 1..MaxAttempts : attempts[c][n] # "none" <=> n <= last
        /\ status[c] \in Outcomes => attempts[c][count[c]] = status[c]

\* An attempt inserted for command c leaves every other attempt as it is.
LEMMA InsertAttempt ==
    ASSUME LedgerTypeOK, NEW c \in Commands, NEW n \in 1..MaxAttempts, NEW o \in Outcomes,
           attempts' = [attempts EXCEPT ![c][n] = o]
    PROVE  /\ \A d \in Commands \ {c} : attempts'[d] = attempts[d]
           /\ attempts'[c][n] = o
           /\ \A m \in 1..MaxAttempts \ {n} : attempts'[c][m] = attempts[c][m]
  BY DEF LedgerTypeOK

LEMMA RowStep ==
    ASSUME IInv, [Next]_vars, NEW c \in Commands
    PROVE  RowInv(c)' /\ count'[c] >= count[c]
<1> USE DEF IInv, TypeOK
<1>0. /\ RowInv(c)
      /\ count[c] \in Nat
      /\ "none" \notin Outcomes /\ "queued" \notin Outcomes /\ "in_progress" \notin Outcomes
  BY BoundAssumption DEF RowInv, CountInv, AttemptsLedger, LedgerTypeOK, Outcomes, Terminal
<1>1. CASE UNCHANGED <<status[c], count[c], attempts[c]>>
  BY <1>0, <1>1 DEF RowInv, AttemptFree
<1>2. CASE status[c] = "none" /\ status'[c] = "queued" /\ UNCHANGED <<count, attempts>>
  BY <1>0, <1>2 DEF RowInv, AttemptFree
<1>3. ASSUME NEW p \in Procs, Claim(p), c = job[p], CanClaim(c)
      PROVE  RowInv(c)' /\ count'[c] >= count[c]
  <2>1. status[c] = "queued" /\ status'[c] = "in_progress" /\ count'[c] = 1
    BY <1>0, <1>3 DEF Claim, CanClaim, RowInv, LedgerTypeOK
  <2>2. attempts' = attempts
    BY <1>3 DEF Claim
  <2> QED
    BY <1>0, <2>1, <2>2 DEF RowInv, AttemptFree
<1>4. ASSUME NEW p \in Procs, Finish(p), c = job[p],
             status[c] = "in_progress", AttemptFree(c, count[c])
      PROVE  RowInv(c)' /\ count'[c] >= count[c]
  <2>1. /\ count[c] = 1
        /\ count' = count
        /\ out[p] \in Outcomes
        /\ status'[c] = out[p]
        /\ attempts' = [attempts EXCEPT ![c][1] = out[p]]
    BY <1>0, <1>4 DEF Finish, RowInv, LedgerTypeOK, ProcTypeOK
  <2>2. /\ attempts'[c][1] = out[p]
        /\ \A m \in 1..MaxAttempts \ {1} : attempts'[c][m] = attempts[c][m]
    <3>1. 1 \in 1..MaxAttempts
      BY BoundAssumption
    <3> QED
      BY <2>1, <3>1 DEF LedgerTypeOK
  <2> QED
    BY <1>0, <1>4, <2>1, <2>2, BoundAssumption DEF RowInv, AttemptFree
<1>5. ASSUME NEW p \in Procs, RecordReconciliation(p), c = job[p],
             status[c] = "unknown", AttemptFree(c, base[p] + 1)
      PROVE  RowInv(c)' /\ count'[c] >= count[c]
  <2>1. base[p] = count[c] /\ count[c] + 1 \in 1..MaxAttempts
    BY <1>5, NextReconciliation DEF RecordReconciliation
  <2>2. /\ out[p] \in Outcomes
        /\ status'[c] = out[p]
        /\ count'[c] = count[c] + 1
        /\ attempts' = [attempts EXCEPT ![c][count[c] + 1] = out[p]]
    BY <1>5, <2>1 DEF RecordReconciliation, LedgerTypeOK, ProcTypeOK
  <2>3. /\ attempts'[c][count[c] + 1] = out[p]
        /\ \A m \in 1..MaxAttempts \ {count[c] + 1} : attempts'[c][m] = attempts[c][m]
    BY <2>1, <2>2, InsertAttempt
  <2>4. "unknown" \in Outcomes
    BY DEF Outcomes
  <2>5. \A n \in 1..MaxAttempts : attempts'[c][n] # "none" <=> n <= count[c] + 1
    BY <1>0, <1>5, <2>2, <2>3, BoundAssumption DEF RowInv, AttemptFree
  <2> QED
    BY <1>0, <2>2, <2>3, <2>5 DEF RowInv, AttemptFree
<1>6. CASE Recover /\ c \in Interrupted
  <2>1. /\ count[c] = 1
        /\ NextAttempt(c) = 1
        /\ \A n \in 1..MaxAttempts : AttemptFree(c, n)
    BY <1>6, InterruptedAttempt
  <2>2. /\ status'[c] = "unknown"
        /\ count'[c] = 1
        /\ attempts'[c] = [attempts[c] EXCEPT ![1] = "unknown"]
    BY <1>6, <2>1 DEF Recover
  <2>3. /\ attempts'[c][1] = "unknown"
        /\ \A m \in 1..MaxAttempts \ {1} : attempts'[c][m] = attempts[c][m]
    BY <2>2, BoundAssumption DEF LedgerTypeOK
  <2> QED
    BY <1>0, <2>1, <2>2, <2>3, BoundAssumption DEF RowInv, AttemptFree
<1>7. ASSUME NEW p \in Procs, Step(p) \/ Call(p)
      PROVE  RowInv(c)' /\ count'[c] >= count[c]
  <2>1. CASE UNCHANGED ledger
    BY <1>1, <2>1 DEF ledger
  <2>2. CASE Call(p)
    BY <1>1, <1>2, <2>2 DEF Call, Confirm, Replay, Create, StartReconcile, ledger, Created,
                            LedgerTypeOK
  <2>3. CASE Claim(p)
    BY <1>1, <1>3, <2>3 DEF Claim, LedgerTypeOK
  <2>4. CASE Finish(p)
    BY <1>1, <1>4, <2>4 DEF Finish, LedgerTypeOK
  <2>5. CASE RecordReconciliation(p)
    BY ZenonT(60), <1>1, <1>5, <2>5 DEF RecordReconciliation, LedgerTypeOK
  <2> QED
    BY <1>7, <2>1, <2>2, <2>3, <2>4, <2>5
       DEF Step, AcquireLock, PreflightFails, ReadBefore, Renew, FailBeforeWrite, SendPost,
           PostReturns, ReadAfter, ReconcileLock, BeginReconcile, ReadForReconcile, Release
<1>8. CASE Recover
  BY <1>1, <1>6, <1>8 DEF Recover
<1>9. CASE (Environment /\ ~Recover) \/ UNCHANGED vars
  BY <1>1, <1>9 DEF Environment, vars, ledger, IssuePreview, ExpirePreview, StartPreview,
                    LeaseExpires, ExternalEdit, Land, Drop, UnknownAges, Crash, StopAll, Start
<1> QED
  BY <1>7, <1>8, <1>9 DEF Next

LEMMA LedgerStep == IInv /\ [Next]_vars => CountInv' /\ AttemptsLedger'
<1> SUFFICES ASSUME IInv, [Next]_vars
             PROVE  CountInv' /\ AttemptsLedger'
  OBVIOUS
<1>1. \A c \in Commands : RowInv(c)' /\ count'[c] >= count[c]
  BY RowStep
<1>2. \A p \in Procs : pc'[p] \in {"r_begun", "r_read"} => base'[p] <= count'[job'[p]]
  BY <1>1, BaseStep
<1> QED
  BY <1>1, <1>2 DEF RowInv, CountInv, AttemptsLedger

-----------------------------------------------------------------------------
(* Who executes, and the fence *)

\* Once created, a command keeps its request for ever.
LEMMA RequestsImmutable ==
    ASSUME IInv, [Next]_vars, NEW c \in Created
    PROVE  c \in Created' /\ req'[c] = req[c]
<1> USE DEF IInv, TypeOK
<1>1. req'[c] = req[c]
  <2>1. CASE UNCHANGED req
    BY <2>1
  <2>2. ASSUME NEW p \in Procs, NEW v \in Previews, NEW k \in Keys,
               Create(p, RequestOf(v, k))
        PROVE  req'[c] = req[c]
    BY <2>2 DEF Create, Created, LedgerTypeOK
  <2> QED
    BY ZenonT(60), <2>1, <2>2
       DEF Next, Environment, Step, Call, Confirm, Replay, StartReconcile, AcquireLock,
           PreflightFails, Claim, ReadBefore, Renew, FailBeforeWrite, SendPost, PostReturns,
           ReadAfter, Finish, ReconcileLock, BeginReconcile, ReadForReconcile,
           RecordReconciliation, Release, IssuePreview, ExpirePreview, StartPreview,
           LeaseExpires, ExternalEdit, Land, Drop, UnknownAges, Crash, StopAll, Start,
           Recover, ledger, vars
<1>2. status'[c] # "none"
  <2>1. status'[c] \in Outcomes \cup {status[c], "queued", "in_progress"}
    <3>1. ASSUME NEW p \in Procs, Step(p)
          PROVE  status'[c] \in Outcomes \cup {status[c], "queued", "in_progress"}
      BY <3>1 DEF Step, AcquireLock, PreflightFails, Claim, ReadBefore, Renew,
           FailBeforeWrite, SendPost, PostReturns, ReadAfter, Finish, ReconcileLock,
           BeginReconcile, ReadForReconcile, RecordReconciliation, Release, ledger,
           LedgerTypeOK, ProcTypeOK, Created
    <3>2. ASSUME NEW p \in Procs, Call(p)
          PROVE  status'[c] \in Outcomes \cup {status[c], "queued", "in_progress"}
      BY <3>2 DEF Call, Confirm, Replay, Create, StartReconcile, ledger, LedgerTypeOK, Created
    <3>3. CASE Environment \/ UNCHANGED vars
      BY <3>3 DEF Environment, IssuePreview, ExpirePreview, StartPreview, LeaseExpires,
           ExternalEdit, Land, Drop, UnknownAges, Crash, StopAll, Start, Recover, ledger,
           vars, Outcomes, Created
    <3> QED
      BY <3>1, <3>2, <3>3 DEF Next
  <2> QED
    BY <2>1 DEF Outcomes, Terminal, Created
<1> QED
  BY <1>1, <1>2 DEF Created

LEMMA ForgetOne ==
    ASSUME ProcTypeOK, NEW p \in Procs, Forget({p})
    PROVE  /\ pc'[p] = "idle"
           /\ \A q \in Procs \ {p} :
                UNCHANGED <<pc[q], job[q], out[q], base[q], finalize[q]>>
  BY DEF Forget

\* Only its own handler executes a command: no step takes a command out of
\* in_progress while another handler executes it.
LEMMA HandlerStep == IInv /\ [Next]_vars => HandlerInv'
<1> SUFFICES ASSUME IInv, [Next]_vars
             PROVE  HandlerInv'
  OBVIOUS
<1> USE DEF IInv, TypeOK, HandlerInv
<1>0. /\ \A p \in Procs : pc[p] # "idle" => job[p] \in Commands /\ status[job[p]] # "none"
      /\ pc \in [Procs -> Labels] /\ job \in [Procs -> Commands \cup {NoCmd}]
      /\ status \in [Commands -> Statuses]
  BY JobType DEF ProcTypeOK, LedgerTypeOK, Created
<1>1. ASSUME NEW p \in Procs, UNCHANGED <<status, apiUp>>,
             \A q \in Procs \ {p} : UNCHANGED <<pc[q], job[q]>>,
             pc[p] # "idle",
             \/ pc'[p] \in {"idle", "submitted", "locked", "releasing"}
             \/ job'[p] = job[p] /\ pc[p] \in Executing /\ pc'[p] \in Executing
             \/ /\ job'[p] = job[p]
                /\ pc[p] \in Reconciling \cup {"r_checked"}
                /\ pc'[p] \in Reconciling
      PROVE  HandlerInv'
  BY <1>0, <1>1 DEF Executing, Reconciling
<1>2. ASSUME NEW p \in Procs, Step(p), UNCHANGED status
      PROVE  HandlerInv'
  <2> USE <1>0, <1>1, <1>2 DEF Executing, Reconciling, GoTo, Conclude, WindUp, ledger
  <2>0. ASSUME Forget({p}), pc[p] # "idle", apiUp' = apiUp
        PROVE  HandlerInv'
    <3>1. /\ pc'[p] = "idle"
          /\ \A q \in Procs \ {p} : UNCHANGED <<pc[q], job[q]>>
      BY <2>0, ForgetOne
    <3> QED
      BY <2>0, <3>1
  <2>1. CASE AcquireLock(p)
    BY <2>0, <2>1 DEF AcquireLock, Acquire
  <2>8. CASE ReconcileLock(p)
    BY <2>0, <2>8 DEF ReconcileLock, Acquire
  <2>2. CASE PreflightFails(p) \/ Finish(p) \/ RecordReconciliation(p)
    BY <2>2 DEF PreflightFails, Finish, RecordReconciliation
  <2>7. CASE Release(p)
    BY <2>0, <2>7 DEF Release
  <2>3. CASE ReadBefore(p) \/ Renew(p) \/ FailBeforeWrite(p)
    BY <2>3 DEF ReadBefore, Renew, FailBeforeWrite
  <2>4. CASE SendPost(p) \/ PostReturns(p) \/ ReadAfter(p)
    BY <2>4 DEF SendPost, PostReturns, ReadAfter
  <2>5. CASE BeginReconcile(p) \/ ReadForReconcile(p)
    BY <2>5 DEF BeginReconcile, ReadForReconcile
  <2>6. CASE Claim(p)
    <3>1. CASE CanClaim(job[p])
      BY <2>6, <3>1 DEF Claim, CanClaim
    <3>2. CASE ~CanClaim(job[p])
      BY <2>6, <3>2 DEF Claim
    <3> QED
      BY <3>1, <3>2
  <2> QED
    BY <2>1, <2>2, <2>3, <2>4, <2>5, <2>6, <2>7, <2>8 DEF Step
<1>3. ASSUME NEW p \in Procs, Claim(p), CanClaim(job[p])
      PROVE  HandlerInv'
  BY <1>0, <1>3 DEF Claim, CanClaim, GoTo, Executing, Reconciling, Outcomes, Terminal
<1>4. ASSUME NEW p \in Procs, Finish(p), status[job[p]] = "in_progress"
      PROVE  HandlerInv'
  BY <1>0, <1>4 DEF Finish, WindUp, Executing, Reconciling, ProcTypeOK, Outcomes, Terminal
<1>5. ASSUME NEW p \in Procs, RecordReconciliation(p), status[job[p]] = "unknown"
      PROVE  HandlerInv'
  BY <1>0, <1>5 DEF RecordReconciliation, WindUp, Executing, Reconciling, ProcTypeOK,
                    Outcomes, Terminal
<1>6. ASSUME NEW p \in Procs, Step(p)
      PROVE  HandlerInv'
  BY <1>2, <1>3, <1>4, <1>5, <1>6
     DEF Step, AcquireLock, PreflightFails, Claim, ReadBefore, Renew, FailBeforeWrite,
         SendPost, PostReturns, ReadAfter, Finish, ReconcileLock, BeginReconcile,
         ReadForReconcile, RecordReconciliation, Release, ledger
<1>7. ASSUME NEW p \in Procs, Call(p)
      PROVE  HandlerInv'
  <2> USE <1>0 DEF TakeUp, Executing, Reconciling
  <2>1. ASSUME NEW v \in Previews, NEW k \in Keys, Confirm(p, v, k)
        PROVE  HandlerInv'
    <3>1. CASE Replay(p, RequestOf(v, k))
      <4>1. /\ pc'[p] = "submitted"
            /\ \A q \in Procs \ {p} : UNCHANGED <<pc[q], job[q]>>
            /\ UNCHANGED <<status, apiUp>>
        BY <3>1 DEF Replay, ledger
      <4> QED
        BY <2>1, <4>1 DEF Confirm
    <3>2. CASE Create(p, RequestOf(v, k))
      <4>1. PICK c \in Commands \ Created :
              /\ status' = [status EXCEPT ![c] = "queued"]
              /\ TakeUp(p, c, "submitted", FALSE)
        BY <3>2 DEF Create
      <4>2. /\ pc'[p] = "submitted"
            /\ \A q \in Procs \ {p} : UNCHANGED <<pc[q], job[q]>>
            /\ \A d \in Commands : status[d] # "none" => status'[d] = status[d]
            /\ apiUp' /\ apiUp
        BY <2>1, <3>2, <4>1 DEF Confirm, Create, Created
      <4>3. ASSUME NEW q \in Procs, pc'[q] # "submitted", pc[q] # "idle"
            PROVE  pc'[q] = pc[q] /\ job'[q] = job[q] /\ status'[job[q]] = status[job[q]]
        BY <4>2, <4>3
      <4> QED
        BY <4>2, <4>3
    <3> QED
      BY <2>1, <3>1, <3>2 DEF Confirm
  <2>2. CASE \E c \in Commands, f \in BOOLEAN : StartReconcile(p, c, f)
    BY <2>2 DEF StartReconcile, ledger, Outcomes
  <2> QED
    BY <1>7, <2>1, <2>2 DEF Call
<1>8. CASE Recover
  BY <1>0, <1>8 DEF Recover, local, Executing, Reconciling
<1>9. ASSUME NEW P, Forget(P), UNCHANGED status, apiUp' = apiUp \/ P = Procs
      PROVE  HandlerInv'
  <2>1. \A p \in Procs : pc'[p] = "idle" \/ (p \notin P /\ UNCHANGED <<pc[p], job[p]>>)
    BY <1>9 DEF Forget
  <2>2. P = Procs => \A p \in Procs : pc'[p] = "idle"
    BY <2>1
  <2> QED
    BY <1>0, <1>9, <2>1, <2>2 DEF Executing, Reconciling
<1>11. CASE (\E p \in Procs : Crash(p)) \/ StopAll
  BY <1>9, <1>11 DEF Crash, StopAll, ledger
<1>10. CASE UNCHANGED <<status, pc, job>> /\ (apiUp' = apiUp \/ apiUp')
  BY <1>0, <1>10
<1> QED
  BY <1>6, <1>7, <1>8, <1>10, <1>11
     DEF Next, Environment, vars, ledger, local, IssuePreview, ExpirePreview, StartPreview,
         LeaseExpires, ExternalEdit, Land, Drop, UnknownAges, Start

\* A handler gets past the fence only by renewing, and keeps its command.
LEMMA WritingStep ==
    ASSUME IInv, [Next]_vars, NEW p \in Procs, pc'[p] \in Writing
    PROVE  /\ job'[p] = job[p]
           /\ pc[p] # "idle"
           /\ \/ pc[p] \in Writing
              \/ Renew(p) /\ CanRenew(p)
<1> USE DEF IInv, TypeOK, ProcTypeOK, Writing
<1>1. ASSUME NEW q \in Procs, Step(q)
      PROVE  job'[p] = job[p] /\ pc[p] # "idle" /\ (pc[p] \in Writing \/ (Renew(p) /\ CanRenew(p)))
  <2> USE <1>1 DEF GoTo, Conclude, WindUp, Forget
  <2>1. CASE AcquireLock(q) \/ ReconcileLock(q)
    BY <2>1 DEF AcquireLock, ReconcileLock, Acquire
  <2>2. CASE Release(q) \/ PreflightFails(q) \/ Claim(q) \/ Finish(q)
               \/ RecordReconciliation(q) \/ BeginReconcile(q) \/ ReadForReconcile(q)
    BY <2>2 DEF Release, PreflightFails, Claim, Finish, RecordReconciliation,
                BeginReconcile, ReadForReconcile
  <2>3. CASE ReadBefore(q) \/ Renew(q) \/ FailBeforeWrite(q)
    BY <2>3 DEF ReadBefore, Renew, FailBeforeWrite
  <2>4. CASE SendPost(q) \/ PostReturns(q) \/ ReadAfter(q)
    BY <2>4 DEF SendPost, PostReturns, ReadAfter
  <2> QED
    BY <2>1, <2>2, <2>3, <2>4 DEF Step
<1>2. ASSUME NEW q \in Procs, Call(q)
      PROVE  job'[p] = job[p] /\ pc[p] # "idle" /\ pc[p] \in Writing
  <2>1. CASE \E c \in Commands, f \in BOOLEAN : StartReconcile(q, c, f)
    BY <2>1 DEF StartReconcile, TakeUp
  <2>2. CASE \E v \in Previews, k \in Keys : Confirm(q, v, k)
    BY ZenonT(60), <2>2 DEF Confirm, Replay, Create, TakeUp
  <2> QED
    BY <1>2, <2>1, <2>2 DEF Call
<1>3. CASE Environment \/ UNCHANGED vars
  <2>1. CASE (\E q \in Procs : Crash(q)) \/ StopAll
    BY ZenonT(60), <2>1 DEF Crash, StopAll, Forget
  <2>2. CASE \/ \E v \in Previews : IssuePreview(v) \/ ExpirePreview(v)
             \/ \E v \in Previews, t \in Targets, a \in Values : StartPreview(v, t, a)
             \/ \E t \in Targets : LeaseExpires(t)
    BY <2>2 DEF IssuePreview, ExpirePreview, StartPreview, LeaseExpires, local
  <2>3. CASE \/ \E t \in Targets, a \in Values : ExternalEdit(t, a)
             \/ \E c \in Commands : Land(c) \/ Drop(c) \/ UnknownAges(c)
    BY <2>3 DEF ExternalEdit, Land, Drop, UnknownAges, local
  <2>4. CASE Start \/ Recover \/ UNCHANGED vars
    BY <2>4 DEF Start, Recover, local, vars
  <2> QED
    BY <1>3, <2>1, <2>2, <2>3, <2>4 DEF Environment
<1> QED
  BY <1>1, <1>2, <1>3 DEF Next

\* Nobody takes the lock row from a writing handler: acquire sees its command
\* in progress, release and renew see another token, recovery runs alone.
LEMMA RowKept ==
    ASSUME IInv, [Next]_vars, NEW p \in Procs, pc[p] \in Writing, pc'[p] \in Writing,
           NEW t \in Targets, t = req[job[p]].target
    PROVE  lock'[t] # NoLock /\ lock'[t].cmd = lock[t].cmd /\ lock'[t].holder = lock[t].holder
<1> USE DEF IInv, TypeOK, LockTypeOK
<1>1. /\ lock[t] # NoLock
      /\ lock[t].cmd = job[p]
      /\ lock[t].holder = p
      /\ job[p] \in InProgressOn(t)
  BY JobType DEF FenceInv, Owns, Carries, HandlerInv, Writing, Executing, InProgressOn,
                 OnTarget
<1>2. CASE UNCHANGED lock
  BY <1>1, <1>2
<1>3. ASSUME NEW q \in Procs, AcquireLock(q) \/ ReconcileLock(q) \/ Release(q) \/ Renew(q)
      PROVE  lock'[t] # NoLock /\ lock'[t].cmd = lock[t].cmd /\ lock'[t].holder = lock[t].holder
  <2> DEFINE u == req[job[q]].target
  <2>0. u \in Targets
    BY <1>3, JobType DEF AcquireLock, ReconcileLock, Release, Renew
  <2>1. CASE AcquireLock(q) \/ ReconcileLock(q)
    <3>1. u # t \/ lock' = lock
      BY <1>1, <2>1 DEF AcquireLock, ReconcileLock, Acquire, LockFree
    <3> QED
      BY <1>1, <2>0, <2>1, <3>1 DEF AcquireLock, ReconcileLock, Acquire
  <2>2. CASE Release(q)
    <3>1. q # p
      BY <2>2 DEF Release, Writing
    <3>2. u # t \/ ~Owns(q)
      BY <1>1, <3>1 DEF Owns, Carries
    <3> QED
      BY <1>1, <2>0, <2>2, <3>2 DEF Release
  <2>3. CASE Renew(q)
    <3>1. CASE lock' = [lock EXCEPT ![u].live = TRUE]
      <4>1. lock[t] \in Lock
        BY <1>1
      <4> QED
        BY <1>1, <2>0, <3>1, <4>1, NullAssumption DEF Lock
    <3> QED
      BY <1>2, <2>3, <3>1 DEF Renew
  <2> QED
    BY <1>3, <2>1, <2>2, <2>3
<1>4. ASSUME NEW u \in Targets, LeaseExpires(u)
      PROVE  lock'[t] # NoLock /\ lock'[t].cmd = lock[t].cmd /\ lock'[t].holder = lock[t].holder
  <2>1. lock[t] \in Lock
    BY <1>1
  <2> QED
    BY ZenonT(60), <1>1, <1>4, <2>1, NullAssumption DEF LeaseExpires, Lock
<1>5. ~Recover
  BY DEF Recover, HandlerInv, Writing, ProcTypeOK
<1>6. ASSUME NEW q \in Procs, Step(q),
             ~(AcquireLock(q) \/ ReconcileLock(q) \/ Release(q) \/ Renew(q))
      PROVE  UNCHANGED lock
  <2>1. CASE PreflightFails(q) \/ Claim(q) \/ ReadBefore(q) \/ FailBeforeWrite(q)
    BY <2>1 DEF PreflightFails, Claim, ReadBefore, FailBeforeWrite
  <2>2. CASE SendPost(q) \/ PostReturns(q) \/ ReadAfter(q) \/ Finish(q)
    BY <2>2 DEF SendPost, PostReturns, ReadAfter, Finish
  <2>3. CASE BeginReconcile(q) \/ ReadForReconcile(q) \/ RecordReconciliation(q)
    BY <2>3 DEF BeginReconcile, ReadForReconcile, RecordReconciliation
  <2> QED
    BY <1>6, <2>1, <2>2, <2>3 DEF Step
<1>7. ASSUME NEW q \in Procs, Call(q)
      PROVE  UNCHANGED lock
  BY <1>7 DEF Call, Confirm, Replay, Create, StartReconcile
<1>8. ASSUME Environment, ~Recover, \A u \in Targets : ~LeaseExpires(u)
      PROVE  UNCHANGED lock
  <2>1. CASE \/ \E v \in Previews : IssuePreview(v) \/ ExpirePreview(v)
             \/ \E v \in Previews, u \in Targets, a \in Values : StartPreview(v, u, a)
    BY <2>1 DEF IssuePreview, ExpirePreview, StartPreview
  <2>2. CASE \/ \E u \in Targets, a \in Values : ExternalEdit(u, a)
             \/ \E c \in Commands : Land(c) \/ Drop(c) \/ UnknownAges(c)
    BY <2>2 DEF ExternalEdit, Land, Drop, UnknownAges
  <2>3. CASE (\E q \in Procs : Crash(q)) \/ StopAll \/ Start
    BY <2>3 DEF Crash, StopAll, Start
  <2> QED
    BY <1>8, <2>1, <2>2, <2>3 DEF Environment
<1>9. CASE UNCHANGED vars
  BY <1>2, <1>9 DEF vars
<1> HIDE DEF IInv, TypeOK, LockTypeOK
<1> QED
  BY <1>2, <1>3, <1>4, <1>5, <1>6, <1>7, <1>8, <1>9 DEF Next

LEMMA FenceStep == IInv /\ [Next]_vars => FenceInv'
<1> SUFFICES ASSUME IInv, [Next]_vars, NEW p \in Procs, pc'[p] \in Writing
             PROVE  Owns(p)'
  BY DEF FenceInv
<1> USE DEF IInv
<1>1. /\ job'[p] = job[p]
      /\ pc[p] # "idle"
      /\ pc[p] \in Writing \/ (Renew(p) /\ CanRenew(p))
  BY WritingStep
<1> DEFINE t == req[job[p]].target
<1>2. t \in Targets /\ req'[job[p]] = req[job[p]] /\ lock \in [Targets -> Lock \cup {NoLock}]
  BY <1>1, JobType, RequestsImmutable DEF TypeOK, LockTypeOK
<1>3. CASE pc[p] \in Writing
  BY <1>1, <1>2, <1>3, RowKept DEF FenceInv, Owns, Carries
<1>4. CASE Renew(p) /\ CanRenew(p)
  <2>1. lock' = [lock EXCEPT ![t].live = TRUE] /\ Owns(p)
    BY <1>4 DEF Renew, CanRenew
  <2>2. lock[t] \in Lock /\ lock[t].cmd = job[p] /\ lock[t].holder = p
    BY <1>2, <2>1 DEF Owns, Carries
  <2>3. lock'[t].cmd = job[p] /\ lock'[t].holder = p /\ lock'[t] \in Lock
    BY <1>2, <2>1, <2>2 DEF Lock
  <2>4. lock'[t] # NoLock
    BY <2>3, NullAssumption DEF Lock
  <2> QED
    BY <1>1, <1>2, <2>3, <2>4 DEF Owns, Carries
<1> QED
  BY <1>1, <1>3, <1>4

-----------------------------------------------------------------------------
(* Confirmations and POSTs *)

LEMMA UniqueStep == IInv /\ [Next]_vars => UniqueConfirmation'
<1> SUFFICES ASSUME IInv, [Next]_vars
             PROVE  UniqueConfirmation'
  OBVIOUS
<1> USE DEF IInv, TypeOK
<1>1. CASE \A c \in Commands : c \in Created' => c \in Created
  <2>1. \A c \in Created' : c \in Created /\ req'[c] = req[c]
    BY <1>1, RequestsImmutable DEF Created
  <2> QED
    BY <2>1 DEF UniqueConfirmation
<1>2. ASSUME NEW p \in Procs, NEW v \in Previews, NEW k \in Keys,
             Create(p, RequestOf(v, k))
      PROVE  UniqueConfirmation'
  <2> DEFINE r == RequestOf(v, k)
  <2>1. PICK c \in Commands \ Created :
          /\ req' = [req EXCEPT ![c] = r]
          /\ status' = [status EXCEPT ![c] = "queued"]
    BY <1>2 DEF Create
  <2>2. Created' = Created \cup {c}
    BY <2>1 DEF Created, LedgerTypeOK
  <2>3. req'[c] = r /\ \A d \in Created : req'[d] = req[d]
    BY <2>1 DEF LedgerTypeOK, Created
  <2>4. \A d \in Created : req[d].key # r.key /\ req[d].preview # r.preview
    BY <1>2 DEF Create, KeyUnused, PreviewUnused
  <2> QED
    BY <2>2, <2>3, <2>4 DEF UniqueConfirmation
<1>3. ASSUME ~(\E p \in Procs, v \in Previews, k \in Keys : Create(p, RequestOf(v, k))),
             NEW c \in Commands, c \in Created'
      PROVE  c \in Created
  <2> SUFFICES ASSUME status[c] = "none" PROVE status'[c] = "none"
    BY <1>3 DEF Created
  <2>1. ASSUME NEW p \in Procs, Step(p)
        PROVE  status'[c] = "none"
    <3>1. pc[p] # "idle" /\ job[p] # c
      BY <2>1, JobType
         DEF Step, AcquireLock, PreflightFails, Claim, ReadBefore, Renew, FailBeforeWrite,
             SendPost, PostReturns, ReadAfter, Finish, ReconcileLock, BeginReconcile,
             ReadForReconcile, RecordReconciliation, Release, Created
    <3> QED
      BY <2>1, <3>1
         DEF Step, AcquireLock, PreflightFails, Claim, ReadBefore, Renew, FailBeforeWrite,
             SendPost, PostReturns, ReadAfter, Finish, ReconcileLock, BeginReconcile,
             ReadForReconcile, RecordReconciliation, Release, LedgerTypeOK, ledger
  <2>2. ASSUME NEW p \in Procs, Call(p)
        PROVE  status'[c] = "none"
    BY <1>3, <2>2 DEF Call, Confirm, Replay, StartReconcile, ledger
  <2>3. CASE Environment \/ UNCHANGED vars
    BY <2>3 DEF Environment, IssuePreview, ExpirePreview, StartPreview, LeaseExpires,
         ExternalEdit, Land, Drop, UnknownAges, Crash, StopAll, Start, Recover, ledger,
         vars, Interrupted
  <2> QED
    BY <2>1, <2>2, <2>3 DEF Next
<1> QED
  BY <1>1, <1>2, <1>3

\* Every step either leaves the row and the POST of c alone or is one of eight.
LEMMA CommandSteps ==
    ASSUME IInv, [Next]_vars, NEW c \in Commands
    PROVE  \/ UNCHANGED <<status[c], post[c], posts[c], aged[c], count[c]>>
           \/ /\ status[c] = "none" /\ status'[c] = "queued"
              /\ UNCHANGED <<post, posts, aged, count>>
           \/ \E p \in Procs : c = job[p] /\ (Claim(p) \/ SendPost(p) \/ Finish(p)
                                                 \/ RecordReconciliation(p))
           \/ Land(c) \/ Drop(c) \/ UnknownAges(c)
           \/ Recover /\ c \in Interrupted
<1> USE DEF IInv, TypeOK, LedgerTypeOK, ProviderTypeOK
<1>1. ASSUME NEW p \in Procs, c # job[p],
             Claim(p) \/ SendPost(p) \/ Finish(p) \/ RecordReconciliation(p)
      PROVE  UNCHANGED <<status[c], post[c], posts[c], aged[c], count[c]>>
  BY <1>1 DEF Claim, SendPost, Finish, RecordReconciliation, ledger, provider
<1>2. ASSUME NEW p \in Procs, Step(p),
             ~(Claim(p) \/ SendPost(p) \/ Finish(p) \/ RecordReconciliation(p))
      PROVE  UNCHANGED <<status[c], post[c], posts[c], aged[c], count[c]>>
  <2>1. CASE \/ AcquireLock(p) \/ PreflightFails(p) \/ ReadBefore(p) \/ Renew(p)
             \/ FailBeforeWrite(p)
    BY <2>1 DEF AcquireLock, PreflightFails, ReadBefore, Renew, FailBeforeWrite, ledger,
         provider
  <2>2. CASE PostReturns(p) \/ ReadAfter(p) \/ Release(p)
    BY <2>2 DEF PostReturns, ReadAfter, Release, ledger, provider
  <2>3. CASE ReconcileLock(p) \/ BeginReconcile(p) \/ ReadForReconcile(p)
    BY <2>3 DEF ReconcileLock, BeginReconcile, ReadForReconcile, ledger, provider
  <2> QED
    BY <1>2, <2>1, <2>2, <2>3 DEF Step
<1>3. ASSUME NEW p \in Procs, Call(p)
      PROVE  \/ UNCHANGED <<status[c], post[c], posts[c], aged[c], count[c]>>
             \/ /\ status[c] = "none" /\ status'[c] = "queued"
                /\ UNCHANGED <<post, posts, aged, count>>
  <2>1. ASSUME NEW d \in Commands, NEW f \in BOOLEAN, StartReconcile(p, d, f)
        PROVE  UNCHANGED <<status[c], post[c], posts[c], aged[c], count[c]>>
    BY <2>1 DEF StartReconcile, ledger, provider
  <2>2. ASSUME NEW v \in Previews, NEW k \in Keys, Confirm(p, v, k)
        PROVE  /\ UNCHANGED <<post, posts, aged, count>>
               /\ status'[c] = status[c] \/ (status[c] = "none" /\ status'[c] = "queued")
    BY <2>2 DEF Confirm, Replay, Create, Created, ledger, provider
  <2> QED
    BY <1>3, <2>1, <2>2 DEF Call
<1>4. CASE Environment \/ UNCHANGED vars
  <2>1. CASE \/ \E v \in Previews : IssuePreview(v) \/ ExpirePreview(v)
             \/ \E v \in Previews, t \in Targets, a \in Values : StartPreview(v, t, a)
             \/ \E t \in Targets : LeaseExpires(t)
             \/ \E t \in Targets, a \in Values : ExternalEdit(t, a)
    BY <2>1 DEF IssuePreview, ExpirePreview, StartPreview, LeaseExpires, ExternalEdit, ledger,
         provider
  <2>2. ASSUME NEW d \in Commands, Land(d) \/ Drop(d) \/ UnknownAges(d)
        PROVE  \/ UNCHANGED <<status[c], post[c], posts[c], aged[c], count[c]>>
               \/ Land(c) \/ Drop(c) \/ UnknownAges(c)
    <3>1. CASE d = c
      BY <2>2, <3>1
    <3>2. CASE d # c
      <4>1. UNCHANGED <<status, posts, count>>
        BY <2>2 DEF Land, Drop, UnknownAges, ledger, provider
      <4>2. UNCHANGED <<post[c], aged[c]>>
        <5>1. CASE Land(d) \/ Drop(d)
          BY <3>2, <5>1 DEF Land, Drop, ledger
        <5>2. CASE UnknownAges(d)
          BY <3>2, <5>2 DEF UnknownAges, provider
        <5> QED
          BY <2>2, <5>1, <5>2
      <4> QED
        BY <4>1, <4>2
    <3> QED
      BY <3>1, <3>2
  <2>3. CASE (\E p \in Procs : Crash(p)) \/ StopAll \/ Start \/ UNCHANGED vars
    BY <2>3 DEF Crash, StopAll, Start, ledger, provider, vars
  <2>4. CASE Recover
    BY <2>4 DEF Recover, provider
  <2> QED
    BY <1>4, <2>1, <2>2, <2>3, <2>4 DEF Environment
<1> QED
  BY <1>1, <1>2, <1>3, <1>4 DEF Next

LEMMA PostStep == IInv /\ [Next]_vars => PostInv' /\ SettledOutcome'
<1> SUFFICES ASSUME IInv, [Next]_vars, NEW c \in Commands
             PROVE  /\ post'[c] = "none" <=> posts'[c] = 0
                    /\ posts'[c] <= 1
                    /\ status'[c] \in {"none", "queued"} => post'[c] = "none"
                    /\ aged'[c] => status'[c] = "unknown" /\ post'[c] # "flying"
                    /\ status'[c] = "failed" => post'[c] \in {"none", "dropped"}
                    /\ status'[c] = "conflict" => post'[c] # "flying"
                    /\ status'[c] = "applied" /\ count'[c] = 1 => post'[c] = "landed"
  BY DEF PostInv, SettledOutcome, Created
<1> USE DEF IInv, TypeOK
<1>0. /\ post[c] = "none" <=> posts[c] = 0
      /\ posts[c] <= 1
      /\ posts[c] \in Nat
      /\ status[c] \in {"none", "queued"} => post[c] = "none"
      /\ aged[c] => status[c] = "unknown" /\ post[c] # "flying"
      /\ status[c] = "failed" => post[c] \in {"none", "dropped"}
      /\ status[c] = "conflict" => post[c] # "flying"
      /\ status[c] = "applied" /\ count[c] = 1 => post[c] = "landed"
  BY DEF PostInv, SettledOutcome, Created, ProviderTypeOK
<1>1. CASE UNCHANGED <<status[c], post[c], posts[c], aged[c], count[c]>>
  BY <1>0, <1>1
<1>2. CASE /\ status[c] = "none" /\ status'[c] = "queued"
           /\ UNCHANGED <<post, posts, aged, count>>
  BY <1>0, <1>2
<1>3. ASSUME NEW p \in Procs, c = job[p], Claim(p)
      PROVE  /\ UNCHANGED <<post, posts, aged>>
             /\ \/ UNCHANGED <<status, count>>
                \/ status[c] = "queued" /\ status'[c] = "in_progress"
  BY <1>3 DEF Claim, CanClaim, LedgerTypeOK, provider
<1>4. ASSUME NEW p \in Procs, c = job[p], SendPost(p)
      PROVE  /\ status[c] = "in_progress" /\ post[c] = "none"
             /\ UNCHANGED <<status, aged, count>>
             /\ post'[c] = "flying" /\ posts'[c] = posts[c] + 1
  BY <1>4 DEF SendPost, HandlerInv, HandlerPostInv, Executing, ProviderTypeOK, ledger
<1>5. ASSUME NEW p \in Procs, c = job[p], Finish(p)
      PROVE  /\ UNCHANGED <<post, posts, count>>
             /\ \/ UNCHANGED <<status, aged>>
                \/ /\ status'[c] = out[p] /\ ~aged'[c] /\ out[p] \in Outcomes
                   /\ out[p] = "failed" => post[c] \in {"none", "dropped"}
                   /\ out[p] = "conflict" => post[c] = "none"
                   /\ out[p] = "applied" => post[c] = "landed"
  BY <1>5 DEF Finish, HandlerPostInv, LedgerTypeOK, ProcTypeOK, provider
<1>6. ASSUME NEW p \in Procs, c = job[p], RecordReconciliation(p)
      PROVE  /\ UNCHANGED <<post, posts>>
             /\ \/ UNCHANGED <<status, aged, count>>
                \/ /\ status'[c] = out[p] /\ ~aged'[c] /\ out[p] \in Outcomes
                   /\ count'[c] # 1
                   /\ out[p] # "failed"
                   /\ out[p] = "conflict" => post[c] # "flying"
  <2>1. status[c] = "unknown" => count[c] >= 1 /\ count[c] \in Nat
    BY BoundAssumption DEF CountInv, Outcomes, LedgerTypeOK
  <2> QED
    BY <1>6, <2>1 DEF RecordReconciliation, HandlerPostInv, LedgerTypeOK, ProcTypeOK, provider
<1>7. CASE Land(c) \/ Drop(c) \/ UnknownAges(c)
  BY <1>0, <1>7 DEF Land, Drop, UnknownAges, provider, ledger, ProviderTypeOK, LedgerTypeOK
<1>8. CASE Recover /\ c \in Interrupted
  BY <1>0, <1>8 DEF Recover, provider
<1> QED
  BY <1>0, <1>1, <1>2, <1>3, <1>4, <1>5, <1>6, <1>7, <1>8, CommandSteps
     DEF Outcomes, Terminal

\* The clause of HandlerPostInv for one handler.
SeesPost(p) ==
    /\ pc[p] \in {"claimed", "compared", "fenced"} => post[job[p]] = "none"
    /\ pc[p] = "accepted" => post[job[p]] = "landed"
    /\ pc[p] = "concluded" =>
        /\ out[p] = "failed" => post[job[p]] \in {"none", "dropped"}
        /\ out[p] = "conflict" => post[job[p]] = "none"
        /\ out[p] = "applied" => post[job[p]] = "landed"
    /\ pc[p] \in Reconciling \cup {"r_checked"} /\ finalize[p] => post[job[p]] # "flying"
    /\ pc[p] = "r_read" =>
        /\ out[p] # "failed"
        /\ out[p] = "conflict" => post[job[p]] # "flying"

\* While a handler pauses, a POST of its command may land or be dropped, but
\* nobody sends one.
LEMMA PausedHandler ==
    ASSUME IInv, [Next]_vars, NEW p \in Procs,
           UNCHANGED <<pc[p], job[p], out[p], finalize[p]>>
    PROVE  SeesPost(p)'
<1> USE DEF IInv, TypeOK
<1>0. SeesPost(p)
  BY DEF SeesPost, HandlerPostInv
<1>1. CASE pc[p] = "idle"
  BY <1>1 DEF SeesPost, Reconciling
<1> SUFFICES ASSUME pc[p] # "idle" PROVE SeesPost(p)'
  BY <1>1
<1> DEFINE c == job[p]
<1>2. c \in Commands
  BY JobType
<1>3. CASE post'[c] = post[c]
  BY <1>0, <1>3 DEF SeesPost
<1>4. CASE post[c] = "flying" /\ post'[c] \in {"landed", "dropped"}
  BY <1>0, <1>4 DEF SeesPost
<1>5. ASSUME NEW q \in Procs, SendPost(q), job[q] = c
      PROVE  pc[p] \in {"submitted", "locked", "releasing"}
  <2>1. q # p
    BY <1>5 DEF SendPost, GoTo, ProcTypeOK
  <2>2. pc[q] \in Executing /\ status[c] = "in_progress"
    BY <1>5 DEF SendPost, HandlerInv, Executing
  <2>3. pc[p] \notin Executing \cup Reconciling \cup {"r_checked"}
    BY <1>5, <2>1, <2>2 DEF HandlerInv, Outcomes, Terminal
  <2> QED
    BY <2>3 DEF ProcTypeOK, Labels, Holding
<1>6. ASSUME ~(\E q \in Procs : job[q] = c /\ SendPost(q))
      PROVE  post'[c] = post[c] \/ (post[c] = "flying" /\ post'[c] \in {"landed", "dropped"})
  BY <1>2, <1>6, CommandSteps
     DEF Land, Drop, UnknownAges, Recover, Claim, Finish, RecordReconciliation, provider,
         ProviderTypeOK
<1>7. CASE pc[p] \in {"submitted", "locked", "releasing"}
  BY <1>7 DEF SeesPost, Reconciling
<1> QED
  BY <1>3, <1>4, <1>5, <1>6, <1>7

LEMMA MovingHandler ==
    ASSUME IInv, NEW p \in Procs, Step(p) \/ Call(p)
    PROVE  SeesPost(p)'
<1> USE DEF IInv, TypeOK, ProcTypeOK
<1>0. SeesPost(p)
  BY DEF SeesPost, HandlerPostInv
<1>1. ASSUME pc'[p] \in {"idle", "submitted", "locked", "releasing"}
      PROVE  SeesPost(p)'
  BY <1>1 DEF SeesPost, Reconciling
<1>2. CASE AcquireLock(p) \/ PreflightFails(p) \/ Finish(p) \/ RecordReconciliation(p)
             \/ Release(p)
  BY <1>1, <1>2 DEF AcquireLock, Acquire, PreflightFails, Finish, RecordReconciliation,
                    Release, GoTo, WindUp, Forget
<1>3. CASE Claim(p)
  <2>1. pc'[p] = "releasing" \/ (pc'[p] = "claimed" /\ job'[p] = job[p] /\ CanClaim(job[p]))
    BY <1>3 DEF Claim, GoTo, WindUp
  <2>2. CASE pc'[p] = "claimed" /\ job'[p] = job[p] /\ CanClaim(job[p])
    <3>1. job[p] \in Commands /\ post' = post
      BY <1>3, JobType DEF Claim, provider
    <3>2. post[job[p]] = "none"
      BY <2>2, <3>1 DEF CanClaim, PostInv
    <3> QED
      BY <2>2, <3>1, <3>2 DEF SeesPost, Reconciling
  <2> QED
    BY <1>1, <2>1, <2>2
<1>4. CASE ReadBefore(p) \/ Renew(p) \/ FailBeforeWrite(p)
  BY <1>0, <1>4 DEF ReadBefore, Renew, FailBeforeWrite, GoTo, Conclude, SeesPost, provider,
                    Reconciling
<1>5. CASE SendPost(p)
  BY <1>5 DEF SendPost, GoTo, SeesPost, Reconciling
<1>6. CASE PostReturns(p) \/ ReadAfter(p)
  BY <1>0, <1>6 DEF PostReturns, ReadAfter, GoTo, Conclude, SeesPost, provider, Reconciling
<1>7. CASE ReconcileLock(p)
  BY <1>0, <1>1, <1>7 DEF ReconcileLock, Acquire, GoTo, Forget, SeesPost, provider, Reconciling
<1>8. CASE BeginReconcile(p)
  BY <1>0, <1>1, <1>8 DEF BeginReconcile, WindUp, SeesPost, provider, Reconciling
<1>9. CASE ReadForReconcile(p)
  BY <1>0, <1>9 DEF ReadForReconcile, Conclude, SeesPost, provider, Reconciling
<1>10. ASSUME NEW c \in Commands, NEW f \in BOOLEAN, StartReconcile(p, c, f)
       PROVE  SeesPost(p)'
  BY <1>10 DEF StartReconcile, OldEnough, TakeUp, SeesPost, provider, PostInv, Reconciling
<1>11. ASSUME NEW v \in Previews, NEW k \in Keys, Confirm(p, v, k)
       PROVE  SeesPost(p)'
  BY <1>1, <1>11 DEF Confirm, Replay, Create, TakeUp
<1> QED
  BY <1>2, <1>3, <1>4, <1>5, <1>6, <1>7, <1>8, <1>9, <1>10, <1>11 DEF Step, Call

LEMMA HandlerPostStep == IInv /\ [Next]_vars => HandlerPostInv'
<1> SUFFICES ASSUME IInv, [Next]_vars, NEW p \in Procs
             PROVE  SeesPost(p)'
  BY DEF SeesPost, HandlerPostInv
<1> USE DEF IInv, TypeOK, ProcTypeOK
<1>1. ASSUME NEW q \in Procs, Step(q) \/ Call(q), q # p
      PROVE  UNCHANGED <<pc[p], job[p], out[p], finalize[p]>>
  BY ZenonT(60), <1>1 DEF Step, Call, Confirm, Replay, Create, StartReconcile, AcquireLock, Acquire,
         PreflightFails, Claim, ReadBefore, Renew, FailBeforeWrite, SendPost, PostReturns,
         ReadAfter, Finish, ReconcileLock, BeginReconcile, ReadForReconcile,
         RecordReconciliation, Release, GoTo, Conclude, TakeUp, WindUp, Forget
<1>2. CASE Environment \/ UNCHANGED vars
  <2>1. UNCHANGED <<pc[p], job[p], out[p], finalize[p]>> \/ pc'[p] = "idle"
    BY <1>2 DEF Environment, vars, local, IssuePreview, ExpirePreview, StartPreview,
                LeaseExpires, ExternalEdit, Land, Drop, UnknownAges, Crash, StopAll, Start,
                Recover, Forget
  <2>2. pc'[p] = "idle" => SeesPost(p)'
    BY DEF SeesPost, Reconciling
  <2> QED
    BY <2>1, <2>2, PausedHandler
<1> QED
  BY <1>1, <1>2, PausedHandler, MovingHandler DEF Next

-----------------------------------------------------------------------------
(* Quarantine *)

LEMMA QuarantineStep == IInv /\ [Next]_vars => QuarantineOwnerUnknown'
<1> SUFFICES ASSUME IInv, [Next]_vars, NEW t \in Targets, quarantine'[t] # NoCmd
             PROVE  /\ status'[quarantine'[t]] = "unknown"
                    /\ req'[quarantine'[t]].target = t
  BY DEF QuarantineOwnerUnknown
<1> USE DEF IInv, TypeOK
<1> DEFINE d == quarantine[t]
<1>0. d # NoCmd => /\ d \in Commands
                   /\ d \in Created
                   /\ status[d] = "unknown"
                   /\ req[d].target = t
                   /\ req'[d] = req[d]
  BY RequestsImmutable DEF QuarantineOwnerUnknown, LockTypeOK, Created
\* The owner of a row that stays is still unknown.
<1>1. ASSUME d # NoCmd, quarantine'[t] = d
      PROVE  status'[d] = "unknown"
  <2>1. ASSUME NEW p \in Procs, d = job[p], RecordReconciliation(p)
        PROVE  status'[d] = "unknown"
    BY <1>0, <1>1, <2>1, NullAssumption
       DEF RecordReconciliation, LiftQuarantine, LockTypeOK, LedgerTypeOK
  <2>2. ASSUME NEW p \in Procs, d = job[p], Claim(p) \/ SendPost(p) \/ Finish(p)
        PROVE  status'[d] = "unknown"
    BY <1>0, <1>1, <2>2 DEF Claim, CanClaim, SendPost, Finish, ledger
  <2> QED
    BY <1>0, <1>1, <2>1, <2>2, CommandSteps
       DEF Land, Drop, UnknownAges, Recover, ledger, Interrupted
\* A new row belongs to the command that has just become, or stays, unknown.
<1>2. ASSUME NEW p \in Procs, Finish(p) \/ RecordReconciliation(p), quarantine'[t] # d
      PROVE  /\ status'[quarantine'[t]] = "unknown"
             /\ req'[quarantine'[t]].target = t
  <2>1. /\ job[p] \in Commands
        /\ req' = req
    BY <1>2, JobType DEF Finish, RecordReconciliation
  <2>2. quarantine'[t] = job[p] /\ req[job[p]].target = t /\ out[p] = "unknown"
    BY <1>2, <2>1 DEF Finish, RecordReconciliation, WithQuarantine, LiftQuarantine, LockTypeOK
  <2>3. status'[job[p]] = "unknown"
    BY <1>2, <2>1, <2>2 DEF Finish, RecordReconciliation, LedgerTypeOK
  <2> QED
    BY <2>1, <2>2, <2>3
<1>3. ASSUME Recover, quarantine'[t] # d
      PROVE  /\ status'[quarantine'[t]] = "unknown"
             /\ req'[quarantine'[t]].target = t
  BY <1>3 DEF Recover, Interrupted, InProgressOn, OnTarget, Created, LedgerTypeOK
<1>4. CASE UNCHANGED quarantine
  BY <1>0, <1>1, <1>4
<1>5. CASE \E p \in Procs : Finish(p) \/ RecordReconciliation(p)
  BY <1>0, <1>1, <1>2, <1>5
<1>6. CASE Recover
  BY <1>0, <1>1, <1>3, <1>6
<1> QED
  BY ZenonT(60), <1>4, <1>5, <1>6
     DEF Next, Environment, Step, Call, Confirm, Replay, Create, StartReconcile,
         AcquireLock, PreflightFails, Claim, ReadBefore, Renew, FailBeforeWrite, SendPost,
         PostReturns, ReadAfter, ReconcileLock, BeginReconcile, ReadForReconcile, Release,
         IssuePreview, ExpirePreview, StartPreview, LeaseExpires, ExternalEdit, Land, Drop,
         UnknownAges, Crash, StopAll, Start, vars

-----------------------------------------------------------------------------
(* The theorems *)

\* The inductive invariant holds in every behaviour.
THEOREM Invariance == Spec => []IInv
<1>1. Init => IInv
  BY InitIInv
<1>2. IInv /\ [Next]_vars => IInv'
  BY TypeStep, LedgerStep, HandlerStep, FenceStep, UniqueStep, PostStep, HandlerPostStep,
     QuarantineStep DEF IInv
<1> QED
  BY <1>1, <1>2, PTL DEF Spec

\* Every row, token and handler variable keeps its type.
THEOREM TypeCorrect == Spec => []TypeOK
<1>1. IInv => TypeOK
  BY DEF IInv
<1> QED
  BY <1>1, Invariance, PTL

\* The attempt rows of every command are a gap-free ledger of its history.
THEOREM LedgerCorrect == Spec => []AttemptsLedger
<1>1. IInv => AttemptsLedger
  BY DEF IInv
<1> QED
  BY <1>1, Invariance, PTL

\* At most one handler per target is between its fence and its write's end.
THEOREM WritersExclude == Spec => []WriteExclusion
<1>1. IInv => WriteExclusion
  BY DEF IInv, FenceInv, WriteExclusion, Owns, Carries
<1> QED
  BY <1>1, Invariance, PTL

\* No command, key or preview token leads to two POSTs.
THEOREM OnePost == Spec => []OnePostPerConfirmation
<1>1. IInv => OnePostPerConfirmation
  <2> SUFFICES ASSUME IInv, NEW c \in Created, NEW d \in Created, posts[c] > 0,
                      c = d \/ req[c].key = req[d].key \/ req[c].preview = req[d].preview
               PROVE  c = d /\ posts[c] = 1
    BY DEF OnePostPerConfirmation
  <2>1. c = d
    BY DEF IInv, UniqueConfirmation
  <2>2. posts[c] \in Nat /\ posts[c] <= 1
    BY DEF IInv, PostInv, Created, TypeOK, ProviderTypeOK
  <2> QED
    BY <2>1, <2>2
<1> QED
  BY <1>1, Invariance, PTL

\* What a settled status says of the provider write is true.
THEOREM SettledStatusIsTrue == Spec => []SettledOutcome
<1>1. IInv => SettledOutcome
  BY DEF IInv
<1> QED
  BY <1>1, Invariance, PTL

\* Every quarantine is owned by an unknown command of its target.
THEOREM QuarantineOwned == Spec => []QuarantineOwnerUnknown
<1>1. IInv => QuarantineOwnerUnknown
  BY DEF IInv
<1> QED
  BY <1>1, Invariance, PTL

\* A concluded command is never reopened and its history never rewritten.
THEOREM TerminalStays == Spec => TerminalIsFinal
<1> DEFINE Frozen == \A c \in Commands : status[c] \in Terminal =>
                        UNCHANGED <<status[c], attempts[c], count[c], posts[c]>>
<1>1. IInv /\ [Next]_vars => [Frozen]_vars
  <2> SUFFICES ASSUME IInv, [Next]_vars, NEW c \in Commands, status[c] \in Terminal
               PROVE  UNCHANGED <<status[c], attempts[c], count[c], posts[c]>>
    OBVIOUS
  <2> USE DEF IInv, TypeOK
  <2>1. status[c] \notin {"none", "queued", "in_progress", "unknown"}
    BY DEF Terminal
  <2>2. ASSUME NEW p \in Procs, c = job[p],
               Claim(p) \/ SendPost(p) \/ Finish(p) \/ RecordReconciliation(p)
        PROVE  UNCHANGED <<status[c], count[c], posts[c]>>
    BY <2>1, <2>2 DEF Claim, CanClaim, SendPost, Finish, RecordReconciliation, HandlerInv,
                      Executing, provider
  <2>3. UNCHANGED <<status[c], count[c], posts[c]>>
    BY <2>1, <2>2, CommandSteps DEF Land, Drop, UnknownAges, Interrupted, provider, ledger
  <2>4. attempts'[c] = attempts[c]
    <3>1. ASSUME NEW p \in Procs, Finish(p) \/ RecordReconciliation(p)
          PROVE  attempts'[c] = attempts[c]
      BY <2>1, <3>1 DEF Finish, RecordReconciliation, LedgerTypeOK
    <3>2. CASE Recover
      BY <2>1, <3>2 DEF Recover, Interrupted
    <3> QED
      BY ZenonT(60), <3>1, <3>2
         DEF Next, Environment, Step, Call, Confirm, Replay, Create, StartReconcile,
             AcquireLock, PreflightFails, Claim, ReadBefore, Renew, FailBeforeWrite,
             SendPost, PostReturns, ReadAfter, ReconcileLock, BeginReconcile,
             ReadForReconcile, Release, IssuePreview, ExpirePreview, StartPreview,
             LeaseExpires, ExternalEdit, Land, Drop, UnknownAges, Crash, StopAll, Start,
             ledger, vars
  <2> QED
    BY <2>3, <2>4
<1> QED
  BY <1>1, Invariance, PTL DEF Spec, TerminalIsFinal

-----------------------------------------------------------------------------
(* The ledger implements its promise *)

\* A history whose recorded attempts did not change is the same history.
LEMMA HistoryKept ==
    ASSUME NEW c \in Commands, Recorded(c)' = Recorded(c),
           \A n \in 1..Recorded(c) : attempts'[c][n] = attempts[c][n]
    PROVE  History(c)' = History(c)
  BY DEF History

\* One attempt more, with the others as they were, is the history with its outcome
\* appended.
LEMMA HistoryGrows ==
    ASSUME NEW c \in Commands, NEW o, Recorded(c) \in Nat,
           Recorded(c)' = Recorded(c) + 1,
           attempts'[c][Recorded(c) + 1] = o,
           \A n \in 1..Recorded(c) : attempts'[c][n] = attempts[c][n]
    PROVE  History(c)' = Append(History(c), o)
<1> DEFINE k == Recorded(c)
           h == History(c)
           g == History(c)'
           S == {attempts[c][n] : n \in 1..k} \cup {o}
<1>1. /\ h \in [1..k -> S] /\ g \in [1..k + 1 -> S]
      /\ \A n \in 1..k : g[n] = h[n]
      /\ g[k + 1] = o
      /\ o \in S
  BY DEF History
<1> HIDE DEF h, g, S
<1>2. h \in Seq(S) /\ Len(h) = k /\ g \in Seq(S) /\ Len(g) = k + 1
  BY <1>1
<1>3. \A n \in 1..Len(g) : g[n] = Append(h, o)[n]
  BY <1>1, <1>2
<1>4. g = Append(h, o)
  BY <1>1, <1>2, <1>3, AppendProperties, SeqEqual
<1> QED
  BY <1>4 DEF g, h

LEMMA PromiseInit == Init => Promise!Init
<1> SUFFICES ASSUME Init PROVE Promise!Init
  OBVIOUS
<1>1. ASSUME NEW c \in Commands PROVE History(c) = << >>
  <2>1. Recorded(c) = 0
    BY <1>1 DEF Init, Recorded
  <2>2. 1..0 = {}
    OBVIOUS
  <2> QED
    BY <2>1, <2>2, SMT DEF History
<1>2. [c \in Commands |-> History(c)] = [c \in Commands |-> << >>]
  BY <1>1, Zenon
<1> QED
  BY <1>2 DEF Init, Promise!Init

\* A step that touches neither the rows nor the POSTs is nothing to the promise.
LEMMA PromiseStutters ==
    ASSUME UNCHANGED <<req, status, post, count, attempts>>
    PROVE  UNCHANGED Promise!vars
<1>1. \A c \in Commands : History(c)' = History(c)
  BY DEF History, Recorded
<1>2. [c \in Commands |-> History(c)]' = [c \in Commands |-> History(c)]
  BY <1>1, Zenon
<1> QED
  BY <1>2 DEF Promise!vars

\* A step that leaves the attempts and their number alone leaves every history alone,
\* whether or not an attempt begins with it.
LEMMA HistoriesKept ==
    ASSUME \A c \in Commands : Recorded(c)' = Recorded(c), attempts' = attempts
    PROVE  [c \in Commands |-> History(c)]' = [c \in Commands |-> History(c)]
<1>1. \A c \in Commands : History(c)' = History(c)
  BY DEF History
<1> QED
  BY <1>1, Zenon

\* The commands of S get outcome o as one more attempt each.
LEMMA PromiseRecords ==
    ASSUME IInv, [Next]_vars, NEW S, NEW o,
           \A c \in Commands \ S : UNCHANGED <<status[c], count[c], attempts[c]>>,
           \A c \in Commands : c \in S =>
              /\ status'[c] = o
              /\ Recorded(c) \in Nat
              /\ Recorded(c)' = Recorded(c) + 1
              /\ attempts'[c][Recorded(c) + 1] = o
              /\ \A n \in 1..Recorded(c) : attempts'[c][n] = attempts[c][n],
           UNCHANGED <<req, post>>
    PROVE  Promise!Record(S, o)
<1>1. status' = [c \in Commands |-> IF c \in S THEN o ELSE status[c]]
  <2>1. status' \in [Commands -> Statuses]
    BY TypeStep DEF TypeOK, LedgerTypeOK
  <2> QED
    BY <2>1
<1>2. \A c \in Commands : History(c)' = IF c \in S THEN Append(History(c), o) ELSE History(c)
  <2>1. ASSUME NEW c \in Commands, c \notin S
        PROVE  History(c)' = History(c)
    BY <2>1 DEF History, Recorded
  <2>2. ASSUME NEW c \in Commands, c \in S
        PROVE  History(c)' = Append(History(c), o)
    BY <2>2, HistoryGrows
  <2> QED
    BY <2>1, <2>2
<1> DEFINE h == [c \in Commands |-> History(c)]
<1>3. h' = [c \in Commands |-> IF c \in S THEN Append(h[c], o) ELSE h[c]]
  BY <1>2, Zenon
<1> QED
  BY <1>1, <1>3 DEF Promise!Record

\* Submitting a new command is a confirmation.
LEMMA CreateConfirms ==
    ASSUME IInv, [Next]_vars, NEW p \in Procs, NEW v \in Previews, NEW k \in Keys,
           Create(p, RequestOf(v, k)), preview[v] # NoPreview, preview[v].state = "issued"
    PROVE  Promise!Next
<1> USE DEF IInv, TypeOK
<1> DEFINE r == RequestOf(v, k)
<1>1. PICK c \in Commands \ Created :
        /\ req' = [req EXCEPT ![c] = r]
        /\ status' = [status EXCEPT ![c] = "queued"]
  BY DEF Create
<1>2. r \in Request
  BY DEF RequestOf, Request, Preview, ProviderTypeOK
<1>3. Promise!Unspent(r)
  BY DEF Create, KeyUnused, PreviewUnused, Created, Promise!Unspent
<1>4. status[c] = "none" /\ count[c] = 0
  BY <1>1 DEF Created, CountInv
<1>5. \A d \in Commands : Recorded(d)' = Recorded(d)
  BY <1>1, <1>4 DEF Create, Recorded, LedgerTypeOK
<1>6. attempts' = attempts /\ post' = post
  BY DEF Create, provider
<1>7. Promise!Confirm(c)
  BY <1>1, <1>2, <1>3, <1>4, <1>5, <1>6, HistoriesKept DEF Promise!Confirm
<1> QED
  BY <1>7 DEF Promise!Next

\* Claiming a queued command begins its attempt; a claim that is refused is nothing.
LEMMA ClaimBegins ==
    ASSUME IInv, [Next]_vars, NEW p \in Procs, Claim(p)
    PROVE  Promise!Next \/ UNCHANGED Promise!vars
<1> USE DEF IInv, TypeOK
<1> DEFINE c == job[p]
<1>1. CASE ~CanClaim(c)
  BY <1>1, PromiseStutters DEF Claim, provider
<1>2. CASE CanClaim(c)
  <2>1. /\ c \in Commands
        /\ status[c] = "queued"
        /\ count[c] = 0
        /\ status' = [status EXCEPT ![c] = "in_progress"]
        /\ count' = [count EXCEPT ![c] = @ + 1]
        /\ UNCHANGED <<req, post, attempts>>
    BY <1>2, JobType DEF Claim, CanClaim, provider, CountInv
  <2>2. \A d \in Commands : Recorded(d)' = Recorded(d)
    BY <2>1 DEF Recorded, LedgerTypeOK
  <2>3. Promise!Begin(c)
    BY <2>1, <2>2, HistoriesKept DEF Promise!Begin
  <2> QED
    BY <2>1, <2>3 DEF Promise!Next
<1> QED
  BY <1>1, <1>2

\* Only a command that sent nothing yet sends.
LEMMA SendPostSends ==
    ASSUME IInv, NEW p \in Procs, SendPost(p)
    PROVE  Promise!Next
<1> USE DEF IInv, TypeOK
<1> DEFINE c == job[p]
<1>1. /\ c \in Commands
      /\ status[c] = "in_progress"
      /\ post[c] = "none"
      /\ post' = [post EXCEPT ![c] = "flying"]
      /\ UNCHANGED <<req, status, count, attempts>>
  BY JobType DEF SendPost, HandlerInv, Executing, HandlerPostInv, ledger
<1>2. \A d \in Commands : Recorded(d)' = Recorded(d)
  BY <1>1 DEF Recorded
<1>3. Promise!Send(c)
  BY <1>1, <1>2, HistoriesKept DEF Promise!Send
<1> QED
  BY <1>1, <1>3 DEF Promise!Next

\* Meta applies or refuses a POST under way.
LEMMA MetaAnswers ==
    ASSUME NEW c \in Commands, Land(c) \/ Drop(c)
    PROVE  Promise!Next
<1>1. /\ post[c] = "flying"
      /\ post' = [post EXCEPT ![c] = "landed"] \/ post' = [post EXCEPT ![c] = "dropped"]
      /\ UNCHANGED <<req, status, count, attempts>>
  BY DEF Land, Drop, ledger
<1>2. \A d \in Commands : Recorded(d)' = Recorded(d)
  BY <1>1 DEF Recorded
<1>3. Promise!Answer(c)
  BY <1>1, <1>2, HistoriesKept DEF Promise!Answer
<1> QED
  BY <1>3 DEF Promise!Next

\* Finishing an attempt concludes it with a true outcome; a finish that finds the
\* command concluded or interrupted is nothing.
LEMMA FinishConcludesIt ==
    ASSUME IInv, [Next]_vars, NEW p \in Procs, Finish(p)
    PROVE  Promise!Next \/ UNCHANGED Promise!vars
<1> USE DEF IInv, TypeOK
<1>1. PICK c \in Commands, o \in Outcomes : c = job[p] /\ o = out[p]
  BY JobType DEF Finish, ProcTypeOK
<1>2. CASE ~(status[c] = "in_progress" /\ AttemptFree(c, count[c]))
  BY <1>1, <1>2, PromiseStutters DEF Finish, provider
<1>3. CASE status[c] = "in_progress" /\ AttemptFree(c, count[c])
  <2>1. /\ count[c] = 1
        /\ status' = [status EXCEPT ![c] = o]
        /\ attempts' = [attempts EXCEPT ![c][1] = o]
        /\ UNCHANGED <<req, post, count>>
    BY <1>1, <1>3 DEF Finish, provider, CountInv
  <2>2. /\ status'[c] = o
        /\ attempts'[c][1] = o
        /\ \A d \in Commands \ {c} : UNCHANGED <<status[d], count[d], attempts[d]>>
    <3>1. 1 \in 1..MaxAttempts
      BY BoundAssumption
    <3>2. attempts'[c][1] = o /\ \A d \in Commands \ {c} : attempts'[d] = attempts[d]
      BY <2>1, <3>1 DEF LedgerTypeOK
    <3> QED
      BY <2>1, <3>2 DEF LedgerTypeOK
  <2>3. Recorded(c) = 0 /\ Recorded(c)' = 1
    BY <1>3, <2>1, <2>2 DEF Recorded, Outcomes, Terminal
  <2>4. Promise!Record({c}, o)
    BY <2>1, <2>2, <2>3, PromiseRecords
  <2>5. Promise!Conclude(c)
    <3>1. /\ o = "failed" => post[c] \in {"none", "dropped"}
          /\ o = "conflict" => post[c] = "none"
          /\ o = "applied" => post[c] = "landed"
      BY <1>1 DEF Finish, HandlerPostInv
    <3> QED
      BY <1>3, <2>4, <3>1 DEF Promise!Conclude, Promise!Outcomes, Outcomes, Terminal
  <2> QED
    BY <2>5 DEF Promise!Next
<1> QED
  BY <1>2, <1>3

\* A reconciliation that is recorded resolves an unknown outcome, or confirms it.
LEMMA RecordReconciles ==
    ASSUME IInv, [Next]_vars, NEW p \in Procs, RecordReconciliation(p)
    PROVE  Promise!Next \/ UNCHANGED Promise!vars
<1> USE DEF IInv, TypeOK
<1>1. PICK c \in Commands, o \in Outcomes : c = job[p] /\ o = out[p]
  BY JobType DEF RecordReconciliation, ProcTypeOK
<1>2. CASE ~(status[c] = "unknown" /\ AttemptFree(c, base[p] + 1))
  BY <1>1, <1>2, PromiseStutters DEF RecordReconciliation, provider
<1>3. CASE status[c] = "unknown" /\ AttemptFree(c, base[p] + 1)
  <2>1. PICK n \in Nat : n = count[c] /\ n = base[p] /\ n + 1 \in 1..MaxAttempts
    BY <1>1, <1>3, NextReconciliation DEF RecordReconciliation
  <2>2. /\ status' = [status EXCEPT ![c] = o]
        /\ attempts' = [attempts EXCEPT ![c][n + 1] = o]
        /\ count' = [count EXCEPT ![c] = n + 1]
        /\ UNCHANGED <<req, post>>
    BY <1>1, <1>3, <2>1 DEF RecordReconciliation, provider
  <2>3. /\ attempts'[c][n + 1] = o
        /\ \A m \in 1..n : attempts'[c][m] = attempts[c][m]
        /\ \A d \in Commands \ {c} : attempts'[d] = attempts[d]
    <3>1. PICK k \in 1..MaxAttempts : k = n + 1
      BY <2>1
    <3>2. /\ attempts'[c][k] = o
          /\ \A m \in 1..MaxAttempts \ {k} : attempts'[c][m] = attempts[c][m]
          /\ \A d \in Commands \ {c} : attempts'[d] = attempts[d]
      BY <2>2, <3>1 DEF LedgerTypeOK
    <3>3. \A m \in 1..n : m \in 1..MaxAttempts \ {k}
      BY <2>1, <3>1, BoundAssumption
    <3> QED
      BY <3>1, <3>2, <3>3
  <2>4. /\ status'[c] = o
        /\ count'[c] = n + 1
        /\ \A d \in Commands \ {c} : UNCHANGED <<status[d], count[d]>>
    BY <2>2 DEF LedgerTypeOK
  <2>5. Recorded(c) = n /\ Recorded(c)' = n + 1
    BY <1>3, <2>1, <2>4 DEF Recorded, Outcomes, Terminal
  <2>6. Promise!Record({c}, o)
    BY <2>2, <2>3, <2>4, <2>5, PromiseRecords
  <2>7. Promise!Reconcile(c)
    <3>1. o # "failed" /\ (o = "conflict" => post[c] # "flying")
      BY <1>1 DEF RecordReconciliation, HandlerPostInv
    <3> QED
      BY <1>3, <2>6, <3>1 DEF Promise!Reconcile, Promise!Outcomes, Outcomes, Terminal
  <2> QED
    BY <2>7 DEF Promise!Next
<1> QED
  BY <1>2, <1>3

\* The offline recovery interrupts every attempt under way.
LEMMA RecoverInterrupts ==
    ASSUME IInv, [Next]_vars, Recover
    PROVE  Promise!Next
<1> USE DEF IInv, TypeOK
<1>1. \A c \in Commands \ Interrupted : UNCHANGED <<status[c], count[c], attempts[c]>>
  BY DEF Recover
<1>2. ASSUME NEW c \in Commands, c \in Interrupted
      PROVE  /\ status'[c] = "unknown"
             /\ Recorded(c) = 0
             /\ Recorded(c)' = 1
             /\ attempts'[c][1] = "unknown"
  <2>1. count[c] = 1 /\ NextAttempt(c) = 1
    BY <1>2, InterruptedAttempt
  <2>2. /\ status'[c] = "unknown"
        /\ count'[c] = 1
        /\ attempts'[c] = [attempts[c] EXCEPT ![1] = "unknown"]
    BY <1>2, <2>1 DEF Recover
  <2>3. attempts'[c][1] = "unknown"
    BY <2>2, BoundAssumption DEF LedgerTypeOK
  <2> QED
    BY <1>2, <2>1, <2>2, <2>3 DEF Recorded, Interrupted
<1>3. Promise!Record(Interrupted, "unknown")
  <2>1. UNCHANGED <<req, post>>
    BY DEF Recover, provider
  <2> QED
    BY <1>1, <1>2, <2>1, PromiseRecords
<1> QED
  BY <1>3 DEF Recover, Interrupted, Promise!Interrupt, Promise!Next

LEMMA PromiseStep ==
    ASSUME IInv, [Next]_vars
    PROVE  Promise!Next \/ UNCHANGED Promise!vars
<1>1. ASSUME NEW p \in Procs, Step(p)
      PROVE  Promise!Next \/ UNCHANGED Promise!vars
  <2>1. CASE Claim(p) \/ SendPost(p) \/ Finish(p) \/ RecordReconciliation(p)
    BY <2>1, ClaimBegins, SendPostSends, FinishConcludesIt, RecordReconciles
  <2>2. CASE ~(Claim(p) \/ SendPost(p) \/ Finish(p) \/ RecordReconciliation(p))
    <3>1. UNCHANGED <<req, status, post, count, attempts>>
      BY <1>1, <2>2
         DEF Step, AcquireLock, PreflightFails, ReadBefore, Renew, FailBeforeWrite,
             PostReturns, ReadAfter, ReconcileLock, BeginReconcile, ReadForReconcile,
             Release, provider, ledger
    <3> QED
      BY <3>1, PromiseStutters
  <2> QED
    BY <2>1, <2>2
<1>2. ASSUME NEW p \in Procs, Call(p)
      PROVE  Promise!Next \/ UNCHANGED Promise!vars
  <2>1. CASE UNCHANGED <<req, status, post, count, attempts>>
    BY <2>1, PromiseStutters
  <2>2. ASSUME NEW v \in Previews, NEW k \in Keys, Confirm(p, v, k)
        PROVE  Promise!Next \/ UNCHANGED Promise!vars
    BY <2>1, <2>2, CreateConfirms DEF Confirm, Replay, provider, ledger
  <2> QED
    BY <1>2, <2>1, <2>2 DEF Call, StartReconcile, provider, ledger
<1>3. CASE Environment
  <2>1. CASE \E c \in Commands : Land(c) \/ Drop(c)
    BY <2>1, MetaAnswers
  <2>2. CASE Recover
    BY <2>2, RecoverInterrupts
  <2>3. CASE ~Recover /\ ~(\E c \in Commands : Land(c) \/ Drop(c))
    <3>1. UNCHANGED <<req, status, post, count, attempts>>
      BY <1>3, <2>3 DEF Environment, IssuePreview, ExpirePreview, StartPreview,
         LeaseExpires, ExternalEdit, UnknownAges, Crash, StopAll, Start, provider, ledger
    <3> QED
      BY <3>1, PromiseStutters
  <2> QED
    BY <2>1, <2>2, <2>3
<1>4. CASE UNCHANGED vars
  BY <1>4, PromiseStutters DEF vars, provider, ledger
<1> QED
  BY <1>1, <1>2, <1>3, <1>4 DEF Next

\* The ledger, with its locks, leases, handlers, crashes and recovery, implements the
\* promise: every step is a step of the promise or none at all.
THEOREM PromiseKept == Spec => FulfilsPromise
<1>1. Init => Promise!Init
  BY PromiseInit
<1>2. IInv /\ [Next]_vars => [Promise!Next]_Promise!vars
  BY PromiseStep
<1> QED
  BY <1>1, <1>2, Invariance, PTL DEF Spec, FulfilsPromise, Promise!Spec

-----------------------------------------------------------------------------
(* What a step can do to one handler, to one lock row and to one quarantine *)

LEMMA HandlerMoves ==
    ASSUME IInv, [Next]_vars, NEW p \in Procs
    PROVE  \/ UNCHANGED <<pc[p], job[p], out[p]>>
           \/ Step(p)
           \/ Call(p)
           \/ MayCrash /\ pc'[p] = "idle"
<1> USE DEF IInv, TypeOK, ProcTypeOK
<1>1. ASSUME NEW q \in Procs, Step(q) \/ Call(q), q # p
      PROVE  UNCHANGED <<pc[p], job[p], out[p]>>
  BY ZenonT(60), <1>1 DEF Step, Call, Confirm, Replay, Create, StartReconcile, AcquireLock, Acquire,
         PreflightFails, Claim, ReadBefore, Renew, FailBeforeWrite, SendPost, PostReturns,
         ReadAfter, Finish, ReconcileLock, BeginReconcile, ReadForReconcile,
         RecordReconciliation, Release, GoTo, Conclude, TakeUp, WindUp, Forget
<1>2. CASE Environment \/ UNCHANGED vars
  BY <1>2 DEF Environment, vars, local, IssuePreview, ExpirePreview, StartPreview,
              LeaseExpires, ExternalEdit, Land, Drop, UnknownAges, Crash, StopAll, Start,
              Recover, Forget
<1> QED
  BY <1>1, <1>2 DEF Next

\* The labels a called handler reaches, and from where.
LEMMA HandlerPath ==
    ASSUME IInv, NEW p \in Procs, Step(p) \/ Call(p)
    PROVE  /\ pc'[p] \in Holding => job'[p] = job[p] /\ pc[p] # "idle"
           /\ pc'[p] \in Holding => \/ pc[p] \in Holding
                                    \/ AcquireLock(p) /\ pc'[p] = "locked"
                                    \/ ReconcileLock(p) /\ pc'[p] = "r_locked"
           /\ pc'[p] = "locked" => AcquireLock(p)
           /\ pc'[p] \in Executing => pc[p] \in Executing \/ (Claim(p) /\ CanClaim(job[p]))
           /\ pc[p] \in Executing => \/ pc'[p] \in Executing /\ job'[p] = job[p]
                                     \/ Finish(p)
           /\ pc'[p] = "concluded" =>
                \/ pc[p] \in {"posted", "accepted"} /\ UNCHANGED posts
                \/ /\ pc[p] \in {"claimed", "compared", "fenced"}
                   /\ out'[p] # "unknown"
                   /\ UNCHANGED posts
<1> USE DEF IInv, TypeOK, ProcTypeOK, Holding, Executing, Reconciling
<1>1. CASE AcquireLock(p) \/ ReconcileLock(p) \/ Release(p)
  BY <1>1 DEF AcquireLock, ReconcileLock, Release, Acquire, GoTo, Forget
<1>2. CASE PreflightFails(p) \/ Claim(p)
  BY <1>2 DEF PreflightFails, Claim, GoTo, WindUp
<1>3. CASE Finish(p) \/ RecordReconciliation(p) \/ BeginReconcile(p)
  BY <1>3 DEF Finish, RecordReconciliation, BeginReconcile, WindUp
<1>4. CASE ReadBefore(p) \/ Renew(p) \/ FailBeforeWrite(p)
  BY <1>4 DEF ReadBefore, Renew, FailBeforeWrite, GoTo, Conclude, provider
<1>5. CASE SendPost(p) \/ PostReturns(p) \/ ReadAfter(p) \/ ReadForReconcile(p)
  BY <1>5 DEF SendPost, PostReturns, ReadAfter, ReadForReconcile, GoTo, Conclude, provider
<1>6. CASE Call(p)
  BY <1>6 DEF Call, Confirm, Replay, Create, StartReconcile, TakeUp
<1> QED
  BY <1>1, <1>2, <1>3, <1>4, <1>5, <1>6 DEF Step

\* A lock row is renewed, lapses, is acquired by a handler that found it free,
\* is released by its owner, or falls to recovery.
LEMMA LockMoves ==
    ASSUME IInv, [Next]_vars, NEW t \in Targets
    PROVE  \/ lock'[t] = lock[t]
           \/ /\ lock[t] \in Lock /\ lock'[t] \in Lock
              /\ lock'[t].cmd = lock[t].cmd /\ lock'[t].holder = lock[t].holder
              /\ lock'[t].live \/ LeaseExpires(t)
           \/ \E q \in Procs :
                /\ AcquireLock(q) \/ ReconcileLock(q)
                /\ t = req[job[q]].target
                /\ LockFree(t, {NoCmd, job[q]})
                /\ AcquireLock(q) => LockFree(t, {NoCmd})
                /\ lock'[t] = [cmd |-> job[q], holder |-> q, live |-> TRUE]
           \/ \E q \in Procs : Release(q) /\ Owns(q) /\ t = req[job[q]].target
           \/ Recover
<1> USE DEF IInv, TypeOK, LockTypeOK
<1> DEFINE Moved ==
           \/ lock'[t] = lock[t]
           \/ /\ lock[t] \in Lock /\ lock'[t] \in Lock
              /\ lock'[t].cmd = lock[t].cmd /\ lock'[t].holder = lock[t].holder
              /\ lock'[t].live \/ LeaseExpires(t)
           \/ \E q \in Procs :
                /\ AcquireLock(q) \/ ReconcileLock(q)
                /\ t = req[job[q]].target
                /\ LockFree(t, {NoCmd, job[q]})
                /\ AcquireLock(q) => LockFree(t, {NoCmd})
                /\ lock'[t] = [cmd |-> job[q], holder |-> q, live |-> TRUE]
           \/ \E q \in Procs : Release(q) /\ Owns(q) /\ t = req[job[q]].target
           \/ Recover
<1>2. CASE UNCHANGED lock
  BY <1>2
<1>3. ASSUME NEW q \in Procs, AcquireLock(q) \/ ReconcileLock(q) \/ Release(q) \/ Renew(q)
      PROVE  Moved
  <2> DEFINE u == req[job[q]].target
  <2>0. u \in Targets
    BY <1>3, JobType DEF AcquireLock, ReconcileLock, Release, Renew
  <2>1. CASE AcquireLock(q)
    <3>1. lock' = lock \/ (/\ LockFree(u, {NoCmd})
                           /\ lock' = [lock EXCEPT ![u] = [cmd |-> job[q], holder |-> q, live |-> TRUE]])
      BY <2>1 DEF AcquireLock, Acquire
    <3>2. LockFree(u, {NoCmd}) => LockFree(u, {NoCmd, job[q]})
      BY DEF LockFree
    <3> QED
      BY <2>0, <2>1, <3>1, <3>2
  <2>2. CASE ReconcileLock(q)
    <3>1. lock' = lock \/ (/\ LockFree(u, {NoCmd, job[q]})
                           /\ lock' = [lock EXCEPT ![u] = [cmd |-> job[q], holder |-> q, live |-> TRUE]])
      BY <2>2 DEF ReconcileLock, Acquire
    <3>2. ~AcquireLock(q)
      BY <2>2 DEF ReconcileLock, AcquireLock
    <3> QED
      BY <2>0, <2>2, <3>1, <3>2
  <2>3. CASE Release(q)
    BY <2>0, <2>3 DEF Release
  <2>4. CASE Renew(q)
    <3>1. CASE lock' = [lock EXCEPT ![u].live = TRUE] /\ Owns(q)
      <4>1. lock[u] \in Lock
        BY <2>0, <3>1 DEF Owns, Carries
      <4>2. u = t => /\ lock'[t].cmd = lock[t].cmd /\ lock'[t].holder = lock[t].holder
                     /\ lock'[t].live /\ lock'[t] \in Lock
        BY <2>0, <3>1, <4>1 DEF Lock
      <4> QED
        BY <2>0, <3>1, <4>1, <4>2
    <3> QED
      BY <1>2, <2>4, <3>1 DEF Renew, CanRenew
  <2> QED
    BY <1>3, <2>1, <2>2, <2>3, <2>4
<1>4. ASSUME NEW u \in Targets, LeaseExpires(u)
      PROVE  Moved
  <2>1. lock[u] \in Lock
    BY <1>4 DEF LeaseExpires, LeaseLive
  <2>2. u = t => /\ lock'[t].cmd = lock[t].cmd /\ lock'[t].holder = lock[t].holder
                 /\ lock'[t] \in Lock
    BY <1>4, <2>1 DEF LeaseExpires, Lock
  <2> QED
    BY <1>4, <2>1, <2>2 DEF LeaseExpires
<1> QED
  BY ZenonT(60), <1>2, <1>3, <1>4
     DEF Next, Environment, Step, Call, Confirm, Replay, Create, StartReconcile,
         PreflightFails, Claim, ReadBefore, FailBeforeWrite, SendPost, PostReturns,
         ReadAfter, Finish, BeginReconcile, ReadForReconcile,
         RecordReconciliation, IssuePreview, ExpirePreview, StartPreview,
         ExternalEdit, Land, Drop, UnknownAges, Crash, StopAll, Start, vars

\* A quarantine row is set by a handler that finishes without an answer, by a
\* reconciliation that got none, or by recovery; a conclusive reconciliation of
\* its owner lifts it.
LEMMA QuarantineMoves ==
    ASSUME IInv, [Next]_vars, NEW t \in Targets
    PROVE  \/ quarantine'[t] = quarantine[t]
           \/ /\ quarantine[t] = NoCmd
              /\ \E p \in Procs :
                    /\ t = req[job[p]].target
                    /\ \/ Finish(p) /\ out[p] = "unknown"
                       \/ RecordReconciliation(p) /\ status[job[p]] = "unknown"
           \/ \E p \in Procs :
                /\ RecordReconciliation(p) /\ quarantine[t] = job[p]
                /\ status'[job[p]] # "unknown"
           \/ Recover /\ quarantine[t] = NoCmd /\ quarantine'[t] \in InProgressOn(t)
<1> USE DEF IInv, TypeOK, LockTypeOK
<1>1. CASE UNCHANGED quarantine
  BY <1>1
<1>2. ASSUME NEW p \in Procs, Finish(p), quarantine'[t] # quarantine[t]
      PROVE  quarantine[t] = NoCmd /\ t = req[job[p]].target /\ out[p] = "unknown"
  BY <1>2, JobType DEF Finish, WithQuarantine
<1>3. ASSUME NEW p \in Procs, RecordReconciliation(p), quarantine'[t] # quarantine[t]
      PROVE  \/ quarantine[t] = NoCmd /\ t = req[job[p]].target /\ status[job[p]] = "unknown"
             \/ quarantine[t] = job[p] /\ status'[job[p]] # "unknown"
  BY <1>3, JobType DEF RecordReconciliation, WithQuarantine, LiftQuarantine, LedgerTypeOK
<1>4. CASE Recover
  BY <1>4 DEF Recover
<1> QED
  BY ZenonT(60), <1>1, <1>2, <1>3, <1>4
     DEF Next, Environment, Step, Call, Confirm, Replay, Create, StartReconcile,
         AcquireLock, PreflightFails, Claim, ReadBefore, Renew, FailBeforeWrite, SendPost,
         PostReturns, ReadAfter, ReconcileLock, BeginReconcile, ReadForReconcile, Release,
         IssuePreview, ExpirePreview, StartPreview, LeaseExpires, ExternalEdit, Land, Drop,
         UnknownAges, Crash, StopAll, Start, vars

-----------------------------------------------------------------------------
(* Histories spared by lapses or by crashes *)

\* Recovery runs while no handler works.
LEMMA RecoveryAlone ==
    ASSUME IInv, Recover, [Next]_vars, NEW p \in Procs
    PROVE  pc[p] = "idle" /\ pc'[p] = "idle"
  BY DEF IInv, HandlerInv, Recover, local

\* The row of an executing owner stays its own.
LEMMA OwnerKept ==
    ASSUME IInv, [Next]_vars, NEW p \in Procs, pc[p] \in Executing, pc'[p] \in Executing,
           job'[p] = job[p], Owns(p)
    PROVE  Owns(p)'
<1> USE DEF IInv, TypeOK
<1> DEFINE t == req[job[p]].target
<1>1. /\ t \in Targets
      /\ req'[job[p]] = req[job[p]]
      /\ job[p] \in InProgressOn(t)
  BY JobType, RequestsImmutable DEF HandlerInv, Executing, InProgressOn, OnTarget
<1>2. lock[t] # NoLock /\ lock[t].cmd = job[p] /\ lock[t].holder = p
  BY DEF Owns, Carries
<1>3. lock'[t] # NoLock /\ lock'[t].cmd = job[p] /\ lock'[t].holder = p
  <2>1. ~Recover
    BY RecoveryAlone DEF Executing
  <2>2. ASSUME NEW q \in Procs, LockFree(t, {NoCmd, job[q]})
        PROVE  FALSE
    BY <1>1, <2>2 DEF LockFree
  <2>3. ASSUME NEW q \in Procs, Release(q), Owns(q), t = req[job[q]].target
        PROVE  FALSE
    BY <1>2, <2>3 DEF Release, Owns, Carries, Executing
  <2>4. CASE /\ lock[t] \in Lock /\ lock'[t] \in Lock
             /\ lock'[t].cmd = lock[t].cmd /\ lock'[t].holder = lock[t].holder
    BY <1>2, <2>4, NullAssumption DEF Lock
  <2> QED
    BY <1>1, <1>2, <2>1, <2>2, <2>3, <2>4, LockMoves
<1> QED
  BY <1>1, <1>3 DEF Owns, Carries

\* Only an acquisition makes an owner.
LEMMA OwnerBefore ==
    ASSUME IInv, [Next]_vars, NEW p \in Procs, pc[p] # "idle",
           job'[p] = job[p], Owns(p)', ~AcquireLock(p), ~ReconcileLock(p)
    PROVE  Owns(p)
<1> USE DEF IInv, TypeOK
<1> DEFINE t == req[job[p]].target
<1>1. t \in Targets /\ req'[job[p]] = req[job[p]] /\ lock[t] \in Lock \cup {NoLock}
  BY JobType, RequestsImmutable DEF LockTypeOK
<1>2. lock'[t] # NoLock /\ lock'[t].cmd = job[p] /\ lock'[t].holder = p
  BY <1>1 DEF Owns, Carries
<1>3. ~Recover
  BY RecoveryAlone
<1>4. ASSUME NEW q \in Procs, Release(q)
      PROVE  lock'[t] = lock[t]
  BY <1>1, <1>2, <1>4, JobType DEF Release, LockTypeOK
<1>5. lock'[t] = lock[t] \/ (lock[t] \in Lock /\ lock'[t].cmd = lock[t].cmd /\ lock'[t].holder = lock[t].holder)
  <2>1. ASSUME NEW q \in Procs, AcquireLock(q) \/ ReconcileLock(q),
               lock'[t] = [cmd |-> job[q], holder |-> q, live |-> TRUE]
        PROVE  FALSE
    BY <1>2, <2>1
  <2> QED
    BY <1>1, <1>3, <1>4, <2>1, LockMoves
<1> QED
  BY <1>1, <1>2, <1>5, NullAssumption DEF Owns, Carries, Lock

\* Finishing records an outcome for good: the command is no longer in progress.
LEMMA FinishConcludes ==
    ASSUME IInv, NEW p \in Procs, Finish(p)
    PROVE  /\ job[p] \in Commands
           /\ status'[job[p]] = out[p]
           /\ out[p] \in Outcomes
           /\ \A c \in Commands \ {job[p]} : status'[c] = status[c]
<1> USE DEF IInv, TypeOK
<1>1. pc[p] = "concluded" /\ job[p] \in Commands /\ out[p] \in Outcomes
  BY JobType DEF Finish, ProcTypeOK
<1>2. status[job[p]] = "in_progress"
  BY <1>1 DEF HandlerInv, Executing
<1>3. count[job[p]] = 1 /\ AttemptFree(job[p], 1)
  BY <1>1, <1>2, BoundAssumption DEF CountInv, AttemptsLedger, AttemptFree
<1> QED
  BY <1>1, <1>2, <1>3 DEF Finish, LedgerTypeOK

\* Which command may come to be unresolved: one just claimed.
LEMMA UnresolvedMoves ==
    ASSUME IInv, [Next]_vars, NEW c \in Created', status'[c] \in {"in_progress", "unknown"}
    PROVE  /\ c \in Created
           /\ req'[c] = req[c]
           /\ \/ status[c] \in {"in_progress", "unknown"}
              \/ \E p \in Procs : c = job[p] /\ Claim(p) /\ status[c] = "queued"
           /\ status'[c] = "unknown" =>
                \/ status[c] = "unknown"
                \/ \E p \in Procs : c = job[p] /\ Finish(p) /\ out[p] = "unknown"
                \/ Recover /\ c \in Interrupted
           /\ status'[c] = "in_progress" =>
                \/ status[c] = "in_progress"
                \/ \E p \in Procs : c = job[p] /\ Claim(p) /\ status[c] = "queued"
<1> USE DEF IInv, TypeOK
<1>0. c \in Commands
  BY DEF Created
<1>1. ASSUME NEW p \in Procs, c = job[p], Claim(p)
      PROVE  status'[c] = status[c] \/ (status[c] = "queued" /\ status'[c] = "in_progress")
  BY <1>0, <1>1 DEF Claim, CanClaim, LedgerTypeOK
<1>2. ASSUME NEW p \in Procs, c = job[p], SendPost(p)
      PROVE  status'[c] = status[c]
  BY <1>2 DEF SendPost, ledger
<1>3. ASSUME NEW p \in Procs, c = job[p], Finish(p)
      PROVE  status[c] = "in_progress" /\ status'[c] = out[p] /\ out[p] \in Outcomes
  BY <1>3, FinishConcludes DEF Finish, HandlerInv, Executing
<1>4. ASSUME NEW p \in Procs, c = job[p], RecordReconciliation(p)
      PROVE  status'[c] = status[c] \/ (status[c] = "unknown" /\ status'[c] = out[p] /\ out[p] \in Outcomes)
  BY <1>0, <1>4 DEF RecordReconciliation, LedgerTypeOK, ProcTypeOK
<1>5. ASSUME Land(c) \/ Drop(c) \/ UnknownAges(c)
      PROVE  status'[c] = status[c]
  BY <1>5 DEF Land, Drop, UnknownAges, ledger
<1>6. c \in Interrupted => status[c] = "in_progress"
  BY DEF Interrupted
<1>7. c \in Created
  BY <1>0, <1>1, <1>2, <1>3, <1>4, <1>5, <1>6, CommandSteps DEF Created, Interrupted
<1>8. req'[c] = req[c]
  BY <1>7, RequestsImmutable
<1>9. \/ status'[c] = status[c]
      \/ \E p \in Procs : c = job[p] /\ Claim(p) /\ status[c] = "queued" /\ status'[c] = "in_progress"
      \/ \E p \in Procs : c = job[p] /\ Finish(p) /\ out[p] = "unknown" /\ status[c] = "in_progress"
                            /\ status'[c] = "unknown"
      \/ Recover /\ c \in Interrupted /\ status[c] = "in_progress" /\ status'[c] = "unknown"
  <2>1. ASSUME Recover, c \in Interrupted
        PROVE  status'[c] = "unknown"
    BY <1>0, <2>1 DEF Recover
  <2>2. "in_progress" \notin Outcomes
    BY DEF Outcomes, Terminal
  <2> QED
    BY <1>0, <1>1, <1>2, <1>3, <1>4, <1>5, <1>6, <2>1, <2>2, CommandSteps
<1> QED
  BY <1>7, <1>8, <1>9

LEMMA PosterStep ==
    ASSUME IInv, PosterOwns, [Next]_vars
    PROVE  PosterOwns'
<1> SUFFICES ASSUME NEW p \in Procs, pc'[p] = "concluded",
                    out'[p] = "unknown" \/ posts'[job'[p]] > 0
             PROVE  Owns(p)'
  BY DEF PosterOwns
<1> USE DEF IInv, TypeOK
<1>1. CASE UNCHANGED <<pc[p], job[p], out[p]>>
  <2>1. job[p] \in Commands /\ pc[p] \in Executing /\ pc'[p] \in Executing
    BY <1>1, JobType DEF Executing
  <2>2. posts'[job[p]] = posts[job[p]]
    <3>1. ASSUME NEW q \in Procs, SendPost(q), job[q] = job[p]
          PROVE  FALSE
      BY <1>1, <2>1, <3>1 DEF SendPost, HandlerInv, Executing
    <3> QED
      BY <2>1, <3>1, CommandSteps DEF Land, Drop, UnknownAges, Recover, Claim, Finish,
           RecordReconciliation, provider
  <2>3. Owns(p)
    BY <1>1, <2>2 DEF PosterOwns
  <2> QED
    BY <1>1, <2>1, <2>3, OwnerKept
<1>2. CASE Step(p) \/ Call(p)
  <2>1. pc[p] \in {"posted", "accepted"} /\ job'[p] = job[p]
    <3>1. job'[p] = job[p] /\ pc[p] # "idle"
      BY <1>2, HandlerPath DEF Holding, Executing
    <3>2. CASE pc[p] \in {"claimed", "compared", "fenced"} /\ out'[p] # "unknown" /\ UNCHANGED posts
      <4>1. job[p] \in Commands /\ posts[job[p]] = 0
        BY <3>1, <3>2, JobType DEF HandlerPostInv, PostInv
      <4> QED
        BY <3>1, <3>2, <4>1
    <3> QED
      BY <1>2, <3>1, <3>2, HandlerPath
  <2>2. Owns(p)
    BY <2>1 DEF FenceInv, Writing
  <2> QED
    BY <2>1, <2>2, OwnerKept DEF Executing
<1> QED
  BY <1>1, <1>2, HandlerMoves

LEMMA OwnerUnquarantinedStep ==
    ASSUME IInv, PosterOwns, OwnerUnquarantined, UnknownTargetQuarantined, [Next]_vars
    PROVE  OwnerUnquarantined'
<1> SUFFICES ASSUME NEW p \in Procs, pc'[p] \in Executing \cup {"locked"}, Owns(p)'
             PROVE  quarantine'[req'[job'[p]].target] = NoCmd
  BY DEF OwnerUnquarantined
<1> USE DEF IInv, TypeOK
<1> DEFINE t == req[job[p]].target
<1>1. CASE AcquireLock(p)
  <2>1. quarantine' = quarantine /\ req' = req /\ LockFree(t, {NoCmd}) /\ job' = job
    BY <1>1 DEF AcquireLock, Acquire, GoTo, Forget, ledger, Executing, ProcTypeOK
  <2> QED
    BY <2>1 DEF LockFree
<1>2. CASE ~AcquireLock(p)
  <2>1. pc[p] \in Executing \cup {"locked"} /\ job'[p] = job[p] /\ ~Finish(p)
    <3>1. CASE UNCHANGED <<pc[p], job[p], out[p]>>
      BY <3>1 DEF Finish, WindUp, ProcTypeOK, Executing
    <3>2. CASE Step(p) \/ Call(p)
      <4>1. ~Finish(p)
        BY DEF Finish, WindUp, ProcTypeOK, Executing
      <4>2. job'[p] = job[p]
        BY <3>2, HandlerPath DEF Holding
      <4>3. Claim(p) => pc[p] = "locked"
        BY DEF Claim
      <4> QED
        BY <1>2, <3>2, <4>1, <4>2, <4>3, HandlerPath
    <3> QED
      BY <3>1, <3>2, HandlerMoves DEF Executing
  <2>2. t \in Targets /\ pc[p] # "idle" /\ req'[job[p]] = req[job[p]]
    BY <2>1, JobType, RequestsImmutable DEF Executing
  <2>3. Owns(p)
    BY <1>2, <2>1, <2>2, OwnerBefore DEF ReconcileLock, Executing
  <2>4. quarantine[t] = NoCmd
    BY <2>1, <2>3 DEF OwnerUnquarantined
  <2>5. ASSUME NEW q \in Procs, t = req[job[q]].target, Finish(q), out[q] = "unknown"
        PROVE  FALSE
    <3>1. Owns(q)
      BY <2>5 DEF Finish, PosterOwns
    <3> QED
      BY <2>1, <2>3, <2>5, <3>1 DEF Owns, Carries
  <2>6. ASSUME NEW q \in Procs, t = req[job[q]].target, RecordReconciliation(q),
               status[job[q]] = "unknown"
        PROVE  FALSE
    BY <2>4, <2>6, JobType DEF RecordReconciliation, UnknownTargetQuarantined
  <2>7. ASSUME NEW q \in Procs, RecordReconciliation(q), quarantine[t] = job[q]
        PROVE  FALSE
    BY <2>4, <2>7, JobType, NullAssumption DEF RecordReconciliation
  <2>8. ~Recover
    BY <2>2, RecoveryAlone
  <2>9. quarantine'[t] = quarantine[t]
    BY <2>2, <2>5, <2>6, <2>7, <2>8, QuarantineMoves
  <2> QED
    BY <2>1, <2>2, <2>4, <2>9
<1> QED
  BY <1>1, <1>2

LEMMA UnknownAloneStep ==
    ASSUME IInv, SparedInv, Spared, [Next]_vars
    PROVE  AloneIn({"unknown"})'
<1> USE DEF IInv, TypeOK, SparedInv
<1> SUFFICES ASSUME NEW c \in Created', NEW d \in Created',
                    status'[c] = "unknown", status'[d] = "unknown",
                    req'[c].target = req'[d].target
             PROVE  c = d
  BY DEF AloneIn
<1>1. /\ c \in Created /\ d \in Created
      /\ req[c].target = req[d].target
      /\ req[c].target \in Targets
  <2>1. /\ c \in Created /\ d \in Created
        /\ req'[c] = req[c] /\ req'[d] = req[d]
    BY UnresolvedMoves
  <2> QED
    BY <2>1 DEF LedgerTypeOK, Request
\* A handler that finishes without an answer owns a target with no quarantine.
<1>2. ASSUME NEW x \in Created, NEW y \in Created, NEW p \in Procs, x = job[p], Finish(p), out[p] = "unknown",
             status[y] = "unknown", req[x].target = req[y].target
      PROVE  FALSE
  <2>1. Owns(p) /\ pc[p] = "concluded"
    BY <1>2 DEF Finish, PosterOwns
  <2>2. quarantine[req[x].target] = NoCmd
    BY <1>2, <2>1 DEF OwnerUnquarantined, Executing
  <2> QED
    BY <1>2, <2>2 DEF UnknownTargetQuarantined
<1>3. ASSUME NEW p \in Procs, NEW q \in Procs, c = job[p], Finish(p), d = job[q], Finish(q),
             out[p] = "unknown", out[q] = "unknown"
      PROVE  c = d
  <2>1. Owns(p) /\ Owns(q)
    BY <1>3 DEF Finish, PosterOwns
  <2> QED
    BY <1>1, <1>3, <2>1 DEF Owns, Carries
<1>4. CASE Recover
  <2>1. LeaseLasts
    BY <1>4 DEF Recover, HandlerLives, Spared
  <2>2. status[c] \in {"in_progress", "unknown"} /\ status[d] \in {"in_progress", "unknown"}
    BY <1>4 DEF Recover, Interrupted, Created
  <2> QED
    BY <1>1, <2>1, <2>2 DEF LeaseLasts, AloneIn
<1>5. CASE ~Recover
  <2>1. status[c] = "unknown" \/ \E p \in Procs : c = job[p] /\ Finish(p) /\ out[p] = "unknown"
    BY <1>5, UnresolvedMoves
  <2>2. status[d] = "unknown" \/ \E p \in Procs : d = job[p] /\ Finish(p) /\ out[p] = "unknown"
    BY <1>5, UnresolvedMoves
  <2>3. CASE status[c] = "unknown" /\ status[d] = "unknown"
    BY <1>1, <2>3 DEF AloneIn
  <2> QED
    BY <1>1, <1>2, <1>3, <2>1, <2>2, <2>3
<1> QED
  BY <1>4, <1>5

LEMMA UnknownQuarantinedStep ==
    ASSUME IInv, SparedInv, [Next]_vars
    PROVE  UnknownTargetQuarantined'
<1> USE DEF IInv, TypeOK, SparedInv
<1> SUFFICES ASSUME NEW c \in Created', status'[c] = "unknown"
             PROVE  quarantine'[req'[c].target] # NoCmd
  BY DEF UnknownTargetQuarantined
<1> DEFINE t == req[c].target
<1>1. /\ c \in Created /\ c \in Commands /\ req'[c] = req[c] /\ t \in Targets
  <2>1. c \in Created /\ req'[c] = req[c]
    BY UnresolvedMoves
  <2> QED
    BY <2>1 DEF LedgerTypeOK, Request, Created
<1>2. CASE status[c] = "unknown"
  <2>1. quarantine[t] # NoCmd
    BY <1>1, <1>2 DEF UnknownTargetQuarantined
  <2>2. ASSUME NEW p \in Procs, RecordReconciliation(p), quarantine[t] = job[p],
               status'[job[p]] # "unknown"
        PROVE  FALSE
    <3>1. job[p] \in Created /\ status[job[p]] = "unknown" /\ req[job[p]].target = t
      BY <1>1, <2>1, <2>2, JobType DEF RecordReconciliation, QuarantineOwnerUnknown
    <3>2. job[p] = c
      BY <1>1, <1>2, <3>1 DEF AloneIn
    <3> QED
      BY <2>2, <3>2
  <2> QED
    BY <1>1, <2>1, <2>2, QuarantineMoves
<1>3. ASSUME NEW p \in Procs, c = job[p], Finish(p), out[p] = "unknown"
      PROVE  quarantine'[t] # NoCmd
  <2>1. pc[p] = "concluded" /\ status[c] = "in_progress" /\ count[c] = 1 /\ AttemptFree(c, 1)
    BY <1>3, FinishConcludes, BoundAssumption
       DEF Finish, HandlerInv, Executing, CountInv, AttemptsLedger, AttemptFree
  <2>2. quarantine' = WithQuarantine(c)
    BY <1>3, <2>1 DEF Finish
  <2> QED
    BY <1>1, <2>2, NullAssumption DEF WithQuarantine, LockTypeOK
<1>4. CASE Recover /\ c \in Interrupted
  <2>1. c \in InProgressOn(t)
    BY <1>1, <1>4 DEF Interrupted, InProgressOn, OnTarget
  <2>2. \/ quarantine[t] # NoCmd /\ quarantine'[t] = quarantine[t]
        \/ quarantine'[t] \in InProgressOn(t)
    BY <1>1, <1>4, <2>1 DEF Recover
  <2>3. NoCmd \notin InProgressOn(t)
    BY NullAssumption DEF InProgressOn, OnTarget, Created
  <2> QED
    BY <1>1, <2>2, <2>3
<1> QED
  BY <1>1, <1>2, <1>3, <1>4, UnresolvedMoves

LEMMA HandlerLivesStep ==
    ASSUME IInv, HandlerLives, ~MayCrash, [Next]_vars
    PROVE  HandlerLives'
<1> USE DEF IInv, TypeOK
<1>1. apiUp'
  <2>1. ASSUME NEW p \in Procs, Step(p) PROVE apiUp'
    <3>1. CASE \/ AcquireLock(p) \/ PreflightFails(p) \/ Claim(p) \/ ReadBefore(p) \/ Renew(p)
               \/ FailBeforeWrite(p) \/ SendPost(p) \/ PostReturns(p)
      BY <3>1 DEF HandlerLives, AcquireLock, PreflightFails, Claim, ReadBefore, Renew,
           FailBeforeWrite, SendPost, PostReturns
    <3>2. CASE \/ ReadAfter(p) \/ Finish(p) \/ ReconcileLock(p) \/ BeginReconcile(p)
               \/ ReadForReconcile(p) \/ RecordReconciliation(p) \/ Release(p)
      BY <3>2 DEF HandlerLives, ReadAfter, Finish, ReconcileLock, BeginReconcile,
           ReadForReconcile, RecordReconciliation, Release
    <3> QED
      BY <2>1, <3>1, <3>2 DEF Step
  <2>2. ASSUME NEW p \in Procs, Call(p) PROVE apiUp'
    BY <2>2 DEF HandlerLives, Call, Confirm, Replay, Create, StartReconcile
  <2>3. CASE Environment
    BY <2>3 DEF HandlerLives, Environment, IssuePreview, ExpirePreview, StartPreview,
         LeaseExpires, ExternalEdit, Land, Drop, UnknownAges, Crash, StopAll, Start, Recover
  <2>4. CASE UNCHANGED vars
    BY <2>4 DEF HandlerLives, vars
  <2> QED
    BY <2>1, <2>2, <2>3, <2>4 DEF Next
<1>2. ASSUME NEW c \in Commands, status'[c] = "in_progress"
      PROVE  \E p \in Procs : pc'[p] \in Executing /\ job'[p] = c
  <2>1. c \in Created'
    BY <1>2 DEF Created
  <2>2. CASE status[c] = "in_progress"
    <3>1. PICK p \in Procs : pc[p] \in Executing /\ job[p] = c
      BY <2>2 DEF HandlerLives
    <3>2. ~Finish(p)
      BY <1>2, <3>1, FinishConcludes DEF Outcomes, Terminal
    <3>3. pc'[p] \in Executing /\ job'[p] = c
      <4>1. CASE UNCHANGED <<pc[p], job[p], out[p]>>
        BY <3>1, <4>1
      <4>2. CASE Step(p) \/ Call(p)
        BY <3>1, <3>2, <4>2, HandlerPath
      <4> QED
        BY <4>1, <4>2, HandlerMoves
    <3> QED
      BY <3>3
  <2>3. ASSUME NEW p \in Procs, c = job[p], Claim(p), status[c] = "queued"
        PROVE  pc'[p] \in Executing /\ job'[p] = c
    BY <2>3 DEF Claim, CanClaim, GoTo, ProcTypeOK, Executing
  <2> QED
    BY <1>2, <2>1, <2>2, <2>3, UnresolvedMoves
<1> QED
  BY <1>1, <1>2 DEF HandlerLives

\* Two handlers at work on one target would hold the same lock row.
LEMMA OneHolder ==
    ASSUME TypeOK, LeaseLasts, NEW p \in Procs, NEW q \in Procs,
           pc[p] \in Holding, pc[q] \in Holding, req[job[p]].target = req[job[q]].target
    PROVE  p = q
  BY DEF LeaseLasts, Owns, Carries

LEMMA LeaseStep ==
    ASSUME IInv, LeaseLasts, ~LapseWhileHeld, [Next]_vars, NEW p \in Procs, pc'[p] \in Holding
    PROVE  Owns(p)' /\ lock'[req'[job'[p]].target].live
<1> USE DEF IInv, TypeOK
<1> DEFINE t == req[job[p]].target
<1>1. /\ job'[p] = job[p]
      /\ pc[p] # "idle"
      /\ \/ pc[p] \in Holding
         \/ AcquireLock(p) /\ pc'[p] = "locked"
         \/ ReconcileLock(p) /\ pc'[p] = "r_locked"
  <2>1. CASE UNCHANGED <<pc[p], job[p], out[p]>>
    BY <2>1 DEF Holding, Executing, Reconciling
  <2>2. CASE Step(p) \/ Call(p)
    BY <2>2, HandlerPath
  <2>3. pc'[p] # "idle"
    BY DEF Holding, Executing, Reconciling
  <2> QED
    BY <2>1, <2>2, <2>3, HandlerMoves
<1>2. t \in Targets /\ req'[job[p]] = req[job[p]] /\ lock \in [Targets -> Lock \cup {NoLock}]
  BY <1>1, JobType, RequestsImmutable DEF LockTypeOK
<1>3. SUFFICES lock'[t] # NoLock /\ lock'[t].cmd = job[p] /\ lock'[t].holder = p /\ lock'[t].live
  BY <1>1, <1>2 DEF Owns, Carries
<1>4. CASE (AcquireLock(p) /\ pc'[p] = "locked") \/ (ReconcileLock(p) /\ pc'[p] = "r_locked")
  <2>1. lock' = [lock EXCEPT ![t] = [cmd |-> job[p], holder |-> p, live |-> TRUE]]
    BY <1>4 DEF AcquireLock, ReconcileLock, Acquire, Forget, ProcTypeOK
  <2>2. [cmd |-> job[p], holder |-> p, live |-> TRUE] \in Lock
    BY <1>1, JobType DEF Lock
  <2>3. lock'[t] = [cmd |-> job[p], holder |-> p, live |-> TRUE]
    BY <1>2, <2>1
  <2>4. lock'[t] # NoLock
    BY <2>2, <2>3, NullAssumption DEF Lock
  <2> QED
    BY <2>3, <2>4
<1>5. CASE pc[p] \in Holding
  <2>1. /\ lock[t] # NoLock /\ lock[t].cmd = job[p] /\ lock[t].holder = p /\ lock[t].live
        /\ Held(p, t)
    BY <1>5 DEF LeaseLasts, Owns, Carries, Held
  <2>2. ~LeaseExpires(t)
    BY <2>1 DEF LeaseExpires
  <2>3. ASSUME NEW q \in Procs, LockFree(t, {NoCmd, job[q]})
        PROVE  FALSE
    BY <2>1, <2>3 DEF LockFree, LeaseLive
  <2>4. ASSUME NEW q \in Procs, Release(q), Owns(q), t = req[job[q]].target
        PROVE  FALSE
    <3>1. q = p
      BY <2>1, <2>4 DEF Owns, Carries
    <3> QED
      BY <2>4, <3>1 DEF Release, Forget, Holding, Executing, Reconciling
  <2>5. ~Recover
    BY <1>1, RecoveryAlone
  <2>6. CASE /\ lock[t] \in Lock /\ lock'[t] \in Lock
             /\ lock'[t].cmd = lock[t].cmd /\ lock'[t].holder = lock[t].holder
             /\ lock'[t].live
    BY <2>1, <2>6, NullAssumption DEF Lock
  <2> QED
    BY <1>2, <2>1, <2>2, <2>3, <2>4, <2>5, <2>6, LockMoves
<1> QED
  BY <1>1, <1>4, <1>5

LEMMA LeaseLastsStep ==
    ASSUME IInv, SparedInv, ~LapseWhileHeld, [Next]_vars
    PROVE  LeaseLasts'
<1> USE DEF IInv, TypeOK, SparedInv
<1>0. LeaseLasts
  OBVIOUS
\* A handler about to claim is alone: nothing of its target is unresolved.
<1>1. ASSUME NEW p \in Procs, Claim(p), NEW d \in Created,
             req[d].target = req[job[p]].target
      PROVE  status[d] \notin {"in_progress", "unknown"}
  <2>1. pc[p] = "locked" /\ Owns(p)
    BY <1>0, <1>1 DEF Claim, LeaseLasts, Holding
  <2>2. status[d] # "in_progress"
    BY <1>0, <1>1, <2>1 DEF LeaseLasts, InProgressOn, OnTarget
  <2>3. status[d] # "unknown"
    BY <1>1, <2>1 DEF OwnerUnquarantined, UnknownTargetQuarantined
  <2> QED
    BY <2>2, <2>3
<1>2. \A p \in Procs : pc'[p] \in Holding => Owns(p)' /\ lock'[req'[job'[p]].target].live
  BY <1>0, LeaseStep
<1>3. ASSUME NEW p \in Procs, pc'[p] = "locked", NEW d \in Created',
             req'[d].target = req'[job'[p]].target, status'[d] = "in_progress"
      PROVE  FALSE
  <2>1. d \in Created /\ req'[d] = req[d]
    BY <1>3, UnresolvedMoves
  <2>2. \/ UNCHANGED <<pc[p], job[p], out[p]>> /\ pc[p] = "locked"
        \/ AcquireLock(p) /\ job'[p] = job[p] /\ pc[p] # "idle"
    BY <1>3, HandlerMoves, HandlerPath DEF Holding
  <2>3. job'[p] = job[p] /\ req'[job[p]] = req[job[p]] /\ pc[p] # "idle"
    BY <2>2, JobType, RequestsImmutable
  <2>4. CASE AcquireLock(p)
    <3>1. LockFree(req[job[p]].target, {NoCmd}) /\ status' = status
      BY <1>3, <2>4 DEF AcquireLock, Acquire, Forget, ProcTypeOK, ledger
    <3> QED
      BY <1>3, <2>1, <2>3, <3>1 DEF LockFree, InProgressOn, OnTarget
  <2>5. CASE UNCHANGED <<pc[p], job[p], out[p]>> /\ pc[p] = "locked"
    <3>1. status[d] # "in_progress"
      BY <1>0, <1>3, <2>1, <2>3, <2>5 DEF LeaseLasts, InProgressOn, OnTarget
    <3>2. PICK q \in Procs : d = job[q] /\ Claim(q) /\ status[d] = "queued"
      BY <1>3, <3>1, UnresolvedMoves
    <3>3. p = q
      BY <1>0, <1>3, <2>1, <2>3, <2>5, <3>2, OneHolder DEF Claim, Holding
    <3> QED
      BY <2>5, <3>2, <3>3 DEF Claim, GoTo, WindUp, ProcTypeOK
  <2> QED
    BY <2>2, <2>4, <2>5
<1>4. ASSUME NEW c \in Created', NEW d \in Created',
             status'[c] \in {"in_progress", "unknown"}, status'[d] \in {"in_progress", "unknown"},
             req'[c].target = req'[d].target
      PROVE  c = d
  <2>1. /\ c \in Created /\ d \in Created
        /\ req'[c] = req[c] /\ req'[d] = req[d]
    BY <1>4, UnresolvedMoves
  <2>2. status[c] \in {"in_progress", "unknown"} \/ \E p \in Procs : c = job[p] /\ Claim(p)
    BY <1>4, UnresolvedMoves
  <2>3. status[d] \in {"in_progress", "unknown"} \/ \E p \in Procs : d = job[p] /\ Claim(p)
    BY <1>4, UnresolvedMoves
  <2>4. CASE status[c] \in {"in_progress", "unknown"} /\ status[d] \in {"in_progress", "unknown"}
    BY <1>0, <1>4, <2>1, <2>4 DEF LeaseLasts, AloneIn
  <2>5. ASSUME NEW p \in Procs, NEW q \in Procs, c = job[p], Claim(p), d = job[q], Claim(q)
        PROVE  c = d
    BY <1>0, <1>4, <2>1, <2>5, OneHolder DEF Claim, Holding
  <2> QED
    BY <1>1, <1>4, <2>1, <2>2, <2>3, <2>4, <2>5
<1>5. \A p \in Procs : pc'[p] = "locked" => InProgressOn(req[job[p]].target)' = {}
  BY <1>3 DEF InProgressOn, OnTarget
<1> QED
  BY <1>2, <1>4, <1>5 DEF LeaseLasts, AloneIn

LEMMA SparedStep == Spared /\ IInv /\ SparedInv /\ [Next]_vars => SparedInv'
<1> SUFFICES ASSUME Spared, IInv, SparedInv, [Next]_vars
             PROVE  SparedInv'
  OBVIOUS
<1>1. PosterOwns' /\ OwnerUnquarantined'
  BY PosterStep, OwnerUnquarantinedStep DEF SparedInv
<1>2. AloneIn({"unknown"})' /\ UnknownTargetQuarantined'
  BY UnknownAloneStep, UnknownQuarantinedStep
<1>3. ~MayCrash => HandlerLives'
  BY HandlerLivesStep DEF SparedInv
<1>4. ~LapseWhileHeld => LeaseLasts'
  BY LeaseLastsStep
<1> QED
  BY <1>1, <1>2, <1>3, <1>4 DEF SparedInv

\* What the strengthening adds holds at the start.
LEMMA InitSpared == Init => SparedInv
  BY DEF Init, SparedInv, PosterOwns, OwnerUnquarantined, AloneIn, Created, InProgressOn, OnTarget,
         UnknownTargetQuarantined, HandlerLives, LeaseLasts, Holding, Executing, Reconciling

\* As long as an outcome is unknown its target is quarantined, in every history
\* in which no lease lapses under a working handler or nothing crashes.
THEOREM UnknownIsQuarantined ==
    ASSUME Spared
    PROVE  Spec => []UnknownTargetQuarantined
<1>1. Init => SparedInv
  BY InitSpared
<1>2. IInv /\ SparedInv /\ [Next]_vars => SparedInv'
  BY SparedStep
<1>3. SparedInv => UnknownTargetQuarantined
  BY DEF SparedInv
<1> QED
  BY <1>1, <1>2, <1>3, Invariance, PTL DEF Spec

\* In those histories no POST goes to a target where another command that sent
\* one is still in progress or unknown.
THEOREM PostsOverNothingUnresolved ==
    ASSUME Spared
    PROVE  Spec => NoPostOverUnresolved
<1> DEFINE Clear ==
        \A c, d \in Created :
            /\ posts'[c] # posts[c]
            /\ d # c
            /\ req[d].target = req[c].target
            => status[d] \notin {"in_progress", "unknown"} \/ posts[d] = 0
<1>1. Init => SparedInv
  BY InitSpared
<1>2. IInv /\ SparedInv /\ [Next]_vars => SparedInv'
  BY SparedStep
<1>3. IInv /\ SparedInv /\ [Next]_vars => [Clear]_vars
  <2> SUFFICES ASSUME IInv, SparedInv, [Next]_vars, NEW c \in Created, NEW d \in Created,
                      posts'[c] # posts[c], d # c, req[d].target = req[c].target,
                      posts[d] # 0
               PROVE  status[d] \notin {"in_progress", "unknown"}
    OBVIOUS
  <2> USE DEF IInv, TypeOK, SparedInv
  <2>1. c \in Commands /\ d \in Commands
    BY DEF Created
  <2>2. PICK p \in Procs : c = job[p] /\ SendPost(p)
    BY <2>1, CommandSteps DEF Land, Drop, UnknownAges, Recover, Claim, Finish,
         RecordReconciliation, provider
  <2>3. pc[p] = "fenced" /\ Owns(p) /\ quarantine[req[c].target] = NoCmd /\ status[c] = "in_progress"
    BY <2>2 DEF SendPost, FenceInv, Writing, OwnerUnquarantined, Executing, HandlerInv
  <2>4. status[d] # "unknown"
    BY <2>3 DEF UnknownTargetQuarantined
  <2>5. CASE ~LapseWhileHeld
    BY <2>3, <2>5 DEF LeaseLasts, AloneIn
  <2>6. ASSUME ~MayCrash, status[d] = "in_progress"
        PROVE  FALSE
    <3>1. PICK q \in Procs : pc[q] \in Executing /\ job[q] = d
      BY <2>1, <2>6 DEF HandlerLives
    <3>2. pc[q] \notin {"claimed", "compared", "fenced"}
      BY <2>1, <3>1 DEF HandlerPostInv, PostInv
    <3>3. Owns(q)
      <4>1. posts[d] > 0
        BY <2>1 DEF ProviderTypeOK
      <4> QED
        BY <3>1, <3>2, <4>1 DEF Executing, FenceInv, Writing, PosterOwns
    <3> QED
      BY <2>2, <2>3, <3>1, <3>3 DEF Owns, Carries
  <2> QED
    BY <2>4, <2>5, <2>6 DEF Spared
<1> QED
  BY <1>1, <1>2, <1>3, Invariance, PTL DEF Spec, NoPostOverUnresolved
=============================================================================
