---------------------------- MODULE BudgetLedger ----------------------------
(***************************************************************************)
(* The durable ledger of Meta budget commands and the API processes that   *)
(* drive it: preview, confirm (submit, lock, claim, execute, finish),      *)
(* reconcile, resolve-unknown, and the offline recovery.                   *)
(*                                                                         *)
(* The database tables are value-level functions over Commands and         *)
(* Targets; one action is one transaction of the store or one call to      *)
(* Meta.  A Target is one (target_type, provider_target_id, budget_field). *)
(* Amounts are only compared for equality, so Values is any small set.     *)
(* All commands belong to one client: idempotency keys are per client.     *)
(***************************************************************************)
EXTENDS Naturals, FiniteSetsExt

CONSTANTS
    Procs,           \* request handlers of every API instance
    Commands,        \* rows that provider_budget_commands may come to hold
    Previews,        \* preview requests, each with its own nonce
    Keys,            \* Idempotency-Key values
    Targets,
    Values,
    NoCmd, NoRequest, NoPreview, NoLock, NoValue,
    MaxAttempts,     \* bound: attempts recorded for one command
    LapseWhileHeld,  \* may a lease run out while its handler is still at work?
    MayCrash         \* may processes die (and the operator recover offline)?

ASSUME BoundAssumption == MaxAttempts \in Nat \ {0}
ASSUME SwitchAssumption == LapseWhileHeld \in BOOLEAN /\ MayCrash \in BOOLEAN
ASSUME NullAssumption ==
    /\ NoCmd \notin Commands
    /\ NoLock \notin [cmd: Commands, holder: Procs, live: BOOLEAN]

VARIABLES
    \* the provider
    value,       \* value[t]: the budget Meta holds
    post,        \* post[c]: what became of the POST of command c
    posts,       \* posts[c]: how many POSTs were ever sent for c
    \* signed tokens in the hands of users
    preview,
    \* the database
    req,         \* req[c]: the immutable columns of the command row
    status,
    count,       \* attempt_count
    attempts,    \* attempts[c][n]: outcome column of attempt n, "none" if no row
    aged,        \* aged[c]: updated_at lies further back than the settlement window
    lock,        \* provider_budget_target_locks, one row per target
    quarantine,  \* provider_budget_target_quarantines, one row per target
    \* the API processes
    apiUp, pc, job, out, base, finalize

provider == <<value, post, posts>>
ledger   == <<req, status, count, attempts, aged>>
local    == <<pc, job, out, base, finalize>>
vars     == <<provider, preview, ledger, lock, quarantine, apiUp, local>>

Terminal  == {"applied", "conflict", "failed"}
Outcomes  == Terminal \cup {"unknown"}
Statuses  == Outcomes \cup {"none", "queued", "in_progress"}
PostState == {"none", "flying", "landed", "dropped"}
Request   == [target: Targets, amount: Values, before: Values,
              key: Keys, preview: Previews]
Preview   == [state: {"checked"}, target: Targets, amount: Values, before: {NoValue}]
             \cup [state: {"issued", "expired"}, target: Targets, amount: Values,
                   before: Values]
Lock      == [cmd: Commands, holder: Procs, live: BOOLEAN]

\* Where a handler stands.  Reconciling handlers have labels of their own.
Executing  == {"claimed", "compared", "fenced", "posted", "accepted", "concluded"}
Writing    == {"fenced", "posted", "accepted"}
Reconciling == {"r_locked", "r_begun", "r_read"}
Holding    == Executing \cup Reconciling \cup {"locked", "releasing"}
Labels     == Holding \cup {"idle", "submitted", "r_checked"}

Created    == {c \in Commands : status[c] # "none"}
OnTarget(t) == {c \in Created : req[c].target = t}
InProgressOn(t) == {c \in OnTarget(t) : status[c] = "in_progress"}

ProviderTypeOK ==
    /\ value \in [Targets -> Values]
    /\ post \in [Commands -> PostState]
    /\ posts \in [Commands -> Nat]
    /\ preview \in [Previews -> Preview \cup {NoPreview}]

LedgerTypeOK ==
    /\ req \in [Commands -> Request \cup {NoRequest}]
    /\ \A c \in Created : req[c] \in Request
    /\ status \in [Commands -> Statuses]
    /\ count \in [Commands -> 0..MaxAttempts]
    /\ attempts \in [Commands -> [1..MaxAttempts -> Outcomes \cup {"none"}]]
    /\ aged \in [Commands -> BOOLEAN]

LockTypeOK ==
    /\ lock \in [Targets -> Lock \cup {NoLock}]
    /\ quarantine \in [Targets -> Commands \cup {NoCmd}]

ProcTypeOK ==
    /\ apiUp \in BOOLEAN
    /\ pc \in [Procs -> Labels]
    /\ job \in [Procs -> Commands \cup {NoCmd}]
    /\ out \in [Procs -> Outcomes \cup {"none"}]
    /\ base \in [Procs -> 0..MaxAttempts]
    /\ finalize \in [Procs -> BOOLEAN]
    /\ \A p \in Procs :
        /\ pc[p] # "idle" => job[p] \in Created
        /\ pc[p] \in {"concluded", "r_read"} => out[p] # "none"
        /\ pc[p] \in {"r_begun", "r_read"} => base[p] < MaxAttempts

\* Every column, token and local has its type; a handler at work has a command,
\* a concluded one has an outcome to write down.
TypeOK == ProviderTypeOK /\ LedgerTypeOK /\ LockTypeOK /\ ProcTypeOK

Init ==
    /\ value \in [Targets -> Values]
    /\ post = [c \in Commands |-> "none"]
    /\ posts = [c \in Commands |-> 0]
    /\ preview = [v \in Previews |-> NoPreview]
    /\ req = [c \in Commands |-> NoRequest]
    /\ status = [c \in Commands |-> "none"]
    /\ count = [c \in Commands |-> 0]
    /\ attempts = [c \in Commands |-> [n \in 1..MaxAttempts |-> "none"]]
    /\ aged = [c \in Commands |-> FALSE]
    /\ lock = [t \in Targets |-> NoLock]
    /\ quarantine = [t \in Targets |-> NoCmd]
    /\ apiUp = TRUE
    /\ pc = [p \in Procs |-> "idle"]
    /\ job = [p \in Procs |-> NoCmd]
    /\ out = [p \in Procs |-> "none"]
    /\ base = [p \in Procs |-> 0]
    /\ finalize = [p \in Procs |-> FALSE]

-----------------------------------------------------------------------------
(* Steps of a handler's own state *)

\* The handler moves on; its other locals are untouched.
GoTo(p, label) ==
    /\ pc' = [pc EXCEPT ![p] = label]
    /\ UNCHANGED <<job, out, base, finalize>>

\* The handler has its outcome and will write it down next.
Conclude(p, label, o) ==
    /\ pc' = [pc EXCEPT ![p] = label]
    /\ out' = [out EXCEPT ![p] = o]
    /\ UNCHANGED <<job, base, finalize>>

\* The handler takes up command c.
TakeUp(p, c, label, f) ==
    /\ pc' = [pc EXCEPT ![p] = label]
    /\ job' = [job EXCEPT ![p] = c]
    /\ finalize' = [finalize EXCEPT ![p] = f]
    /\ UNCHANGED <<out, base>>

\* The work on the command is over: what remains is to release the lock.
WindUp(p) ==
    /\ pc' = [pc EXCEPT ![p] = "releasing"]
    /\ out' = [out EXCEPT ![p] = "none"]
    /\ base' = [base EXCEPT ![p] = 0]
    /\ finalize' = [finalize EXCEPT ![p] = FALSE]
    /\ UNCHANGED job

\* The request ends (or the process dies): every local is forgotten.
Forget(P) ==
    /\ pc' = [p \in Procs |-> IF p \in P THEN "idle" ELSE pc[p]]
    /\ job' = [p \in Procs |-> IF p \in P THEN NoCmd ELSE job[p]]
    /\ out' = [p \in Procs |-> IF p \in P THEN "none" ELSE out[p]]
    /\ base' = [p \in Procs |-> IF p \in P THEN 0 ELSE base[p]]
    /\ finalize' = [p \in Procs |-> IF p \in P THEN FALSE ELSE finalize[p]]

-----------------------------------------------------------------------------
(* Preview *)

\* The handler looks for a quarantine before it talks to Meta.
StartPreview(v, t, a) ==
    /\ apiUp
    /\ preview[v] = NoPreview
    /\ quarantine[t] = NoCmd
    /\ preview' = [preview EXCEPT ![v] =
            [state |-> "checked", target |-> t, amount |-> a, before |-> NoValue]]
    /\ UNCHANGED <<provider, ledger, lock, quarantine, apiUp, local>>

\* It then reads Meta, refuses a change that changes nothing, and signs.
IssuePreview(v) ==
    /\ apiUp
    /\ preview[v] # NoPreview
    /\ preview[v].state = "checked"
    /\ value[preview[v].target] # preview[v].amount
    /\ preview' = [preview EXCEPT ![v] =
            [@ EXCEPT !.state = "issued", !.before = value[preview[v].target]]]
    /\ UNCHANGED <<provider, ledger, lock, quarantine, apiUp, local>>

ExpirePreview(v) ==
    /\ preview[v] # NoPreview
    /\ preview[v].state = "issued"
    /\ preview' = [preview EXCEPT ![v].state = "expired"]
    /\ UNCHANGED <<provider, ledger, lock, quarantine, apiUp, local>>

-----------------------------------------------------------------------------
(* Confirm: submit *)

\* request_hash: the request and the observed value, not the preview's nonce.
SameRequest(r, s) ==
    /\ r.target = s.target
    /\ r.amount = s.amount
    /\ r.before = s.before

\* Mutant: the observed value is not carried into the row.
RequestWithoutBefore(v, k) ==
    [target |-> preview[v].target, amount |-> preview[v].amount,
     before |-> NoValue, key |-> k, preview |-> v]

RequestOf(v, k) ==
    [target |-> preview[v].target, amount |-> preview[v].amount,
     before |-> preview[v].before, key |-> k, preview |-> v]

\* The key is known and names the same request.  Only a command that is still
\* queued goes on to execution; otherwise the handler just returns the row.
Replay(p, r) ==
    \E c \in Created :
        /\ req[c].key = r.key
        /\ SameRequest(req[c], r)
        /\ status[c] = "queued"
        /\ TakeUp(p, c, "submitted", FALSE)
        /\ UNCHANGED <<provider, preview, ledger, lock, quarantine, apiUp>>

KeyUnused(k) == \A c \in Created : req[c].key # k

\* Mutant: nobody looks whether the preview was consumed.
PreviewAlwaysUnused(v) == TRUE

PreviewUnused(v) == \A c \in Created : req[c].preview # v

\* A new command, unless the key, the preview or the target forbids it.
Create(p, r) ==
    /\ KeyUnused(r.key)
    /\ PreviewUnused(r.preview)
    /\ quarantine[r.target] = NoCmd
    /\ \E c \in Commands \ Created :
        /\ req' = [req EXCEPT ![c] = r]
        /\ status' = [status EXCEPT ![c] = "queued"]
        /\ TakeUp(p, c, "submitted", FALSE)
    /\ UNCHANGED <<provider, preview, count, attempts, aged, lock, quarantine, apiUp>>

Confirm(p, v, k) ==
    /\ apiUp
    /\ pc[p] = "idle"
    /\ preview[v] # NoPreview
    /\ preview[v].state = "issued"
    /\ Replay(p, RequestOf(v, k)) \/ Create(p, RequestOf(v, k))

-----------------------------------------------------------------------------
(* The target lock *)

LeaseLive(t) == lock[t] # NoLock /\ lock[t].live

\* Mutant: acquire trusts the lease alone.
LockFreeByLease(t, allowed) == quarantine[t] \in allowed /\ ~LeaseLive(t)

\* acquire_target_lock: a quarantine not in allowed, any in-progress command of
\* the target and a live lease each refuse; a lapsed lease is overwritten.
LockFree(t, allowed) ==
    /\ quarantine[t] \in allowed
    /\ InProgressOn(t) = {}
    /\ ~LeaseLive(t)

Acquire(p, label, allowed) ==
    \/ /\ LockFree(req[job[p]].target, allowed)
       /\ lock' = [lock EXCEPT ![req[job[p]].target] =
                    [cmd |-> job[p], holder |-> p, live |-> TRUE]]
       /\ GoTo(p, label)
    \/ /\ ~LockFree(req[job[p]].target, allowed)
       /\ Forget({p})
       /\ UNCHANGED lock

AcquireLock(p) ==
    /\ pc[p] = "submitted"
    /\ Acquire(p, "locked", {NoCmd})
    /\ UNCHANGED <<provider, preview, ledger, quarantine, apiUp>>

\* The row of t carries this handler's command and lease token.
Carries(p, t) == lock[t] # NoLock /\ lock[t].cmd = job[p] /\ lock[t].holder = p
Owns(p)    == Carries(p, req[job[p]].target)
Held(p, t) == pc[p] \in Holding /\ Carries(p, t)

\* release_target_lock keeps the row of a command that is still in progress.
Release(p) ==
    /\ pc[p] = "releasing"
    /\ lock' = IF Owns(p) /\ status[job[p]] # "in_progress"
               THEN [lock EXCEPT ![req[job[p]].target] = NoLock]
               ELSE lock
    /\ Forget({p})
    /\ UNCHANGED <<provider, preview, ledger, quarantine, apiUp>>

\* The ten minutes pass.  Without LapseWhileHeld every handler ends within them.
LeaseExpires(t) ==
    /\ LeaseLive(t)
    /\ ~LapseWhileHeld => \A p \in Procs : ~Held(p, t)
    /\ lock' = [lock EXCEPT ![t].live = FALSE]
    /\ UNCHANGED <<provider, preview, ledger, quarantine, apiUp, local>>

-----------------------------------------------------------------------------
(* Confirm: execute *)

\* Mutant: a refusal before execute leaves without the finally clause.
PreflightLeaks(p) ==
    /\ pc[p] = "locked"
    /\ Forget({p})
    /\ UNCHANGED <<provider, preview, ledger, lock, quarantine, apiUp>>

\* Bound context, allow-list or authorization refuses: the command stays queued.
PreflightFails(p) ==
    /\ pc[p] = "locked"
    /\ WindUp(p)
    /\ UNCHANGED <<provider, preview, ledger, lock, quarantine, apiUp>>

\* Mutant: the UPDATE lacks its condition on 'queued'.
CanClaimAgain(c) == status[c] # "in_progress"

CanClaim(c) == status[c] = "queued"

Claim(p) ==
    /\ pc[p] = "locked"
    /\ \/ /\ CanClaim(job[p])
          /\ status' = [status EXCEPT ![job[p]] = "in_progress"]
          /\ count' = [count EXCEPT ![job[p]] = @ + 1]
          /\ GoTo(p, "claimed")
       \/ /\ ~CanClaim(job[p])
          /\ WindUp(p)
          /\ UNCHANGED <<status, count>>
    /\ UNCHANGED <<provider, preview, req, attempts, aged, lock, quarantine, apiUp>>

\* Compare-and-swap on what the user saw in the preview.
ReadBefore(p) ==
    LET r == req[job[p]] IN
    /\ pc[p] = "claimed"
    /\ \/ value[r.target] = r.before /\ GoTo(p, "compared")
       \/ value[r.target] # r.before /\ Conclude(p, "concluded", "conflict")
    /\ UNCHANGED <<provider, preview, ledger, lock, quarantine, apiUp>>

\* renew_target_lock does not look at lease_until: the token is what counts.
CanRenew(p) ==
    /\ Owns(p)
    /\ status[job[p]] = "in_progress"
    /\ quarantine[req[job[p]].target] = NoCmd

\* Mutant: the lost lease is raised out of execute instead of being recorded.
RenewGivesUp(p) ==
    /\ pc[p] = "compared"
    /\ \/ /\ CanRenew(p)
          /\ lock' = [lock EXCEPT ![req[job[p]].target].live = TRUE]
          /\ GoTo(p, "fenced")
       \/ /\ ~CanRenew(p)
          /\ WindUp(p)
          /\ UNCHANGED lock
    /\ UNCHANGED <<provider, preview, ledger, quarantine, apiUp>>

Renew(p) ==
    /\ pc[p] = "compared"
    /\ \/ /\ CanRenew(p)
          /\ lock' = [lock EXCEPT ![req[job[p]].target].live = TRUE]
          /\ GoTo(p, "fenced")
       \/ /\ ~CanRenew(p)
          /\ Conclude(p, "concluded", "conflict")
          /\ UNCHANGED lock
    /\ UNCHANGED <<provider, preview, ledger, quarantine, apiUp>>

\* Anything raised before the POST: a failed read, a storage error, or the last
\* authorization (which may also raise a conflict).
FailBeforeWrite(p) ==
    /\ \/ pc[p] \in {"claimed", "compared", "fenced"} /\ Conclude(p, "concluded", "failed")
       \/ pc[p] = "fenced" /\ Conclude(p, "concluded", "conflict")
    /\ UNCHANGED <<provider, preview, ledger, lock, quarantine, apiUp>>

SendPost(p) ==
    /\ pc[p] = "fenced"
    /\ post' = [post EXCEPT ![job[p]] = "flying"]
    /\ posts' = [posts EXCEPT ![job[p]] = @ + 1]
    /\ GoTo(p, "posted")
    /\ UNCHANGED <<value, preview, ledger, lock, quarantine, apiUp>>

\* What the handler makes of the answer: a receipt, Meta's definitive 4xx, or
\* a transport error, a 5xx or an answer without acknowledgement.
PostReturns(p) ==
    /\ pc[p] = "posted"
    /\ \/ post[job[p]] = "landed" /\ GoTo(p, "accepted")
       \/ post[job[p]] = "dropped" /\ Conclude(p, "concluded", "failed")
       \/ Conclude(p, "concluded", "unknown")
    /\ UNCHANGED <<provider, preview, ledger, lock, quarantine, apiUp>>

ReadAfter(p) ==
    LET r == req[job[p]] IN
    /\ pc[p] = "accepted"
    /\ \/ value[r.target] = r.amount /\ Conclude(p, "concluded", "applied")
       \/ Conclude(p, "concluded", "unknown")   \* another value, or the read failed
    /\ UNCHANGED <<provider, preview, ledger, lock, quarantine, apiUp>>

\* Mutant: the unknown outcome is not quarantined.
WithoutQuarantine(c) == quarantine

\* INSERT .. ON CONFLICT DO UPDATE .. WHERE command_id matches: first owner stays.
WithQuarantine(c) ==
    [quarantine EXCEPT ![req[c].target] = IF @ = NoCmd THEN c ELSE @]

\* UNIQUE(command_id, attempt_no)
AttemptFree(c, n) == attempts[c][n] = "none"

\* One transaction records the attempt, the status and the quarantine; when it
\* raises it changes nothing.
Finish(p) ==
    LET c == job[p] IN
    /\ pc[p] = "concluded"
    /\ IF status[c] = "in_progress" /\ AttemptFree(c, count[c])
       THEN /\ attempts' = [attempts EXCEPT ![c][count[c]] = out[p]]
            /\ status' = [status EXCEPT ![c] = out[p]]
            /\ aged' = [aged EXCEPT ![c] = FALSE]
            /\ quarantine' = IF out[p] = "unknown" THEN WithQuarantine(c) ELSE quarantine
       ELSE UNCHANGED <<attempts, status, aged, quarantine>>
    /\ WindUp(p)
    /\ UNCHANGED <<provider, preview, req, count, lock, apiUp>>

-----------------------------------------------------------------------------
(* Reconcile (f = FALSE) and resolve-unknown (f = TRUE): reads only *)

\* Mutant: resolve-unknown does not wait for the settlement window.
NeverTooYoung(c, f) == TRUE

\* Only resolve-unknown waits for the settlement window.
OldEnough(c, f) == f => aged[c]

\* The handler's own look at the row: unknown, and old enough to be resolved.
StartReconcile(p, c, f) ==
    /\ apiUp
    /\ pc[p] = "idle"
    /\ status[c] = "unknown"
    /\ OldEnough(c, f)
    /\ TakeUp(p, c, "r_checked", f)
    /\ UNCHANGED <<provider, preview, ledger, lock, quarantine, apiUp>>

ReconcileLock(p) ==
    /\ pc[p] = "r_checked"
    /\ Acquire(p, "r_locked", {NoCmd, job[p]})
    /\ UNCHANGED <<provider, preview, ledger, quarantine, apiUp>>

\* The context is refused, or the service reads the row again: it must still be
\* unknown, and its attempt_count numbers the new attempt.
BeginReconcile(p) ==
    /\ pc[p] = "r_locked"
    /\ \/ /\ status[job[p]] = "unknown"
          /\ count[job[p]] < MaxAttempts
          /\ pc' = [pc EXCEPT ![p] = "r_begun"]
          /\ base' = [base EXCEPT ![p] = count[job[p]]]
          /\ UNCHANGED <<job, out, finalize>>
       \/ WindUp(p)
    /\ UNCHANGED <<provider, preview, ledger, lock, quarantine, apiUp>>

\* A read cannot repeat the write; only resolve-unknown accepts a mismatch.
ReadForReconcile(p) ==
    LET r == req[job[p]] IN
    /\ pc[p] = "r_begun"
    /\ \/ value[r.target] = r.amount /\ Conclude(p, "r_read", "applied")
       \/ /\ value[r.target] # r.amount
          /\ Conclude(p, "r_read", IF finalize[p] THEN "conflict" ELSE "unknown")
       \/ Conclude(p, "r_read", "unknown")      \* the read failed
    /\ UNCHANGED <<provider, preview, ledger, lock, quarantine, apiUp>>

\* Mutant: a conclusive answer leaves the quarantine in place.
LiftNothing(c) == quarantine

\* A conclusive answer lifts this command's own quarantine, no other.
LiftQuarantine(c) ==
    [quarantine EXCEPT ![req[c].target] = IF @ = c THEN NoCmd ELSE @]

RecordReconciliation(p) ==
    LET c == job[p] IN
    /\ pc[p] = "r_read"
    /\ IF status[c] = "unknown" /\ AttemptFree(c, base[p] + 1)
       THEN /\ attempts' = [attempts EXCEPT ![c][base[p] + 1] = out[p]]
            /\ status' = [status EXCEPT ![c] = out[p]]
            /\ count' = [count EXCEPT ![c] = @ + 1]
            /\ aged' = [aged EXCEPT ![c] = FALSE]
            /\ quarantine' = IF out[p] = "unknown" THEN WithQuarantine(c)
                                                   ELSE LiftQuarantine(c)
       ELSE UNCHANGED <<attempts, status, count, aged, quarantine>>
    /\ WindUp(p)
    /\ UNCHANGED <<provider, preview, req, lock, apiUp>>

-----------------------------------------------------------------------------
(* Crashes and the offline recovery *)

Crash(p) ==
    /\ MayCrash
    /\ pc[p] # "idle"
    /\ Forget({p})
    /\ UNCHANGED <<provider, preview, ledger, lock, quarantine, apiUp>>

StopAll ==
    /\ MayCrash
    /\ apiUp
    /\ apiUp' = FALSE
    /\ Forget(Procs)
    /\ UNCHANGED <<provider, preview, ledger, lock, quarantine>>

Start ==
    /\ ~apiUp
    /\ apiUp' = TRUE
    /\ UNCHANGED <<provider, preview, ledger, lock, quarantine, local>>

Interrupted == {c \in Commands : status[c] = "in_progress"}

\* Mutant: recovery counts on, as a reconciliation does.
NextByCount(c) == count[c] + 1

\* max(1, attempt_count, MAX(attempt_no) + 1)
NextAttempt(c) ==
    Max({1, count[c]}
        \cup {n + 1 : n \in {m \in 1..MaxAttempts : attempts[c][m] # "none"}})

\* recover_interrupted_in_progress_offline: every interrupted command becomes
\* unknown.  Rows come in updated_at order; that time is taken before the store's
\* lock is, so any interrupted command may come first of its target.
Recover ==
    /\ ~apiUp
    /\ Interrupted # {}
    /\ status' = [c \in Commands |-> IF c \in Interrupted THEN "unknown" ELSE status[c]]
    /\ count' = [c \in Commands |-> IF c \in Interrupted THEN NextAttempt(c) ELSE count[c]]
    /\ attempts' = [c \in Commands |-> IF c \in Interrupted
                        THEN [attempts[c] EXCEPT ![NextAttempt(c)] = "unknown"]
                        ELSE attempts[c]]
    /\ aged' = [c \in Commands |-> IF c \in Interrupted THEN FALSE ELSE aged[c]]
    /\ quarantine' \in [Targets -> Commands \cup {NoCmd}]
    /\ \A t \in Targets :
        IF quarantine[t] = NoCmd /\ InProgressOn(t) # {}
        THEN quarantine'[t] \in InProgressOn(t)
        ELSE quarantine'[t] = quarantine[t]
    /\ lock' = [t \in Targets |->
            IF lock[t] # NoLock /\ lock[t].cmd \in Interrupted THEN NoLock ELSE lock[t]]
    /\ UNCHANGED <<provider, preview, req, apiUp, local>>

-----------------------------------------------------------------------------
(* Meta, other users of Meta, and time *)

Land(c) ==
    /\ post[c] = "flying"
    /\ post' = [post EXCEPT ![c] = "landed"]
    /\ value' = [value EXCEPT ![req[c].target] = req[c].amount]
    /\ UNCHANGED <<posts, preview, ledger, lock, quarantine, apiUp, local>>

Drop(c) ==
    /\ post[c] = "flying"
    /\ post' = [post EXCEPT ![c] = "dropped"]
    /\ UNCHANGED <<value, posts, preview, ledger, lock, quarantine, apiUp, local>>

ExternalEdit(t, a) ==
    /\ value[t] # a
    /\ value' = [value EXCEPT ![t] = a]
    /\ UNCHANGED <<post, posts, preview, ledger, lock, quarantine, apiUp, local>>

\* The settlement window is chosen so that no POST is in flight when it ends.
UnknownAges(c) ==
    /\ status[c] = "unknown"
    /\ ~aged[c]
    /\ post[c] # "flying"
    /\ aged' = [aged EXCEPT ![c] = TRUE]
    /\ UNCHANGED <<provider, preview, req, status, count, attempts, lock, quarantine,
                   apiUp, local>>

-----------------------------------------------------------------------------

\* What a handler does once it has been called.
Step(p) ==
    \/ AcquireLock(p) \/ PreflightFails(p) \/ Claim(p) \/ ReadBefore(p) \/ Renew(p)
    \/ FailBeforeWrite(p) \/ SendPost(p) \/ PostReturns(p) \/ ReadAfter(p) \/ Finish(p)
    \/ ReconcileLock(p) \/ BeginReconcile(p) \/ ReadForReconcile(p)
    \/ RecordReconciliation(p) \/ Release(p)

Call(p) ==
    \/ \E v \in Previews, k \in Keys : Confirm(p, v, k)
    \/ \E c \in Commands, f \in BOOLEAN : StartReconcile(p, c, f)

Environment ==
    \/ \E v \in Previews : IssuePreview(v) \/ ExpirePreview(v)
    \/ \E v \in Previews, t \in Targets, a \in Values : StartPreview(v, t, a)
    \/ \E t \in Targets : LeaseExpires(t)
    \/ \E t \in Targets, a \in Values : ExternalEdit(t, a)
    \/ \E c \in Commands : Land(c) \/ Drop(c) \/ UnknownAges(c)
    \/ \E p \in Procs : Crash(p)
    \/ StopAll \/ Start \/ Recover

Next == (\E p \in Procs : Step(p) \/ Call(p)) \/ Environment

Spec == Init /\ [][Next]_vars

\* A handler that was called runs to its end: every provider call has a timeout.
FairSpec == Spec /\ \A p \in Procs : WF_vars(Step(p))

-----------------------------------------------------------------------------
(* Properties *)

\* At most one handler per target stands between the renewed lease (the fence)
\* and the end of its provider write, whatever the leases do: acquire refuses
\* while a command is in progress and renew demands the exact token.
WriteExclusion ==
    \A p, q \in Procs :
        /\ pc[p] \in Writing
        /\ pc[q] \in Writing
        /\ req[job[p]].target = req[job[q]].target
        => p = q

\* One confirmation, one POST: no command, no idempotency key and no preview
\* token ever leads to a second provider mutation, through replays, concurrent
\* handlers, crashes and recovery.
OnePostPerConfirmation ==
    \A c, d \in Created :
        /\ posts[c] > 0
        /\ posts[d] > 0
        /\ c = d \/ req[c].key = req[d].key \/ req[c].preview = req[d].preview
        => c = d /\ posts[c] = 1

\* The attempt rows are numbered without a gap up to attempt_count (the attempt
\* under way has no row yet) and the last one carries the command's status.
AttemptsLedger ==
    \A c \in Commands :
        LET last == IF status[c] = "in_progress" THEN count[c] - 1 ELSE count[c] IN
        /\ \A n \in 1..MaxAttempts : attempts[c][n] # "none" <=> n <= last
        /\ status[c] \in Outcomes => attempts[c][count[c]] = status[c]

\* A quarantine is owned by a command of that target whose outcome is unknown:
\* none outlives the reconciliation that concluded it.
QuarantineOwnerUnknown ==
    \A t \in Targets : quarantine[t] # NoCmd =>
        /\ status[quarantine[t]] = "unknown"
        /\ req[quarantine[t]].target = t

\* What a final status says of the write.  "failed": Meta never applied it and
\* never will.  "conflict": nothing of it is still under way.  "applied" by the
\* first attempt: this command's own POST was applied.
SettledOutcome ==
    \A c \in Created :
        /\ status[c] = "failed" => post[c] \in {"none", "dropped"}
        /\ status[c] = "conflict" => post[c] # "flying"
        /\ status[c] = "applied" /\ count[c] = 1 => post[c] = "landed"

\* A concluded command is never reopened, and its attempts are never rewritten.
TerminalIsFinal ==
    [][\A c \in Commands : status[c] \in Terminal =>
            UNCHANGED <<status[c], attempts[c], count[c], posts[c]>>]_vars

\* As long as an outcome is unknown its target is quarantined.
UnknownTargetQuarantined ==
    \A c \in Created : status[c] = "unknown" => quarantine[req[c].target] # NoCmd

\* The same for the commands that did send a POST: the outcome in doubt is real.
UnresolvedPostQuarantined ==
    \A c \in Created :
        status[c] = "unknown" /\ posts[c] > 0 => quarantine[req[c].target] # NoCmd

\* No POST to a target whose earlier POST may still be unresolved.
NoPostOverUnresolved ==
    [][\A c, d \in Created :
            /\ posts'[c] # posts[c]
            /\ d # c
            /\ req[d].target = req[c].target
            => status[d] \notin {"in_progress", "unknown"} \/ posts[d] = 0]_vars

\* A claimed command does not stay in progress while its handler lives.
ClaimedCommandFinishes ==
    \A c \in Commands : status[c] = "in_progress" ~> status[c] # "in_progress"
=============================================================================
