----------------------------- MODULE AccountSync -----------------------------
(***************************************************************************)
(* Runs that fetch daily statistics of advertising accounts.               *)
(*                                                                         *)
(* A run, of the scheduler ("due") or of a user, holds a lease on          *)
(* ad-account-sync-run in the database and renews it from a thread of its  *)
(* own.  It reads the accounts and their latest jobs once, then takes the  *)
(* accounts in turn: fetch and store the rows, record a job, and write     *)
(* back the metadata of the account, built from the row of that first      *)
(* read.  A process may stop anywhere; its leases stay until they lapse.   *)
(*                                                                         *)
(* Which credential a fetch may use is the matter of Credentials.  A tick  *)
(* of the clock stands for a minute where a retry is timed and for a day   *)
(* where a range of dates is.                                              *)
(***************************************************************************)
EXTENDS Integers, FiniteSetsExt

CONSTANTS
    Runners, Accounts,
    Requested,     \* bound: date_from of a request, 0 where it names none
    LeaseTtl, StaleAfter, MaxDelay, Overlap, Lookback,
    LastTick,      \* bound: the clock stops there
    MaxRows,       \* bound: rows of one answer
    MaxAttempt,    \* bound: attempts counted
    Errors,        \* bound: kinds of failures, retryable or not
    NoOne, NoJob, Idle

VARIABLES
    now,
    lease,         \* ad_account_sync_leases: holder and lease_until
    job,           \* the latest job of each account
    meta,          \* sync metadata of the accounts
    eligible,      \* accounts that are active, of an active client, not in conflict
    ingested,      \* days of each account that ad_stats has rows for
    run            \* what a runner remembers

syncVars == <<now, lease, job, meta, eligible, ingested, run>>

Days == 1 .. LastTick

\* latest_data_date, 0 while there is none, and whether the first backfill is done.
Metadata == [latest: 0 .. LastTick, backfilled: BOOLEAN]

\* next is next_retry_at of an error to be retried, at is finished_at of a success.
Job == [ok: BOOLEAN, retryable: BOOLEAN, attempt: 1 .. MaxAttempt, next: Nat, at: 0 .. LastTick]

TypeOK ==
    /\ now \in Days
    /\ lease \in [{"due", "run"} -> [holder: Runners, until: Nat] \cup {NoOne}]
    /\ job \in [Accounts -> Job \cup {NoJob}]
    /\ meta \in [Accounts -> Metadata]
    /\ eligible \subseteq Accounts
    /\ ingested \in [Accounts -> SUBSET Days]
    /\ \A r \in Runners : run[r] # Idle => run[r].todo \subseteq Accounts

-----------------------------------------------------------------------------
(* Leases *)

\* acquire_lease: no row, or one whose lease_until has passed.
Available(key) == lease[key] # NoOne => lease[key].until <= now

Holds(r, key) == lease[key] # NoOne /\ lease[key].holder = r

Granted(key, r) == [lease EXCEPT ![key] = [holder |-> r, until |-> now + LeaseTtl]]

\* Mutant: the row is deleted whoever's token it holds.
ReleasedBlindly(r, keys) == [k \in DOMAIN lease |-> IF k \in keys THEN NoOne ELSE lease[k]]

\* release_lease deletes by key and token.
Released(r, keys) ==
    [k \in DOMAIN lease |-> IF k \in keys /\ Holds(r, k) THEN NoOne ELSE lease[k]]

Stage(r) == IF run[r] = Idle THEN "idle" ELSE run[r].stage

Running == {r \in Runners : Stage(r) \in {"begin", "accounts", "record", "metadata"}}

\* A run whose lapsed lease r takes is overtaken; it, and any overtaken before
\* it, may go on beside r.
Enter(r, rec) ==
    run' = [q \in Runners |->
        IF q = r THEN [rec EXCEPT !.beside = Running # {}]
        ELSE IF q \in Running /\ Holds(q, "run") THEN [run[q] EXCEPT !.overtaken = TRUE]
        ELSE run[q]]

Fresh(due, force, from, todo) ==
    [stage |-> "begin", due |-> due, force |-> force, from |-> from, todo |-> todo,
     overtaken |-> FALSE, beside |-> FALSE, metas |-> Idle, jobs |-> Idle, doing |-> Idle]

-----------------------------------------------------------------------------
(* Starting *)

\* run_sync_exclusive of a user or of a login; from is the date_from of the
\* request, 0 where there is none.  Without the lease nothing is processed.
StartManual(r, accts, force, from) ==
    /\ run[r] = Idle
    /\ Available("run")
    /\ lease' = Granted("run", r)
    /\ Enter(r, Fresh(FALSE, force, from, accts))
    /\ UNCHANGED <<now, job, meta, eligible, ingested>>

StartDue(r) ==
    /\ run[r] = Idle
    /\ Available("due")
    /\ lease' = Granted("due", r)
    /\ run' = [run EXCEPT ![r] = [Fresh(TRUE, FALSE, 0, {}) EXCEPT !.stage = "select"]]
    /\ UNCHANGED <<now, job, meta, eligible, ingested>>

\* An error that is not retryable waits for someone to change something.
Due(a) ==
    \/ job[a] = NoJob
    \/ ~job[a].ok /\ job[a].retryable /\ job[a].next <= now
    \/ job[a] # NoJob /\ job[a].ok /\ job[a].at + StaleAfter <= now

\* The batch of run_due_sync; it starts only if the other lease is free too.
SelectDue(r) ==
    LET batch == {a \in eligible : Due(a)} IN
    /\ Stage(r) = "select"
    /\ IF batch # {} /\ Available("run")
       THEN /\ lease' = Granted("run", r)
            /\ Enter(r, Fresh(TRUE, FALSE, 0, batch))
       ELSE /\ lease' = Released(r, {"due"})
            /\ run' = [run EXCEPT ![r] = Idle]
    /\ UNCHANGED <<now, job, meta, eligible, ingested>>

\* run_sync reads the accounts and their latest jobs, once for the batch.
Begin(r) ==
    /\ Stage(r) = "begin"
    /\ run' = [run EXCEPT ![r].stage = "accounts", ![r].metas = meta, ![r].jobs = job,
                          ![r].todo = @ \cap eligible]
    /\ UNCHANGED <<now, lease, job, meta, eligible, ingested>>

-----------------------------------------------------------------------------
(* One account *)

\* Mutant: the backoff starts with the second failure.
TooEarlyOnceRepeated(r, a) ==
    LET prev == run[r].jobs[a] IN
    ~run[r].force /\ prev # NoJob /\ ~prev.ok /\ prev.attempt > 1 /\ now < prev.next

\* Backoff of a retryable error is not over; force ignores it.
TooEarly(r, a) ==
    LET prev == run[r].jobs[a] IN
    ~run[r].force /\ prev # NoJob /\ ~prev.ok /\ prev.retryable /\ now < prev.next

\* With no account left, what was read is of no more use.
Rested(rec, a) ==
    IF rec.todo = {a} THEN [rec EXCEPT !.todo = {}, !.metas = Idle, !.jobs = Idle]
                      ELSE [rec EXCEPT !.todo = @ \ {a}]

Skip(r, a) ==
    /\ Stage(r) = "accounts" /\ a \in run[r].todo
    /\ TooEarly(r, a)
    /\ run' = [run EXCEPT ![r] = Rested(@, a)]
    /\ UNCHANGED <<now, lease, job, meta, eligible, ingested>>

Attempt(prev) ==
    IF prev # NoJob /\ ~prev.ok /\ prev.retryable THEN Min({prev.attempt + 1, MaxAttempt}) ELSE 1

\* _next_retry_at: 1, 2, 4, ... up to the cap.
Delay(attempt) == Min({MaxDelay, 2 ^ (attempt - 1)})

\* _resolve_date_range_for_account: from an explicit date, else some days back
\* from the newest day of data once the first backfill is complete.
FromDay(m, from) ==
    LET back == IF m.backfilled /\ m.latest # 0
                THEN m.latest - Overlap + 1
                ELSE now - Lookback + 1 IN
    Min({IF from # 0 THEN from ELSE back, now})

Done(a, ok, retryable, newest) ==
    [account |-> a, ok |-> ok, retryable |-> retryable, newest |-> newest, at |-> now]

\* _validated_provider_rows lets through only days of the requested range.
InRange(days, from) == \A d \in days : from <= d /\ d <= now

\* The provider answers with rows for some of the days asked for, maybe for
\* none; they are stored before the job is.
FetchRows(r, a, days) ==
    /\ Stage(r) = "accounts" /\ a \in run[r].todo
    /\ ~TooEarly(r, a)
    /\ InRange(days, FromDay(run[r].metas[a], run[r].from))
    /\ ingested' = [ingested EXCEPT ![a] = @ \cup days]
    /\ run' = [run EXCEPT ![r].stage = "record",
            ![r].doing = Done(a, TRUE, FALSE, IF days = {} THEN 0 ELSE Max(days))]
    /\ UNCHANGED <<now, lease, job, meta, eligible>>

\* _classify_error: limits and outages are retryable; missing credentials, bad
\* rows, refusals and what is not recognized are not.
FetchError(r, a, retryable) ==
    /\ Stage(r) = "accounts" /\ a \in run[r].todo
    /\ ~TooEarly(r, a)
    /\ run' = [run EXCEPT ![r].stage = "record",
            ![r].doing = Done(a, FALSE, retryable, 0)]
    /\ UNCHANGED <<now, lease, job, meta, eligible, ingested>>

RecordJob(r) ==
    LET d == run[r].doing
        n == Attempt(run[r].jobs[d.account]) IN
    /\ Stage(r) = "record"
    /\ job' = [job EXCEPT ![d.account] =
            [ok |-> d.ok, retryable |-> d.retryable, attempt |-> IF d.ok THEN 1 ELSE n,
             next |-> IF d.retryable THEN d.at + Delay(n) ELSE 0,
             at |-> IF d.ok THEN now ELSE 0]]
    /\ run' = [run EXCEPT ![r].stage = "metadata"]
    /\ UNCHANGED <<now, lease, meta, eligible, ingested>>

\* Mutant: an answer without rows makes the data look fresh.
NextMetaFresh(m, d, from) ==
    [latest     |-> IF d.ok THEN (IF d.newest # 0 THEN d.newest ELSE now) ELSE m.latest,
     backfilled |-> m.backfilled \/ (d.ok /\ d.newest # 0 /\ from = 0)]

\* next_meta, over the metadata that was read when the batch began.
NextMeta(m, d, from) ==
    [latest     |-> IF d.ok /\ d.newest # 0 THEN d.newest ELSE m.latest,
     backfilled |-> m.backfilled \/ (d.ok /\ d.newest # 0 /\ from = 0)]

WriteMetadata(r) ==
    LET d == run[r].doing IN
    /\ Stage(r) = "metadata"
    /\ meta' = [meta EXCEPT ![d.account] = NextMeta(run[r].metas[d.account], d, run[r].from)]
    /\ run' = [run EXCEPT ![r] = Rested([@ EXCEPT !.stage = "accounts", !.doing = Idle], d.account)]
    /\ UNCHANGED <<now, lease, job, eligible, ingested>>

\* The finally blocks give back the run's lease, then the scheduler's.
Finish(r) ==
    /\ Stage(r) = "accounts" /\ run[r].todo = {}
    /\ lease' = Released(r, IF run[r].due THEN {"run", "due"} ELSE {"run"})
    /\ run' = [run EXCEPT ![r] = Idle]
    /\ UNCHANGED <<now, job, meta, eligible, ingested>>

-----------------------------------------------------------------------------
(* Around a run *)

\* renew_while_running.  Finding the lease no longer its own ends the thread and
\* not the run.
Heartbeat(r) ==
    /\ r \in Running
    /\ Holds(r, "run")
    /\ lease' = Granted("run", r)
    /\ UNCHANGED <<now, job, meta, eligible, ingested, run>>

Crash(r) ==
    /\ run[r] # Idle
    /\ run' = [run EXCEPT ![r] = Idle]
    /\ UNCHANGED <<now, lease, job, meta, eligible, ingested>>

Tick ==
    /\ now < LastTick
    /\ now' = now + 1
    /\ UNCHANGED <<lease, job, meta, eligible, ingested, run>>

\* Archiving or restoring the account or its client, or a conflict about it.
ToggleEligible(a) ==
    /\ eligible' = IF a \in eligible THEN eligible \ {a} ELSE eligible \cup {a}
    /\ UNCHANGED <<now, lease, job, meta, ingested, run>>

Init ==
    /\ now = 1
    /\ lease = [k \in {"due", "run"} |-> NoOne]
    /\ job = [a \in Accounts |-> NoJob]
    /\ meta = [a \in Accounts |-> [latest |-> 0, backfilled |-> FALSE]]
    /\ eligible = Accounts
    /\ ingested = [a \in Accounts |-> {}]
    /\ run = [r \in Runners |-> Idle]

Next ==
    \/ \E r \in Runners :
        \/ \E accts \in SUBSET Accounts \ {{}}, force \in BOOLEAN, from \in Requested :
              StartManual(r, accts, force, from)
        \/ StartDue(r) \/ SelectDue(r) \/ Begin(r)
        \/ \E a \in Accounts :
              \/ Skip(r, a)
              \/ \E days \in UNION {kSubset(n, Days) : n \in 0 .. MaxRows} : FetchRows(r, a, days)
              \/ \E retryable \in Errors : FetchError(r, a, retryable)
        \/ RecordJob(r) \/ WriteMetadata(r) \/ Finish(r) \/ Heartbeat(r) \/ Crash(r)
    \/ Tick
    \/ \E a \in Accounts : ToggleEligible(a)

Spec == Init /\ [][Next]_syncVars

-----------------------------------------------------------------------------
(* Properties *)

\* Two runs go on side by side only where one let its lease lapse and was
\* overtaken: no run frees, or is given, a lease that another still keeps.
AloneUnlessOvertaken ==
    \A q, r \in Running : q # r => run[q].overtaken \/ run[r].overtaken

\* A run with no other beside it does not fetch an account again before its last
\* retryable error allows, unless a user forces it.
KeepsBackoff ==
    \A r \in Runners :
        /\ Stage(r) = "accounts" /\ Stage(r)' = "record"
        /\ ~run[r].overtaken /\ ~run[r].beside /\ ~run[r].force
        => \A a \in Accounts : run'[r].doing.account = a /\ job[a] # NoJob /\ job[a].retryable
                                => job[a].next <= now

BackoffHonoured == [][KeepsBackoff]_syncVars

\* The newest day of data an account claims is a day it has rows for: whichever
\* runs overlap and whatever metadata they overwrite, nothing looks fresher than
\* it is.
FreshnessIsIngested ==
    \A a \in Accounts : meta[a].latest = 0 \/ meta[a].latest \in ingested[a]
=============================================================================
