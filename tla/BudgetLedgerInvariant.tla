------------------------ MODULE BudgetLedgerInvariant ------------------------
(***************************************************************************)
(* The inductive invariant behind the safety properties of BudgetLedger,   *)
(* and the promise it keeps.  TLC checks both on the small instances of    *)
(* MCBudgetLedger, TLAPS proves them in BudgetLedgerProofs.                *)
(***************************************************************************)
EXTENDS BudgetLedger

\* What attempt_count is in each status, and that a reconciliation under way
\* has counted no attempt that is not there.
CountInv ==
    /\ \A c \in Commands :
        /\ status[c] \in {"none", "queued"} => count[c] = 0
        /\ status[c] = "in_progress" => count[c] = 1
        /\ status[c] \in Outcomes => count[c] >= 1
    /\ \A p \in Procs :
        pc[p] \in {"r_begun", "r_read"} => base[p] <= count[job[p]]

\* Nobody works while the API is stopped; an executing handler is the only one
\* of its command, which is in progress; a reconciled command was executed.
HandlerInv ==
    /\ ~apiUp => \A p \in Procs : pc[p] = "idle"
    /\ \A p \in Procs :
        /\ pc[p] \in Executing => status[job[p]] = "in_progress"
        /\ pc[p] \in Reconciling \cup {"r_checked"} => status[job[p]] \in Outcomes
    /\ \A p, q \in Procs :
        pc[p] \in Executing /\ pc[q] \in Executing /\ job[p] = job[q] => p = q

\* The fence: whoever may write owns the lock row of the target.
FenceInv == \A p \in Procs : pc[p] \in Writing => Owns(p)

\* A key and a preview token belong to one command.
UniqueConfirmation ==
    \A c, d \in Created :
        req[c].key = req[d].key \/ req[c].preview = req[d].preview => c = d

\* Where the POST of a command can be, seen from the command.
PostInv ==
    \A c \in Commands :
        /\ post[c] = "none" <=> posts[c] = 0
        /\ posts[c] <= 1
        /\ status[c] \in {"none", "queued"} => post[c] = "none"
        /\ aged[c] => status[c] = "unknown" /\ post[c] # "flying"

\* Where it can be, seen from the handler.
HandlerPostInv ==
    \A p \in Procs :
        /\ pc[p] \in {"claimed", "compared", "fenced"} => post[job[p]] = "none"
        /\ pc[p] = "accepted" => post[job[p]] = "landed"
        /\ pc[p] = "concluded" =>
            /\ out[p] = "failed" => post[job[p]] \in {"none", "dropped"}
            /\ out[p] = "conflict" => post[job[p]] = "none"
            /\ out[p] = "applied" => post[job[p]] = "landed"
        /\ pc[p] \in Reconciling \cup {"r_checked"} /\ finalize[p] =>
            post[job[p]] # "flying"
        /\ pc[p] = "r_read" =>
            /\ out[p] # "failed"
            /\ out[p] = "conflict" => post[job[p]] # "flying"

\* All of it together is inductive.
IInv ==
    /\ TypeOK
    /\ CountInv
    /\ AttemptsLedger
    /\ HandlerInv
    /\ FenceInv
    /\ UniqueConfirmation
    /\ PostInv
    /\ HandlerPostInv
    /\ SettledOutcome
    /\ QuarantineOwnerUnknown

-----------------------------------------------------------------------------
(* Histories spared one of the two: no lease lapses under a working handler,
   or nothing crashes.  What holds in them besides, behind
   UnknownTargetQuarantined and NoPostOverUnresolved. *)

Spared == ~MayCrash \/ ~LapseWhileHeld

\* Whoever sent a POST owns the lock row of the target until it has recorded
\* the outcome: a command in progress lets nobody else acquire.
PosterOwns ==
    \A p \in Procs :
        pc[p] = "concluded" /\ (out[p] = "unknown" \/ posts[job[p]] > 0) => Owns(p)

\* An owner that executes found no quarantine, and none was set since.
OwnerUnquarantined ==
    \A p \in Procs :
        pc[p] \in Executing \cup {"locked"} /\ Owns(p) =>
            quarantine[req[job[p]].target] = NoCmd

\* Of the commands of one target at most one has a status in S.
AloneIn(S) ==
    \A c, d \in Created :
        status[c] \in S /\ status[d] \in S /\ req[c].target = req[d].target => c = d

\* Without crashes a command in progress has its handler.
HandlerLives ==
    /\ apiUp
    /\ \A c \in Commands : status[c] = "in_progress" =>
        \E p \in Procs : pc[p] \in Executing /\ job[p] = c

\* Without lapses a handler's lease lasts, so that one handler works on a
\* target, and one command of a target is unresolved at a time.
LeaseLasts ==
    /\ \A p \in Procs :
        /\ pc[p] \in Holding => Owns(p) /\ lock[req[job[p]].target].live
        /\ pc[p] = "locked" => InProgressOn(req[job[p]].target) = {}
    /\ AloneIn({"in_progress", "unknown"})

\* Inductive, together with IInv, in a spared history.
SparedInv ==
    /\ PosterOwns
    /\ OwnerUnquarantined
    /\ AloneIn({"unknown"})
    /\ UnknownTargetQuarantined
    /\ ~MayCrash => HandlerLives
    /\ ~LapseWhileHeld => LeaseLasts

-----------------------------------------------------------------------------
(* What the ledger promises, and where the promise finds its history: the
   attempts that have a row.  The attempt under way is counted and has none. *)

Recorded(c) == IF status[c] = "in_progress" THEN count[c] - 1 ELSE count[c]

History(c) == [n \in 1..Recorded(c) |-> attempts[c][n]]

Promise == INSTANCE LedgerPromise WITH
    Requests <- Request, history <- [c \in Commands |-> History(c)]

\* Whatever handlers, leases, crashes and the offline recovery do, the rows of the
\* ledger and the POSTs sent to Meta are those of a ledger that spends every key and
\* preview once, sends once, records the truth and rewrites nothing.
FulfilsPromise == Promise!Spec
=============================================================================
