--------------------------- MODULE MCSparedLedger ---------------------------
(***************************************************************************)
(* Some promises of the ledger hold only when no lease lapses under a      *)
(* working handler, or only when nothing crashes.  Spared histories have   *)
(* one of the two: lapsing says which.                                     *)
(***************************************************************************)
EXTENDS MCBudgetLedger

VARIABLE lapsing

Punctual  == INSTANCE BudgetLedger WITH LapseWhileHeld <- FALSE
Crashless == INSTANCE BudgetLedger WITH MayCrash <- FALSE

SparedNext ==
    /\ UNCHANGED lapsing
    /\ IF lapsing THEN Crashless!Next ELSE Punctual!Next

OrderedSparedSpec == Init /\ lapsing \in BOOLEAN /\ [][SparedNext /\ Ordered]_<<vars, lapsing>>

SparedSpec == Init /\ lapsing \in BOOLEAN /\ [][SparedNext]_<<vars, lapsing>>

FairSparedSpec == SparedSpec /\ \A p \in Procs : WF_vars(Step(p))

\* Every lock row is deleted again, by the handler that wrote it, however its
\* request ends (the finally clause of confirm_meta_budget_change).  A handler
\* that outlives its lease may be overtaken for ever, so no lease lapses here.
LockReleased ==
    \A t \in Targets : ~lapsing /\ lock[t] # NoLock ~> lock[t] = NoLock
=============================================================================
