------------------------------ MODULE MCBudgets ------------------------------
(* Small instances of Budgets for TLC. *)
EXTENDS Budgets, TLC

\* Identities are only compared for equality.
Symmetry ==
    Permutations(Handlers) \cup Permutations(Clients) \cup Permutations(Accounts)
        \cup Permutations(BudgetIds)
=============================================================================
