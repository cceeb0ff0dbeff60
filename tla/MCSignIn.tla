------------------------------ MODULE MCSignIn ------------------------------
(* Small instances of SignIn for TLC. *)
EXTENDS SignIn, TLC

\* Identities are only compared for equality.
Symmetry ==
    Permutations(Handlers) \cup Permutations(Browsers) \cup Permutations(Facebook)
        \cup Permutations(States)
=============================================================================
