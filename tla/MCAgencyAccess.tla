--------------------------- MODULE MCAgencyAccess ---------------------------
(* Small instances of AgencyAccess for TLC. *)
EXTENDS AgencyAccess, TLC

\* Identities are only compared for equality.
Symmetry ==
    Permutations(Handlers) \cup Permutations(Users) \cup Permutations(Agencies)
        \cup Permutations(Clients) \cup Permutations(Invites)
=============================================================================
