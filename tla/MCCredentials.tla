---------------------------- MODULE MCCredentials ----------------------------
(***************************************************************************)
(* A client, a credential and one discovery.                               *)
(***************************************************************************)
EXTENDS Credentials, TLC

Symmetry == Permutations(Rows)
=============================================================================
