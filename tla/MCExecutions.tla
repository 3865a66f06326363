---------------------------- MODULE MCExecutions ----------------------------
(* Executions with two jobs. *)
EXTENDS Executions

\* Names of commands are only ever compared.
IdentitySymmetry == Permutations(Identities)
=============================================================================
