----------------------------- MODULE MCDisplays -----------------------------
(***************************************************************************)
(* Two screens under the session lock.                                     *)
(***************************************************************************)
EXTENDS SessionLock, TLC

Symmetry == Permutations(Screens)
=============================================================================
