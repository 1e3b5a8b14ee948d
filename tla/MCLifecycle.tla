----------------------------- MODULE MCLifecycle -----------------------------
(***************************************************************************)
(* Lifecycle on small instances.                                           *)
(***************************************************************************)
EXTENDS Lifecycle, TLC

CallerSymmetry == Permutations(Caller)
=============================================================================
