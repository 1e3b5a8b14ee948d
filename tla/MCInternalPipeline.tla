------------------------- MODULE MCInternalPipeline -------------------------
(***************************************************************************)
(* InternalPipeline on small instances.                                    *)
(***************************************************************************)
EXTENDS InternalPipeline, TLC

WorkerSymmetry == Permutations(Worker)
RunSymmetry    == Permutations(Run)
=============================================================================
