------------------------- MODULE MCExternalPipeline -------------------------
(***************************************************************************)
(* Instances of ExternalPipeline for TLC.                                  *)
(***************************************************************************)
EXTENDS ExternalPipeline, TLC

\* Which of the interchangeable deliveries is which does not matter.
WorkerSymmetry == Permutations(Worker)
=============================================================================
