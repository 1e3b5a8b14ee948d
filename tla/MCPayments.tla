----------------------------- MODULE MCPayments -----------------------------
(***************************************************************************)
(* Payments on small instances.                                            *)
(***************************************************************************)
EXTENDS Payments, TLC

PayerSymmetry == Permutations(Payer)
=============================================================================
