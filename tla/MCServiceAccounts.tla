-------------------------- MODULE MCServiceAccounts --------------------------
(***************************************************************************)
(* ServiceAccounts on small instances.                                     *)
(***************************************************************************)
EXTENDS ServiceAccounts, TLC

Symmetry == Permutations(Customer) \cup Permutations(Call) \cup Permutations(Task)

\* The bound on the projects is never reached.
EnoughProjects == opened < MaxProjects
=============================================================================
