-------------------------- MODULE MCRollbackVault --------------------------
(***************************************************************************)
(* RollbackVault with interchangeable programs, documents and workers.     *)
(***************************************************************************)
EXTENDS RollbackVault, TLC

Symmetry == Permutations(Programs) \cup Permutations(Documents) \cup Permutations(Workers)
=============================================================================
