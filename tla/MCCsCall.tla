------------------------------ MODULE MCCsCall ------------------------------
(* CsCall for TLC. *)
EXTENDS CsCall, TLC

Symmetry == Permutations(Workflows)
=============================================================================
