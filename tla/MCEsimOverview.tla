--------------------------- MODULE MCEsimOverview ---------------------------
(* Instances of EsimOverview for TLC: the profiles are interchangeable.     *)
EXTENDS EsimOverview, TLC

Symmetry == Permutations(Profiles)
=============================================================================
