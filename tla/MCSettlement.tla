---------------------------- MODULE MCSettlement ----------------------------
(***************************************************************************)
(* Instances of Settlement for TLC.                                        *)
(***************************************************************************)
EXTENDS Settlement, TLC

Symmetry == Permutations(Tips)
=============================================================================
