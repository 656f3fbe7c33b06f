------------------------------ MODULE MCCkTemp ------------------------------
(***************************************************************************)
(* Two callers of File::temp and two candidate names: enough for both      *)
(* callers to draw one name, and for every name to be taken.               *)
(***************************************************************************)
EXTENDS CkTemp, TLC

CONSTANTS c1, c2, n1, n2

MCCallers == {c1, c2}
MCNames   == {n1, n2}

Symmetry == Permutations(MCCallers) \cup Permutations(MCNames)
=============================================================================
