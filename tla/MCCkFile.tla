------------------------------ MODULE MCCkFile ------------------------------
(***************************************************************************)
(* Instantiation of CkFile for TLC: two File objects, two paths, two       *)
(* descriptor numbers after stdin, stdout and stderr.                      *)
(***************************************************************************)
EXTENDS CkFile, TLC

CONSTANTS f1, f2, p1, p2

MCFiles == {f1, f2}
MCPaths == {p1, p2}
MCFds   == 3..4

Symmetry == Permutations(MCFiles) \cup Permutations(MCPaths)
=============================================================================
