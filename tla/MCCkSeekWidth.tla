---------------------------- MODULE MCCkSeekWidth ----------------------------
(***************************************************************************)
(* Distances for CkSeekWidth: before the start, small steps, and values at *)
(* and past 2^5, which a 5-bit off_t truncates.  Scaled from 2^32.         *)
(***************************************************************************)
EXTENDS CkSeekWidth

MCDistances == {-11, -1, 1, 3, 32, 33}
=============================================================================
