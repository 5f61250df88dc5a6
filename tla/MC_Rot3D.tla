------------------------------- MODULE MC_Rot3D -------------------------------
(***************************************************************************)
(* Instances of Rot3D: QPU counts that do not divide the vector count.   *)
(* The dividing counts are checked in MC_Examples.                        *)
(***************************************************************************)
EXTENDS Rot3D

\* -n = 3 with N = 64, as -n = 7 with N = 192000: N is not a multiple of
\* 16 * n.
UnevenCounts == {3}
=============================================================================
