---------------------------- MODULE MCJobNumbers ----------------------------
(***************************************************************************)
(* Small instances of JobNumbers for TLC: words of two bits, and one job   *)
(* more than there are numbers.                                            *)
(***************************************************************************)
EXTENDS JobNumbers

CONSTANTS j1, j2, j3, j4, j5, j6

\* All jobs are alike, and no property here is a liveness property.
Symmetry == Permutations(Job)
=============================================================================
