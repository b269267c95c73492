------------------------------ MODULE MCHistory ------------------------------
(***************************************************************************)
(* Instances of History for TLC: interchangeable shells, and the numbers   *)
(* that their commands can come to.                                        *)
(***************************************************************************)
EXTENDS History, TLC

MCNumber == -(MaxCommand + MaxFile)..(2 + 2 * MaxCommand)
Symmetry == Permutations(Shell)
=============================================================================
