------------------------------ MODULE MCTraps ------------------------------
(***************************************************************************)
(* Instances of Traps for TLC: the largest of the signals is one that was  *)
(* ignored at the start, or none is.                                       *)
(***************************************************************************)
EXTENDS Traps

NoSignal == {}
Last == {MaxSig}
First == {1}
=============================================================================
