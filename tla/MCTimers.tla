------------------------------ MODULE MCTimers ------------------------------
(***************************************************************************)
(* A small instance of Timers for TLC: two nodes, so that a freed one is   *)
(* soon used again.                                                        *)
(***************************************************************************)
EXTENDS Timers

CONSTANTS n1, n2, c1, c2

\* Nodes are alike and clients are alike; no property is a liveness property.
Symmetry == Permutations(Node) \cup Permutations(Client)
=============================================================================
