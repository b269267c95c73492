------------------------------- MODULE MCJobs -------------------------------
(***************************************************************************)
(* Small instances of Jobs for TLC.                                        *)
(***************************************************************************)
EXTENDS Jobs

CONSTANTS c1, c2, c3

\* A signal and an exit, so that a mixed-up status shows; two of three children
\* end alike, and are alike to every safety property.
MCEnding ==
    [c \in Child |-> IF c = c1 THEN [n |-> 3, sig |-> FALSE]
                     ELSE [n |-> 2, sig |-> TRUE]]
Symmetry == Permutations({c2, c3})
=============================================================================
