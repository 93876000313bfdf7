--------------------------- MODULE MCSecondFactor ---------------------------
(* Values of the constants of SecondFactor for TLC.                        *)
EXTENDS SecondFactor, TLC

CONSTANTS q1, q2, s1, s2, c1

\* Requests are interchangeable, and so are secrets.
Symmetry == Permutations(Requests) \cup Permutations(Secrets)
=============================================================================
