-------------------------- MODULE MCCompanyMembers --------------------------
(* Values of the constants of CompanyMembers for TLC.                      *)
EXTENDS CompanyMembers, TLC

CONSTANTS u1, u2, u3, r1, r2, r3, r4, q1, q2

\* People, membership ids and requests are interchangeable.
Symmetry == Permutations(Users) \cup Permutations(Rows) \cup Permutations(Requests)
=============================================================================
