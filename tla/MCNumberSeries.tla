--------------------------- MODULE MCNumberSeries ---------------------------
(* Values of the constants of NumberSeries for TLC.                        *)
EXTENDS NumberSeries, TLC

CONSTANTS t1, t2, s1, s2, e1

\* Dates 1 and 2 fall in the first year, 3 in the second.
TwoYears == [d \in Dates |-> IF d <= 2 THEN 1 ELSE 2]

\* One date in each of two years: enough for "current", "later" and "closed".
OneDateAYear == [d \in Dates |-> d]

\* Bound: the numbers issued, over all series.
FewNumbers == Cardinality(allocs) <= 3

TxnSymmetry == Permutations(Txns)
=============================================================================
