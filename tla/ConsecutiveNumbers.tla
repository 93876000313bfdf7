-------------------------- MODULE ConsecutiveNumbers --------------------------
(***************************************************************************)
(* What the numbering engine promises, with no database in sight: numbers  *)
(* are issued one at a time into buckets (a year of a yearly series, the   *)
(* whole of a continuous one), and each is the successor of the largest    *)
(* its bucket holds. services/number_series.py, "What allocate_number      *)
(* promises".                                                              *)
(***************************************************************************)
EXTENDS Naturals

CONSTANTS Buckets, MaxValue

VARIABLE issued     \* [Buckets -> set of values]

CInit == issued = [b \in Buckets |-> {}]

\* The first value of a bucket is 1, or for a continuous series wherever the
\* company asked it to start; every later one is the next.  (The first
\* conjunct says no more than the others; it spares TLC most of their work.)
Issue(b) ==
    /\ issued'[b] # issued[b]
    /\ \E v \in 1..MaxValue :
        /\ issued[b] # {} => v - 1 \in issued[b]
        /\ \A w \in issued[b] : w < v
        /\ issued' = [issued EXCEPT ![b] = @ \cup {v}]

CNext == \E b \in Buckets : Issue(b)

CSpec == CInit /\ [][CNext]_issued
===============================================================================
