SPECIFICATION Spec
CONSTANTS
    t1 = t1
    t2 = t2
    s1 = s1
    s2 = s2
    e1 = e1
    Series = {s1, s2}
    Txns = {t1, t2}
    Editors = {e1}
    Dates = {1, 2}
    PeriodOf <- OneDateAYear
    Edits = {"is_active"}
    MaxValue = 3
    NoTxn = NoTxn
CONSTRAINT FewNumbers
SYMMETRY TxnSymmetry
INVARIANTS GapFree NoCollision
PROPERTIES IssuesConsecutively CounterMovesWithReason
