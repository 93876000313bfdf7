SPECIFICATION FairSpec
CONSTANTS
    t1 = t1
    t2 = t2
    s1 = s1
    s2 = s2
    e1 = e1
    Series = {s1}
    Txns = {t1, t2}
    Editors = {e1}
    Dates = {1, 2, 3}
    PeriodOf <- TwoYears
    Edits = {"reset", "is_active"}
    MaxValue = 2
    NoTxn = NoTxn
INVARIANTS IInv SwitchesNeverReissue
PROPERTIES EventForEveryLateNumber EveryRequestEnds
