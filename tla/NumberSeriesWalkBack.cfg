SPECIFICATION Spec
CONSTANTS
    t1 = t1
    t2 = t2
    s1 = s1
    s2 = s2
    e1 = e1
    Series = {s1}
    Txns = {t1}
    Editors = {e1}
    Dates = {1}
    PeriodOf <- OneDateAYear
    Edits = {"next_value"}
    MaxValue = 3
    NoTxn = NoTxn
PROPERTIES EditNeverWalksBack
