CONSTANTS
    None = None
    Ids = {t1}
    Workers = {w1}
    Requests = {r1}
    Verifiable = TRUE
    Covered = {t1}
    Rechecks = TRUE
    SeriesLength = 1
    Retries = 1
    Answers <- FewAnswers
    Names <- SomeNames
    MaxQueue = 1
    Edited = {t1}
SPECIFICATION FairSpec
PROPERTIES DueIsChecked
