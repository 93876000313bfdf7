CONSTANTS
    None = None
    Ids = {t1, t2}
    Workers = {w1}
    Requests = {r1}
    Verifiable = TRUE
    Covered = {t1}
    Rechecks = TRUE
    SeriesLength = 2
    Retries = 1
    Answers <- SomeAnswers
    Names <- SomeNames
    MaxQueue = 1
    Edited = {t1}
SPECIFICATION Spec
INVARIANTS ScheduledWhileActive RetriesBounded SeriesBeforeInterval
PROPERTIES RetiredStaysRetired FlagClearedOnlyByAcknowledge 
