SPECIFICATION Spec
CONSTANTS
    q1 = q1
    q2 = q2
    s1 = s1
    s2 = s2
    c1 = c1
    Requests = {q1, q2}
    Secrets = {s1, s2}
    Codes = {c1}
    MaxVersion = 2
    MaxSessions = 2
    MaxOverlaps = 1
    None = None
SYMMETRY Symmetry
INVARIANTS NeverLockedOut OneStory SignedInOnTwoChannels
PROPERTIES BackupCodesSingleUse ChangeEndsSessions FactorMovesOnlyProved
CHECK_DEADLOCK FALSE
