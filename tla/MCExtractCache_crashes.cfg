SPECIFICATION Spec
CONSTANTS
    Versions = {v1, v2}
    Models = {m1, m2}
    TextOnly = TextOnly
    None = None
    MaxCalls = 2
    MaxChanges = 2
    MaxFaults = 2
SYMMETRY ContentSymmetry
CHECK_DEADLOCK FALSE
INVARIANTS
    NothingLost
    CacheIsFaithful
    AnswersWereSeen
    SwapsSettle
