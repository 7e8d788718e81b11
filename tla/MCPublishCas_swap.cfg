SPECIFICATION Spec
CONSTANTS
    Publishers = {p1, p2}
    Base = Base
    Absent = Absent
    InitialTarget = Base
    MaxEdits = 2
    MaxDeletes = 1
    MaxGuardFlips = 2
    MaxCrashes = 1
SYMMETRY PublisherSymmetry
CHECK_DEADLOCK FALSE
INVARIANTS
    FailureLeavesNothing
    OneWinnerPerBaseline
    LoneEditSurvives
