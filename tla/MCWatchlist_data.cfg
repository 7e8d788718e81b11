SPECIFICATION Spec
CONSTANTS
    Symbols = {s, t}
    Constituents = {c}
    LastDay = 2
    Splits = {2}
    Reports = {1}
    MaxVersions = 2
    Procs = {p1, p2}
    Nobody = Nobody
    SnapshotDays = {2}
    MaxRequests = 1
    MaxCalls = 3
SYMMETRY CallSymmetry
CHECK_DEADLOCK FALSE
INVARIANTS
    CoveredIsHeld
    NoHindsight
    NothingKnownIsMissing
    SnapshotIsOneCall
PROPERTIES
    FreshIsContinuous
