SPECIFICATION Spec
CONSTANTS
    Downloaders = {d1, d2}
    Promoters = {r1, r2}
    Urls = {u1, u2}
    Bodies = {b1, b2}
    None = None
    MaxChanges = 1
    MaxCrashes = 1
    MaxEdits = 1
SYMMETRY StoreSymmetry
CHECK_DEADLOCK FALSE
INVARIANTS
    ManifestsAreTrue
    CanonIsBacked
    OnlyEditsRetract
PROPERTY
    ImplementsArchive
