SPECIFICATION Spec
CONSTANTS
    Procs = {p1, p2}
    MaxChanges = 1
    MaxJobs = 2
SYMMETRY ProcSymmetry
CHECK_DEADLOCK FALSE
INVARIANTS
    UndisturbedSucceeds
PROPERTIES
    PublishedTogether
    ImplementsArchive
