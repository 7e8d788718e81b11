SPECIFICATION Spec
CONSTANTS
    Fingerprints = {f1, f2}
    ExtPaths = {x1}
    Artifacts = {a1}
    None = None
    Procs = {p1, p2}
    MaxRuns = 2
    MaxClock = 0
    MaxCrashes = 1
SYMMETRY CallerSymmetry
INVARIANTS
    IndexNeverAhead
    RepliesAreDurable
    OneUnfinishedPerInput
PROPERTIES
    ImplementsRegistry
