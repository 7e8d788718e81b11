SPECIFICATION FairSpec
CONSTANTS
    Fingerprints = {f1}
    ExtPaths = {}
    Artifacts = {a1}
    None = None
    Procs = {p1, p2}
    MaxRuns = 2
    MaxClock = 1
    MaxCrashes = 1
PROPERTIES
    EveryCallEnds
