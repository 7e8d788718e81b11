SPECIFICATION Spec
CONSTANTS
    Procs = {p1, p2, p3}
    Ledgers = {w1, w2}
    None = None
    MaxCrashes = 2
SYMMETRY LedgerSymmetry
INVARIANTS
    OnlyCrashesTear
PROPERTIES
    NoLostUpdate
