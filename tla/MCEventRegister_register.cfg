SPECIFICATION RegisterSpec
CONSTANTS
    a = a
    b = b
    Serving = 99
    Sources = {"csrc", "hkex"}
    Native = {"csrc"}
    Ranged = {"csrc"}
    HomeOf <- MCHome
    Required <- MCRequired
    Prior = 1
    People = {a, b}
    Texts = {"t"}
    Offices = {"chair"}
    Founders <- MCFounders
    Listings <- MCListings
    LastDay = 3
    MaxTenures = 1
    MaxRecords = 1
CHECK_DEADLOCK FALSE
INVARIANTS
    HistoryIsWhole
    NoHindsight
    NothingIsLeftOut
