SPECIFICATION SearchSpec
CONSTANTS
    NoId = 0
    Batch = 0
    Years = {1, 2}
    Cutoff = 2
    LastYear = 2
    Count = 1
    PageSize = 1
    RowRange = 2
    MaxTime = 3
    MaxFilings = 3
    MaxOdd = 1
CHECK_DEADLOCK FALSE
INVARIANTS
    SearchIsWhole
    SelectionIsSound
    NoLookAhead
    WrittenIsPromotable
    RevalidatedStands
