CONSTANTS
    HeapStart = 100
    InitPages = 1
    PageSize = 16
    Header = 4
    Granule = 2
    Requests <- MCRequests
    MaxEnd = 160
SPECIFICATION FairSpec
INVARIANTS
    TypeOK
    ListOK
    NoAdjacentFree
PROPERTIES
    MallocReturns
    ImplementsArena
CHECK_DEADLOCK FALSE
