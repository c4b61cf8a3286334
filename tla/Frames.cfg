CONSTANTS
    Mmap <- MCSmall
    PageSize = 2
    Word = 64
    total_memory = 20
    ZeroedBits = 64
    StartAll = 12
    EndAll = 14
    OldTables = 2
    MemoryMap = 6
    LowStart = 4
    LowCount = 1
    mmap_base = 0
    NullBytes = 1
    ByteValues <- MCOneValue
    MaxWrites = 1
    Addrs <- MCAddrs
    Counts <- MCCounts
SPECIFICATION Spec
INVARIANTS
    TypeOK
    OneOwner
    Conservation
    HintSound
    HaltOnlyWhenFull
    ProtectedNeverGranted
    AccountingExact
CHECK_DEADLOCK FALSE
