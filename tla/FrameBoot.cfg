CONSTANTS
    Mmap <- MCMmap
    PageSize = 2
    Word = 64
    total_memory = 40
    ZeroedBits = 64
    StartAll = 26
    EndAll = 30
    OldTables = 3
    MemoryMap = 6
    LowStart = 8
    LowCount = 1
    mmap_base = 0
    NullBytes = 1
    ByteValues <- MCValues
    MaxWrites = 2
    Addrs <- MCAddrs
    Counts <- MCCounts
SPECIFICATION KernelSpec
INVARIANT
    BootPagesKept
CHECK_DEADLOCK FALSE
