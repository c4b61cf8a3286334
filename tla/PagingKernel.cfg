SPECIFICATION Spec
CONSTANTS
    none = none
    None <- none
    Radix = 4
    MemFrames <- Memory
    Reserved <- Mmio
    BootPages = 32
    IdentityPages = 16
    HeapStart = 64
    HeapPages = 5
    StackPages = 2
    AcpiFrames <- Sdts
    Watched <- WatchedPages
    UnmapPages <- Unmapped
INVARIANTS TreeOK TablesAccessible TlbCoherent
PROPERTIES ImplementsAddressSpace
CHECK_DEADLOCK FALSE
