SPECIFICATION FairSpec
CONSTANTS
    Kinds <- Supported
    Lbas <- ThreeSectors
    KernelSectors = 2
    Ops <- FewOps
    MaxOps = 2
    MaxSlow = 2
INVARIANTS OpRight TypeRight
PROPERTIES OpEnds
CHECK_DEADLOCK FALSE
