SPECIFICATION Spec
CONSTANTS
    disk1 = disk1
    disk2 = disk2
    disk3 = disk3
    none = none
    Drives <- ThreeDrives
    Types <- SomeTypes
    HdNames <- Hd
    CdNames <- Cd
    Paths <- SomePaths
    Tar <- Files
    MaxCalls = 2
    NoDevice <- none
INVARIANTS ForestOK DevicesFound DrivesNamed
CHECK_DEADLOCK FALSE
