SPECIFICATION Spec
CONSTANTS
    KernelSize = 143
    MaxRegions = 2
    MaxKeys = 1
    GatePolls = 2
    Cut = 2
    Firmware <- Machines
    Second = 1
    EnablePolls = 2

PROPERTIES SleepsAsAsked
\* The machine stops with a message, or is off.
CHECK_DEADLOCK FALSE
