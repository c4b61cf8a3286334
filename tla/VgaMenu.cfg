SPECIFICATION MenuSpec
CONSTANTS
    Modes = 3
    SleepTicks = 2
INVARIANTS MenuTypeOK OneDraws
PROPERTIES WaitsEnd
\* run() returns, and then nothing of the menu happens.
CHECK_DEADLOCK FALSE
