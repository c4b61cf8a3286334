SPECIFICATION FairSpec
CONSTANTS
    main = main
    t1 = t1
    t2 = t2
    t3 = t3
    Main <- main
    Tasks <- MCTaskSet
INVARIANTS TypeOK OneRunning RingOK InterruptsOn
PROPERTIES ExitIsFinal FaultsContained ForkReturns ImplementsScheduler
CHECK_DEADLOCK FALSE
