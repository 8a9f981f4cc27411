SPECIFICATION FairSpec
CONSTANTS
    Pages = 3
    Budget = 2
    MaxExtents = 1
    QueueCapacity = 1
    MaxGeneration = 2
    Faults = {"panic", "io"}
INVARIANTS CreditCovers
PROPERTIES FlushHonest OperationReturns
CHECK_DEADLOCK FALSE
