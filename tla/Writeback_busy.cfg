SPECIFICATION Spec
CONSTANTS
    Pages = 3
    Budget = 2
    MaxExtents = 1
    QueueCapacity = 1
    MaxGeneration = 4
    Faults = {"busy"}
INVARIANT CreditCovers
CHECK_DEADLOCK FALSE
