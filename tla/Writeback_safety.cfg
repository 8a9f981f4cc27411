SPECIFICATION Spec
CONSTANTS
    Pages = 3
    Budget = 2
    MaxExtents = 1
    QueueCapacity = 1
    MaxGeneration = 4
    Faults = {"panic", "target"}
INVARIANTS TypeOK CreditCovers HardBudget NoMutualWait
CHECK_DEADLOCK FALSE
