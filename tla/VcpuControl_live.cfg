SPECIFICATION FairSpec
CONSTANTS
    N = 2
    Capacity = 3
    Teardown = 5
    Nested = TRUE
    Deadlines = TRUE
PROPERTY BarrierCompletes
PROPERTY OperationReturns
INVARIANT ControlInv
CHECK_DEADLOCK FALSE
