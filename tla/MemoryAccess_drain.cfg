SPECIFICATION FairSpec
CONSTANTS
    N = 2
    Heads = {h1}
    Ram = {r1}
    Hole = hole
    MaxGeneration = 2
    Deadlines = FALSE
    h1 = h1
    h2 = h2
    r1 = r1
    r2 = r2
    hole = hole
PROPERTY FreezeReturns
CHECK_DEADLOCK FALSE
