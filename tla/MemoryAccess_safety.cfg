SPECIFICATION Spec
CONSTANTS
    N = 2
    Heads = {h1}
    Ram = {r1}
    Hole = hole
    MaxGeneration = 4
    Deadlines = TRUE
    h1 = h1
    h2 = h2
    r1 = r1
    r2 = r2
    hole = hole
INVARIANT TypeOK
INVARIANT DirtyCovers
INVARIANT BitmapPresent
INVARIANT FreezeExcludes
INVARIANT NoStrandedWorker
PROPERTY ImplementsHostMemory
CHECK_DEADLOCK FALSE
