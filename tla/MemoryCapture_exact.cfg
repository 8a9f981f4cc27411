SPECIFICATION Spec
CONSTANTS
    r1 = r1
    r2 = r2
    Ram = {r1, r2}
    MaxGeneration = 4
SYMMETRY Interchangeable
INVARIANTS TypeOK CandidateExact CoverageKept RunsReconciled FreezeOwned CaptureInv
CHECK_DEADLOCK FALSE
