SPECIFICATION FairSpec
CONSTANTS
    Size = 2
    Modulus = 4
    MaxPauses = 1
    Faults = {"flush"}
PROPERTIES RequestsComplete ResumeCompletes
CHECK_DEADLOCK FALSE
