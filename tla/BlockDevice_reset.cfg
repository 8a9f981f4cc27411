SPECIFICATION FairSpec
CONSTANTS
    Size = 1
    Modulus = 2
    MaxPauses = 1
    Faults = {"flush", "reset"}
PROPERTY ResumeCompletes
CHECK_DEADLOCK FALSE
