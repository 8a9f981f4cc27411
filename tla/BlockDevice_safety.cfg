SPECIFICATION Spec
CONSTANTS
    Size = 2
    Modulus = 4
    MaxPauses = 3
    Faults = {"flush", "reset"}
INVARIANTS TypeOK NotParked RingOrdered StoppedClean
CHECK_DEADLOCK FALSE
