SPECIFICATION Spec
CONSTANTS
    PageSize = 2
    Last64 = 15
    FileBytes = 10
    Hard = 8
    MaxExtents = 2
INVARIANTS TypeOK ExtentsExact QueriesExact PrefixMaximal FragmentationBounded
