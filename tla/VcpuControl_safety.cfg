SPECIFICATION Spec
CONSTANTS
    N = 2
    Capacity = 1
    Teardown = 7
    Nested = FALSE
    Deadlines = TRUE
INVARIANT TypeOK
INVARIANT PausedBoundary
INVARIANT RunningBoundary
INVARIANT ObservedPause
INVARIANT MailboxSlack
INVARIANT RestoreBeforeActivation
CHECK_DEADLOCK FALSE
