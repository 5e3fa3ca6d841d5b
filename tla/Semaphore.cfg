\* Three threads, one initial permit.
\* The clients may all fall asleep, or the release bound may be used up.
CONSTANTS
    Threads = {t1, t2, t3}
    InitialValue = 1
    MaxReleases = 4
SPECIFICATION Spec
INVARIANTS
    TypeOK
    PermitsConserved
    NoStrandedWaiter
PROPERTY
    ImplementsCountingSemaphore
CHECK_DEADLOCK FALSE
