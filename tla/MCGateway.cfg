\* Three sessions: accepted or connected to by both threads, until none is left.
CONSTANTS
    nMaxCons = 3
    MaxReads = 1
SPECIFICATION GatewayFairSpec
INVARIANTS
    GatewayTypeOK
    SessionUsedOnce
    KnownIsOnline
    LockedOnlyWhenEmpty
    Listening
    EventOrder
PROPERTIES
    LockGranted
    DispatchGoesOn
\* The process may die, and clients may be done.
CHECK_DEADLOCK FALSE
