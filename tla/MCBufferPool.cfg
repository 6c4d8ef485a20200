\* Three buffers so that one is unlinked from the middle of a list, four
\* references so that buffers are shared while all three are in use.
CONSTANTS
    NULL = NULL
    Buffers = {b1, b2, b3}
    Threads = {t1, t2}
    References = {r1, r2, r3, r4}
    SIZE = 1
SPECIFICATION Spec
SYMMETRY Symmetry
INVARIANTS TypeOK AssertsHold ListsPartition PoolClean
PROPERTY ImplementsOwners
\* The program ends with the manager destroyed.
CHECK_DEADLOCK FALSE
