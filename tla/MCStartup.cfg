\* Every file of up to two entries over two names, two ids, two member names.
CONSTANTS
    Members = {"A", "B"}
    ServerNames = {"GatWay", "ServerTest"}
    ServerIds = {1, 2}
    Counts = {0, 20}
    MaxEntries = 2
SPECIFICATION Spec
INVARIANT EntriesFound
PROPERTY StartedListens
\* The main thread is in the game loop, or the process has ended.
CHECK_DEADLOCK FALSE
