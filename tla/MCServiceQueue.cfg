\* The queue between the network thread and the game loop.
SPECIFICATION FairSpec
CONSTANTS
    IoThreads = {io}
    Game = game
    NoThread = nobody
    Conns = {1, 2}
    MaxPackets = 3
INVARIANTS
    TypeOK
    NoConcurrentAccess
    FifoExactlyOnce
PROPERTY ImplementsChannel
