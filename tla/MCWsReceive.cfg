\* The receive path on streams of every header form.
SPECIFICATION FairSpec
CONSTANTS
    RECV_BUF_SIZE = 16
    MAX_PKG_SIZE = 40
    Streams <- MCStreams
INVARIANTS
    TypeOK
    NoOverflow
    ByteConservation
    FramingExact
PROPERTIES
    ImplementsSession
    BacklogShrinks
    StreamIsRead
CHECK_DEADLOCK FALSE
