\* The comment on the handshake: one that did not succeed closes the socket.
SPECIFICATION Spec
INVARIANT HandshakeHasWholeKey
CONSTANTS
    RECV_BUF_SIZE = 16
    MAX_PKG_SIZE = 40
    Streams <- MCStreams
CHECK_DEADLOCK FALSE
