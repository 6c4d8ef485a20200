\* The comment on recv_ws_header: a header that is not all there is no packet.
SPECIFICATION Spec
INVARIANT NoPacketWithoutHeader
CONSTANTS
    RECV_BUF_SIZE = 16
    MAX_PKG_SIZE = 40
    Streams <- MCStreams
CHECK_DEADLOCK FALSE
