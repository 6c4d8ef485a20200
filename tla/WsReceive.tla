----------------------------- MODULE WsReceive -----------------------------
(***************************************************************************)
(* The receive path of one CNetSession (ServerEngine/baseinet/CNetSession  *)
(* .cpp, CHttpParser.h): the WebSocket handshake and the cutting of the     *)
(* TCP byte stream into packets.                                            *)
(*                                                                         *)
(* A byte in a buffer is named by its position in the stream the peer      *)
(* sends, so a buffer is a sequence of positions and a byte that is lost,  *)
(* copied twice or put in the wrong order shows; stream.bytes gives the     *)
(* value where the code looks at it.  A TCP read returns any number of     *)
(* bytes that are there.  A read handler runs to its end on the one thread *)
(* of the io_service, so it is one step.                                    *)
(***************************************************************************)
EXTENDS Integers, SessionCalls

CONSTANTS
    RECV_BUF_SIZE,    \* size of m_pRecvBuf (8192)
    MAX_PKG_SIZE,     \* a packet this long closes the session (65535)
    Streams           \* what a peer may send, each a StreamRecord

Byte == 0 .. 255

(***************************************************************************)
(* What a peer sends: the bytes, and where the value of the header         *)
(* Sec-WebSocket-Key of its HTTP request begins and ends in them.           *)
(***************************************************************************)
StreamRecord == [bytes : Seq(Byte), keyFrom : Nat, keyEnd : Nat]

ASSUME RecvAssumption ==
    /\ RECV_BUF_SIZE \in Nat /\ MAX_PKG_SIZE \in Nat
    /\ 0 < RECV_BUF_SIZE /\ RECV_BUF_SIZE <= MAX_PKG_SIZE /\ MAX_PKG_SIZE <= 65536
    /\ \A s \in Streams : /\ s \in StreamRecord
                          /\ 0 < s.keyFrom /\ s.keyFrom <= s.keyEnd
                          /\ s.keyEnd <= Len(s.bytes)

VARIABLES
    stream,             \* what this peer sends
    rd,                 \* how many of its bytes have been read
    m_pRecvBuf,         \* the m_dwDataLen bytes in the receive buffer
    m_pCurRecvBuffer,   \* the part of a long packet received so far
    m_pCurBufferSize,   \* the size of that packet; 0: m_pCurRecvBuffer is null
    m_IsHandler,        \* the handshake has been answered
    client_ws_key,      \* bytes of the key the answer was computed from
    m_hSocket,          \* "open" or "closed"
    reading,            \* an async_read_some is outstanding
    delivered,          \* history: the packets with data given to OnDataHandle
    outBytes,           \* history: their bytes, one after the other
    emptied,            \* history: a packet without data was given to it
    handshaken,         \* history: bytes taken as the HTTP request
    closes,             \* history: calls of IDataHandler::OnCloseConnect
    calls               \* history: what the last handler called of IDataHandler

vars == <<stream, rd, m_pRecvBuf, m_pCurRecvBuffer, m_pCurBufferSize, m_IsHandler,
          client_ws_key, m_hSocket, reading, delivered, outBytes, emptied,
          handshaken, closes, calls>>

\* The state right after HandleAccept has called DoReceive.
Init ==
    /\ stream \in Streams
    /\ rd = 0
    /\ m_pRecvBuf = <<>>
    /\ m_pCurRecvBuffer = <<>>
    /\ m_pCurBufferSize = 0
    /\ m_IsHandler = FALSE
    /\ client_ws_key = 0
    /\ m_hSocket = "open"
    /\ reading = TRUE
    /\ delivered = <<>>
    /\ outBytes = <<>>
    /\ emptied = FALSE
    /\ handshaken = 0
    /\ closes = 0
    /\ calls = <<>>

-----------------------------------------------------------------------------
(* recv_ws_header: the packet size at the front of a buffer.  *pkg_size     *)
(* stays 0 when the function gives up, and its return value is not used.    *)

Length7(pkg_data) == pkg_data[2] % 128

HeaderSize(pkg_data) ==
    IF Length7(pkg_data) <= 125 THEN 6 ELSE IF Length7(pkg_data) = 126 THEN 8 ELSE 14

(***************************************************************************)
(* low + 14 in 32 bits: the carry out of the low half goes into the high    *)
(* half and out of that it is lost.  Every size of 2^16 and more stands for *)
(* "at least MAX_PKG_SIZE" and is represented by 2^16.                      *)
(***************************************************************************)
Add14(low16, high16) ==
    LET sum == low16 + 14
        carried == IF sum >= 65536 THEN (high16 + 1) % 65536 ELSE high16
    IN  IF carried = 0 THEN sum % 65536 ELSE 65536

recv_ws_header(pkg_data) ==
    LET Word(i) == pkg_data[i] + 256 * pkg_data[i + 1]
    IN  IF Len(pkg_data) < 2 \/ Len(pkg_data) < HeaderSize(pkg_data) THEN 0
        ELSE IF HeaderSize(pkg_data) = 6 THEN Length7(pkg_data) + 6
        ELSE IF HeaderSize(pkg_data) = 8 THEN Word(3) + 8
        ELSE IF Word(7) # 0 \/ Word(9) # 0 THEN 0
        ELSE Add14(Word(3), Word(5))

\* The values of the bytes in a buffer.
Bytes(buf) == [i \in 1 .. Len(buf) |-> stream.bytes[buf[i]]]

PacketSize(buf) == recv_ws_header(Bytes(buf))

-----------------------------------------------------------------------------
(* The bytes a completed read has put behind what the buffer held.  A read  *)
(* into a full buffer asks for 0 bytes and completes with 0 bytes.          *)

\* The n bytes of the stream after the first k.
Run(k, n) == [i \in 1 .. n |-> k + i]

\* Deliberately wrong: DoReceive asks for a whole buffer.
Space_Whole == RECV_BUF_SIZE

Space == RECV_BUF_SIZE - Len(m_pRecvBuf)

ReadSizes ==
    IF Space = 0 THEN {0}
    ELSE {n \in 1 .. RECV_BUF_SIZE : n <= Space /\ n <= Len(stream.bytes) - rd}

\* Deliberately wrong: the read starts one byte too early.
Read_OneEarly(n) == m_pRecvBuf \o [i \in 1 .. n |-> rd + i - 1]

Read(n) == m_pRecvBuf \o Run(rd, n)

\* HandReaddata and HandleRecvEvent up to the first test.
HandReaddata(n) ==
    /\ reading
    /\ m_hSocket = "open"
    /\ n \in ReadSizes
    /\ rd' = rd + n
    /\ UNCHANGED stream

\* Deliberately wrong: the socket is left open.
Close_KeepsSocket ==
    /\ closes' = closes + 1
    /\ m_IsHandler' = FALSE
    /\ UNCHANGED m_hSocket

\* CNetSession::Close.  m_pDataHandler was set by WaitForConnet.
Close ==
    /\ m_hSocket' = "closed"
    /\ closes' = closes + 1
    /\ m_IsHandler' = FALSE

-----------------------------------------------------------------------------
(* The handshake: CheckHttpPackkage parses what the first read returned.    *)
(* The parser calls on_header_value with as much of the value as is there.  *)

KeyBytes(dwDataLen) ==
    (IF dwDataLen < stream.keyEnd THEN dwDataLen ELSE stream.keyEnd) - stream.keyFrom + 1

\* RetHttpHandlerPackkage answers; the whole buffer counts as the request.
HandshakeOk(n) ==
    /\ HandReaddata(n)
    /\ ~m_IsHandler
    /\ Len(Read(n)) >= stream.keyFrom
    /\ client_ws_key' = KeyBytes(Len(Read(n)))
    /\ m_IsHandler' = TRUE
    /\ m_pRecvBuf' = <<>>
    /\ handshaken' = rd'
    /\ calls' = <<>>
    /\ UNCHANGED <<m_pCurRecvBuffer, m_pCurBufferSize, m_hSocket, reading, delivered,
                   outBytes, emptied, closes>>

\* No key: close and do not receive again.
HandshakeFails(n) ==
    /\ HandReaddata(n)
    /\ ~m_IsHandler
    /\ Len(Read(n)) < stream.keyFrom
    /\ Close
    /\ calls' = <<"CLOSE">>
    /\ m_pRecvBuf' = Read(n)
    /\ reading' = FALSE
    /\ UNCHANGED <<m_pCurRecvBuffer, m_pCurBufferSize, client_ws_key, delivered,
                   outBytes, emptied, handshaken>>

-----------------------------------------------------------------------------
(* ExtractBuffer, and the DoReceive that follows it.  buf is the buffer and *)
(* size the length found at its front.  Rest is what is left of buf once    *)
(* the long packet in progress has got the bytes it misses, and Completed   *)
(* that packet, if there is one.                                            *)

InLongPacket == m_pCurBufferSize # 0

\* Deliberately wrong: one byte too few.
Missing_OneLess == m_pCurBufferSize - Len(m_pCurRecvBuffer) - 1

Missing == m_pCurBufferSize - Len(m_pCurRecvBuffer)
Rest(buf) == IF InLongPacket THEN SubSeq(buf, Missing + 1, Len(buf)) ELSE buf
Completed(buf) ==
    IF InLongPacket THEN <<m_pCurRecvBuffer \o SubSeq(buf, 1, Missing)>> ELSE <<>>
CompletedBytes(buf) ==
    IF InLongPacket THEN m_pCurRecvBuffer \o SubSeq(buf, 1, Missing) ELSE <<>>
LongCalls == IF InLongPacket THEN <<"DATA">> ELSE <<>>
WithData(packet) == IF packet = <<>> THEN <<>> ELSE <<packet>>

Extract(n) ==
    /\ HandReaddata(n)
    /\ m_IsHandler
    /\ UNCHANGED <<client_ws_key, reading, handshaken>>

\* The long packet in progress swallows the whole buffer.
ContinueLong(n) ==
    LET buf == Read(n) IN
    /\ Extract(n)
    /\ InLongPacket
    /\ Len(m_pCurRecvBuffer) + Len(buf) < m_pCurBufferSize
    /\ m_pCurRecvBuffer' = m_pCurRecvBuffer \o buf
    /\ calls' = <<>>
    /\ m_pRecvBuf' = <<>>
    /\ UNCHANGED <<m_pCurBufferSize, m_IsHandler, m_hSocket, delivered, outBytes, emptied,
                   closes>>

\* From here on the long packet, if any, has been completed and handed over.
PastLong(n) ==
    /\ Extract(n)
    /\ InLongPacket => Len(m_pCurRecvBuffer) + Len(Read(n)) >= m_pCurBufferSize

\* A size of MAX_PKG_SIZE and more.  The DoReceive fails at once: ReadError.
TooBig(n) ==
    LET buf == Read(n) IN
    /\ PastLong(n)
    /\ PacketSize(buf) >= MAX_PKG_SIZE
    /\ Close
    /\ calls' = Append(LongCalls, "CLOSE")
    /\ m_pRecvBuf' = Rest(buf)
    /\ m_pCurRecvBuffer' = <<>> /\ m_pCurBufferSize' = 0
    /\ delivered' = delivered \o Completed(buf)
    /\ outBytes' = outBytes \o CompletedBytes(buf)
    /\ UNCHANGED emptied

\* Deliberately wrong: a packet that ends with the buffer is waited for.
AllThere_Strict(size, rest) == size < Len(rest)

AllThere(size, rest) == size <= Len(rest)

\* Deliberately wrong: every packet is waited for in the buffer.
InBuffer_Always(size) == TRUE

InBuffer(size) == size < RECV_BUF_SIZE

\* Deliberately wrong: the bytes of the packet stay in the buffer.
Behind_Kept(rest, size) == rest

\* What memmove keeps behind a delivered packet.
Behind(rest, size) == SubSeq(rest, size + 1, Len(rest))

\* A packet that fits in the buffer and is not yet all there.
WaitForMore(n) ==
    LET buf == Read(n)
        dwPacketSize == PacketSize(buf) IN
    /\ PastLong(n)
    /\ dwPacketSize < MAX_PKG_SIZE
    /\ ~AllThere(dwPacketSize, Rest(buf)) /\ InBuffer(dwPacketSize)
    /\ m_pRecvBuf' = Rest(buf)
    /\ m_pCurRecvBuffer' = <<>> /\ m_pCurBufferSize' = 0
    /\ delivered' = delivered \o Completed(buf)
    /\ outBytes' = outBytes \o CompletedBytes(buf)
    /\ calls' = LongCalls
    /\ UNCHANGED <<m_IsHandler, m_hSocket, emptied, closes>>

\* A packet that is all there: it is delivered and the loop is left, so one
\* read delivers at most one packet besides the long one it completes.
Deliver(n) ==
    LET buf == Read(n)
        dwPacketSize == PacketSize(buf)
        packet == SubSeq(Rest(buf), 1, dwPacketSize) IN
    /\ PastLong(n)
    /\ dwPacketSize < MAX_PKG_SIZE
    /\ AllThere(dwPacketSize, Rest(buf))
    /\ m_pRecvBuf' = Behind(Rest(buf), dwPacketSize)
    /\ m_pCurRecvBuffer' = <<>> /\ m_pCurBufferSize' = 0
    /\ delivered' = delivered \o (Completed(buf) \o WithData(packet))
    /\ outBytes' = (outBytes \o CompletedBytes(buf)) \o packet
    /\ emptied' = (emptied \/ packet = <<>>)
    /\ calls' = Append(LongCalls, "DATA")
    /\ UNCHANGED <<m_IsHandler, m_hSocket, closes>>

\* A packet longer than the buffer begins; the loop's next turn finds no data.
StartLong(n) ==
    LET buf == Read(n)
        dwPacketSize == PacketSize(buf) IN
    /\ PastLong(n)
    /\ dwPacketSize < MAX_PKG_SIZE
    /\ ~AllThere(dwPacketSize, Rest(buf)) /\ ~InBuffer(dwPacketSize)
    /\ m_pRecvBuf' = <<>>
    /\ m_pCurRecvBuffer' = Rest(buf)
    /\ m_pCurBufferSize' = dwPacketSize
    /\ delivered' = delivered \o Completed(buf)
    /\ outBytes' = outBytes \o CompletedBytes(buf)
    /\ calls' = LongCalls
    /\ UNCHANGED <<m_IsHandler, m_hSocket, emptied, closes>>

\* HandReaddata with an error: end of stream, a reset, or the closed socket.
\* It returns; no Close, no OnCloseConnect and no new read.  For this session
\* the same happens when shutdown or remote_endpoint throws in a handler, on a
\* socket the peer has reset: nothing catches it and the process ends.
ReadError ==
    /\ reading
    /\ reading' = FALSE
    /\ calls' = <<>>
    /\ UNCHANGED <<stream, rd, m_pRecvBuf, m_pCurRecvBuffer, m_pCurBufferSize,
                   m_IsHandler, client_ws_key, m_hSocket, delivered, outBytes,
                   emptied, handshaken, closes>>

Handler(n) == \/ HandshakeOk(n) \/ HandshakeFails(n) \/ ContinueLong(n) \/ TooBig(n)
              \/ WaitForMore(n) \/ Deliver(n) \/ StartLong(n)

HandleRecvEvent == \E n \in 0 .. RECV_BUF_SIZE : Handler(n)

Next == HandleRecvEvent \/ ReadError

Spec == Init /\ [][Next]_vars

(***************************************************************************)
(* The io thread completes an outstanding read when bytes are there.       *)
(***************************************************************************)
FairSpec == Spec /\ WF_vars(HandleRecvEvent)

-----------------------------------------------------------------------------
Positions == 1 .. Len(stream.bytes)

(* Every variable keeps its type.                                           *)
TypeOK ==
    /\ stream \in Streams
    /\ rd \in 0 .. Len(stream.bytes)
    /\ m_pRecvBuf \in Seq(Positions)
    /\ m_pCurRecvBuffer \in Seq(Positions)
    /\ m_pCurBufferSize \in Nat
    /\ m_IsHandler \in BOOLEAN
    /\ client_ws_key \in Nat
    /\ m_hSocket \in {"open", "closed"}
    /\ reading \in BOOLEAN
    /\ delivered \in Seq(Seq(Positions))
    /\ outBytes \in Seq(Positions)
    /\ emptied \in BOOLEAN
    /\ handshaken \in 0 .. rd
    /\ closes \in Nat
    /\ calls \in HandlerCalls

(***************************************************************************)
(* No write outside a buffer.  m_pRecvBuf holds at most RECV_BUF_SIZE bytes *)
(* however the reads fall, and the buffer of a long packet, allocated with  *)
(* the size of the packet, always has room for one byte more than it has:   *)
(* the packet is handed over in the very read that fills it.                *)
(***************************************************************************)
NoOverflow ==
    /\ Len(m_pRecvBuf) <= RECV_BUF_SIZE
    /\ InLongPacket => /\ RECV_BUF_SIZE <= m_pCurBufferSize
                       /\ m_pCurBufferSize < MAX_PKG_SIZE
                       /\ Len(m_pCurRecvBuffer) < m_pCurBufferSize

(***************************************************************************)
(* Every byte after the request is delivered or kept, once and in order:   *)
(* the delivered packets, then the long packet in progress, then the        *)
(* buffer, are the bytes read so far.  Copying out, moving the rest to the  *)
(* front and reassembling long packets lose and repeat nothing.             *)
(***************************************************************************)
ByteConservation ==
    m_IsHandler => outBytes \o (m_pCurRecvBuffer \o m_pRecvBuf)
                     = Run(handshaken, rd - handshaken)

\* The frame behind the first p bytes of the stream, as recv_ws_header measures
\* it with all the bytes at hand.
SizeAt(p) == PacketSize(Run(p, Len(stream.bytes) - p))
FrameAt(p) == Run(p, SizeAt(p))

\* The last byte of the i-th packet of d; of the request for i = 0.
EndAt(d, i) == IF i = 0 THEN handshaken ELSE d[i][Len(d[i])]

(***************************************************************************)
(* Framing: wherever TCP cuts the stream, the packets with data delivered  *)
(* are the frames of the stream: the first is the one behind the request,   *)
(* and each other one the frame that follows the packet before it, up to    *)
(* and including the first one that is longer than the receive buffer.      *)
(* (After a long one the code goes on with a size it read from the middle   *)
(* of the packet, and this fails.)                                          *)
(***************************************************************************)
FramingExact ==
    \A i \in DOMAIN delivered :
        (\A j \in 1 .. (i - 1) : Len(delivered[j]) < RECV_BUF_SIZE)
           => delivered[i] = FrameAt(EndAt(delivered, i - 1))

(***************************************************************************)
(* A closed session is silent: after OnCloseConnect nothing more is         *)
(* delivered and the event is not repeated, although ExtractBuffer's caller *)
(* asks for another read on the closed socket.                              *)
(***************************************************************************)
ClosedIsFinal ==
    [][closes > 0 => UNCHANGED <<closes, delivered, emptied, m_IsHandler>>]_vars

(***************************************************************************)
(* One frame is delivered per read event, so complete frames may wait in    *)
(* the buffer.  But the backlog never just stands: a read that leaves a      *)
(* complete frame at the front of the buffer has delivered a packet, so     *)
(* every further read shortens a peer's backlog.                            *)
(***************************************************************************)
BacklogShrinks ==
    [][m_IsHandler' /\ PacketSize(m_pRecvBuf') \in 1 .. Len(m_pRecvBuf')
          => m_pRecvBuf' = m_pRecvBuf \/ delivered' # delivered]_vars

\* Where the session is, as the service sees it.
Phase ==
    IF m_hSocket = "closed" THEN "closed" ELSE IF ~reading THEN "gone"
    ELSE IF m_IsHandler THEN "frames" ELSE "request"

(***************************************************************************)
(* To the service the session is what SessionEvents promises, and Gateway   *)
(* builds on: with buffers, cuts and long packets hidden, no read event     *)
(* calls OnDataHandle or OnCloseConnect in another order, more often or     *)
(* later.                                                                   *)
(***************************************************************************)
Session == INSTANCE SessionEvents WITH phase <- Phase
ImplementsSession == Session!SessionSpec

\* A full buffer that begins with a length recv_ws_header gives up on.
Undecodable == Space = 0 /\ PacketSize(m_pRecvBuf) = 0

(***************************************************************************)
(* The receive loop goes on to the end of the stream unless a read fails,  *)
(* the session is closed, or the buffer is full and begins with a 64-bit    *)
(* length whose high word is not 0: only then does a read of 0 bytes follow *)
(* another one for ever.  No packet, however long, fills up the buffer and  *)
(* stops the session.                                                       *)
(***************************************************************************)
StreamIsRead ==
    <>(rd = Len(stream.bytes) \/ ~reading \/ m_hSocket = "closed" \/ Undecodable)

(***************************************************************************)
(* Why that is so: a handler that has read nothing shortens the buffer,     *)
(* unless it closes the session or the buffer is undecodable.  Bytes to     *)
(* come and then bytes in the buffer get fewer with every read event.       *)
(***************************************************************************)
ReadsProgress ==
    [][reading' /\ m_hSocket' = "open" /\ rd' = rd
          => Undecodable \/ Len(m_pRecvBuf') < Len(m_pRecvBuf)]_vars

-----------------------------------------------------------------------------
(***************************************************************************)
(* recv_ws_header returns -1 for a header that has not been received        *)
(* completely (CHttpParser.h, lines 82 and 91); 6 bytes is the shortest.    *)
(* No packet is handed over before its header is there.                     *)
(***************************************************************************)
NoPacketWithoutHeader ==
    ~emptied /\ \A i \in DOMAIN delivered : Len(delivered[i]) >= 6

(***************************************************************************)
(* A handshake that did not succeed closes the socket (CNetSession .cpp,    *)
(* lines 232 and 233): a session past the handshake was answered with the   *)
(* peer's whole key.                                                        *)
(***************************************************************************)
HandshakeHasWholeKey ==
    m_IsHandler => client_ws_key = stream.keyEnd - stream.keyFrom + 1
=============================================================================
