-------------------------- MODULE WsReceiveProofs --------------------------
(***************************************************************************)
(* Proofs about WsReceive, for any buffer size, any packet limit up to     *)
(* 2^16 and any set of streams.                                             *)
(***************************************************************************)
EXTENDS WsReceive, SequenceTheorems, TLAPS

-----------------------------------------------------------------------------
(* The operators the handlers are built from.                               *)

\* What the provers need to know of bytes and words.
LEMMA ByteArithmetic ==
    /\ \A x \in Byte : x % 128 \in 0 .. 127
    /\ \A x, y \in Byte : x + 256 * y \in Nat
    /\ \A x, y \in Nat : Add14(x, y) \in Nat
  BY DEF Byte, Add14

\* Whatever the bytes are, recv_ws_header measures a natural number.
LEMMA HeaderNat == \A v \in Seq(Byte) : recv_ws_header(v) \in Nat
  <1> SUFFICES ASSUME NEW v \in Seq(Byte) PROVE recv_ws_header(v) \in Nat
    OBVIOUS
  <1>1. Len(v) \in Nat /\ \A i \in 1 .. Len(v) : v[i] \in Byte
    OBVIOUS
  <1>2. CASE Len(v) < 2
    BY <1>2 DEF recv_ws_header
  <1>3. CASE Len(v) >= 2
    <2>1. v[2] \in Byte
      BY <1>1, <1>3
    <2>2. v[2] % 128 \in 0 .. 127
      BY <2>1, ByteArithmetic
    <2>3. PICK l \in 0 .. 127 : l = Length7(v)
      BY <2>2 DEF Length7
    <2>4. PICK h \in {6, 8, 14} : h = HeaderSize(v)
      BY <2>3 DEF HeaderSize
    <2>5. CASE Len(v) < h
      BY <2>4, <2>5 DEF recv_ws_header
    <2>6. CASE Len(v) >= 6 /\ h = 6
      <3>1. recv_ws_header(v) = l + 6
        BY <1>1, <2>3, <2>4, <2>6 DEF recv_ws_header
      <3> QED BY <3>1
    <2>7. CASE Len(v) >= 8 /\ h = 8
      <3>1. v[3] \in Byte /\ v[3 + 1] \in Byte
        BY <1>1, <2>7
      <3>2. PICK x \in Nat : x = v[3] + 256 * v[3 + 1]
        BY <3>1, ByteArithmetic
      <3>3. recv_ws_header(v) = x + 8
        BY <1>1, <2>4, <2>7, <3>2 DEF recv_ws_header
      <3> QED BY <3>3
    <2>8. CASE Len(v) >= 14 /\ h = 14
      <3>1. v[3] \in Byte /\ v[3 + 1] \in Byte /\ v[5] \in Byte /\ v[5 + 1] \in Byte
        BY <1>1, <2>8
      <3>2. PICK x \in Nat : x = v[3] + 256 * v[3 + 1]
        BY <3>1, ByteArithmetic
      <3>3. PICK y \in Nat : y = v[5] + 256 * v[5 + 1]
        BY <3>1, ByteArithmetic
      <3>4. Add14(x, y) \in Nat
        BY ByteArithmetic
      <3>5. recv_ws_header(v) = 0 \/ recv_ws_header(v) = Add14(x, y)
        BY <1>1, <2>4, <2>8, <3>2, <3>3 DEF recv_ws_header
      <3> QED BY <3>4, <3>5
    <2> QED BY <1>1, <2>4, <2>5, <2>6, <2>7, <2>8
  <1> QED BY <1>1, <1>2, <1>3

\* So a packet size is a natural number whatever the buffer holds.
LEMMA PacketSizeNat == TypeOK => \A buf \in Seq(Positions) : PacketSize(buf) \in Nat
  <1> SUFFICES ASSUME TypeOK, NEW buf \in Seq(Positions) PROVE PacketSize(buf) \in Nat
    OBVIOUS
  <1>1. stream.bytes \in Seq(Byte)
    BY RecvAssumption DEF TypeOK, StreamRecord
  <1>2. Bytes(buf) \in Seq(Byte)
    BY <1>1 DEF Bytes, Positions
  <1> QED BY <1>2, HeaderNat DEF PacketSize

\* A completed read appends n stream positions and stays inside m_pRecvBuf.
LEMMA ReadFits ==
    ASSUME TypeOK, NoOverflow, NEW n \in ReadSizes
    PROVE  /\ n \in Nat
           /\ rd + n \in 0 .. Len(stream.bytes)
           /\ Read(n) \in Seq(Positions)
           /\ Len(Read(n)) = Len(m_pRecvBuf) + n
           /\ Len(Read(n)) <= RECV_BUF_SIZE
  <1>1. /\ stream.bytes \in Seq(Byte)
        /\ Len(stream.bytes) \in Nat
        /\ rd \in 0 .. Len(stream.bytes)
        /\ m_pRecvBuf \in Seq(Positions)
        /\ Len(m_pRecvBuf) \in Nat
        /\ Len(m_pRecvBuf) <= RECV_BUF_SIZE
    BY RecvAssumption DEF TypeOK, StreamRecord, NoOverflow
  <1>2. /\ n \in Nat
        /\ n <= RECV_BUF_SIZE - Len(m_pRecvBuf)
        /\ rd + n <= Len(stream.bytes)
    BY <1>1, RecvAssumption DEF ReadSizes, Space
  <1>3. Run(rd, n) \in Seq(Positions)
    BY <1>1, <1>2 DEF Positions, Run
  <1>4. Len(Run(rd, n)) = n
    BY <1>2, <1>3 DEF Run
  <1> QED BY <1>1, <1>2, <1>3, <1>4, RecvAssumption DEF Read

\* What ExtractBuffer leaves in the buffer after completing a long packet.
LEMMA RestFits ==
    ASSUME TypeOK, NoOverflow, NEW n \in ReadSizes,
           InLongPacket => Len(m_pCurRecvBuffer) + Len(Read(n)) >= m_pCurBufferSize
    PROVE  /\ Rest(Read(n)) \in Seq(Positions)
           /\ Len(Rest(Read(n))) <= RECV_BUF_SIZE
           /\ CompletedBytes(Read(n)) \in Seq(Positions)
           /\ Completed(Read(n)) \in Seq(Seq(Positions))
  <1>1. PICK buf \in Seq(Positions) : buf = Read(n) /\ Len(buf) <= RECV_BUF_SIZE
    BY ReadFits
  <1>2. CASE ~InLongPacket
    BY <1>1, <1>2 DEF Rest, CompletedBytes, Completed
  <1>3. CASE InLongPacket
    <2>1. PICK cur \in Seq(Positions) : cur = m_pCurRecvBuffer
      BY DEF TypeOK
    <2>a. /\ m_pCurBufferSize \in Nat
          /\ Len(cur) < m_pCurBufferSize
          /\ Len(cur) + Len(buf) >= m_pCurBufferSize
      BY <1>1, <1>3, <2>1 DEF TypeOK, NoOverflow
    <2>b. m_pCurBufferSize - Len(cur) \in 1 .. Len(buf)
      BY <2>a
    <2>2. PICK m \in 1 .. Len(buf) : m = Missing
      BY <2>1, <2>b DEF Missing
    <2>3. SubSeq(buf, m + 1, Len(buf)) \in Seq(Positions)
      OBVIOUS
    <2>4. Len(SubSeq(buf, m + 1, Len(buf))) <= RECV_BUF_SIZE
      BY <1>1, RecvAssumption
    <2>5. cur \o SubSeq(buf, 1, m) \in Seq(Positions)
      OBVIOUS
    <2> QED BY <1>1, <1>3, <2>1, <2>2, <2>3, <2>4, <2>5
            DEF Rest, CompletedBytes, Completed
  <1> QED BY <1>2, <1>3

-----------------------------------------------------------------------------
(* Concatenation, over the positions of the stream.                         *)

\* Concatenation of sequences of positions.
LEMMA ConcatFacts ==
    /\ \A a, b, c \in Seq(Positions) : (a \o b) \o c = a \o (b \o c)
    /\ \A a \in Seq(Positions) : a \o <<>> = a /\ <<>> \o a = a
    /\ \A a, b \in Seq(Positions) : a \o b \in Seq(Positions)
    /\ <<>> \in Seq(Positions)
  <1>1. \A a, b, c \in Seq(Positions) : (a \o b) \o c = a \o (b \o c)
    BY ConcatAssociative, SMTT(60)
  <1>2. \A a \in Seq(Positions) : a \o <<>> = a /\ <<>> \o a = a
    OBVIOUS
  <1>3. \A a, b \in Seq(Positions) : a \o b \in Seq(Positions)
    OBVIOUS
  <1>4. <<>> \in Seq(Positions)
    OBVIOUS
  <1> QED BY <1>1, <1>2, <1>3, <1>4

\* Copying out the first k bytes and moving the rest to the front.
LEMMA CutAt ==
    \A b \in Seq(Positions) : \A k \in 0 .. Len(b) :
        /\ SubSeq(b, 1, k) \in Seq(Positions)
        /\ SubSeq(b, k + 1, Len(b)) \in Seq(Positions)
        /\ SubSeq(b, 1, k) \o SubSeq(b, k + 1, Len(b)) = b
  <1> SUFFICES ASSUME NEW b \in Seq(Positions), NEW k \in 0 .. Len(b)
               PROVE  /\ SubSeq(b, 1, k) \in Seq(Positions)
                      /\ SubSeq(b, k + 1, Len(b)) \in Seq(Positions)
                      /\ SubSeq(b, 1, k) \o SubSeq(b, k + 1, Len(b)) = b
    OBVIOUS
  <1>1. SubSeq(b, 1, k) \in Seq(Positions) /\ SubSeq(b, k + 1, Len(b)) \in Seq(Positions)
    OBVIOUS
  <1>2. 1 \in 1 .. Len(b) + 1 /\ k \in 1 - 1 .. Len(b) /\ Len(b) \in k .. Len(b)
    OBVIOUS
  <1>3. SubSeq(b, 1, k) \o SubSeq(b, k + 1, Len(b)) = SubSeq(b, 1, Len(b))
    BY <1>2, ConcatAdjacentSubSeq
  <1>4. SubSeq(b, 1, Len(b)) = b
    OBVIOUS
  <1> QED BY <1>1, <1>3, <1>4, Zenon

\* Completing a long packet: the first m bytes go behind it, the rest stays.
LEMMA MoveFront ==
    \A o, c, b \in Seq(Positions) : \A m \in 0 .. Len(b) :
        (o \o (c \o SubSeq(b, 1, m))) \o SubSeq(b, m + 1, Len(b)) = o \o (c \o b)
  <1> SUFFICES ASSUME NEW o \in Seq(Positions), NEW c \in Seq(Positions),
                      NEW b \in Seq(Positions), NEW m \in 0 .. Len(b)
               PROVE  (o \o (c \o SubSeq(b, 1, m))) \o SubSeq(b, m + 1, Len(b)) = o \o (c \o b)
    OBVIOUS
  <1>1. PICK x \in Seq(Positions), y \in Seq(Positions) :
            x = SubSeq(b, 1, m) /\ y = SubSeq(b, m + 1, Len(b)) /\ x \o y = b
    BY CutAt, ZenonT(40)
  <1>2. PICK z \in Seq(Positions) : z = c \o x
    BY ConcatFacts
  <1>3. (o \o z) \o y = o \o (z \o y)
    BY ConcatAssociative, SMTT(40)
  <1>4. (c \o x) \o y = c \o (x \o y)
    BY ConcatAssociative, SMTT(40)
  <1> QED BY <1>1, <1>2, <1>3, <1>4

\* A run of stream positions.
LEMMA RunFacts ==
    ASSUME NEW h \in Nat, NEW k \in Nat
    PROVE  /\ Run(h, k) \in Seq(Nat) /\ Len(Run(h, k)) = k
           /\ \A i \in 1 .. k : Run(h, k)[i] = h + i
  <1>1. Run(h, k) \in Seq(Nat)
    BY DEF Run
  <1>2. Len(Run(h, k)) = k
    BY DEF Run
  <1>3. \A i \in 1 .. k : Run(h, k)[i] = h + i
    BY DEF Run
  <1> QED BY <1>1, <1>2, <1>3

\* A run of no bytes is empty.
LEMMA RunEmpty == \A h \in Nat : Run(h, 0) = <<>>
  BY DEF Run

\* A read of n bytes extends the k bytes read before.
LEMMA RunGrows ==
    ASSUME NEW h \in Nat, NEW k \in Nat, NEW n \in Nat
    PROVE  Run(h, k) \o Run(h + k, n) = Run(h, k + n)
  <1>0. h + k \in Nat /\ k + n \in Nat
    OBVIOUS
  <1>1. PICK a \in Seq(Nat) : a = Run(h, k)
    BY RunFacts
  <1>2. PICK b \in Seq(Nat) : b = Run(h+k, n)
    BY <1>0, RunFacts
  <1>3. PICK c \in Seq(Nat) : c = Run(h, k+n)
    BY <1>0, RunFacts
  <1>4. Len(a) = k /\ \A i \in 1 .. k : a[i] = h + i
    BY <1>1, RunFacts
  <1>5. Len(b) = n /\ \A i \in 1 .. n : b[i] = h + k + i
    BY <1>2, <1>0, RunFacts
  <1>6. Len(c) = k + n /\ \A i \in 1 .. k+n : c[i] = h + i
    BY <1>3, <1>0, RunFacts
  <1>7. a \o b \in Seq(Nat) /\ Len(a \o b) = Len(a) + Len(b)
    OBVIOUS
  <1>8. \A i \in 1 .. Len(a) + Len(b) :
            (a \o b)[i] = IF i <= Len(a) THEN a[i] ELSE b[i - Len(a)]
    BY ConcatProperties
  <1>10. \A i \in 1 .. k + n : (a \o b)[i] = c[i]
    <2> SUFFICES ASSUME NEW i \in 1 .. k + n PROVE (a \o b)[i] = c[i]
      OBVIOUS
    <2>1. (a \o b)[i] = IF i <= k THEN a[i] ELSE b[i - k]
      BY <1>4, <1>5, <1>8
    <2>2. CASE i <= k
      BY <1>4, <1>6, <2>1, <2>2
    <2>3. CASE ~(i <= k)
      <3>1. i - k \in 1 .. n
        BY <2>3
      <3>2. b[i - k] = h + i
        BY <1>5, <3>1
      <3> QED BY <1>6, <2>1, <2>3, <3>2
    <2> QED BY <2>2, <2>3
  <1>11. Len(a \o b) = k + n
    BY <1>4, <1>5, <1>7
  <1>12. a \o b = c
    BY <1>6, <1>7, <1>10, <1>11, SeqEqual
  <1> QED BY <1>1, <1>2, <1>3, <1>12

-----------------------------------------------------------------------------
(***************************************************************************)
(* The inductive invariant.  ByteConservation speaks of sessions past the  *)
(* handshake only, so Fresh adds what the handshake finds: nothing          *)
(* delivered, no long packet begun.                                         *)
(***************************************************************************)
Fresh ==
    /\ ~InLongPacket => m_pCurRecvBuffer = <<>>
    /\ m_hSocket = "open" /\ ~m_IsHandler => m_pCurRecvBuffer = <<>> /\ outBytes = <<>>

IInv == TypeOK /\ NoOverflow /\ Fresh /\ ByteConservation

\* No call at all.
LEMMA NoCalls == <<>> \in HandlerCalls
  BY DEF HandlerCalls, DataCalls

\* Two calls, one after the other.
LEMMA TwoCalls ==
    ASSUME NEW S, NEW e \in S, NEW f \in S
    PROVE  Append(<<e>>, f) = <<e, f>>
  <1>1. <<e>> \in Seq(S) /\ Len(<<e>>) = 1
    OBVIOUS
  <1>2. PICK s \in Seq(S) : s = <<e>>
    BY <1>1
  <1>3. /\ Append(s, f) \in Seq(S) /\ Len(Append(s, f)) = 2
        /\ Append(s, f)[1] = e /\ Append(s, f)[2] = f
    BY <1>1, <1>2
  <1>4. <<e, f>> \in Seq(S) /\ Len(<<e, f>>) = 2 /\ <<e, f>>[1] = e /\ <<e, f>>[2] = f
    OBVIOUS
  <1>5. PICK a \in Seq(S), b \in Seq(S) : a = Append(s, f) /\ b = <<e, f>>
    BY <1>3, <1>4
  <1>6. Len(a) = 2 /\ Len(b) = 2 /\ a[1] = b[1] /\ a[2] = b[2]
    BY <1>3, <1>4, <1>5
  <1>7. a = b
    BY <1>6, SeqEqual
  <1> QED BY <1>2, <1>5, <1>7

\* What a handler calls: a long packet, if it completes one, comes first.
LEMMA LongCallsFirst ==
    /\ LongCalls \in DataCalls
    /\ Append(LongCalls, "DATA") \in DataCalls
    /\ Append(LongCalls, "CLOSE") \in CloseCalls
  <1>1. CASE InLongPacket
    <2>1. /\ Append(<<"DATA">>, "DATA") = <<"DATA", "DATA">>
          /\ Append(<<"DATA">>, "CLOSE") = <<"DATA", "CLOSE">>
      <3>1. "DATA" \in {"DATA", "CLOSE"} /\ "CLOSE" \in {"DATA", "CLOSE"}
        OBVIOUS
      <3> QED BY <3>1, TwoCalls
    <2> QED BY <1>1, <2>1 DEF LongCalls, DataCalls, CloseCalls
  <1>2. CASE ~InLongPacket
    <2>1. Append(<<>>, "DATA") = <<"DATA">> /\ Append(<<>>, "CLOSE") = <<"CLOSE">>
      OBVIOUS
    <2> QED BY <1>2, <2>1 DEF LongCalls, DataCalls, CloseCalls
  <1> QED BY <1>1, <1>2

\* No handler calls anything else.
LEMMA HandlerCallsKnown ==
    ASSUME NEW n, Handler(n)
    PROVE  calls' \in HandlerCalls
  <1>1. <<>> \in DataCalls /\ <<"CLOSE">> \in CloseCalls
    BY DEF DataCalls, CloseCalls
  <1>2. calls' \in {<<>>, <<"CLOSE">>, LongCalls, Append(LongCalls, "DATA"), Append(LongCalls, "CLOSE")}
    BY DEF Handler, HandshakeOk, HandshakeFails, ContinueLong, TooBig, WaitForMore, Deliver, StartLong
  <1> QED BY <1>1, <1>2, LongCallsFirst DEF HandlerCalls

\* Nothing has been read.
LEMMA InitIInv == Init => IInv
  <1> SUFFICES ASSUME Init PROVE IInv
    OBVIOUS
  <1>1. Len(stream.bytes) \in Nat
    BY RecvAssumption DEF Init, StreamRecord
  <1>2. TypeOK
    <2>1. 0 \in 0 .. Len(stream.bytes) /\ 0 \in 0 .. 0
      BY <1>1
    <2>2. <<>> \in Seq(Positions) /\ <<>> \in Seq(Seq(Positions))
      OBVIOUS
    <2> QED BY <2>1, <2>2, NoCalls, Zenon DEF Init, TypeOK
  <1>3. NoOverflow /\ Fresh /\ ByteConservation
    BY RecvAssumption DEF Init, NoOverflow, Fresh, ByteConservation, InLongPacket
  <1> QED BY <1>2, <1>3 DEF IInv

\* After a read the bytes delivered, in the long packet and in the buffer are
\* the bytes read.
LEMMA ReadConserves ==
    ASSUME IInv, m_IsHandler, NEW n \in ReadSizes
    PROVE  outBytes \o (m_pCurRecvBuffer \o Read(n)) = Run(handshaken, (rd + n) - handshaken)
  <1>1. PICK o \in Seq(Positions), c \in Seq(Positions), r \in Seq(Positions) :
            o = outBytes /\ c = m_pCurRecvBuffer /\ r = m_pRecvBuf
    BY DEF IInv, TypeOK
  <1>2. n \in Nat /\ rd \in Nat /\ handshaken \in Nat /\ rd - handshaken \in Nat
        /\ rd + n \in 0 .. Len(stream.bytes) /\ Len(stream.bytes) \in Nat
    <2>1. stream.bytes \in Seq(Byte)
      BY RecvAssumption DEF IInv, TypeOK, StreamRecord
    <2>2. Len(stream.bytes) \in Nat
      BY <2>1
    <2> QED BY <2>2, ReadFits DEF IInv, TypeOK
  <1>3. Run(rd, n) \in Seq(Positions)
    BY <1>2 DEF Run, Positions
  <1>4. PICK x \in Seq(Positions) : x = Run(rd, n)
    BY <1>3
  <1>5. (o \o (c \o r)) \o x = o \o (c \o (r \o x))
    <2>1. PICK y \in Seq(Positions) : y = c \o r
      BY ConcatFacts
    <2>2. (o \o y) \o x = o \o (y \o x)
      BY ConcatFacts, SMTT(40)
    <2>3. (c \o r) \o x = c \o (r \o x)
      BY ConcatFacts, SMTT(40)
    <2> QED BY <2>1, <2>2, <2>3
  <1>6. o \o (c \o r) = Run(handshaken, rd - handshaken)
    BY <1>1 DEF IInv, ByteConservation
  <1>7. Run(handshaken, rd - handshaken) \o Run(handshaken + (rd - handshaken), n)
            = Run(handshaken, (rd - handshaken) + n)
    BY <1>2, RunGrows
  <1>8. handshaken + (rd - handshaken) = rd /\ (rd - handshaken) + n = (rd + n) - handshaken
    BY <1>2
  <1> QED BY <1>1, <1>4, <1>5, <1>6, <1>7, <1>8 DEF Read

\* The same with the long packet completed and moved to the delivered bytes.
LEMMA RestConserves ==
    ASSUME IInv, m_IsHandler, NEW n \in ReadSizes,
           InLongPacket => Len(m_pCurRecvBuffer) + Len(Read(n)) >= m_pCurBufferSize
    PROVE  (outBytes \o CompletedBytes(Read(n))) \o Rest(Read(n))
             = Run(handshaken, (rd + n) - handshaken)
  <1>1. PICK o \in Seq(Positions), c \in Seq(Positions), b \in Seq(Positions) :
            o = outBytes /\ c = m_pCurRecvBuffer /\ b = Read(n)
    BY ReadFits DEF IInv, TypeOK
  <1>2. o \o (c \o b) = Run(handshaken, (rd + n) - handshaken)
    BY <1>1, ReadConserves
  <1>3. CASE ~InLongPacket
    <2>1. c = <<>>
      BY <1>1, <1>3 DEF IInv, Fresh
    <2>2. (o \o <<>>) \o b = o \o (<<>> \o b)
      BY ConcatFacts
    <2> QED BY <1>1, <1>2, <1>3, <2>1, <2>2 DEF CompletedBytes, Rest
  <1>4. CASE InLongPacket
    <2>1. /\ m_pCurBufferSize \in Nat
          /\ Len(c) < m_pCurBufferSize
          /\ Len(c) + Len(b) >= m_pCurBufferSize
      BY <1>1, <1>4 DEF IInv, TypeOK, NoOverflow
    <2>2. m_pCurBufferSize - Len(c) \in 0 .. Len(b)
      BY <2>1
    <2>3. PICK m \in 0 .. Len(b) : m = Missing
      BY <1>1, <2>2 DEF Missing
    <2>4. (o \o (c \o SubSeq(b, 1, m))) \o SubSeq(b, m + 1, Len(b)) = o \o (c \o b)
      BY MoveFront
    <2> QED BY <1>1, <1>2, <1>4, <2>3, <2>4 DEF CompletedBytes, Rest
  <1> QED BY <1>3, <1>4

-----------------------------------------------------------------------------
(* One lemma per handler.                                                   *)

\* What every read handler leaves behind.
LEMMA Handled ==
    ASSUME IInv, NEW n, HandReaddata(n)
    PROVE  /\ n \in ReadSizes
           /\ n \in Nat
           /\ stream' = stream
           /\ stream \in Streams
           /\ Positions' = Positions
           /\ rd' = rd + n
           /\ rd' \in 0 .. Len(stream'.bytes)
           /\ handshaken \in 0 .. rd'
           /\ rd' \in Nat
  <1>1. n \in ReadSizes /\ stream' = stream /\ rd' = rd + n
    BY DEF HandReaddata
  <1>2. n \in Nat /\ rd + n \in 0 .. Len(stream.bytes)
    BY <1>1, ReadFits DEF IInv
  <1>3. stream.bytes \in Seq(Byte)
    BY RecvAssumption DEF IInv, TypeOK, StreamRecord
  <1>4. Len(stream.bytes) \in Nat
    BY <1>3
  <1>5. rd \in Nat /\ handshaken \in 0 .. rd
    BY <1>4 DEF IInv, TypeOK
  <1> QED BY <1>1, <1>2, <1>4, <1>5 DEF Positions, IInv, TypeOK

\* The request is consumed; the bytes that count begin after it.
LEMMA HandshakeOkIInv ==
    ASSUME IInv, NEW n, HandshakeOk(n)
    PROVE  IInv'
  <1>0. calls' \in HandlerCalls
    BY HandlerCallsKnown DEF Handler
  <1>1. HandReaddata(n)
    BY DEF HandshakeOk
  <1>2. m_hSocket = "open" /\ ~m_IsHandler
    BY DEF HandshakeOk, HandReaddata
  <1>3. KeyBytes(Len(Read(n))) \in Nat
    <2>1. stream.keyFrom \in Nat /\ stream.keyEnd \in Nat /\ stream.keyFrom <= stream.keyEnd
      BY RecvAssumption DEF IInv, TypeOK, StreamRecord
    <2>2. Read(n) \in Seq(Positions)
      BY <1>1, Handled, ReadFits DEF IInv
    <2>3. Len(Read(n)) \in Nat /\ Len(Read(n)) >= stream.keyFrom
      BY <2>2 DEF HandshakeOk
    <2> QED BY <2>1, <2>3 DEF KeyBytes
  <1>4. m_pCurRecvBuffer = <<>> /\ outBytes = <<>>
    BY <1>2 DEF IInv, Fresh
  <1>5. TypeOK'
    BY <1>0, <1>1, <1>3, Handled DEF IInv, TypeOK, HandshakeOk
  <1>6. NoOverflow' /\ Fresh'
    BY <1>4, RecvAssumption DEF IInv, NoOverflow, Fresh, HandshakeOk, InLongPacket
  <1>7. ByteConservation'
    <2>1. rd' \in Nat /\ handshaken' = rd'
      BY <1>1, Handled DEF HandshakeOk
    <2>2. PICK r \in Nat : r = rd' /\ r = handshaken'
      BY <2>1
    <2>3. outBytes' = <<>> /\ m_pCurRecvBuffer' = <<>> /\ m_pRecvBuf' = <<>>
      BY <1>4 DEF HandshakeOk
    <2>4. Run(handshaken', rd' - handshaken') = <<>>
      <3>1. r - r = 0
        OBVIOUS
      <3> QED BY <2>2, <3>1, RunEmpty
    <2> QED BY <2>3, <2>4 DEF ByteConservation
  <1> QED BY <1>5, <1>6, <1>7 DEF IInv

\* The session is closed before any byte counts.
LEMMA HandshakeFailsIInv ==
    ASSUME IInv, NEW n, HandshakeFails(n)
    PROVE  IInv'
  <1>0. calls' \in HandlerCalls
    BY HandlerCallsKnown DEF Handler
  <1>1. HandReaddata(n)
    BY DEF HandshakeFails
  <1>2. Read(n) \in Seq(Positions) /\ Len(Read(n)) <= RECV_BUF_SIZE
    BY <1>1, Handled, ReadFits DEF IInv
  <1>3. TypeOK'
    <2>1. closes' \in Nat
      BY DEF IInv, TypeOK, HandshakeFails, Close
    <2>2. m_hSocket' = "closed" /\ m_IsHandler' = FALSE
      BY DEF HandshakeFails, Close
    <2> HIDE DEF Close
    <2> QED BY <1>0, <1>1, <1>2, <2>1, <2>2, Handled DEF IInv, TypeOK, HandshakeFails
  <1>4. NoOverflow' /\ Fresh' /\ ByteConservation'
    BY <1>2 DEF IInv, NoOverflow, Fresh, ByteConservation, HandshakeFails, InLongPacket, Close
  <1> QED BY <1>3, <1>4 DEF IInv

\* The buffer moves to the end of the long packet.
LEMMA ContinueLongIInv ==
    ASSUME IInv, NEW n, ContinueLong(n)
    PROVE  IInv'
  <1>0. calls' \in HandlerCalls
    BY HandlerCallsKnown DEF Handler
  <1>1. HandReaddata(n) /\ m_IsHandler /\ m_hSocket = "open"
    BY DEF ContinueLong, Extract, HandReaddata
  <1>2. PICK o \in Seq(Positions), c \in Seq(Positions), b \in Seq(Positions) :
            o = outBytes /\ c = m_pCurRecvBuffer /\ b = Read(n)
    BY <1>1, Handled, ReadFits DEF IInv, TypeOK
  <1>3. c \o b \in Seq(Positions) /\ Len(c \o b) = Len(c) + Len(b)
    OBVIOUS
  <1>4. /\ m_pCurRecvBuffer' = c \o b
        /\ m_pRecvBuf' = <<>>
        /\ Len(c) + Len(b) < m_pCurBufferSize
        /\ InLongPacket
        /\ UNCHANGED <<m_pCurBufferSize, m_IsHandler, m_hSocket, delivered, outBytes, emptied,
                       closes, client_ws_key, reading, handshaken>>
    BY <1>2 DEF ContinueLong, Extract
  <1>5. TypeOK'
    BY <1>0, <1>1, <1>3, <1>4, Handled DEF IInv, TypeOK
  <1>6. NoOverflow' /\ Fresh'
    BY <1>1, <1>3, <1>4, RecvAssumption DEF IInv, NoOverflow, Fresh, InLongPacket
  <1>7. ByteConservation'
    <2>1. o \o (c \o b) = Run(handshaken, (rd + n) - handshaken)
      BY <1>1, <1>2, Handled, ReadConserves
    <2>2. (c \o b) \o <<>> = c \o b
      BY <1>3
    <2> QED BY <1>1, <1>2, <1>4, <2>1, <2>2, Handled DEF ByteConservation
  <1> QED BY <1>5, <1>6, <1>7 DEF IInv

\* Common to the four handlers past the long packet: o is what has been
\* delivered with the completed packet, y what is left of the buffer.
LEMMA PastLongFacts ==
    ASSUME IInv, NEW n, PastLong(n)
    PROVE  \E o, y \in Seq(Positions) :
              /\ o = outBytes \o CompletedBytes(Read(n))
              /\ y = Rest(Read(n))
              /\ Len(y) <= RECV_BUF_SIZE
              /\ o \o y = Run(handshaken, rd' - handshaken)
              /\ delivered \o Completed(Read(n)) \in Seq(Seq(Positions))
              /\ PacketSize(Read(n)) \in Nat
  <1>1. /\ HandReaddata(n) /\ m_IsHandler
        /\ InLongPacket => Len(m_pCurRecvBuffer) + Len(Read(n)) >= m_pCurBufferSize
    BY DEF PastLong, Extract
  <1>2. n \in ReadSizes /\ rd' = rd + n
    BY <1>1, Handled
  <1>3. /\ Rest(Read(n)) \in Seq(Positions)
        /\ Len(Rest(Read(n))) <= RECV_BUF_SIZE
        /\ CompletedBytes(Read(n)) \in Seq(Positions)
        /\ Completed(Read(n)) \in Seq(Seq(Positions))
    BY <1>1, <1>2, RestFits DEF IInv
  <1>4. outBytes \in Seq(Positions) /\ delivered \in Seq(Seq(Positions))
    BY DEF IInv, TypeOK
  <1>5. outBytes \o CompletedBytes(Read(n)) \in Seq(Positions)
    BY <1>3, <1>4
  <1>6. delivered \o Completed(Read(n)) \in Seq(Seq(Positions))
    BY <1>3, <1>4
  <1>7. (outBytes \o CompletedBytes(Read(n))) \o Rest(Read(n)) = Run(handshaken, rd' - handshaken)
    BY <1>1, <1>2, RestConserves
  <1>8. PacketSize(Read(n)) \in Nat
    BY <1>2, ReadFits, PacketSizeNat DEF IInv
  <1> QED BY <1>3, <1>5, <1>6, <1>7, <1>8

\* The long packet is delivered and the session closed.
LEMMA TooBigIInv ==
    ASSUME IInv, NEW n, TooBig(n)
    PROVE  IInv'
  <1>0. calls' \in HandlerCalls
    BY HandlerCallsKnown DEF Handler
  <1>1. PastLong(n) /\ HandReaddata(n)
    BY DEF TooBig, PastLong, Extract
  <1>2. PICK o \in Seq(Positions), y \in Seq(Positions) :
              /\ o = outBytes \o CompletedBytes(Read(n))
              /\ y = Rest(Read(n))
              /\ Len(y) <= RECV_BUF_SIZE
              /\ delivered \o Completed(Read(n)) \in Seq(Seq(Positions))
    BY <1>1, PastLongFacts
  <1>3. /\ outBytes' = o /\ m_pRecvBuf' = y
        /\ delivered' \in Seq(Seq(Positions))
        /\ m_pCurRecvBuffer' = <<>> /\ m_pCurBufferSize' = 0
        /\ m_hSocket' = "closed" /\ m_IsHandler' = FALSE
        /\ UNCHANGED <<client_ws_key, reading, handshaken, emptied>>
    BY <1>2 DEF TooBig, PastLong, Extract, Close
  <1>4. closes' \in Nat
    BY DEF TooBig, Close, IInv, TypeOK
  <1>5. TypeOK'
    <2>1. /\ stream' \in Streams /\ Positions' = Positions
          /\ rd' \in 0 .. Len(stream'.bytes) /\ handshaken' \in 0 .. rd'
      BY <1>1, <1>3, Handled
    <2>2. /\ m_pRecvBuf' \in Seq(Positions) /\ m_pCurRecvBuffer' \in Seq(Positions)
          /\ outBytes' \in Seq(Positions) /\ m_pCurBufferSize' \in Nat
      BY <1>3
    <2>3. /\ m_IsHandler' \in BOOLEAN /\ m_hSocket' \in {"open", "closed"}
          /\ client_ws_key' \in Nat /\ reading' \in BOOLEAN /\ emptied' \in BOOLEAN
      BY <1>3 DEF IInv, TypeOK
    <2> QED BY <1>0, <1>3, <1>4, <2>1, <2>2, <2>3 DEF TypeOK
  <1>6. NoOverflow' /\ Fresh' /\ ByteConservation'
    BY <1>2, <1>3 DEF NoOverflow, Fresh, ByteConservation, InLongPacket
  <1> QED BY <1>5, <1>6 DEF IInv

\* The long packet is delivered and the rest kept.
LEMMA WaitForMoreIInv ==
    ASSUME IInv, NEW n, WaitForMore(n)
    PROVE  IInv'
  <1>0. calls' \in HandlerCalls
    BY HandlerCallsKnown DEF Handler
  <1>1. PastLong(n) /\ HandReaddata(n) /\ m_IsHandler
    BY DEF WaitForMore, PastLong, Extract
  <1>2. PICK o \in Seq(Positions), y \in Seq(Positions) :
              /\ o = outBytes \o CompletedBytes(Read(n))
              /\ y = Rest(Read(n))
              /\ Len(y) <= RECV_BUF_SIZE
              /\ o \o y = Run(handshaken, rd' - handshaken)
              /\ delivered \o Completed(Read(n)) \in Seq(Seq(Positions))
    BY <1>1, PastLongFacts
  <1>3. /\ outBytes' = o /\ m_pRecvBuf' = y
        /\ delivered' \in Seq(Seq(Positions))
        /\ m_pCurRecvBuffer' = <<>> /\ m_pCurBufferSize' = 0
        /\ UNCHANGED <<client_ws_key, reading, handshaken, emptied, m_IsHandler, m_hSocket, closes>>
    BY <1>2 DEF WaitForMore, PastLong, Extract
  <1>4. TypeOK'
    BY <1>0, <1>1, <1>3, Handled DEF IInv, TypeOK
  <1>5. NoOverflow' /\ Fresh'
    BY <1>1, <1>2, <1>3 DEF NoOverflow, Fresh, InLongPacket
  <1>6. ByteConservation'
    <2>1. o \o (<<>> \o y) = o \o y
      OBVIOUS
    <2> QED BY <1>2, <1>3, <2>1 DEF ByteConservation
  <1> QED BY <1>4, <1>5, <1>6 DEF IInv

\* The long packet and one more are delivered and the rest kept.
LEMMA DeliverIInv ==
    ASSUME IInv, NEW n, Deliver(n)
    PROVE  IInv'
  <1>0. calls' \in HandlerCalls
    BY HandlerCallsKnown DEF Handler
  <1>1. PastLong(n) /\ HandReaddata(n) /\ m_IsHandler
    BY DEF Deliver, PastLong, Extract
  <1>2. PICK o \in Seq(Positions), y \in Seq(Positions) :
              /\ o = outBytes \o CompletedBytes(Read(n))
              /\ y = Rest(Read(n))
              /\ Len(y) <= RECV_BUF_SIZE
              /\ o \o y = Run(handshaken, rd' - handshaken)
              /\ delivered \o Completed(Read(n)) \in Seq(Seq(Positions))
              /\ PacketSize(Read(n)) \in Nat
    BY <1>1, PastLongFacts
  <1>3. PICK k \in 0 .. Len(y) : k = PacketSize(Read(n))
    BY <1>2 DEF Deliver, AllThere
  <1>4. PICK p \in Seq(Positions), q \in Seq(Positions) :
            p = SubSeq(y, 1, k) /\ q = SubSeq(y, k + 1, Len(y)) /\ p \o q = y
    BY CutAt, ZenonT(40)
  <1>5. Len(q) <= Len(y)
    BY <1>4
  <1>6. /\ outBytes' = o \o p /\ m_pRecvBuf' = q
        /\ delivered' = delivered \o (Completed(Read(n)) \o WithData(p))
        /\ m_pCurRecvBuffer' = <<>> /\ m_pCurBufferSize' = 0
        /\ emptied' = (emptied \/ p = <<>>)
        /\ UNCHANGED <<client_ws_key, reading, handshaken, m_IsHandler, m_hSocket, closes>>
    BY <1>2, <1>3, <1>4 DEF Deliver, PastLong, Extract, Behind
  <1>7. TypeOK'
    <2>1. delivered' \in Seq(Seq(Positions))
      <3>1. WithData(p) \in Seq(Seq(Positions))
        BY DEF WithData
      <3>2. Completed(Read(n)) \in Seq(Seq(Positions)) /\ delivered \in Seq(Seq(Positions))
        BY <1>1, Handled, RestFits DEF IInv, TypeOK, PastLong
      <3> QED BY <1>6, <3>1, <3>2
    <2>2. o \o p \in Seq(Positions)
      OBVIOUS
    <2>3. emptied' \in BOOLEAN
      BY <1>6
    <2> QED BY <1>0, <1>1, <1>6, <2>1, <2>2, <2>3, Handled DEF IInv, TypeOK
  <1>8. NoOverflow' /\ Fresh'
    BY <1>1, <1>2, <1>5, <1>6, RecvAssumption DEF NoOverflow, Fresh, InLongPacket
  <1>9. ByteConservation'
    <2>1. (o \o p) \o q = o \o (p \o q)
      BY ConcatAssociative, SMTT(40)
    <2>2. (o \o p) \o (<<>> \o q) = (o \o p) \o q
      OBVIOUS
    <2> QED BY <1>2, <1>4, <1>6, <2>1, <2>2 DEF ByteConservation
  <1> QED BY <1>7, <1>8, <1>9 DEF IInv

\* The rest becomes the beginning of a long packet.
LEMMA StartLongIInv ==
    ASSUME IInv, NEW n, StartLong(n)
    PROVE  IInv'
  <1>0. calls' \in HandlerCalls
    BY HandlerCallsKnown DEF Handler
  <1>1. PastLong(n) /\ HandReaddata(n) /\ m_IsHandler
    BY DEF StartLong, PastLong, Extract
  <1>2. PICK o \in Seq(Positions), y \in Seq(Positions) :
              /\ o = outBytes \o CompletedBytes(Read(n))
              /\ y = Rest(Read(n))
              /\ o \o y = Run(handshaken, rd' - handshaken)
              /\ delivered \o Completed(Read(n)) \in Seq(Seq(Positions))
              /\ PacketSize(Read(n)) \in Nat
    BY <1>1, PastLongFacts
  <1>3. PICK k \in Nat : k = PacketSize(Read(n))
    BY <1>2
  <1>4. /\ outBytes' = o /\ m_pRecvBuf' = <<>>
        /\ delivered' \in Seq(Seq(Positions))
        /\ m_pCurRecvBuffer' = y /\ m_pCurBufferSize' = k
        /\ k < MAX_PKG_SIZE /\ k > Len(y) /\ k >= RECV_BUF_SIZE
        /\ UNCHANGED <<client_ws_key, reading, handshaken, emptied, m_IsHandler, m_hSocket, closes>>
    BY <1>2, <1>3, RecvAssumption DEF StartLong, PastLong, Extract, AllThere, InBuffer
  <1>5. TypeOK'
    BY <1>0, <1>1, <1>4, Handled DEF IInv, TypeOK
  <1>6. NoOverflow' /\ Fresh'
    BY <1>1, <1>4, RecvAssumption DEF NoOverflow, Fresh, InLongPacket
  <1>7. ByteConservation'
    <2>1. o \o (y \o <<>>) = o \o y
      OBVIOUS
    <2> QED BY <1>2, <1>4, <2>1 DEF ByteConservation
  <1> QED BY <1>5, <1>6, <1>7 DEF IInv

\* A failed read changes no buffer.
LEMMA ReadErrorIInv ==
    ASSUME IInv, ReadError
    PROVE  IInv'
  BY NoCalls DEF ReadError, IInv, TypeOK, NoOverflow, Fresh, ByteConservation, InLongPacket, Positions

\* Every step preserves the invariant.
LEMMA NextIInv == IInv /\ [Next]_vars => IInv'
  <1> SUFFICES ASSUME IInv, [Next]_vars PROVE IInv'
    OBVIOUS
  <1>1. CASE HandleRecvEvent
    <2>1. PICK n \in 0 .. RECV_BUF_SIZE : Handler(n)
      BY <1>1 DEF HandleRecvEvent
    <2> QED BY <2>1, HandshakeOkIInv, HandshakeFailsIInv, ContinueLongIInv, TooBigIInv,
               WaitForMoreIInv, DeliverIInv, StartLongIInv DEF Handler
  <1>2. CASE ReadError
    BY <1>2, ReadErrorIInv
  <1>3. CASE UNCHANGED vars
    BY <1>3 DEF vars, IInv, TypeOK, NoOverflow, Fresh, ByteConservation, InLongPacket, Positions
  <1> QED BY <1>1, <1>2, <1>3 DEF Next

-----------------------------------------------------------------------------
(* The theorems.                                                            *)

(* IInv is an invariant of the receive path: HandleRecvEvent and             *)
(* ExtractBuffer keep the buffers within bounds and the bytes in order.     *)
THEOREM InductiveInvariant == Spec => []IInv
  BY InitIInv, NextIInv, PTL DEF Spec

\* Every variable of a session keeps its type, for every stream a peer may send.
THEOREM TypeCorrect == Spec => []TypeOK
  <1>1. IInv => TypeOK
    BY DEF IInv
  <1> QED BY <1>1, InductiveInvariant, PTL

\* Neither m_pRecvBuf nor the buffer of a long packet is written beyond its
\* end, for every RECV_BUF_SIZE and every way TCP cuts every stream.
THEOREM BuffersSafe == Spec => []NoOverflow
  <1>1. IInv => NoOverflow
    BY DEF IInv
  <1> QED BY <1>1, InductiveInvariant, PTL

\* ExtractBuffer loses, repeats and reorders no byte, for every stream.
THEOREM BytesConserved == Spec => []ByteConservation
  <1>1. IInv => ByteConservation
    BY DEF IInv
  <1> QED BY <1>1, InductiveInvariant, PTL

\* OnCloseConnect is only called by Close, which closes the socket.
ClosedSocket == closes > 0 => m_hSocket = "closed"

\* A handler runs on an open socket only.
LEMMA HandlerOpen ==
    ASSUME NEW n, Handler(n)
    PROVE  m_hSocket = "open" /\ reading
  BY DEF Handler, HandshakeOk, HandshakeFails, ContinueLong, TooBig, WaitForMore, Deliver,
         StartLong, PastLong, Extract, HandReaddata

\* A handler leaves the socket and the count of closes alone, or closes.
LEMMA HandlerCloses ==
    ASSUME NEW n, Handler(n)
    PROVE  m_hSocket' = "closed" \/ UNCHANGED <<closes, m_hSocket>>
  BY DEF Handler, HandshakeOk, HandshakeFails, ContinueLong, TooBig, WaitForMore, Deliver,
         StartLong, Close

\* A session of which OnCloseConnect was called delivers nothing more and is
\* not closed again, although HandleRecvEvent asks for another read.
THEOREM SilentAfterClose == Spec => ClosedIsFinal
  <1>1. Init => ClosedSocket
    BY DEF Init, ClosedSocket
  <1>2. ClosedSocket /\ [Next]_vars => ClosedSocket'
    <2> SUFFICES ASSUME ClosedSocket, [Next]_vars PROVE ClosedSocket'
      OBVIOUS
    <2>1. CASE HandleRecvEvent
      BY <2>1, HandlerCloses DEF HandleRecvEvent, ClosedSocket
    <2>2. CASE ReadError \/ UNCHANGED vars
      BY <2>2 DEF ReadError, vars, ClosedSocket
    <2> QED BY <2>1, <2>2 DEF Next
  <1>3. ClosedSocket /\ [Next]_vars
          => [closes > 0 => UNCHANGED <<closes, delivered, emptied, m_IsHandler>>]_vars
    <2> SUFFICES ASSUME ClosedSocket, closes > 0, [Next]_vars
                 PROVE  UNCHANGED <<closes, delivered, emptied, m_IsHandler>>
      OBVIOUS
    <2>1. m_hSocket = "closed"
      BY DEF ClosedSocket
    <2>2. ~HandleRecvEvent
      BY <2>1, HandlerOpen DEF HandleRecvEvent
    <2> QED BY <2>2 DEF Next, ReadError, vars
  <1> QED BY <1>1, <1>2, <1>3, PTL DEF Spec, ClosedIsFinal

-----------------------------------------------------------------------------
(* Framing.                                                                 *)

\* recv_ws_header measures the same size with more bytes at hand, once the
\* header is complete.
LEMMA HeaderOfPrefix ==
    ASSUME NEW v \in Seq(Byte), NEW w \in Seq(Byte), Len(v) <= Len(w),
           \A i \in 1 .. Len(v) : w[i] = v[i],
           recv_ws_header(v) # 0
    PROVE  recv_ws_header(w) = recv_ws_header(v)
  <1>1. PICK lv \in Nat, lw \in Nat : lv = Len(v) /\ lw = Len(w) /\ lv <= lw
    OBVIOUS
  <1>2. lv >= 2 /\ ~(lv < HeaderSize(v))
    BY <1>1 DEF recv_ws_header
  <1>3. w[2] = v[2]
    BY <1>1, <1>2
  <1>4. HeaderSize(w) = HeaderSize(v) /\ Length7(w) = Length7(v)
    BY <1>3 DEF HeaderSize, Length7
  <1>5. HeaderSize(v) \in {6, 8, 14}
    BY DEF HeaderSize
  <1>6. ~(lw < 2 \/ lw < HeaderSize(w)) /\ ~(lv < 2 \/ lv < HeaderSize(v))
    BY <1>1, <1>2, <1>4, <1>5
  <1>7. CASE HeaderSize(v) = 6
    BY <1>1, <1>4, <1>6, <1>7 DEF recv_ws_header
  <1>8. CASE HeaderSize(v) = 8
    <2>1. w[3] = v[3] /\ w[3 + 1] = v[3 + 1]
      BY <1>1, <1>2, <1>8
    <2> QED BY <1>1, <1>4, <1>6, <1>8, <2>1 DEF recv_ws_header
  <1>9. CASE HeaderSize(v) = 14
    <2>1. /\ w[3] = v[3] /\ w[3 + 1] = v[3 + 1] /\ w[5] = v[5] /\ w[5 + 1] = v[5 + 1]
          /\ w[7] = v[7] /\ w[7 + 1] = v[7 + 1] /\ w[9] = v[9] /\ w[9 + 1] = v[9 + 1]
      BY <1>1, <1>2, <1>9
    <2> QED BY <1>1, <1>4, <1>6, <1>9, <2>1 DEF recv_ws_header
  <1> QED BY <1>5, <1>7, <1>8, <1>9

\* The values of a run of stream positions.
LEMMA BytesOfRun ==
    ASSUME NEW t \in Seq(Byte), t = stream.bytes, NEW p \in Nat, NEW k \in Nat, p + k <= Len(t)
    PROVE  /\ Bytes(Run(p, k)) \in Seq(Byte)
           /\ Len(Bytes(Run(p, k))) = k
           /\ \A i \in 1 .. k : Bytes(Run(p, k))[i] = t[p + i]
  <1>1. Len(Run(p, k)) = k /\ \A i \in 1 .. k : Run(p, k)[i] = p + i
    BY RunFacts
  <1>2. Bytes(Run(p, k)) = [i \in 1 .. k |-> t[p + i]]
    BY <1>1 DEF Bytes
  <1>3. \A i \in 1 .. k : t[p + i] \in Byte
    <2>1. PICK l \in Nat : l = Len(t)
      OBVIOUS
    <2>2. \A i \in 1 .. k : p + i \in 1 .. l
      BY <2>1
    <2>3. \A i \in 1 .. l : t[i] \in Byte
      BY <2>1
    <2> QED BY <2>2, <2>3
  <1>4. [i \in 1 .. k |-> t[p + i]] \in Seq(Byte)
    BY <1>3
  <1>5. Len([i \in 1 .. k |-> t[p + i]]) = k
    OBVIOUS
  <1> QED BY <1>2, <1>4, <1>5

\* So what a buffer that begins behind p bytes says of the size is the size of
\* the frame there.
LEMMA SizeOfPrefix ==
    ASSUME TypeOK, NEW p \in Nat, NEW k \in Nat, p + k <= Len(stream.bytes),
           PacketSize(Run(p, k)) # 0
    PROVE  PacketSize(Run(p, k)) = SizeAt(p)
  <1>1. stream.bytes \in Seq(Byte)
    BY RecvAssumption DEF TypeOK, StreamRecord
  <1>2. PICK t \in Seq(Byte) : t = stream.bytes
    BY <1>1
  <1>3. PICK l \in Nat : l = Len(t)
    OBVIOUS
  <1>4. PICK m \in Nat : m = l - p /\ k <= m /\ p + m = l
    <2>1. p + k <= l
      BY <1>2, <1>3
    <2>2. l - p \in Nat /\ k <= l - p /\ p + (l - p) = l
      BY <2>1
    <2> QED BY <2>2
  <1>5. PICK v \in Seq(Byte) : /\ v = Bytes(Run(p, k)) /\ Len(v) = k
                               /\ \A i \in 1 .. k : v[i] = t[p + i]
    BY <1>2, BytesOfRun
  <1>6. PICK w \in Seq(Byte) : /\ w = Bytes(Run(p, m)) /\ Len(w) = m
                               /\ \A i \in 1 .. m : w[i] = t[p + i]
    <2>1. p + m <= Len(t)
      BY <1>3, <1>4
    <2>2. /\ Bytes(Run(p, m)) \in Seq(Byte) /\ Len(Bytes(Run(p, m))) = m
          /\ \A i \in 1 .. m : Bytes(Run(p, m))[i] = t[p + i]
      BY <1>2, <2>1, BytesOfRun
    <2> QED BY <2>2
  <1>7. \A i \in 1 .. Len(v) : w[i] = v[i]
    <2> SUFFICES ASSUME NEW i \in 1 .. k
                 PROVE  w[i] = v[i]
      BY <1>5
    <2>1. i \in 1 .. m
      BY <1>4
    <2> QED BY <1>5, <1>6, <2>1
  <1>8. recv_ws_header(v) # 0
    BY <1>5 DEF PacketSize
  <1>9. recv_ws_header(w) = recv_ws_header(v)
    BY <1>4, <1>5, <1>6, <1>7, <1>8, HeaderOfPrefix
  <1> QED BY <1>2, <1>3, <1>4, <1>5, <1>6, <1>9 DEF PacketSize, SizeAt

\* No packet of d is longer than the receive buffer.
AllShort(d) == \A i \in 1 .. Len(d) : Len(d[i]) < RECV_BUF_SIZE

\* The packets of d are frames, as FramingExact says of delivered.
Framed(d) ==
    \A i \in 1 .. Len(d) :
        (\A j \in 1 .. (i - 1) : Len(d[j]) < RECV_BUF_SIZE) => d[i] = FrameAt(EndAt(d, i - 1))

\* A packet more.
LEMMA FramedAppend ==
    ASSUME NEW T, NEW d \in Seq(T), NEW p \in T, Framed(d),
           AllShort(d) => p = FrameAt(EndAt(d, Len(d)))
    PROVE  /\ Framed(d \o <<p>>)
           /\ Len(d \o <<p>>) = Len(d) + 1
           /\ EndAt(d \o <<p>>, Len(d) + 1) = p[Len(p)]
           /\ AllShort(d \o <<p>>) => Len(p) < RECV_BUF_SIZE
  <1>1. PICK e \in Seq(T) : e = d \o <<p>>
    <2>1. <<p>> \in Seq(T)
      OBVIOUS
    <2>2. d \o <<p>> \in Seq(T)
      BY <2>1
    <2> QED BY <2>2
  <1>2. PICK n \in Nat : n = Len(d)
    OBVIOUS
  <1>3. Len(e) = n + 1 /\ e[n + 1] = p /\ \A i \in 1 .. n : e[i] = d[i]
    BY <1>1, <1>2
  <1>4. \A i \in 1 .. n + 1 : EndAt(e, i - 1) = EndAt(d, i - 1)
    BY <1>3 DEF EndAt
  <1>5. ASSUME NEW i \in 1 .. n + 1, \A j \in 1 .. (i - 1) : Len(e[j]) < RECV_BUF_SIZE
        PROVE  e[i] = FrameAt(EndAt(e, i - 1))
    <2>1. \A j \in 1 .. (i - 1) : Len(d[j]) < RECV_BUF_SIZE
      BY <1>3, <1>5
    <2>2. CASE i \in 1 .. n
      BY <1>2, <1>3, <1>4, <2>1, <2>2 DEF Framed
    <2>3. CASE i = n + 1
      <3>1. AllShort(d)
        BY <1>2, <2>1, <2>3 DEF AllShort
      <3>2. p = FrameAt(EndAt(d, n))
        BY <1>2, <3>1
      <3>3. EndAt(e, i - 1) = EndAt(d, n)
        BY <1>4, <2>3
      <3> QED BY <1>3, <2>3, <3>2, <3>3
    <2> QED BY <2>2, <2>3
  <1>6. Framed(e)
    BY <1>3, <1>5 DEF Framed
  <1>7. EndAt(e, n + 1) = p[Len(p)]
    BY <1>3 DEF EndAt
  <1>8. AllShort(e) => Len(p) < RECV_BUF_SIZE
    BY <1>3 DEF AllShort
  <1> QED BY <1>1, <1>2, <1>3, <1>6, <1>7, <1>8

\* x and y together are the k bytes behind the first h.
Joined(x, y, h, k) == x \o y = Run(h, k)

\* Two parts of a run of stream positions are runs.
LEMMA RunSplit ==
    \A x, y \in Seq(Positions) : \A h, k \in Nat : Joined(x, y, h, k) =>
        /\ Len(x) + Len(y) = k
        /\ x = Run(h, Len(x))
        /\ y = Run(h + Len(x), Len(y))
  <1> SUFFICES ASSUME NEW x \in Seq(Positions), NEW y \in Seq(Positions),
                      NEW h \in Nat, NEW k \in Nat, x \o y = Run(h, k)
               PROVE  /\ Len(x) + Len(y) = k
                      /\ x = Run(h, Len(x))
                      /\ y = Run(h + Len(x), Len(y))
    BY DEF Joined
  <1>1. PICK lx \in Nat, ly \in Nat : lx = Len(x) /\ ly = Len(y)
    OBVIOUS
  <1>2. Len(x \o y) = lx + ly /\ Len(Run(h, k)) = k
    <2>1. Len(x \o y) = lx + ly
      BY <1>1, ConcatProperties
    <2> QED BY <2>1, RunFacts
  <1>3. lx + ly = k
    BY <1>2
  <1>4. \A i \in 1 .. k : (x \o y)[i] = h + i
    BY RunFacts, ZenonT(40)
  <1>5. \A i \in 1 .. lx + ly : (x \o y)[i] = IF i <= lx THEN x[i] ELSE y[i - lx]
    BY <1>1, ConcatProperties
  <1>6. \A i \in 1 .. lx : x[i] = h + i
    <2> SUFFICES ASSUME NEW i \in 1 .. lx PROVE x[i] = h + i
      OBVIOUS
    <2>1. i \in 1 .. lx + ly /\ i \in 1 .. k /\ i <= lx
      BY <1>3
    <2> QED BY <1>4, <1>5, <2>1
  <1>7. \A i \in 1 .. ly : y[i] = h + lx + i
    <2> SUFFICES ASSUME NEW i \in 1 .. ly PROVE y[i] = h + lx + i
      OBVIOUS
    <2>1. PICK j \in 1 .. lx + ly : j = lx + i
      OBVIOUS
    <2>2. j \in 1 .. k /\ ~(j <= lx) /\ j - lx = i /\ h + j = h + lx + i
      BY <1>3, <2>1
    <2> QED BY <1>4, <1>5, <2>1, <2>2
  <1>8. x = Run(h, lx)
    <2>1. x = [i \in 1 .. lx |-> x[i]]
      BY <1>1
    <2> QED BY <1>6, <2>1 DEF Run
  <1>9. y = Run(h + lx, ly)
    <2>1. y = [i \in 1 .. ly |-> y[i]]
      BY <1>1
    <2> QED BY <1>7, <2>1 DEF Run
  <1> QED BY <1>1, <1>3, <1>8, <1>9

(***************************************************************************)
(* The inductive invariant of framing: the packets delivered are frames,    *)
(* they end where the bytes delivered end, and the size of the long packet  *)
(* in progress is the size of the frame that begins there.                  *)
(***************************************************************************)
FInv ==
    /\ IInv
    /\ Framed(delivered)
    /\ m_hSocket = "open" =>
        /\ EndAt(delivered, Len(delivered)) = handshaken + Len(outBytes)
        /\ ~m_IsHandler => delivered = <<>> /\ m_pCurBufferSize = 0
        /\ InLongPacket /\ AllShort(delivered)
              => m_pCurBufferSize = SizeAt(handshaken + Len(outBytes))

\* What a handler has to establish, when it leaves the request alone.
LEMMA FInvAfter ==
    ASSUME IInv', stream' = stream, handshaken' = handshaken,
           NEW d, NEW a, delivered' = d, Framed(d),
           \/ m_hSocket' = "closed"
           \/ /\ m_IsHandler'
              /\ EndAt(d, Len(d)) = a /\ a = handshaken + Len(outBytes')
              /\ InLongPacket' /\ AllShort(d) => m_pCurBufferSize' = SizeAt(a)
    PROVE  FInv'
  <1>1. Framed(delivered)'
    <2>1. \A p : FrameAt(p)' = FrameAt(p)
      BY DEF FrameAt, SizeAt, PacketSize, Bytes
    <2>2. \A x, i : EndAt(x, i)' = EndAt(x, i)
      BY DEF EndAt
    <2> QED BY <2>1, <2>2 DEF Framed
  <1>2. CASE m_hSocket' = "closed"
    BY <1>1, <1>2 DEF FInv
  <1>3. CASE /\ m_IsHandler'
             /\ EndAt(d, Len(d)) = a /\ a = handshaken + Len(outBytes')
             /\ InLongPacket' /\ AllShort(d) => m_pCurBufferSize' = SizeAt(a)
    <2>1. EndAt(delivered, Len(delivered))' = (handshaken + Len(outBytes))'
      BY <1>3 DEF EndAt
    <2>2. SizeAt(handshaken + Len(outBytes))' = SizeAt(a)
      BY <1>3 DEF SizeAt, PacketSize, Bytes
    <2>3. AllShort(delivered)' <=> AllShort(d)
      BY DEF AllShort
    <2> QED BY <1>1, <1>3, <2>1, <2>2, <2>3 DEF FInv
  <1> QED BY <1>2, <1>3

\* No packet has been delivered.
LEMMA InitFInv == Init => FInv
  <1> SUFFICES ASSUME Init PROVE FInv
    OBVIOUS
  <1>1. delivered = <<>> /\ outBytes = <<>> /\ handshaken = 0 /\ ~InLongPacket
    BY DEF Init, InLongPacket
  <1>2. Len(delivered) = 0 /\ Len(outBytes) = 0
    BY <1>1
  <1>3. Framed(delivered)
    BY <1>2 DEF Framed
  <1> QED BY <1>1, <1>2, <1>3, InitIInv DEF FInv, EndAt, Init

\* The four handlers past the long packet, up to the packet they find at the
\* front of the buffer: d is what has been delivered, a the position behind it.
LEMMA PastLongFramed ==
    ASSUME FInv, NEW n, PastLong(n)
    PROVE  \E o, y \in Seq(Positions), d \in Seq(Seq(Positions)), a, k \in Nat :
              /\ o = outBytes \o CompletedBytes(Read(n))
              /\ y = Rest(Read(n))
              /\ d = delivered \o Completed(Read(n))
              /\ a = handshaken + Len(o)
              /\ k = PacketSize(Read(n))
              /\ y = Run(a, Len(y))
              /\ Framed(d)
              /\ EndAt(d, Len(d)) = a
              /\ AllShort(d) /\ k # 0 => k = SizeAt(a)
  <1>1. IInv /\ HandReaddata(n) /\ m_IsHandler /\ m_hSocket = "open"
    BY DEF FInv, PastLong, Extract, HandReaddata
  <1>2. PICK o \in Seq(Positions), y \in Seq(Positions) :
              /\ o = outBytes \o CompletedBytes(Read(n))
              /\ y = Rest(Read(n))
              /\ o \o y = Run(handshaken, rd' - handshaken)
              /\ delivered \o Completed(Read(n)) \in Seq(Seq(Positions))
              /\ PacketSize(Read(n)) \in Nat
    BY <1>1, PastLongFacts
  <1>3. PICK h \in Nat, r \in Nat, L \in Nat :
            /\ h = handshaken /\ r = rd' - handshaken /\ L = Len(stream.bytes) /\ h + r <= L
    <2>1. stream.bytes \in Seq(Byte)
      BY <1>1, RecvAssumption DEF IInv, TypeOK, StreamRecord
    <2>2. PICK L \in Nat : L = Len(stream.bytes)
      BY <2>1
    <2>3. rd' \in 0 .. L /\ handshaken \in 0 .. rd'
      BY <1>1, <2>2, Handled
    <2>4. PICK q \in 0 .. L : q = rd' /\ handshaken \in 0 .. q
      BY <2>3
    <2>5. PICK h \in 0 .. q : h = handshaken
      BY <2>4
    <2>6. h \in Nat /\ q - h \in Nat /\ h + (q - h) <= L
      OBVIOUS
    <2> QED BY <2>2, <2>4, <2>5, <2>6
  <1>4. Positions \subseteq Nat
    BY <1>3 DEF Positions
  <1>5. PICK lo \in Nat, ly \in Nat : lo = Len(o) /\ ly = Len(y)
    OBVIOUS
  <1>6. lo + ly = r /\ o = Run(h, lo) /\ y = Run(h + lo, ly)
    <2>1. Joined(o, y, h, r)
      BY <1>2, <1>3 DEF Joined
    <2>2. Len(o) + Len(y) = r /\ o = Run(h, Len(o)) /\ y = Run(h + Len(o), Len(y))
      BY <2>1, RunSplit
    <2> QED BY <1>5, <2>2
  <1>7. PICK a \in Nat, k \in Nat : a = h + lo /\ k = PacketSize(Read(n))
    <2>1. h + lo \in Nat
      OBVIOUS
    <2> QED BY <1>2, <2>1
  <1>8. CASE ~InLongPacket
    <2>1. PICK d \in Seq(Seq(Positions)) : d = delivered
      BY <1>1 DEF IInv, TypeOK
    <2>2. d = delivered \o Completed(Read(n)) /\ o = outBytes /\ y = Read(n)
      <3>1. d \o <<>> = d
        OBVIOUS
      <3>2. PICK oo \in Seq(Positions) : oo = outBytes
        BY <1>1 DEF IInv, TypeOK
      <3>3. oo \o <<>> = oo
        OBVIOUS
      <3> QED BY <1>2, <1>8, <2>1, <3>1, <3>2, <3>3 DEF Completed, CompletedBytes, Rest
    <2>3. Framed(d) /\ EndAt(d, Len(d)) = a
      BY <1>1, <1>3, <1>5, <1>7, <2>1, <2>2 DEF FInv
    <2>4. k # 0 => k = SizeAt(a)
      <3>1. a + ly <= L
        BY <1>3, <1>6, <1>7
      <3>2. k = PacketSize(Run(a, ly))
        BY <1>6, <1>7, <2>2
      <3> QED BY <1>1, <1>3, <3>1, <3>2, SizeOfPrefix DEF IInv
    <2> QED BY <1>2, <1>3, <1>5, <1>6, <1>7, <2>2, <2>3, <2>4
  <1>9. CASE InLongPacket
    <2>1. PICK e \in Seq(Seq(Positions)), oo \in Seq(Positions), c \in Seq(Positions), b \in Seq(Positions) :
              e = delivered /\ oo = outBytes /\ c = m_pCurRecvBuffer /\ b = Read(n)
      BY <1>1, Handled, ReadFits DEF IInv, TypeOK
    <2>2. PICK s \in Nat : /\ s = m_pCurBufferSize /\ Len(c) < s /\ Len(c) + Len(b) >= s
                           /\ RECV_BUF_SIZE <= s /\ 0 < s
      BY <1>1, <1>9, <2>1, RecvAssumption DEF IInv, TypeOK, NoOverflow, PastLong
    <2>3. PICK m \in 0 .. Len(b) : m = Missing /\ Len(c) + m = s
      <3>1. s - Len(c) \in 0 .. Len(b) /\ Len(c) + (s - Len(c)) = s
        BY <2>2
      <3> QED BY <2>1, <2>2, <3>1 DEF Missing
    <2>4. PICK x \in Seq(Positions) : x = SubSeq(b, 1, m) /\ Len(x) = m
      <3>1. SubSeq(b, 1, m) \in Seq(Positions)
        BY CutAt
      <3>2. Len(SubSeq(b, 1, m)) = m
        OBVIOUS
      <3> QED BY <3>1, <3>2
    <2>5. PICK p \in Seq(Positions) : p = c \o x /\ Len(p) = s
      <3>1. c \o x \in Seq(Positions) /\ Len(c \o x) = Len(c) + Len(x)
        OBVIOUS
      <3> QED BY <2>3, <2>4, <3>1
    <2>6. o = oo \o p /\ Completed(Read(n)) = <<p>>
      BY <1>2, <1>9, <2>1, <2>3, <2>4, <2>5 DEF Completed, CompletedBytes
    <2>7. PICK loo \in Nat : loo = Len(oo)
      OBVIOUS
    <2>8. loo + s = lo /\ p = Run(h + loo, s)
      <3>1. Joined(oo, p, h, lo)
        BY <1>6, <2>6 DEF Joined
      <3>2. Len(oo) + Len(p) = lo /\ p = Run(h + Len(oo), Len(p))
        BY <3>1, RunSplit
      <3> QED BY <2>5, <2>7, <3>2
    <2>9. h + loo \in Nat /\ p[s] = a
      <3>1. s \in 1 .. s /\ h + loo \in Nat /\ h + loo + s = a
        BY <1>7, <2>2, <2>8
      <3> QED BY <2>8, <3>1, RunFacts
    <2>10. Framed(e) /\ EndAt(e, Len(e)) = h + loo
      BY <1>1, <1>3, <2>1, <2>7 DEF FInv
    <2>11. AllShort(e) => s = SizeAt(h + loo)
      BY <1>1, <1>3, <1>9, <2>1, <2>2, <2>7 DEF FInv
    <2>12. AllShort(e) => p = FrameAt(EndAt(e, Len(e)))
      BY <2>8, <2>10, <2>11 DEF FrameAt
    <2>13. PICK d \in Seq(Seq(Positions)) : d = e \o <<p>>
      BY <1>2, <2>1, <2>6
    <2>14. Framed(d) /\ EndAt(d, Len(d)) = a /\ ~AllShort(d)
      <3>1. /\ Framed(e \o <<p>>)
            /\ Len(e \o <<p>>) = Len(e) + 1
            /\ EndAt(e \o <<p>>, Len(e) + 1) = p[Len(p)]
            /\ AllShort(e \o <<p>>) => Len(p) < RECV_BUF_SIZE
        BY <2>10, <2>12, FramedAppend
      <3>2. ~(s < RECV_BUF_SIZE)
        BY <2>2, RecvAssumption
      <3> QED BY <2>5, <2>9, <2>13, <3>1, <3>2
    <2> QED BY <1>2, <1>3, <1>5, <1>6, <1>7, <2>1, <2>6, <2>13, <2>14
  <1> QED BY <1>8, <1>9

\* The handshake answered: the first frame begins behind the request.
LEMMA HandshakeOkFInv ==
    ASSUME FInv, NEW n, HandshakeOk(n)
    PROVE  FInv'
  <1>1. IInv'
    BY HandshakeOkIInv DEF FInv
  <1>2. m_hSocket = "open" /\ ~m_IsHandler
    BY DEF HandshakeOk, HandReaddata
  <1>3. delivered = <<>> /\ m_pCurBufferSize = 0 /\ outBytes = <<>>
    BY <1>2 DEF FInv, IInv, Fresh
  <1>4. /\ delivered' = <<>> /\ m_pCurBufferSize' = 0 /\ outBytes' = <<>>
        /\ handshaken' = rd' /\ m_IsHandler'
    BY <1>3 DEF HandshakeOk
  <1>5. Framed(delivered)'
    BY <1>4 DEF Framed
  <1>6. EndAt(delivered, Len(delivered))' = (handshaken + Len(outBytes))'
    <2>1. rd' \in Nat
      BY Handled DEF FInv, HandshakeOk
    <2>2. Len(delivered') = 0 /\ Len(outBytes') = 0
      BY <1>4
    <2>3. EndAt(delivered, Len(delivered))' = handshaken'
      BY <2>2 DEF EndAt
    <2> QED BY <1>4, <2>1, <2>2, <2>3
  <1> QED BY <1>1, <1>4, <1>5, <1>6 DEF FInv, InLongPacket

\* The other handlers that deliver nothing.
LEMMA NoPacketFInv ==
    ASSUME FInv, NEW n, HandshakeFails(n) \/ ContinueLong(n)
    PROVE  FInv'
  <1>1. IInv'
    BY HandshakeFailsIInv, ContinueLongIInv DEF FInv
  <1>2. Framed(delivered) /\ UNCHANGED <<stream, handshaken, delivered, m_pCurBufferSize, outBytes>>
    BY DEF FInv, HandshakeFails, ContinueLong, Extract, HandReaddata
  <1>3. \/ m_hSocket' = "closed"
        \/ /\ m_IsHandler'
           /\ EndAt(delivered, Len(delivered)) = handshaken + Len(outBytes')
           /\ InLongPacket' /\ AllShort(delivered)
                => m_pCurBufferSize' = SizeAt(handshaken + Len(outBytes'))
    BY <1>2 DEF FInv, HandshakeFails, Close, ContinueLong, Extract, HandReaddata, InLongPacket
  <1>4. PICK d, a : d = delivered /\ a = handshaken + Len(outBytes')
    OBVIOUS
  <1> QED BY <1>1, <1>2, <1>3, <1>4, FInvAfter

\* The handlers that deliver at most the completed long packet.
LEMMA LongPacketFInv ==
    ASSUME FInv, NEW n, TooBig(n) \/ WaitForMore(n) \/ StartLong(n)
    PROVE  FInv'
  <1>1. IInv' /\ PastLong(n) /\ stream' = stream /\ handshaken' = handshaken
    BY TooBigIInv, WaitForMoreIInv, StartLongIInv
       DEF FInv, TooBig, WaitForMore, StartLong, PastLong, Extract, HandReaddata
  <1>2. PICK o \in Seq(Positions), y \in Seq(Positions), d \in Seq(Seq(Positions)),
             a \in Nat, k \in Nat :
              /\ o = outBytes \o CompletedBytes(Read(n))
              /\ d = delivered \o Completed(Read(n))
              /\ a = handshaken + Len(o)
              /\ k = PacketSize(Read(n))
              /\ Framed(d)
              /\ EndAt(d, Len(d)) = a
              /\ AllShort(d) /\ k # 0 => k = SizeAt(a)
    BY <1>1, PastLongFramed
  <1>3. delivered' = d /\ outBytes' = o
    BY <1>2 DEF TooBig, WaitForMore, StartLong
  <1>4. CASE TooBig(n)
    <2>1. m_hSocket' = "closed"
      BY <1>4 DEF TooBig, Close
    <2> QED BY <1>1, <1>2, <1>3, <2>1, FInvAfter
  <1>5. CASE WaitForMore(n)
    <2>1. ~InLongPacket' /\ m_IsHandler'
      BY <1>5 DEF WaitForMore, InLongPacket, PastLong, Extract
    <2> QED BY <1>1, <1>2, <1>3, <2>1, FInvAfter
  <1>6. CASE StartLong(n)
    <2>1. m_pCurBufferSize' = k /\ k # 0 /\ m_IsHandler'
      BY <1>2, <1>6, RecvAssumption DEF StartLong, InBuffer, PastLong, Extract
    <2> QED BY <1>1, <1>2, <1>3, <2>1, FInvAfter
  <1> QED BY <1>4, <1>5, <1>6

\* A packet that is all there is the frame at the front of the buffer.
LEMMA DeliverFInv ==
    ASSUME FInv, NEW n, Deliver(n)
    PROVE  FInv'
  <1>1. IInv' /\ PastLong(n) /\ stream' = stream /\ handshaken' = handshaken /\ m_IsHandler'
    BY DeliverIInv DEF FInv, Deliver, PastLong, Extract, HandReaddata
  <1>2. PICK o \in Seq(Positions), y \in Seq(Positions), d \in Seq(Seq(Positions)),
             a \in Nat, k \in Nat :
              /\ o = outBytes \o CompletedBytes(Read(n))
              /\ y = Rest(Read(n))
              /\ d = delivered \o Completed(Read(n))
              /\ a = handshaken + Len(o)
              /\ k = PacketSize(Read(n))
              /\ y = Run(a, Len(y))
              /\ Framed(d)
              /\ EndAt(d, Len(d)) = a
              /\ AllShort(d) /\ k # 0 => k = SizeAt(a)
    BY <1>1, PastLongFramed
  <1>3. k \in 0 .. Len(y) /\ ~InLongPacket'
    BY <1>2 DEF Deliver, AllThere, InLongPacket
  <1>4. PICK p \in Seq(Positions), q \in Seq(Positions) :
            p = SubSeq(y, 1, k) /\ p \o q = y /\ Len(p) = k
    <2>1. SubSeq(y, 1, k) \in Seq(Positions) /\ Len(SubSeq(y, 1, k)) = k
      BY <1>3
    <2> QED BY <1>3, <2>1, CutAt
  <1>5. p = Run(a, k)
    <2>1. PICK l \in Nat : l = Len(y)
      OBVIOUS
    <2>2. Joined(p, q, a, l)
      BY <1>2, <1>4, <2>1 DEF Joined
    <2>3. p = Run(a, Len(p))
      BY <2>2, RunSplit
    <2> QED BY <1>4, <2>3
  <1>6. /\ outBytes' = o \o p
        /\ delivered' = delivered \o (Completed(Read(n)) \o WithData(p))
    BY <1>2, <1>4 DEF Deliver
  <1>7. Len(outBytes') = Len(o) + k
    <2>1. Len(o \o p) = Len(o) + Len(p)
      OBVIOUS
    <2> QED BY <1>4, <1>6, <2>1
  <1>8. delivered' = d \o WithData(p)
    <2>1. Completed(Read(n)) \in Seq(Seq(Positions)) /\ delivered \in Seq(Seq(Positions))
      BY <1>1, Handled, RestFits DEF FInv, IInv, TypeOK, PastLong, Extract
    <2>2. WithData(p) \in Seq(Seq(Positions))
      BY DEF WithData
    <2>3. PICK T : T = Seq(Positions)
      OBVIOUS
    <2>4. PICK e \in Seq(T), f \in Seq(T), g \in Seq(T) :
              e = delivered /\ f = Completed(Read(n)) /\ g = WithData(p)
      BY <2>1, <2>2, <2>3
    <2>5. (e \o f) \o g = e \o (f \o g)
      BY ConcatAssociative, SMTT(40)
    <2> QED BY <1>2, <1>6, <2>4, <2>5
  <1>9. CASE k = 0
    <2>1. p = <<>>
      BY <1>4, <1>9
    <2>2. delivered' = d
      <3>1. d \o <<>> = d
        OBVIOUS
      <3> QED BY <1>8, <2>1, <3>1 DEF WithData
    <2>3. a = handshaken + Len(outBytes')
      BY <1>2, <1>7, <1>9
    <2> QED BY <1>1, <1>2, <1>3, <2>2, <2>3, FInvAfter
  <1>10. CASE k # 0
    <2>1. p # <<>> /\ WithData(p) = <<p>>
      BY <1>4, <1>10 DEF WithData
    <2>2. AllShort(d) => p = FrameAt(EndAt(d, Len(d)))
      BY <1>2, <1>5, <1>10 DEF FrameAt
    <2>3. PICK e : e = d \o <<p>>
      OBVIOUS
    <2>4. Framed(e) /\ EndAt(e, Len(e)) = p[Len(p)]
      <3>1. /\ Framed(d \o <<p>>)
            /\ Len(d \o <<p>>) = Len(d) + 1
            /\ EndAt(d \o <<p>>, Len(d) + 1) = p[Len(p)]
        BY <1>2, <2>2, FramedAppend
      <3> QED BY <2>3, <3>1
    <2>5. p[Len(p)] = a + k
      <3>1. k \in 1 .. k
        BY <1>10
      <3>2. Run(a, k)[k] = a + k
        BY <3>1, RunFacts
      <3> QED BY <1>4, <1>5, <3>2
    <2>6. PICK b \in Nat : b = a + k
      OBVIOUS
    <2>7. b = handshaken + Len(outBytes')
      <3>1. PICK l \in Nat : l = Len(o)
        OBVIOUS
      <3>2. handshaken \in Nat
        <4>1. rd \in Nat
          BY RecvAssumption DEF FInv, IInv, TypeOK, StreamRecord
        <4> QED BY <4>1 DEF FInv, IInv, TypeOK
      <3> QED BY <1>2, <1>7, <2>6, <3>1, <3>2
    <2>8. delivered' = e
      BY <1>8, <2>1, <2>3
    <2>9. EndAt(e, Len(e)) = b
      BY <2>4, <2>5, <2>6
    <2> QED BY <1>1, <1>3, <2>4, <2>7, <2>8, <2>9, FInvAfter
  <1> QED BY <1>9, <1>10

\* Every step keeps the framing.
LEMMA NextFInv == FInv /\ [Next]_vars => FInv'
  <1> SUFFICES ASSUME FInv, [Next]_vars PROVE FInv'
    OBVIOUS
  <1>1. CASE HandleRecvEvent
    <2>1. PICK n \in 0 .. RECV_BUF_SIZE : Handler(n)
      BY <1>1 DEF HandleRecvEvent
    <2> QED BY <2>1, HandshakeOkFInv, NoPacketFInv, LongPacketFInv, DeliverFInv DEF Handler
  <1>2. CASE ReadError \/ UNCHANGED vars
    <2>1. IInv'
      BY NextIInv DEF FInv
    <2>2. UNCHANGED <<stream, handshaken, delivered, m_hSocket, m_IsHandler, outBytes,
                      m_pCurBufferSize>>
      BY <1>2 DEF ReadError, vars
    <2>3. \A p : SizeAt(p)' = SizeAt(p) /\ FrameAt(p)' = FrameAt(p)
      BY <2>2 DEF FrameAt, SizeAt, PacketSize, Bytes
    <2>4. \A d, i : EndAt(d, i)' = EndAt(d, i)
      BY <2>2 DEF EndAt
    <2>5. Framed(delivered)'
      BY <2>2, <2>3, <2>4 DEF FInv, Framed
    <2>6. AllShort(delivered)' <=> AllShort(delivered)
      BY <2>2 DEF AllShort
    <2>7. EndAt(delivered, Len(delivered))' = EndAt(delivered, Len(delivered))
      BY <2>2, <2>4
    <2> QED BY <2>1, <2>2, <2>3, <2>5, <2>6, <2>7 DEF FInv, InLongPacket
  <1> QED BY <1>1, <1>2 DEF Next

(***************************************************************************)
(* ExtractBuffer finds the frames of the stream, for every buffer size and  *)
(* every way TCP cuts every stream, up to the first one longer than the     *)
(* buffer.                                                                  *)
(***************************************************************************)
THEOREM FramesFound == Spec => []FramingExact
  <1>1. FInv => FramingExact
    <2> SUFFICES ASSUME FInv PROVE FramingExact
      OBVIOUS
    <2>1. Framed(delivered) /\ DOMAIN delivered = 1 .. Len(delivered)
      BY DEF FInv, IInv, TypeOK
    <2> QED BY <2>1 DEF Framed, FramingExact
  <1> QED BY <1>1, InitFInv, NextFInv, PTL DEF Spec

-----------------------------------------------------------------------------
(* The backlog.                                                             *)

\* A handler that completes the long packet has delivered a packet.
LEMMA CompletedDelivers ==
    ASSUME IInv, NEW n, PastLong(n), InLongPacket, NEW w \in Seq(Seq(Positions)),
           delivered' = delivered \o (Completed(Read(n)) \o w)
    PROVE  delivered' # delivered
  <1>1. IInv /\ HandReaddata(n)
    BY DEF PastLong, Extract
  <1>2. Completed(Read(n)) \in Seq(Seq(Positions)) /\ delivered \in Seq(Seq(Positions))
    BY <1>1, Handled, RestFits DEF IInv, TypeOK, PastLong
  <1>3. PICK T : T = Seq(Positions)
    OBVIOUS
  <1>4. PICK d \in Seq(T), c \in Seq(T), v \in Seq(T) :
            d = delivered /\ c = Completed(Read(n)) /\ v = w
    BY <1>2, <1>3
  <1>5. Len(c) = 1
    BY <1>4 DEF Completed
  <1>6. Len(d \o (c \o v)) = Len(d) + (Len(c) + Len(v))
    OBVIOUS
  <1>7. Len(delivered') # Len(delivered)
    BY <1>4, <1>5, <1>6
  <1> QED BY <1>7

\* What each handler leaves at the front of the buffer.
LEMMA HandlerBacklog ==
    ASSUME IInv, NEW n, Handler(n), m_IsHandler',
           PacketSize(m_pRecvBuf') \in 1 .. Len(m_pRecvBuf')
    PROVE  delivered' # delivered
  <1>1. m_pRecvBuf' # <<>>
    OBVIOUS
  <1>2. ~HandshakeOk(n) /\ ~HandshakeFails(n) /\ ~ContinueLong(n) /\ ~TooBig(n) /\ ~StartLong(n)
    BY <1>1 DEF HandshakeOk, HandshakeFails, ContinueLong, TooBig, StartLong, Close
  <1>3. CASE WaitForMore(n)
    <2>1. PastLong(n) /\ HandReaddata(n)
      BY <1>3 DEF WaitForMore, PastLong, Extract
    <2>2. PICK y \in Seq(Positions) : y = Read(n)
      BY <2>1, Handled, ReadFits DEF IInv
    <2>3. CASE ~InLongPacket
      <3>1. m_pRecvBuf' = y /\ ~(PacketSize(y) <= Len(y))
        BY <1>3, <2>2, <2>3 DEF WaitForMore, Rest, AllThere
      <3> QED BY <3>1
    <2>4. CASE InLongPacket
      <3>1. <<>> \in Seq(Seq(Positions))
        OBVIOUS
      <3>2. Completed(Read(n)) \o <<>> = Completed(Read(n))
        BY <2>1, Handled, RestFits DEF IInv, PastLong
      <3> QED BY <1>3, <2>1, <2>4, <3>1, <3>2, CompletedDelivers DEF WaitForMore
    <2> QED BY <2>3, <2>4
  <1>4. CASE Deliver(n)
    <2>1. PastLong(n) /\ HandReaddata(n)
      BY <1>4 DEF Deliver, PastLong, Extract
    <2>2. PICK y \in Seq(Positions), z \in Seq(Positions), k \in Nat :
              y = Read(n) /\ z = Rest(Read(n)) /\ k = PacketSize(y)
      BY <2>1, Handled, ReadFits, RestFits, PacketSizeNat DEF IInv, PastLong
    <2>3. k <= Len(z)
      BY <1>4, <2>2 DEF Deliver, AllThere
    <2>4. PICK p \in Seq(Positions) : p = SubSeq(z, 1, k) /\ Len(p) = k
      <3>1. SubSeq(z, 1, k) \in Seq(Positions) /\ Len(SubSeq(z, 1, k)) = k
        BY <2>3
      <3> QED BY <3>1
    <2>5. delivered' = delivered \o (Completed(Read(n)) \o WithData(p))
      BY <1>4, <2>2, <2>4 DEF Deliver
    <2>6. WithData(p) \in Seq(Seq(Positions))
      BY DEF WithData
    <2>7. CASE InLongPacket
      BY <2>1, <2>5, <2>6, <2>7, CompletedDelivers
    <2>8. CASE ~InLongPacket
      <3>1. z = y /\ Completed(Read(n)) = <<>>
        BY <2>2, <2>8 DEF Rest, Completed
      <3>2. k # 0
        <4> SUFFICES ASSUME k = 0 PROVE FALSE
          OBVIOUS
        <4>1. SubSeq(y, 1, Len(y)) = y
          OBVIOUS
        <4>2. m_pRecvBuf' = SubSeq(y, k + 1, Len(y))
          BY <1>4, <2>2, <3>1 DEF Deliver, Behind
        <4>3. k + 1 = 1
          OBVIOUS
        <4>4. m_pRecvBuf' = y
          BY <4>1, <4>2, <4>3, Zenon
        <4>5. k \in 1 .. Len(y)
          BY <2>2, <4>4, Zenon
        <4> QED BY <4>5
      <3>3. WithData(p) = <<p>>
        BY <2>4, <3>2 DEF WithData
      <3>4. PICK T : T = Seq(Positions)
        OBVIOUS
      <3>5. PICK d \in Seq(T) : d = delivered
        BY <3>4 DEF IInv, TypeOK
      <3>6. Len(d \o (<<>> \o <<p>>)) # Len(d)
        OBVIOUS
      <3> QED BY <2>5, <3>1, <3>3, <3>5, <3>6
    <2> QED BY <2>7, <2>8
  <1> QED BY <1>2, <1>3, <1>4 DEF Handler

(***************************************************************************)
(* ExtractBuffer leaves the loop after one packet; a complete frame it       *)
(* leaves in the buffer is then behind one it has delivered, for every      *)
(* buffer size and stream.                                                  *)
(***************************************************************************)
THEOREM BacklogServed == Spec => BacklogShrinks
  <1>1. IInv /\ [Next]_vars
          => [m_IsHandler' /\ PacketSize(m_pRecvBuf') \in 1 .. Len(m_pRecvBuf')
                => m_pRecvBuf' = m_pRecvBuf \/ delivered' # delivered]_vars
    <2> SUFFICES ASSUME IInv, [Next]_vars, m_IsHandler',
                        PacketSize(m_pRecvBuf') \in 1 .. Len(m_pRecvBuf')
                 PROVE  m_pRecvBuf' = m_pRecvBuf \/ delivered' # delivered
      OBVIOUS
    <2>1. CASE HandleRecvEvent
      BY <2>1, HandlerBacklog DEF HandleRecvEvent
    <2>2. CASE ReadError \/ UNCHANGED vars
      BY <2>2 DEF ReadError, vars
    <2> QED BY <2>1, <2>2 DEF Next
  <1> QED BY <1>1, InductiveInvariant, PTL DEF Spec, BacklogShrinks

-----------------------------------------------------------------------------
(* Progress.                                                                *)

\* A completed long packet takes at least one byte of the buffer.
LEMMA RestShorter ==
    ASSUME IInv, NEW n, PastLong(n)
    PROVE  IF InLongPacket THEN Len(Rest(Read(n))) < Len(Read(n)) ELSE Rest(Read(n)) = Read(n)
  <1>1. CASE ~InLongPacket
    BY <1>1 DEF Rest
  <1>2. CASE InLongPacket
    <2>1. PICK buf \in Seq(Positions) : buf = Read(n)
      BY Handled, ReadFits DEF IInv, PastLong, Extract
    <2>2. PICK cur \in Seq(Positions) : cur = m_pCurRecvBuffer
      BY DEF IInv, TypeOK
    <2>3. /\ m_pCurBufferSize \in Nat
          /\ Len(cur) < m_pCurBufferSize
          /\ Len(cur) + Len(buf) >= m_pCurBufferSize
      BY <1>2, <2>1, <2>2 DEF IInv, TypeOK, NoOverflow, PastLong
    <2>4. PICK m \in 1 .. Len(buf) : m = Missing
      <3>1. m_pCurBufferSize - Len(cur) \in 1 .. Len(buf)
        BY <2>3
      <3> QED BY <2>2, <3>1 DEF Missing
    <2>5. Len(SubSeq(buf, m + 1, Len(buf))) < Len(buf)
      OBVIOUS
    <2> QED BY <1>2, <2>1, <2>4, <2>5 DEF Rest
  <1> QED BY <1>1, <1>2

\* Nothing is read only into a full buffer, which then stays as it is.
LEMMA FullBuffer ==
    ASSUME IInv, NEW n, HandReaddata(n), rd' = rd
    PROVE  /\ n = 0 /\ Space = 0 /\ Len(m_pRecvBuf) = RECV_BUF_SIZE
           /\ Read(n) = m_pRecvBuf /\ m_pRecvBuf \in Seq(Positions)
  <1>1. n \in ReadSizes /\ n \in Nat /\ rd' = rd + n
    BY Handled
  <1>2. PICK b \in Seq(Positions) : b = m_pRecvBuf
    BY DEF IInv, TypeOK
  <1>3. rd \in Nat
    BY RecvAssumption DEF IInv, TypeOK, StreamRecord
  <1>4. n = 0
    BY <1>1, <1>3
  <1>5. Space = 0
    BY <1>1, <1>4 DEF ReadSizes
  <1>6. Len(b) = RECV_BUF_SIZE
    BY <1>2, <1>5, RecvAssumption DEF Space
  <1>7. b \o <<>> = b
    OBVIOUS
  <1>8. Read(n) = b \o <<>>
    BY <1>2, <1>3, <1>4, RunEmpty DEF Read
  <1> QED BY <1>2, <1>4, <1>5, <1>6, <1>7, <1>8

\* What each handler makes of a full buffer.
LEMMA HandlerProgress ==
    ASSUME IInv, NEW n, Handler(n), m_hSocket' = "open", rd' = rd
    PROVE  Undecodable \/ Len(m_pRecvBuf') < Len(m_pRecvBuf)
  <1>1. HandReaddata(n)
    BY DEF Handler, HandshakeOk, HandshakeFails, ContinueLong, TooBig, WaitForMore, Deliver,
           StartLong, PastLong, Extract
  <1>2. /\ Space = 0 /\ Len(m_pRecvBuf) = RECV_BUF_SIZE /\ Read(n) = m_pRecvBuf
        /\ m_pRecvBuf \in Seq(Positions)
    BY <1>1, FullBuffer
  <1>3. CASE HandshakeOk(n) \/ ContinueLong(n) \/ StartLong(n)
    <2>1. m_pRecvBuf' = <<>>
      BY <1>3 DEF HandshakeOk, ContinueLong, StartLong
    <2>2. Len(m_pRecvBuf') = 0
      BY <2>1
    <2> QED BY <1>2, <2>2, RecvAssumption
  <1>4. CASE HandshakeFails(n) \/ TooBig(n)
    BY <1>4 DEF HandshakeFails, TooBig, Close
  <1>5. CASE WaitForMore(n)
    <2>1. PastLong(n) /\ m_pRecvBuf' = Rest(Read(n))
      BY <1>5 DEF WaitForMore
    <2>2. CASE InLongPacket
      BY <1>2, <2>1, <2>2, RestShorter
    <2>3. CASE ~InLongPacket
      <3>1. PICK k \in Nat : k = PacketSize(m_pRecvBuf)
        BY <1>2, PacketSizeNat DEF IInv
      <3>2. Rest(Read(n)) = m_pRecvBuf
        BY <1>2, <2>3 DEF Rest
      <3>3. ~(k <= RECV_BUF_SIZE) /\ k < RECV_BUF_SIZE
        BY <1>2, <1>5, <3>1, <3>2 DEF WaitForMore, AllThere, InBuffer
      <3> QED BY <3>3, RecvAssumption
    <2> QED BY <2>2, <2>3
  <1>6. CASE Deliver(n)
    <2>1. PICK k \in Nat : k = PacketSize(m_pRecvBuf)
      BY <1>2, PacketSizeNat DEF IInv
    <2>2. PastLong(n)
      BY <1>6 DEF Deliver
    <2>3. PICK z \in Seq(Positions) : z = Rest(Read(n))
      BY <2>2, Handled, RestFits DEF IInv, PastLong, Extract
    <2>4. m_pRecvBuf' = SubSeq(z, k + 1, Len(z)) /\ k <= Len(z)
      BY <1>2, <1>6, <2>1, <2>3 DEF Deliver, Behind, AllThere
    <2>5. Len(SubSeq(z, k + 1, Len(z))) = Len(z) - k
      BY <2>4
    <2>6. CASE InLongPacket
      BY <1>2, <2>2, <2>3, <2>4, <2>5, <2>6, RestShorter
    <2>7. CASE ~InLongPacket
      <3>1. z = m_pRecvBuf
        BY <1>2, <2>3, <2>7 DEF Rest
      <3>2. CASE k = 0
        BY <1>2, <2>1, <3>2 DEF Undecodable
      <3>3. CASE k # 0
        BY <1>2, <2>4, <2>5, <3>1, <3>3, RecvAssumption
      <3> QED BY <3>2, <3>3
    <2> QED BY <2>6, <2>7
  <1> QED BY <1>3, <1>4, <1>5, <1>6 DEF Handler

(***************************************************************************)
(* What keeps the receive loop going, for every buffer size and stream: no  *)
(* handler of a read of 0 bytes leaves the buffer as long as it was, but    *)
(* for one whose first length recv_ws_header gives up on.                   *)
(***************************************************************************)
THEOREM LoopGoesOn == Spec => ReadsProgress
  <1>1. IInv /\ [Next]_vars
          => [reading' /\ m_hSocket' = "open" /\ rd' = rd
                => Undecodable \/ Len(m_pRecvBuf') < Len(m_pRecvBuf)]_vars
    <2> SUFFICES ASSUME IInv, Next, reading', m_hSocket' = "open", rd' = rd
                 PROVE  Undecodable \/ Len(m_pRecvBuf') < Len(m_pRecvBuf)
      OBVIOUS
    <2>1. HandleRecvEvent
      BY DEF Next, ReadError
    <2> QED BY <2>1, HandlerProgress DEF HandleRecvEvent
  <1> QED BY <1>1, InductiveInvariant, PTL DEF Spec, ReadsProgress

-----------------------------------------------------------------------------
(* The session as the service sees it.                                      *)

\* A read handler is a step of the session it implements.
LEMMA HandlerIsSessionStep ==
    ASSUME IInv, NEW n, Handler(n)
    PROVE  Session!SessionNext
  <1>1. reading /\ m_hSocket = "open"
    BY HandlerOpen
  <1>2. <<>> \in DataCalls
    BY DEF DataCalls
  <1>3. CASE HandshakeOk(n)
    <2>1. Phase = "request" /\ Phase' = "frames"
      BY <1>1, <1>3 DEF HandshakeOk, Phase
    <2> QED BY <1>3, <2>1 DEF HandshakeOk, Session!SessionNext, Session!HandshakeDone
  <1>4. CASE HandshakeFails(n)
    <2>1. Phase = "request" /\ Phase' = "closed"
      BY <1>1, <1>4 DEF HandshakeFails, Close, Phase
    <2> QED BY <1>4, <2>1 DEF HandshakeFails, Close, Session!SessionNext, Session!HandshakeRefused
  <1>5. CASE TooBig(n)
    <2>1. Phase = "frames" /\ Phase' = "closed"
      BY <1>1, <1>5 DEF TooBig, PastLong, Extract, Close, Phase
    <2>2. calls' \in CloseCalls /\ closes' = closes + 1
      BY <1>5, LongCallsFirst DEF TooBig, Close
    <2> QED BY <2>1, <2>2 DEF Session!SessionNext, Session!ExtractBuffer, Session!CloseCalls, CloseCalls
  <1>6. CASE ContinueLong(n) \/ WaitForMore(n) \/ Deliver(n) \/ StartLong(n)
    <2>0. m_IsHandler /\ UNCHANGED <<m_IsHandler, m_hSocket, reading>>
      BY <1>6 DEF ContinueLong, WaitForMore, Deliver, StartLong, PastLong, Extract
    <2>1. Phase = "frames" /\ Phase' = "frames"
      BY <1>1, <2>0 DEF Phase
    <2>2. calls' \in DataCalls /\ UNCHANGED closes
      BY <1>2, <1>6, LongCallsFirst DEF ContinueLong, WaitForMore, Deliver, StartLong
    <2> QED BY <2>1, <2>2 DEF Session!SessionNext, Session!ExtractBuffer, Session!DataCalls, DataCalls
  <1> QED BY <1>3, <1>4, <1>5, <1>6 DEF Handler

(***************************************************************************)
(* CNetSession implements SessionEvents for every stream and every cutting: *)
(* what Gateway assumes of its sessions is what the receive path does.      *)
(***************************************************************************)
THEOREM SessionRefined == Spec => ImplementsSession
  <1>1. Init => Session!SessionInit
    BY DEF Init, Session!SessionInit, Phase
  <1>2. IInv /\ [Next]_vars => [Session!SessionNext]_(Session!sessionVars)
    <2> SUFFICES ASSUME IInv, [Next]_vars
                 PROVE  Session!SessionNext \/ UNCHANGED <<Phase, calls, closes>>
      BY DEF Session!sessionVars
    <2>1. CASE HandleRecvEvent
      BY <2>1, HandlerIsSessionStep DEF HandleRecvEvent
    <2>2. CASE ReadError
      <3>1. Phase # "gone" /\ Phase' = IF Phase = "closed" THEN "closed" ELSE "gone"
        BY <2>2 DEF ReadError, Phase
      <3> QED BY <2>2, <3>1 DEF ReadError, Session!SessionNext, Session!ReadError
    <2>3. CASE UNCHANGED vars
      BY <2>3 DEF vars, Phase
    <2> QED BY <2>1, <2>2, <2>3 DEF Next
  <1> QED BY <1>1, <1>2, InductiveInvariant, PTL DEF Spec, ImplementsSession, Session!SessionSpec
=============================================================================
