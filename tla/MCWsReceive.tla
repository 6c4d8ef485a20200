---------------------------- MODULE MCWsReceive ----------------------------
(***************************************************************************)
(* WsReceive for TLC, with the buffer scaled from 8192 to 16 bytes and the *)
(* packet limit from 65535 to 40.  Every stream starts with a request of    *)
(* four bytes whose key is bytes 2 and 3.                                   *)
(***************************************************************************)
EXTENDS WsReceive

Request == <<71, 69, 75, 10>>
Payload(n) == [i \in 1 .. n |-> 7]
Mask == <<1, 2, 3, 4>>
Frame7(n) == <<129, 128 + n>> \o Mask \o Payload(n)
Frame16(n) == <<130, 254, n, 0>> \o Mask \o Payload(n)
Frame64(n) == <<130, 255, n, 0, 0, 0, 0, 0, 0, 0>> \o Mask \o Payload(n)

Stream(data) == [bytes |-> Request \o data, keyFrom |-> 2, keyEnd |-> 3]

\* Frames of every header form that fit in the buffer.
ShortFrames == Stream(Frame7(0) \o Frame16(4) \o Frame7(9) \o Frame64(1))
\* Frames longer than the buffer, with a short one before, between and behind.
LongFrames == Stream(Frame7(1) \o Frame7(20) \o Frame7(2) \o Frame16(24) \o Frame7(0))
\* A frame of 264 bytes is announced.
HugeFrame == Stream(Frame7(3) \o <<130, 254, 0, 1>> \o Mask \o Payload(6))
\* The low word of a 64-bit length is 2^32 - 8: with the header it is 6.
WrappedSize ==
    Stream(<<130, 255, 248, 255, 255, 255, 0, 0, 0, 0>> \o Mask \o Frame7(4))
\* The high word of a 64-bit length is not 0: recv_ws_header gives up for good.
HighWord == Stream(<<130, 255, 5, 0, 0, 0, 1, 0, 0, 0>> \o Mask \o Payload(5))

MCStreams == {ShortFrames, LongFrames, HugeFrame, WrappedSize, HighWord}
=============================================================================
