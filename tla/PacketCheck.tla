---------------------------- MODULE PacketCheck ----------------------------
(***************************************************************************)
(* CNetSession::CheckHeader: the check of a packet's header and of its      *)
(* number, against the one counter m_nCheckNo of the whole process.         *)
(*                                                                         *)
(* A client numbers its packets one after the other and hides the number   *)
(* in dwPacketNo (BaseDefine.h).  Any of them may also send a packet again, *)
(* leave one out, or send a header that is not allowed.                     *)
(***************************************************************************)
EXTENDS Integers

CONSTANTS
    WORD,         \* UINT32 arithmetic is modulo WORD (2^32)
    MaxSize,      \* largest dwSize (1024 * 1024)
    MaxMsgID,     \* largest dwMsgID (4999999)
    WordXor(_, _), \* the operator ^ on UINT32
    Peers,
    IDs, SIZEs    \* the values of dwMsgID and dwSize clients use

ASSUME CheckAssumption ==
    /\ WORD \in Nat /\ WORD > 1
    /\ IDs \subseteq 0 .. (WORD - 1) /\ SIZEs \subseteq 0 .. (WORD - 1)
    /\ \A a, b \in 0 .. (WORD - 1) : WordXor(a, b) \in 0 .. (WORD - 1)

Words == 0 .. (WORD - 1)
CODE_VALUE == 136
PacketHeader == [CheckCode : {CODE_VALUE, 153}, dwMsgID : IDs, dwSize : SIZEs, dwPacketNo : Words]

VARIABLES
    m_nCheckNo,
    index,        \* the number of each client's next packet
    refused,      \* the last packet the client sent in order was refused
    disturbed     \* since the client's last accepted packet the counter was moved
                  \* by another client, or set by a packet of its own out of order

vars == <<m_nCheckNo, index, refused, disturbed>>

Init ==
    /\ m_nCheckNo = 0
    /\ index \in [Peers -> Words]
    /\ refused = [p \in Peers |-> FALSE]
    /\ disturbed = [p \in Peers |-> FALSE]

-----------------------------------------------------------------------------
Key(h) == WordXor(h.dwMsgID, h.dwSize)

Allowed(h) == h.CheckCode = CODE_VALUE /\ h.dwSize <= MaxSize /\ h.dwMsgID <= MaxMsgID

Expected(h) == h.dwPacketNo = (Key(h) + m_nCheckNo) % WORD

\* Deliberately wrong: the number is taken over without the one more.
Resync_Same(h) == (h.dwPacketNo - Key(h)) % WORD

Resync(h) == (h.dwPacketNo - Key(h) + 1) % WORD

Accepted(h) == Allowed(h) /\ (m_nCheckNo = 0 \/ Expected(h))

CheckHeader(h) ==
    m_nCheckNo' = IF ~Accepted(h) THEN m_nCheckNo
                  ELSE IF m_nCheckNo = 0 THEN Resync(h) ELSE (m_nCheckNo + 1) % WORD

\* The client's next packet.
SendNext(p, h) ==
    /\ Allowed(h) /\ h.dwPacketNo = (Key(h) + index[p]) % WORD
    /\ CheckHeader(h)
    /\ index' = [index EXCEPT ![p] = (@ + 1) % WORD]
    /\ refused' = [refused EXCEPT ![p] = ~Accepted(h)]
    /\ disturbed' = IF Accepted(h) THEN [q \in Peers |-> q # p] ELSE disturbed

\* A packet out of order, or with a header that is not allowed.
SendOther(p, h) ==
    /\ ~Allowed(h) \/ h.dwPacketNo # (Key(h) + index[p]) % WORD
    /\ CheckHeader(h)
    /\ disturbed' = IF Accepted(h) THEN [q \in Peers |-> disturbed[q] \/ q # p \/ m_nCheckNo = 0]
                    ELSE disturbed
    /\ UNCHANGED <<index, refused>>

Next == \E p \in Peers, h \in PacketHeader : SendNext(p, h) \/ SendOther(p, h)

Spec == Init /\ [][Next]_vars

-----------------------------------------------------------------------------
(***************************************************************************)
(* The counter is shared by all clients.  A client that numbers its packets *)
(* one by one, from any number on and past the largest one, is refused only *)
(* if, since its last accepted packet, another client's packet was accepted *)
(* or a packet of its own, sent again or after one was left out, was        *)
(* accepted while the counter was 0: before the first packet, and when it   *)
(* wraps.  What is refused, and what comes out of order at any other time,  *)
(* disturbs nobody, and one accepted packet puts its client in step again.  *)
(***************************************************************************)
NumberedAccepted == \A p \in Peers : refused[p] => disturbed[p]
=============================================================================
