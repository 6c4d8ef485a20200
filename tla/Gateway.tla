------------------------------ MODULE Gateway ------------------------------
(***************************************************************************)
(* The server as the game service sees it: SessionPool, the life of every  *)
(* connection (WsReceive reduced to the calls it makes of IDataHandler) and *)
(* the queue to the game loop (ServiceChannel, which ServiceQueue           *)
(* implements), composed.                                                   *)
(*                                                                         *)
(* A read handler puts its packets one by one, and the game loop may take   *)
(* the first before the second is put.  An exception that a handler does    *)
(* not catch ends the process.                                              *)
(***************************************************************************)
EXTENDS SessionPool, SessionCalls

CONSTANT MaxReads     \* bound: read events that bring packets

ASSUME GatewayAssumption == MaxReads \in Nat

NetPackets == [kind : {"NEW", "DATA", "CLOSE"}, conn : SessionIds]
Packet(kind, s) == [kind |-> kind, conn |-> s]

VARIABLES
    phase,      \* of a session: "none", then "request" and "frames", while it
                \* reads, then "closed", by Close, or "gone", by a read error
    toPut,      \* what the running read handler has yet to put
    pending, handled,   \* the service queue
    reads,      \* read events that have brought packets
    ioDone      \* io_service::run has returned: the io thread has ended

connVars == <<phase, toPut, pending, handled, reads, ioDone>>
gatewayVars == <<vars, connVars>>

Queue == INSTANCE ServiceChannel WITH Packets <- NetPackets

GatewayInit ==
    /\ Init
    /\ phase = [s \in SessionIds |-> "none"]
    /\ toPut = <<>>
    /\ Queue!ChannelInit
    /\ reads = 0
    /\ ioDone = FALSE

-----------------------------------------------------------------------------
(* The io thread.                                                           *)

\* A read of the session is outstanding.
Reading(s) == phase[s] \in {"request", "frames"}

\* The io thread is between two handlers.
IoIdle == ~crashed /\ ~ioDone /\ pc["io"] = "idle" /\ toPut = <<>>

\* OnNewConnect and DoReceive.
NewConnect(s) ==
    /\ Queue!Put(Packet("NEW", s))
    /\ phase' = [phase EXCEPT ![s] = "request"]
    /\ UNCHANGED <<toPut, reads, ioDone>>

Accepted == IoIdle /\ HandleAccept /\ NewConnect(accepting)

ConnectedTo(s) == IoIdle /\ HandleConnect(s) /\ NewConnect(s)

\* The steps of SessionPool the service does not see.
PoolIoStep ==
    /\ toPut = <<>> /\ ~ioDone
    /\ \/ CreateNetSession("io")
       \/ HandleAcceptError \/ WaitForConnet \/ WaitForConnetFails
       \/ \E s \in SessionIds : HandleConnectError(s)
    /\ UNCHANGED connVars

HandshakeDone(s) ==
    /\ IoIdle /\ phase[s] = "request"
    /\ phase' = [phase EXCEPT ![s] = "frames"]
    /\ UNCHANGED <<vars, toPut, pending, handled, reads, ioDone>>

\* Deliberately wrong: the session goes on reading.
AfterClose_Reads == "frames"

\* No read of a closed socket succeeds.
AfterClose == "closed"

\* The request has no key: Close calls OnCloseConnect.
HandshakeRefused(s) ==
    /\ IoIdle /\ phase[s] = "request"
    /\ phase' = [phase EXCEPT ![s] = AfterClose]
    /\ Queue!Put(Packet("CLOSE", s))
    /\ UNCHANGED <<vars, toPut, reads, ioDone>>

(***************************************************************************)
(* A read event.  ExtractBuffer hands over the long packet it completes, if *)
(* any, and then one more packet, or closes, or waits for more bytes.       *)
(***************************************************************************)
Outcomes(s) ==
    {[i \in DOMAIN calls |-> Packet(calls[i], s)] :
        calls \in HandlerCalls \ {<<>>}}

ExtractBuffer(s, packets) ==
    /\ IoIdle /\ phase[s] = "frames" /\ reads < MaxReads
    /\ toPut' = packets
    /\ phase' = IF Packet("CLOSE", s) \in {packets[i] : i \in DOMAIN packets}
                THEN [phase EXCEPT ![s] = AfterClose] ELSE phase
    /\ reads' = reads + 1
    /\ UNCHANGED <<vars, pending, handled, ioDone>>

\* OnDataHandle, or the OnCloseConnect of Close.
PutNext ==
    /\ ~crashed /\ toPut # <<>>
    /\ Queue!Put(Head(toPut))
    /\ toPut' = Tail(toPut)
    /\ UNCHANGED <<vars, phase, reads, ioDone>>

\* End of stream or a reset: HandReaddata returns, without Close.
ReadError(s) ==
    /\ IoIdle /\ Reading(s)
    /\ phase' = [phase EXCEPT ![s] = "gone"]
    /\ UNCHANGED <<vars, toPut, pending, handled, reads, ioDone>>

\* The peer has reset the connection before the handler calls remote_endpoint,
\* or shutdown in Close: they throw, and nothing catches it.
HandlerThrows(s) ==
    /\ IoIdle /\ Reading(s)
    /\ crashed' = TRUE
    /\ UNCHANGED <<m_GetSessionMutex, m_NetSessionVector, m_OnlineNetSessionVector, pc,
                   CNetSession_, accepting, connecting, received, newConnects, stopped,
                   connVars>>

\* run returns once no operation is outstanding and is never called again: a
\* connection the game thread asks for later is never made.
IoServiceRuns ==
    /\ IoIdle /\ accepting = nullptr /\ connecting = {}
    /\ \A s \in SessionIds : ~Reading(s)
    /\ ioDone' = TRUE
    /\ UNCHANGED <<vars, phase, toPut, pending, handled, reads>>

-----------------------------------------------------------------------------
(* The game thread.                                                         *)

PoolGameStep == GameStep /\ UNCHANGED connVars

\* A turn of Update's loop.
Dispatch ==
    /\ ~crashed /\ pc["game"] = "idle"
    /\ Queue!Take
    /\ UNCHANGED <<vars, phase, toPut, reads, ioDone>>

Known == {handled[i].conn : i \in DOMAIN handled}

(***************************************************************************)
(* SendMessageData for a connection the service knows.  The map is read     *)
(* without the mutex: while the io thread inserts, anything may come of it. *)
(* The result is dereferenced even when nothing was found.                  *)
(***************************************************************************)
GetNetSessionByID(s) ==
    /\ ~crashed /\ pc["game"] = "idle" /\ s \in Known
    /\ \/ pc["io"] = "insert" /\ crashed' \in BOOLEAN
       \/ crashed' = (s \notin m_OnlineNetSessionVector)
    /\ UNCHANGED <<m_GetSessionMutex, m_NetSessionVector, m_OnlineNetSessionVector, pc,
                   CNetSession_, accepting, connecting, received, newConnects, stopped,
                   phase, toPut, pending, handled, reads, ioDone>>

IoRuns ==
    \/ PoolIoStep \/ Accepted \/ PutNext \/ IoServiceRuns
    \/ \E s \in SessionIds : ConnectedTo(s) \/ HandshakeDone(s) \/ HandshakeRefused(s)
                                \/ ReadError(s) \/ HandlerThrows(s)
    \/ \E s \in SessionIds : \E packets \in Outcomes(s) : ExtractBuffer(s, packets)

GameRuns == PoolGameStep \/ Dispatch \/ \E s \in SessionIds : GetNetSessionByID(s)

GatewayNext == IoRuns \/ GameRuns

GatewaySpec == GatewayInit /\ [][GatewayNext]_gatewayVars

(***************************************************************************)
(* Run calls Update for ever, and a thread inside CreateNetSession and its *)
(* callers, or inside a read handler, goes on.  Nothing is assumed of       *)
(* clients.                                                                 *)
(***************************************************************************)
GatewayFairSpec ==
    /\ GatewaySpec
    /\ WF_gatewayVars(Dispatch) /\ WF_gatewayVars(PutNext)
    /\ WF_gatewayVars(CreateNetSession("io") /\ UNCHANGED connVars)
    /\ WF_gatewayVars(CreateNetSession("game") /\ UNCHANGED connVars)
    /\ WF_gatewayVars((AsyncConnect \/ ConnectDies) /\ UNCHANGED connVars)

-----------------------------------------------------------------------------
\* Everything put, oldest first.
Events == handled \o pending

(* The queue, the sessions and the pool keep their types.                   *)
GatewayTypeOK ==
    /\ TypeOK
    /\ phase \in [SessionIds -> {"none", "request", "frames", "closed", "gone"}]
    /\ toPut \in Seq(NetPackets) /\ pending \in Seq(NetPackets) /\ handled \in Seq(NetPackets)
    /\ reads \in 0 .. MaxReads
    /\ ioDone \in BOOLEAN

(***************************************************************************)
(* What the service is told of a connection begins with NEW_CONNECTION,     *)
(* once, and ends with its CLOSE_CONNECTION, if there is one: no data come  *)
(* for a connection it does not know or that it was told is closed,         *)
(* although accepts, connects and reads of all sessions interleave.         *)
(***************************************************************************)
EventOrder ==
    \A j \in DOMAIN Events :
        /\ Events[j].kind # "NEW" => \E i \in 1 .. (j - 1) : Events[i] = Packet("NEW", Events[j].conn)
        /\ \A i \in 1 .. (j - 1) :
              Events[i].conn = Events[j].conn => Events[i].kind # "CLOSE" /\ Events[j].kind # "NEW"

(***************************************************************************)
(* The game loop catches up with what is put again and again, unless the   *)
(* process has died or a ConnectTo of its own waits for the mutex that a    *)
(* call which found no session left locked: no connection and no mix of     *)
(* them stops it.                                                           *)
(***************************************************************************)
DispatchGoesOn ==
    []<>(\/ pending = <<>>
         \/ crashed
         \/ pc["game"] = "lock" /\ m_NetSessionVector = <<>>)
=============================================================================
