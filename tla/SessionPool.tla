---------------------------- MODULE SessionPool ----------------------------
(***************************************************************************)
(* The sessions of the server (CNetSessionMrg in CNetSession .cpp) and the  *)
(* accept and connect paths that take them (CNetManager.cpp).               *)
(*                                                                         *)
(* The io thread runs the completion handlers; the game thread, which runs *)
(* the packet handlers, may ask for outgoing connections.  Both call       *)
(* CreateNetSession, whose steps are interleaved here: the lock, the look at *)
(* the vector, the insertion in the map, the pop, the unlock.               *)
(***************************************************************************)
EXTENDS Integers, Sequences

CONSTANTS
    nMaxCons      \* number of sessions made at the start (ServerConfig.json: 20)

ASSUME SessionAssumption == nMaxCons \in Nat /\ nMaxCons > 0

Threads == {"io", "game"}
SessionIds == 1 .. nMaxCons
nullptr == 0

VARIABLES
    m_GetSessionMutex,          \* the thread that holds it, or "none"
    m_NetSessionVector,         \* sessions not yet used
    m_OnlineNetSessionVector,   \* keys of the map of used ones
    pc,                         \* where a thread is in CreateNetSession
    CNetSession_,               \* its local variable of that name
    accepting,                  \* the session async_accept waits with, or nullptr
    connecting,                 \* the sessions async_connect waits with
    received,                   \* the sessions DoReceive was called for
    newConnects,                \* history: the calls of OnNewConnect
    stopped,                    \* why no accept is waiting any more
    crashed                     \* the process has died

vars == <<m_GetSessionMutex, m_NetSessionVector, m_OnlineNetSessionVector, pc, CNetSession_,
          accepting, connecting, received, newConnects, stopped, crashed>>

\* Deliberately wrong: SetSessionID(i) in place of SetSessionID(i + 1).
SessionID_FromZero(i) == i - 1

\* The id of the i-th session InitConnectionList makes.
SessionID(i) == i

\* CNetManager::Start has run InitConnectionList and its WaitForConnet, before
\* it made the io thread.
Init ==
    /\ m_GetSessionMutex = "none"
    /\ m_NetSessionVector = [i \in 1 .. nMaxCons - 1 |-> SessionID(i)]
    /\ m_OnlineNetSessionVector = {SessionID(nMaxCons)}
    /\ pc = [t \in Threads |-> "idle"]
    /\ CNetSession_ = [t \in Threads |-> nullptr]
    /\ accepting = SessionID(nMaxCons)
    /\ connecting = {}
    /\ received = {}
    /\ newConnects = <<>>
    /\ stopped = "no"
    /\ crashed = FALSE

pool == <<m_GetSessionMutex, m_NetSessionVector, m_OnlineNetSessionVector>>

-----------------------------------------------------------------------------
(* CreateNetSession, called by thread t.                                    *)

\* Deliberately wrong: nobody waits for the mutex.
Lock_NoWait(t) ==
    /\ pc[t] = "lock"
    /\ m_GetSessionMutex' = t
    /\ pc' = [pc EXCEPT ![t] = "size"]
    /\ UNCHANGED <<m_NetSessionVector, m_OnlineNetSessionVector, CNetSession_, accepting,
                   connecting, received, newConnects, stopped, crashed>>

Lock(t) ==
    /\ pc[t] = "lock"
    /\ m_GetSessionMutex = "none"
    /\ m_GetSessionMutex' = t
    /\ pc' = [pc EXCEPT ![t] = "size"]
    /\ UNCHANGED <<m_NetSessionVector, m_OnlineNetSessionVector, CNetSession_, accepting,
                   connecting, received, newConnects, stopped, crashed>>

\* No session is left: the early return leaves the mutex locked.
Empty(t) ==
    /\ pc[t] = "size"
    /\ Len(m_NetSessionVector) <= 0
    /\ CNetSession_' = [CNetSession_ EXCEPT ![t] = nullptr]
    /\ pc' = [pc EXCEPT ![t] = "return"]
    /\ UNCHANGED <<pool, accepting, connecting, received, newConnects, stopped, crashed>>

Back(t) ==
    /\ pc[t] = "size"
    /\ Len(m_NetSessionVector) > 0
    /\ CNetSession_' = [CNetSession_ EXCEPT ![t] = m_NetSessionVector[Len(m_NetSessionVector)]]
    /\ pc' = [pc EXCEPT ![t] = "insert"]
    /\ UNCHANGED <<pool, accepting, connecting, received, newConnects, stopped, crashed>>

\* Deliberately wrong: the session is not entered in the map.
Insert_Skipped(t) ==
    /\ pc[t] = "insert"
    /\ pc' = [pc EXCEPT ![t] = "pop"]
    /\ UNCHANGED <<pool, CNetSession_, accepting, connecting, received, newConnects, stopped,
                   crashed>>

Insert(t) ==
    /\ pc[t] = "insert"
    /\ m_OnlineNetSessionVector' = m_OnlineNetSessionVector \cup {CNetSession_[t]}
    /\ pc' = [pc EXCEPT ![t] = "pop"]
    /\ UNCHANGED <<m_GetSessionMutex, m_NetSessionVector, CNetSession_, accepting, connecting,
                   received, newConnects, stopped, crashed>>

Pop(t) ==
    /\ pc[t] = "pop"
    /\ m_NetSessionVector' = SubSeq(m_NetSessionVector, 1, Len(m_NetSessionVector) - 1)
    /\ pc' = [pc EXCEPT ![t] = "unlock"]
    /\ UNCHANGED <<m_GetSessionMutex, m_OnlineNetSessionVector, CNetSession_, accepting,
                   connecting, received, newConnects, stopped, crashed>>

\* Deliberately wrong: the mutex stays locked.
Unlock_Forgotten(t) ==
    /\ pc[t] = "unlock"
    /\ pc' = [pc EXCEPT ![t] = "return"]
    /\ UNCHANGED <<pool, CNetSession_, accepting, connecting, received, newConnects, stopped,
                   crashed>>

Unlock(t) ==
    /\ pc[t] = "unlock"
    /\ m_GetSessionMutex' = "none"
    /\ pc' = [pc EXCEPT ![t] = "return"]
    /\ UNCHANGED <<m_NetSessionVector, m_OnlineNetSessionVector, CNetSession_, accepting,
                   connecting, received, newConnects, stopped, crashed>>

CreateNetSession(t) ==
    /\ ~crashed
    /\ Lock(t) \/ Empty(t) \/ Back(t) \/ Insert(t) \/ Pop(t) \/ Unlock(t)

-----------------------------------------------------------------------------
(* The io thread.                                                           *)

\* OnNewConnect and DoReceive for session s.
Connected(s) ==
    /\ newConnects' = Append(newConnects, s)
    /\ received' = received \cup {s}

\* Deliberately wrong: the loop ends with the first connection.
HandleAccept_Once ==
    /\ ~crashed /\ pc["io"] = "idle" /\ accepting # nullptr
    /\ Connected(accepting)
    /\ accepting' = nullptr
    /\ UNCHANGED <<pool, pc, CNetSession_, connecting, stopped, crashed>>

\* A client has connected; WaitForConnet calls CreateNetSession.
HandleAccept ==
    /\ ~crashed /\ pc["io"] = "idle" /\ accepting # nullptr
    /\ Connected(accepting)
    /\ accepting' = nullptr
    /\ pc' = [pc EXCEPT !["io"] = "lock"]
    /\ UNCHANGED <<pool, CNetSession_, connecting, stopped, crashed>>

\* The accept has failed: return without waiting for the next one.
HandleAcceptError ==
    /\ ~crashed /\ pc["io"] = "idle" /\ accepting # nullptr
    /\ accepting' = nullptr
    /\ stopped' = "accept error"
    /\ UNCHANGED <<pool, pc, CNetSession_, connecting, received, newConnects, crashed>>

\* WaitForConnet with the session CreateNetSession has returned.
WaitForConnet ==
    /\ ~crashed /\ pc["io"] = "return" /\ CNetSession_["io"] # nullptr
    /\ accepting' = CNetSession_["io"]
    /\ CNetSession_' = [CNetSession_ EXCEPT !["io"] = nullptr]
    /\ pc' = [pc EXCEPT !["io"] = "idle"]
    /\ UNCHANGED <<pool, connecting, received, newConnects, stopped, crashed>>

\* WaitForConnet without a session.
WaitForConnetFails ==
    /\ ~crashed /\ pc["io"] = "return" /\ CNetSession_["io"] = nullptr
    /\ pc' = [pc EXCEPT !["io"] = "idle"]
    /\ stopped' = "no session"
    /\ UNCHANGED <<pool, CNetSession_, accepting, connecting, received, newConnects, crashed>>

HandleConnect(s) ==
    /\ ~crashed /\ pc["io"] = "idle" /\ s \in connecting
    /\ Connected(s)
    /\ connecting' = connecting \ {s}
    /\ UNCHANGED <<pool, pc, CNetSession_, accepting, stopped, crashed>>

HandleConnectError(s) ==
    /\ ~crashed /\ pc["io"] = "idle" /\ s \in connecting
    /\ connecting' = connecting \ {s}
    /\ UNCHANGED <<pool, pc, CNetSession_, accepting, received, newConnects, stopped, crashed>>

-----------------------------------------------------------------------------
(* The game thread.                                                         *)

ConnectTo_Async ==
    /\ ~crashed /\ pc["game"] = "idle"
    /\ pc' = [pc EXCEPT !["game"] = "lock"]
    /\ UNCHANGED <<pool, CNetSession_, accepting, connecting, received, newConnects, stopped,
                   crashed>>

\* The name has been resolved.
AsyncConnect ==
    /\ ~crashed /\ pc["game"] = "return" /\ CNetSession_["game"] # nullptr
    /\ connecting' = connecting \cup {CNetSession_["game"]}
    /\ CNetSession_' = [CNetSession_ EXCEPT !["game"] = nullptr]
    /\ pc' = [pc EXCEPT !["game"] = "idle"]
    /\ UNCHANGED <<pool, accepting, received, newConnects, stopped, crashed>>

\* SetDataHandler of a null session, or resolve throws: nothing catches it.
ConnectDies ==
    /\ ~crashed /\ pc["game"] = "return"
    /\ crashed' = TRUE
    /\ UNCHANGED <<pool, pc, CNetSession_, accepting, connecting, received, newConnects,
                   stopped>>

IoStep ==
    \/ CreateNetSession("io")
    \/ HandleAccept \/ HandleAcceptError \/ WaitForConnet \/ WaitForConnetFails
    \/ \E s \in SessionIds : HandleConnect(s) \/ HandleConnectError(s)

GameStep == CreateNetSession("game") \/ ConnectTo_Async \/ AsyncConnect \/ ConnectDies

Next == IoStep \/ GameStep

Spec == Init /\ [][Next]_vars

-----------------------------------------------------------------------------
(* Every variable keeps its type.                                           *)
TypeOK ==
    /\ m_GetSessionMutex \in Threads \cup {"none"}
    /\ m_NetSessionVector \in Seq(SessionIds)
    /\ m_OnlineNetSessionVector \subseteq SessionIds
    /\ pc \in [Threads -> {"idle", "lock", "size", "insert", "pop", "unlock", "return"}]
    /\ CNetSession_ \in [Threads -> SessionIds \cup {nullptr}]
    /\ accepting \in SessionIds \cup {nullptr}
    /\ connecting \subseteq SessionIds
    /\ received \subseteq SessionIds
    /\ newConnects \in Seq(SessionIds)
    /\ stopped \in {"no", "accept error", "no session"}
    /\ crashed \in BOOLEAN

Unused == {m_NetSessionVector[i] : i \in DOMAIN m_NetSessionVector}
\* The session a thread has taken off the vector and not yet passed on.
InHand(t) == IF pc[t] \in {"unlock", "return"} THEN {CNetSession_[t]} \ {nullptr} ELSE {}

(***************************************************************************)
(* A session serves one connection: it is unused, in the hands of one      *)
(* thread, waiting for one accept or one connect, or connected, and never   *)
(* two of these, however the two threads meet in CreateNetSession.  (A      *)
(* second use would replace the socket under a running read.)               *)
(***************************************************************************)
SessionUsedOnce ==
    /\ \A i, j \in DOMAIN m_NetSessionVector :
          m_NetSessionVector[i] = m_NetSessionVector[j] => i = j
    /\ \A i, j \in DOMAIN newConnects : newConnects[i] = newConnects[j] => i = j
    /\ Unused \cap (InHand("io") \cup InHand("game") \cup {accepting} \cup connecting
                     \cup received) = {}
    /\ InHand("io") \cap (InHand("game") \cup {accepting} \cup connecting \cup received) = {}
    /\ InHand("game") \cap ({accepting} \cup connecting \cup received) = {}
    /\ accepting \notin connecting \cup received
    /\ connecting \cap received = {}

(***************************************************************************)
(* GetNetSessionByID dereferences what it finds in the map without a test: *)
(* every session the service has been told of, and every one that may come  *)
(* to be, is in the map.                                                    *)
(***************************************************************************)
KnownIsOnline ==
    LET known == {newConnects[i] : i \in DOMAIN newConnects}
    IN  known \cup connecting \cup ({accepting} \ {nullptr}) \subseteq m_OnlineNetSessionVector

(***************************************************************************)
(* The early return of CreateNetSession leaves the mutex locked for ever.  *)
(* That is the only way to leave it locked, so it happens only when the     *)
(* last session has been used and no caller could have been served.         *)
(***************************************************************************)
LockedOnlyWhenEmpty ==
    \A t \in Threads :
        m_GetSessionMutex = t /\ pc[t] \notin {"size", "insert", "pop", "unlock"}
            => m_NetSessionVector = <<>>

(***************************************************************************)
(* The server goes on listening, with exactly one accept waiting, until an *)
(* accept fails or WaitForConnet gets no session; the handlers of other     *)
(* sessions do not stop it.  (An io thread blocked for ever on the mutex    *)
(* has found it left locked by the game thread, see LockedOnlyWhenEmpty.)   *)
(***************************************************************************)
Listening == stopped = "no" => (accepting # nullptr <=> pc["io"] = "idle")

(***************************************************************************)
(* Nobody waits for the mutex for ever while there is a session to hand    *)
(* out: a call of CreateNetSession gets past the lock or the pool runs out. *)
(***************************************************************************)
LockGranted ==
    \A t \in Threads :
        pc[t] = "lock" ~> (pc[t] # "lock" \/ m_NetSessionVector = <<>> \/ crashed)
=============================================================================
