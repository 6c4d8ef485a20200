---------------------------- MODULE ServiceQueue ----------------------------
(***************************************************************************)
(* CServiceBase (ServerEngine/baseinet/CServiceBase.cpp): the queue between *)
(* the thread that runs the io_service and the game loop.                  *)
(*                                                                         *)
(* Two std::deque<NetPacket> objects are used in turn.  The network side   *)
(* pushes, under m_QueueLock, on the one m_pRecvDataQueue points to; Update *)
(* swaps the two pointers under the lock and then walks and clears the     *)
(* other one WITHOUT the lock.  The deques are not thread safe, so every    *)
(* access to one takes two steps here: the thread is inside the deque       *)
(* between them.                                                            *)
(***************************************************************************)
EXTENDS Naturals, Sequences

CONSTANTS
    IoThreads,     \* the threads running m_IoService (the code starts one)
    Game,          \* the main thread, in CGameService::Run
    Conns,         \* session ids
    NoThread,      \* m_QueueLock is free
    MaxPackets     \* bound on the packets handed over in one behaviour

ASSUME QueueAssumption ==
    /\ NoThread \notin IoThreads \cup {Game}
    /\ Game \notin IoThreads
    /\ MaxPackets \in Nat

NEW_CONNECTION   == 1
CLOSE_CONNECTION == 2
DATA_PACKET      == 0        \* NetPacket(nConnID, 0, pDataBuffer)

NetPacket == [m_dwConnID : Conns,
              m_dwMsgID  : {DATA_PACKET, NEW_CONNECTION, CLOSE_CONNECTION}]

Threads == IoThreads \cup {Game}
Deques == {1, 2}

VARIABLES
    deque,              \* contents of the two deque objects
    m_pRecvDataQueue,   \* the deque the network side pushes on
    m_pDispathQueue,    \* the deque the game loop walks
    m_QueueLock,        \* its owner, or NoThread
    pc,                 \* where each thread is
    packet,             \* the NetPacket each network thread is handing over
    Iter,               \* position of Update's iterator
    handed,             \* history: the packets pushed, in order
    handled             \* history: the packets Update's switch has processed

vars == <<deque, m_pRecvDataQueue, m_pDispathQueue, m_QueueLock, pc, packet,
          Iter, handed, handled>>
dequeVars == <<deque, m_pRecvDataQueue, m_pDispathQueue, Iter, handed, handled>>

IoPc   == {"idle", "lock", "push_back", "pushing", "unlock"}
GamePc == {"lock", "swap", "unlock", "size", "loop", "clear"}

Init ==
    /\ deque = [q \in Deques |-> <<>>]
    /\ m_pRecvDataQueue = 1
    /\ m_pDispathQueue = 2
    /\ m_QueueLock = NoThread
    /\ pc = [t \in Threads |-> IF t = Game THEN "lock" ELSE "idle"]
    /\ packet \in [IoThreads -> NetPacket]
    /\ Iter = 1
    /\ handed = <<>>
    /\ handled = <<>>

Goto(t, from, to) ==
    /\ pc[t] = from
    /\ pc' = [pc EXCEPT ![t] = to]

Lock(t) ==
    /\ m_QueueLock = NoThread
    /\ m_QueueLock' = t

Unlock == m_QueueLock' = NoThread

-----------------------------------------------------------------------------
(* The network side: OnNewConnect, OnCloseConnect and OnDataHandle are the  *)
(* same three statements around a different NetPacket.                      *)

OnPacket(t, p) ==
    /\ Len(handed) < MaxPackets
    /\ Goto(t, "idle", "lock")
    /\ packet' = [packet EXCEPT ![t] = p]
    /\ UNCHANGED <<dequeVars, m_QueueLock>>

\* Deliberately wrong: the push is not protected by m_QueueLock.
IoLock_NoLock(t) ==
    /\ Goto(t, "lock", "push_back")
    /\ UNCHANGED <<dequeVars, packet, m_QueueLock>>

IoLock(t) ==
    /\ Goto(t, "lock", "push_back")
    /\ Lock(t)
    /\ UNCHANGED <<dequeVars, packet>>

IoPushBegin(t) ==
    /\ Goto(t, "push_back", "pushing")
    /\ UNCHANGED <<dequeVars, packet, m_QueueLock>>

IoPushEnd(t) ==
    /\ Goto(t, "pushing", "unlock")
    /\ deque' = [deque EXCEPT ![m_pRecvDataQueue] = Append(@, packet[t])]
    /\ handed' = Append(handed, packet[t])
    /\ UNCHANGED <<m_pRecvDataQueue, m_pDispathQueue, m_QueueLock, packet,
                   Iter, handled>>

IoUnlock(t) ==
    /\ Goto(t, "unlock", "idle")
    /\ Unlock
    /\ UNCHANGED <<dequeVars, packet>>

-----------------------------------------------------------------------------
(* The game loop: CServiceBase::Update, called forever by CGameService::Run *)

UpdateLock ==
    /\ Goto(Game, "lock", "swap")
    /\ Lock(Game)
    /\ UNCHANGED <<dequeVars, packet>>

\* Deliberately wrong: only one of the two pointers is assigned.
UpdateSwap_HalfSwap ==
    /\ Goto(Game, "swap", "unlock")
    /\ m_pRecvDataQueue' = m_pDispathQueue
    /\ UNCHANGED <<m_pDispathQueue, deque, m_QueueLock, packet, Iter, handed, handled>>

UpdateSwap ==
    /\ Goto(Game, "swap", "unlock")
    /\ m_pRecvDataQueue' = m_pDispathQueue
    /\ m_pDispathQueue' = m_pRecvDataQueue
    /\ UNCHANGED <<deque, m_QueueLock, packet, Iter, handed, handled>>

UpdateUnlock ==
    /\ Goto(Game, "unlock", "size")
    /\ Unlock
    /\ UNCHANGED <<dequeVars, packet>>

\* Deliberately wrong: a queue holding a single packet is taken for empty.
UpdateSize_OffByOne ==
    /\ Goto(Game, "size", IF Len(deque[m_pDispathQueue]) > 1 THEN "loop" ELSE "lock")
    /\ UNCHANGED <<dequeVars, packet, m_QueueLock>>

UpdateSize ==
    /\ Goto(Game, "size", IF Len(deque[m_pDispathQueue]) > 0 THEN "loop" ELSE "lock")
    /\ UNCHANGED <<dequeVars, packet, m_QueueLock>>

UpdateItem ==
    /\ Iter <= Len(deque[m_pDispathQueue])
    /\ Goto(Game, "loop", "loop")
    /\ handled' = Append(handled, deque[m_pDispathQueue][Iter])
    /\ Iter' = Iter + 1
    /\ UNCHANGED <<deque, m_pRecvDataQueue, m_pDispathQueue, m_QueueLock,
                   packet, handed>>

UpdateEnd ==
    /\ Iter > Len(deque[m_pDispathQueue])
    /\ Goto(Game, "loop", "clear")
    /\ UNCHANGED <<dequeVars, packet, m_QueueLock>>

\* Deliberately wrong: the next walk starts where the last one ended.
UpdateClear_NoReset ==
    /\ Goto(Game, "clear", "lock")
    /\ deque' = [deque EXCEPT ![m_pDispathQueue] = <<>>]
    /\ UNCHANGED <<m_pRecvDataQueue, m_pDispathQueue, m_QueueLock, packet, Iter,
                   handed, handled>>

\* Deliberately wrong: the walked deque is not cleared.
UpdateClear_Kept ==
    /\ Goto(Game, "clear", "lock")
    /\ Iter' = 1
    /\ UNCHANGED <<deque, m_pRecvDataQueue, m_pDispathQueue, m_QueueLock, packet,
                   handed, handled>>

UpdateClear ==
    /\ Goto(Game, "clear", "lock")
    /\ deque' = [deque EXCEPT ![m_pDispathQueue] = <<>>]
    /\ Iter' = 1
    /\ UNCHANGED <<m_pRecvDataQueue, m_pDispathQueue, m_QueueLock, packet,
                   handed, handled>>

Update == \/ UpdateLock \/ UpdateSwap \/ UpdateUnlock \/ UpdateSize
          \/ UpdateItem \/ UpdateEnd \/ UpdateClear

IoStep(t) == IoLock(t) \/ IoPushBegin(t) \/ IoPushEnd(t) \/ IoUnlock(t)

Next ==
    \/ \E t \in IoThreads, p \in NetPacket : OnPacket(t, p)
    \/ \E t \in IoThreads : IoStep(t)
    \/ Update

Spec == Init /\ [][Next]_vars

(***************************************************************************)
(* Run calls Update for ever, and a thread inside a handler runs on to its *)
(* unlock.  A new packet need not ever come.                                *)
(***************************************************************************)
FairSpec ==
    /\ Spec
    /\ WF_vars(Update)
    /\ \A t \in IoThreads : WF_vars(IoStep(t))

-----------------------------------------------------------------------------
(* Every variable keeps its type; the iterator never leaves the deque that  *)
(* Update walks by more than its end position.                              *)
TypeOK ==
    /\ deque \in [Deques -> Seq(NetPacket)]
    /\ m_pRecvDataQueue \in Deques
    /\ m_pDispathQueue \in Deques
    /\ m_QueueLock \in Threads \cup {NoThread}
    /\ pc \in [Threads -> IoPc \cup GamePc]
    /\ \A t \in IoThreads : pc[t] \in IoPc
    /\ pc[Game] \in GamePc
    /\ packet \in [IoThreads -> NetPacket]
    /\ Iter \in 1 .. (Len(deque[m_pDispathQueue]) + 1)
    /\ handed \in Seq(NetPacket)
    /\ handled \in Seq(NetPacket)

(***************************************************************************)
(* No data race on the deques: a thread inside push_back is alone there,   *)
(* the pointer it goes through is not being swapped under it, and the      *)
(* deque Update walks and clears without the lock is never the one the     *)
(* network side pushes on.                                                 *)
(***************************************************************************)
NoConcurrentAccess ==
    /\ \A t, u \in IoThreads : pc[t] = "pushing" /\ pc[u] = "pushing" => t = u
    /\ \A t \in IoThreads : pc[t] = "pushing" => pc[Game] # "swap"
    /\ m_pRecvDataQueue # m_pDispathQueue

\* What Update has not yet walked of the deque it took.
Unwalked == SubSeq(deque[m_pDispathQueue], Iter, Len(deque[m_pDispathQueue]))

\* Everything handed over and not yet processed, oldest first.
InFlight == Unwalked \o deque[m_pRecvDataQueue]

(***************************************************************************)
(* Exactly once, in order: at every moment what Update has processed,      *)
(* followed by what is still in the two deques, is what was handed over.   *)
(* The walk without the lock, the swap and the clear lose, repeat and      *)
(* reorder nothing, wherever a push falls between them.                    *)
(***************************************************************************)
FifoExactlyOnce == handed = handled \o InFlight

(***************************************************************************)
(* The double buffer implements the FIFO channel, liveness included: under *)
(* FairSpec the game loop takes every packet that was handed over.         *)
(***************************************************************************)
Channel == INSTANCE ServiceChannel WITH Packets <- NetPacket, pending <- InFlight

ImplementsChannel == Channel!ChannelSpec
=============================================================================
