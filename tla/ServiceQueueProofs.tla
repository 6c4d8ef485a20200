------------------------- MODULE ServiceQueueProofs -------------------------
(***************************************************************************)
(* Proofs about ServiceQueue, for any set of network threads, any set of   *)
(* sessions and any number of packets.                                     *)
(*                                                                         *)
(* FifoExactlyOnce is not inductive on its own.  It needs to know that the *)
(* deque Update is about to give away in the swap is empty and that the    *)
(* iterator is back at its start (WalkDone), and NoConcurrentAccess needs  *)
(* to know who owns m_QueueLock inside the two critical sections           *)
(* (LockOwner).                                                            *)
(***************************************************************************)
EXTENDS ServiceQueue, SequenceTheorems, TLAPS

\* A thread between lock() and unlock() is the owner of m_QueueLock.
LockOwner ==
    /\ \A t \in IoThreads : pc[t] \in {"push_back", "pushing", "unlock"} => m_QueueLock = t
    /\ pc[Game] \in {"swap", "unlock"} => m_QueueLock = Game

\* The deque that becomes the receive queue in the swap is empty, and a walk
\* starts at the first packet and ends after the last one.
WalkDone ==
    /\ pc[Game] \in {"lock", "swap"} => deque[m_pDispathQueue] = <<>>
    /\ pc[Game] \in {"lock", "swap", "unlock", "size"} => Iter = 1
    /\ pc[Game] = "clear" => Iter = Len(deque[m_pDispathQueue]) + 1

IInv == TypeOK /\ LockOwner /\ WalkDone /\ NoConcurrentAccess /\ FifoExactlyOnce

-----------------------------------------------------------------------------
(* Facts about sequences, stated once.                                      *)

\* An element put before b is an element put after a.
LEMMA ShiftOne ==
    \A a, b, c \in Seq(NetPacket), e \in NetPacket :
        a \o ((<<e>> \o b) \o c) = Append(a, e) \o (b \o c)
  <1> SUFFICES ASSUME NEW a \in Seq(NetPacket), NEW b \in Seq(NetPacket),
                      NEW c \in Seq(NetPacket), NEW e \in NetPacket
               PROVE  a \o ((<<e>> \o b) \o c) = Append(a, e) \o (b \o c)
    OBVIOUS
  <1>1. <<e>> \in Seq(NetPacket) /\ b \o c \in Seq(NetPacket)
    OBVIOUS
  <1>2. (<<e>> \o b) \o c = <<e>> \o (b \o c)
    BY <1>1, ConcatAssociative
  <1>3. a \o (<<e>> \o (b \o c)) = (a \o <<e>>) \o (b \o c)
    BY <1>1, ConcatAssociative, SMTT(40)
  <1>4. Append(a, e) = a \o <<e>>
    BY AppendIsConcat
  <1> QED BY <1>2, <1>3, <1>4

\* One turn of Update's loop moves an element from the unwalked part to the
\* walked one.
LEMMA WalkOne ==
    \A a, b, c \in Seq(NetPacket) : \A i \in 1 .. Len(b) :
        a \o (SubSeq(b, i, Len(b)) \o c)
          = Append(a, b[i]) \o (SubSeq(b, i + 1, Len(b)) \o c)
  <1> SUFFICES ASSUME NEW a \in Seq(NetPacket), NEW b \in Seq(NetPacket),
                      NEW c \in Seq(NetPacket), NEW i \in 1 .. Len(b)
               PROVE  a \o (SubSeq(b, i, Len(b)) \o c)
                        = Append(a, b[i]) \o (SubSeq(b, i + 1, Len(b)) \o c)
    OBVIOUS
  <1>1. /\ b[i] \in NetPacket
        /\ SubSeq(b, i + 1, Len(b)) \in Seq(NetPacket)
        /\ Len(b) \in i .. Len(b)
    OBVIOUS
  <1>2. SubSeq(b, i, Len(b)) = <<b[i]>> \o SubSeq(b, i + 1, Len(b))
    BY <1>1, SubSeqRecursiveFirst
  <1>3. PICK e \in NetPacket, y \in Seq(NetPacket) : e = b[i] /\ y = SubSeq(b, i + 1, Len(b))
    BY <1>1
  <1>4. a \o ((<<e>> \o y) \o c) = Append(a, e) \o (y \o c)
    BY ShiftOne, ZenonT(40)
  <1> QED BY <1>2, <1>3, <1>4

-----------------------------------------------------------------------------
(* The initial state.                                                       *)
LEMMA InitIInv == Init => IInv
  <1> SUFFICES ASSUME Init PROVE IInv
    OBVIOUS
  <1>1. TypeOK
    BY QueueAssumption DEF Init, TypeOK, Threads, IoPc, GamePc, Deques
  <1>2. LockOwner /\ WalkDone /\ NoConcurrentAccess
    BY QueueAssumption DEF Init, LockOwner, WalkDone, NoConcurrentAccess, Threads, Deques
  <1>3. FifoExactlyOnce
    BY DEF Init, FifoExactlyOnce, InFlight, Unwalked, Deques
  <1> QED BY <1>1, <1>2, <1>3 DEF IInv

\* Steps that touch neither the deques nor their pointers keep the order.
LEMMA DequesUnchanged == IInv /\ UNCHANGED dequeVars => FifoExactlyOnce'
  BY DEF IInv, dequeVars, FifoExactlyOnce, InFlight, Unwalked

\* A new packet is known to its thread only.
LEMMA OnPacketIInv ==
    ASSUME IInv, NEW t \in IoThreads, NEW p \in NetPacket, OnPacket(t, p)
    PROVE  IInv'
  <1> USE QueueAssumption DEF OnPacket, Goto, dequeVars
  <1>1. TypeOK'
    BY DEF IInv, TypeOK, Threads, IoPc, GamePc
  <1>2. LockOwner' /\ WalkDone' /\ NoConcurrentAccess'
    BY DEF IInv, TypeOK, Threads, LockOwner, WalkDone, NoConcurrentAccess
  <1>3. FifoExactlyOnce'
    BY DequesUnchanged
  <1> QED BY <1>1, <1>2, <1>3 DEF IInv

\* The lock is free when it is taken.
LEMMA IoLockIInv ==
    ASSUME IInv, NEW t \in IoThreads, IoLock(t)
    PROVE  IInv'
  <1> USE QueueAssumption DEF IoLock, Goto, Lock, dequeVars
  <1>1. TypeOK'
    BY DEF IInv, TypeOK, Threads, IoPc, GamePc
  <1>2. LockOwner' /\ WalkDone' /\ NoConcurrentAccess'
    BY DEF IInv, TypeOK, Threads, LockOwner, WalkDone, NoConcurrentAccess
  <1>3. FifoExactlyOnce'
    BY DequesUnchanged
  <1> QED BY <1>1, <1>2, <1>3 DEF IInv

\* The thread that holds the lock enters the receive deque.
LEMMA IoPushBeginIInv ==
    ASSUME IInv, NEW t \in IoThreads, IoPushBegin(t)
    PROVE  IInv'
  <1> USE QueueAssumption DEF IoPushBegin, Goto, dequeVars
  <1>1. TypeOK'
    BY DEF IInv, TypeOK, Threads, IoPc, GamePc
  <1>2. LockOwner' /\ WalkDone' /\ NoConcurrentAccess'
    BY DEF IInv, TypeOK, Threads, LockOwner, WalkDone, NoConcurrentAccess
  <1>3. FifoExactlyOnce'
    BY DequesUnchanged
  <1> QED BY <1>1, <1>2, <1>3 DEF IInv

\* The packet is at the end of the receive deque.
LEMMA IoPushEndIInv ==
    ASSUME IInv, NEW t \in IoThreads, IoPushEnd(t)
    PROVE  IInv'
  <1> USE QueueAssumption DEF IoPushEnd, Goto
  <1>1. packet[t] \in NetPacket
    BY DEF IInv, TypeOK
  <1>2. /\ m_pRecvDataQueue # m_pDispathQueue
        /\ deque'[m_pDispathQueue] = deque[m_pDispathQueue]
        /\ deque'[m_pRecvDataQueue] = Append(deque[m_pRecvDataQueue], packet[t])
    BY DEF IInv, TypeOK, NoConcurrentAccess
  <1>3. TypeOK'
    BY <1>1, <1>2 DEF IInv, TypeOK, Threads, IoPc, GamePc, Deques
  <1>4. LockOwner' /\ WalkDone' /\ NoConcurrentAccess'
    BY <1>2 DEF IInv, TypeOK, Threads, LockOwner, WalkDone, NoConcurrentAccess
  <1>5. FifoExactlyOnce'
    <2>1. /\ handled \in Seq(NetPacket)
          /\ Unwalked \in Seq(NetPacket)
          /\ deque[m_pRecvDataQueue] \in Seq(NetPacket)
      BY DEF IInv, TypeOK, Unwalked
    <2>2. handed' = Append(handled \o (Unwalked \o deque[m_pRecvDataQueue]), packet[t])
      BY DEF IInv, FifoExactlyOnce, InFlight
    <2>3. Unwalked' = Unwalked
      BY <1>2 DEF Unwalked
    <2>4. PICK u \in Seq(NetPacket), r \in Seq(NetPacket), e \in NetPacket :
              u = Unwalked /\ r = deque[m_pRecvDataQueue] /\ e = packet[t]
      BY <1>1, <2>1
    <2>5. u \o Append(r, e) = Append(u \o r, e)
      OBVIOUS
    <2>6. handled \o Append(u \o r, e) = Append(handled \o (u \o r), e)
      BY <2>1, SMTT(40)
    <2> QED BY <1>2, <2>2, <2>3, <2>4, <2>5, <2>6 DEF FifoExactlyOnce, InFlight
  <1> QED BY <1>3, <1>4, <1>5 DEF IInv

\* The thread has left the deque when it unlocks.
LEMMA IoUnlockIInv ==
    ASSUME IInv, NEW t \in IoThreads, IoUnlock(t)
    PROVE  IInv'
  <1> USE QueueAssumption DEF IoUnlock, Goto, Unlock, dequeVars
  <1>1. TypeOK'
    BY DEF IInv, TypeOK, Threads, IoPc, GamePc
  <1>2. LockOwner' /\ WalkDone' /\ NoConcurrentAccess'
    BY DEF IInv, TypeOK, Threads, LockOwner, WalkDone, NoConcurrentAccess
  <1>3. FifoExactlyOnce'
    BY DequesUnchanged
  <1> QED BY <1>1, <1>2, <1>3 DEF IInv

-----------------------------------------------------------------------------
(* The steps of Update.                                                     *)

\* The game loop takes a free lock.
LEMMA UpdateLockIInv == IInv /\ UpdateLock => IInv'
  <1> SUFFICES ASSUME IInv, UpdateLock PROVE IInv'
    OBVIOUS
  <1> USE QueueAssumption DEF UpdateLock, Goto, Lock, dequeVars
  <1>1. TypeOK'
    BY DEF IInv, TypeOK, Threads, IoPc, GamePc
  <1>2. LockOwner' /\ WalkDone' /\ NoConcurrentAccess'
    BY DEF IInv, TypeOK, Threads, LockOwner, WalkDone, NoConcurrentAccess
  <1>3. FifoExactlyOnce'
    BY DequesUnchanged
  <1> QED BY <1>1, <1>2, <1>3 DEF IInv

\* The swap: the walked deque is empty (WalkDone), so what was unread in the
\* receive queue is exactly what is now unwalked.
LEMMA UpdateSwapIInv == IInv /\ UpdateSwap => IInv'
  <1> SUFFICES ASSUME IInv, UpdateSwap PROVE IInv'
    OBVIOUS
  <1> USE QueueAssumption DEF UpdateSwap, Goto
  <1>1. /\ Iter = 1
        /\ deque[m_pDispathQueue] = <<>>
        /\ deque[m_pRecvDataQueue] \in Seq(NetPacket)
    BY DEF IInv, TypeOK, WalkDone
  <1>2. TypeOK'
    BY <1>1 DEF IInv, TypeOK, Threads, IoPc, GamePc
  <1>3. LockOwner' /\ WalkDone' /\ NoConcurrentAccess'
    BY DEF IInv, TypeOK, Threads, LockOwner, WalkDone, NoConcurrentAccess
  <1>4. FifoExactlyOnce'
    <2>1. PICK r \in Seq(NetPacket) : r = deque[m_pRecvDataQueue]
      BY <1>1
    <2>2. Unwalked = <<>>
      BY <1>1 DEF Unwalked
    <2>3. InFlight = r
      BY <1>1, <2>1, <2>2 DEF InFlight
    <2>4. SubSeq(r, 1, Len(r)) = r
      OBVIOUS
    <2>5. r \o <<>> = r
      OBVIOUS
    <2>6. InFlight' = r
      BY <1>1, <2>1, <2>4, <2>5 DEF InFlight, Unwalked
    <2> QED BY <2>3, <2>6 DEF IInv, FifoExactlyOnce
  <1> QED BY <1>2, <1>3, <1>4 DEF IInv

\* The game loop unlocks with the deques swapped.
LEMMA UpdateUnlockIInv == IInv /\ UpdateUnlock => IInv'
  <1> SUFFICES ASSUME IInv, UpdateUnlock PROVE IInv'
    OBVIOUS
  <1> USE QueueAssumption DEF UpdateUnlock, Goto, Unlock, dequeVars
  <1>1. TypeOK'
    BY DEF IInv, TypeOK, Threads, IoPc, GamePc
  <1>2. LockOwner' /\ WalkDone' /\ NoConcurrentAccess'
    BY DEF IInv, TypeOK, Threads, LockOwner, WalkDone, NoConcurrentAccess
  <1>3. FifoExactlyOnce'
    BY DequesUnchanged
  <1> QED BY <1>1, <1>2, <1>3 DEF IInv

\* The walk begins at the first item.
LEMMA UpdateSizeIInv == IInv /\ UpdateSize => IInv'
  <1> SUFFICES ASSUME IInv, UpdateSize PROVE IInv'
    OBVIOUS
  <1> USE QueueAssumption DEF UpdateSize, Goto, dequeVars
  <1>1. TypeOK'
    BY DEF IInv, TypeOK, Threads, IoPc, GamePc
  <1>2. LockOwner' /\ WalkDone' /\ NoConcurrentAccess'
    BY DEF IInv, TypeOK, Threads, LockOwner, WalkDone, NoConcurrentAccess
  <1>3. FifoExactlyOnce'
    BY DequesUnchanged
  <1> QED BY <1>1, <1>2, <1>3 DEF IInv

\* One turn of the loop: WalkOne.
LEMMA UpdateItemIInv == IInv /\ UpdateItem => IInv'
  <1> SUFFICES ASSUME IInv, UpdateItem PROVE IInv'
    OBVIOUS
  <1> USE QueueAssumption DEF UpdateItem, Goto
  <1>1. /\ handled \in Seq(NetPacket)
        /\ deque[m_pDispathQueue] \in Seq(NetPacket)
        /\ deque[m_pRecvDataQueue] \in Seq(NetPacket)
        /\ Iter \in 1 .. Len(deque[m_pDispathQueue])
    BY DEF IInv, TypeOK
  <1>2. PICK a \in Seq(NetPacket), b \in Seq(NetPacket), c \in Seq(NetPacket) :
            a = handled /\ b = deque[m_pDispathQueue] /\ c = deque[m_pRecvDataQueue]
    BY <1>1
  <1>3. Iter \in 1 .. Len(b) /\ b[Iter] \in NetPacket
    BY <1>1, <1>2
  <1>4. TypeOK'
    BY <1>2, <1>3 DEF IInv, TypeOK, Threads, IoPc, GamePc
  <1>5. LockOwner' /\ WalkDone' /\ NoConcurrentAccess'
    BY DEF IInv, TypeOK, Threads, LockOwner, WalkDone, NoConcurrentAccess
  <1>6. FifoExactlyOnce'
    <2> HIDE DEF UpdateItem
    <2>1. \A i \in 1 .. Len(b) : a \o (SubSeq(b, i, Len(b)) \o c)
            = Append(a, b[i]) \o (SubSeq(b, i + 1, Len(b)) \o c)
      BY WalkOne
    <2>2. a \o (SubSeq(b, Iter, Len(b)) \o c)
            = Append(a, b[Iter]) \o (SubSeq(b, Iter + 1, Len(b)) \o c)
      BY <1>3, <2>1
    <2> QED BY <1>2, <2>2 DEF UpdateItem, IInv, FifoExactlyOnce, InFlight, Unwalked
  <1> QED BY <1>4, <1>5, <1>6 DEF IInv

\* The walk has reached the end of the deque.
LEMMA UpdateEndIInv == IInv /\ UpdateEnd => IInv'
  <1> SUFFICES ASSUME IInv, UpdateEnd PROVE IInv'
    OBVIOUS
  <1> USE QueueAssumption DEF UpdateEnd, Goto, dequeVars
  <1>1. TypeOK'
    BY DEF IInv, TypeOK, Threads, IoPc, GamePc
  <1>2. LockOwner' /\ WalkDone' /\ NoConcurrentAccess'
    BY DEF IInv, TypeOK, Threads, LockOwner, WalkDone, NoConcurrentAccess
  <1>3. FifoExactlyOnce'
    BY DequesUnchanged
  <1> QED BY <1>1, <1>2, <1>3 DEF IInv

\* The clear: everything in the deque has been walked (WalkDone).
LEMMA UpdateClearIInv == IInv /\ UpdateClear => IInv'
  <1> SUFFICES ASSUME IInv, UpdateClear PROVE IInv'
    OBVIOUS
  <1> USE QueueAssumption DEF UpdateClear, Goto
  <1>1. /\ Iter = Len(deque[m_pDispathQueue]) + 1
        /\ deque[m_pDispathQueue] \in Seq(NetPacket)
        /\ deque[m_pRecvDataQueue] \in Seq(NetPacket)
        /\ m_pRecvDataQueue # m_pDispathQueue
        /\ deque'[m_pDispathQueue] = <<>>
        /\ deque'[m_pRecvDataQueue] = deque[m_pRecvDataQueue]
    BY DEF IInv, TypeOK, WalkDone, NoConcurrentAccess
  <1>2. TypeOK'
    BY <1>1 DEF IInv, TypeOK, Threads, IoPc, GamePc
  <1>3. LockOwner' /\ WalkDone' /\ NoConcurrentAccess'
    BY <1>1 DEF IInv, TypeOK, Threads, LockOwner, WalkDone, NoConcurrentAccess
  <1>4. Unwalked = <<>> /\ Unwalked' = <<>>
    BY <1>1 DEF Unwalked
  <1>5. InFlight' = InFlight
    BY <1>1, <1>4 DEF InFlight
  <1>6. FifoExactlyOnce'
    BY <1>5 DEF IInv, FifoExactlyOnce
  <1> QED BY <1>2, <1>3, <1>6 DEF IInv

-----------------------------------------------------------------------------
(* Every step, and the theorems.                                            *)

\* Every step preserves the invariant.
LEMMA NextIInv == IInv /\ [Next]_vars => IInv'
  <1> SUFFICES ASSUME IInv, [Next]_vars PROVE IInv'
    OBVIOUS
  <1>1. CASE \E t \in IoThreads, p \in NetPacket : OnPacket(t, p)
    BY <1>1, OnPacketIInv
  <1>2. CASE \E t \in IoThreads : IoStep(t)
    BY <1>2, IoLockIInv, IoPushBeginIInv, IoPushEndIInv, IoUnlockIInv DEF IoStep
  <1>3. CASE Update
    BY <1>3, UpdateLockIInv, UpdateSwapIInv, UpdateUnlockIInv, UpdateSizeIInv,
       UpdateItemIInv, UpdateEndIInv, UpdateClearIInv DEF Update
  <1>4. CASE UNCHANGED vars
    BY <1>4 DEF vars, IInv, TypeOK, LockOwner, WalkDone, NoConcurrentAccess,
                FifoExactlyOnce, InFlight, Unwalked
  <1> QED BY <1>1, <1>2, <1>3, <1>4 DEF Next

\* IInv is an invariant of the queue.
THEOREM InductiveInvariant == Spec => []IInv
  BY InitIInv, NextIInv, PTL DEF Spec

\* The deques, the lock and the iterator of CServiceBase keep their types: the
\* iterator of the unlocked walk stays inside the deque it walks.
THEOREM TypeCorrect == Spec => []TypeOK
  <1>1. IInv => TypeOK
    BY DEF IInv
  <1> QED BY <1>1, InductiveInvariant, PTL

\* No data race on the two deques, for any number of io threads.
THEOREM RaceFree == Spec => []NoConcurrentAccess
  <1>1. IInv => NoConcurrentAccess
    BY DEF IInv
  <1> QED BY <1>1, InductiveInvariant, PTL

\* Update processes what OnNewConnect, OnDataHandle and OnCloseConnect handed
\* over exactly once and in order, for any number of packets.
THEOREM FifoDelivery == Spec => []FifoExactlyOnce
  <1>1. IInv => FifoExactlyOnce
    BY DEF IInv
  <1> QED BY <1>1, InductiveInvariant, PTL
-----------------------------------------------------------------------------
(* The refinement of ServiceChannel, step by step.                          *)

\* The end of a push_back puts a packet into the channel.
LEMMA IoPushEndPuts ==
    ASSUME IInv, NEW t \in IoThreads, IoPushEnd(t)
    PROVE  Channel!ChannelNext
  <1>1. /\ packet[t] \in NetPacket
        /\ deque'[m_pDispathQueue] = deque[m_pDispathQueue]
        /\ deque'[m_pRecvDataQueue] = Append(deque[m_pRecvDataQueue], packet[t])
        /\ UNCHANGED <<m_pRecvDataQueue, m_pDispathQueue, Iter, handled>>
    BY DEF IInv, TypeOK, NoConcurrentAccess, IoPushEnd
  <1>2. Unwalked \in Seq(NetPacket) /\ deque[m_pRecvDataQueue] \in Seq(NetPacket)
    BY DEF IInv, TypeOK, Unwalked
  <1>3. PICK u \in Seq(NetPacket), r \in Seq(NetPacket), e \in NetPacket :
            u = Unwalked /\ r = deque[m_pRecvDataQueue] /\ e = packet[t]
    BY <1>1, <1>2
  <1>4. u \o Append(r, e) = Append(u \o r, e)
    OBVIOUS
  <1>5. Unwalked' = u
    BY <1>1, <1>3 DEF Unwalked
  <1>6. InFlight' = Append(InFlight, e)
    BY <1>1, <1>3, <1>4, <1>5 DEF InFlight
  <1> QED BY <1>1, <1>6 DEF Channel!ChannelNext, Channel!Put

\* A turn of Update's loop takes the oldest packet of the channel.
LEMMA UpdateItemTakes ==
    ASSUME IInv, UpdateItem
    PROVE  Channel!ChannelNext
  <1>1. /\ deque[m_pDispathQueue] \in Seq(NetPacket)
        /\ deque[m_pRecvDataQueue] \in Seq(NetPacket)
        /\ Iter \in 1 .. Len(deque[m_pDispathQueue])
        /\ handled' = Append(handled, deque[m_pDispathQueue][Iter]) /\ Iter' = Iter + 1
        /\ UNCHANGED <<deque, m_pRecvDataQueue, m_pDispathQueue>>
    BY DEF IInv, TypeOK, UpdateItem
  <1>2. PICK b \in Seq(NetPacket), c \in Seq(NetPacket) :
            b = deque[m_pDispathQueue] /\ c = deque[m_pRecvDataQueue]
    BY <1>1
  <1>3. Iter \in 1 .. Len(b) /\ Len(b) \in Iter .. Len(b)
    BY <1>1, <1>2
  <1>4. SubSeq(b, Iter, Len(b)) = <<b[Iter]>> \o SubSeq(b, Iter + 1, Len(b))
    BY <1>3, SubSeqRecursiveFirst
  <1>5. b[Iter] \in NetPacket /\ SubSeq(b, Iter + 1, Len(b)) \in Seq(NetPacket)
    BY <1>3
  <1>6. PICK e \in NetPacket, y \in Seq(NetPacket) :
            e = b[Iter] /\ y = SubSeq(b, Iter + 1, Len(b))
    BY <1>5
  <1>7. (<<e>> \o y) \o c = <<e>> \o (y \o c) /\ y \o c \in Seq(NetPacket)
    BY ConcatAssociative
  <1>8. PICK z \in Seq(NetPacket) : z = y \o c
    BY <1>7
  <1>9. <<e>> \o z # <<>> /\ Head(<<e>> \o z) = e /\ Tail(<<e>> \o z) = z
    OBVIOUS
  <1>10. InFlight = <<e>> \o z
    BY <1>2, <1>4, <1>6, <1>7, <1>8 DEF InFlight, Unwalked
  <1>11. InFlight' = z
    BY <1>1, <1>2, <1>6, <1>8 DEF InFlight, Unwalked
  <1>12. handled' = Append(handled, e)
    BY <1>1, <1>2, <1>6
  <1> QED BY <1>9, <1>10, <1>11, <1>12 DEF Channel!ChannelNext, Channel!Take

\* The swap is no step of the channel: the walked deque is empty (WalkDone).
LEMMA UpdateSwapStutters ==
    ASSUME IInv, UpdateSwap
    PROVE  InFlight' = InFlight /\ handled' = handled
  <1>1. /\ Iter = 1 /\ deque[m_pDispathQueue] = <<>> /\ deque[m_pRecvDataQueue] \in Seq(NetPacket)
        /\ m_pRecvDataQueue' = m_pDispathQueue /\ m_pDispathQueue' = m_pRecvDataQueue
        /\ UNCHANGED <<deque, Iter, handled>>
    BY DEF IInv, TypeOK, WalkDone, UpdateSwap, Goto
  <1>2. PICK r \in Seq(NetPacket) : r = deque[m_pRecvDataQueue]
    BY <1>1
  <1>3. SubSeq(r, 1, Len(r)) = r /\ r \o <<>> = r /\ <<>> \o r = r
    OBVIOUS
  <1>4. Unwalked = <<>>
    BY <1>1 DEF Unwalked
  <1>5. InFlight = r
    BY <1>2, <1>3, <1>4 DEF InFlight
  <1>6. InFlight' = r
    BY <1>1, <1>2, <1>3 DEF InFlight, Unwalked
  <1> QED BY <1>1, <1>5, <1>6

\* Neither is the clear: the deque has been walked to its end.
LEMMA UpdateClearStutters ==
    ASSUME IInv, UpdateClear
    PROVE  InFlight' = InFlight /\ handled' = handled
  <1>1. /\ Iter = Len(deque[m_pDispathQueue]) + 1
        /\ deque[m_pDispathQueue] \in Seq(NetPacket)
        /\ m_pRecvDataQueue # m_pDispathQueue
        /\ deque'[m_pDispathQueue] = <<>>
        /\ deque'[m_pRecvDataQueue] = deque[m_pRecvDataQueue] /\ Iter' = 1
        /\ UNCHANGED <<m_pRecvDataQueue, m_pDispathQueue, handled>>
    BY DEF IInv, TypeOK, WalkDone, NoConcurrentAccess, UpdateClear, Goto
  <1>2. Unwalked = <<>> /\ Unwalked' = <<>>
    BY <1>1 DEF Unwalked
  <1> QED BY <1>1, <1>2 DEF InFlight

(***************************************************************************)
(* CServiceBase implements ServiceChannel, but for its liveness: the swap,  *)
(* the unlocked walk and the clear are together nothing but taking packets  *)
(* one by one from a single FIFO, for any number of io threads and packets. *)
(***************************************************************************)
THEOREM ChannelRefined == Spec => Channel!ChannelSafety
  <1>1. Init => Channel!ChannelInit
    BY DEF Init, Channel!ChannelInit, InFlight, Unwalked, Deques
  <1>2. IInv /\ [Next]_vars => [Channel!ChannelNext]_(Channel!channelVars)
    <2> SUFFICES ASSUME IInv, [Next]_vars
                 PROVE  Channel!ChannelNext \/ (InFlight' = InFlight /\ handled' = handled)
      BY DEF Channel!channelVars
    <2>1. CASE UNCHANGED dequeVars
      BY <2>1 DEF dequeVars, InFlight, Unwalked
    <2>2. ASSUME NEW t \in IoThreads, IoPushEnd(t) PROVE Channel!ChannelNext
      BY <2>2, IoPushEndPuts
    <2>3. CASE UpdateItem
      BY <2>3, UpdateItemTakes
    <2>4. CASE UpdateSwap
      BY <2>4, UpdateSwapStutters
    <2>5. CASE UpdateClear
      BY <2>5, UpdateClearStutters
    <2>6. \/ UNCHANGED dequeVars \/ \E t \in IoThreads : IoPushEnd(t)
          \/ UpdateItem \/ UpdateSwap \/ UpdateClear
      BY DEF Next, vars, dequeVars, OnPacket, IoStep, IoLock, IoPushBegin, IoUnlock,
             Update, UpdateLock, UpdateUnlock, UpdateSize, UpdateEnd
    <2> QED BY <2>1, <2>2, <2>3, <2>4, <2>5, <2>6
  <1> QED BY <1>1, <1>2, InductiveInvariant, PTL DEF Spec, Channel!ChannelSafety
=============================================================================
