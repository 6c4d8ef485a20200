--------------------------- MODULE GatewayProofs ---------------------------
(***************************************************************************)
(* Theorems about the session manager and about the whole server, for any   *)
(* number of sessions and of reads.                                         *)
(*                                                                         *)
(* First SessionPool alone.  The vector is only popped, so it always holds  *)
(* the sessions 1 .. k, and every session that is in use anywhere has a     *)
(* number above k.                                                          *)
(*                                                                         *)
(* Then Gateway.  Every step of the composition is a step of SessionPool,   *)
(* leaves its variables alone, or ends the process, so IInv carries over.   *)
(* EventOrder is not inductive: what a read handler has still to put comes  *)
(* after what is in the queue, so Ordered is about both, and Told ties the  *)
(* phase of every session to what the service has been, or will be, told    *)
(* of it.                                                                   *)
(***************************************************************************)
EXTENDS Gateway, SequenceTheorems, TLAPS

k == Len(m_NetSessionVector)

\* The vector holds 1 .. k.
VectorIsPrefix ==
    /\ k < nMaxCons
    /\ \A i \in 1 .. k : m_NetSessionVector[i] = i

\* Who is inside CreateNetSession holds the mutex.
Exclusive ==
    \A t \in Threads : pc[t] \in {"size", "insert", "pop", "unlock"} => m_GetSessionMutex = t

\* What the local variable holds at each point of CreateNetSession.
Locals ==
    \A t \in Threads :
        /\ pc[t] \in {"idle", "lock", "size"} => CNetSession_[t] = nullptr
        /\ pc[t] \in {"insert", "pop"} => k > 0 /\ CNetSession_[t] = k
        /\ pc[t] = "unlock" => CNetSession_[t] > k
        /\ pc[t] = "return" => CNetSession_[t] = nullptr \/ CNetSession_[t] > k

\* Sessions in use have numbers above k.
AboveK ==
    /\ accepting = nullptr \/ accepting > k
    /\ \A s \in connecting \cup received : s > k

\* No session has two uses.
Apart ==
    /\ \A t \in Threads : InHand(t) \cap ({accepting} \cup connecting \cup received) = {}
    /\ InHand("io") \cap InHand("game") = {}
    /\ accepting \notin connecting \cup received
    /\ connecting \cap received = {}

\* OnNewConnect has been called once for every session that was received from.
Announced ==
    /\ \A i \in DOMAIN newConnects : newConnects[i] \in received
    /\ \A i, j \in DOMAIN newConnects : newConnects[i] = newConnects[j] => i = j

\* All numbers above k are in the map, and the one about to be popped.
Online ==
    /\ \A s \in SessionIds : s > k => s \in m_OnlineNetSessionVector
    /\ \A t \in Threads : pc[t] = "pop" => k \in m_OnlineNetSessionVector

IInv == /\ TypeOK /\ VectorIsPrefix /\ Exclusive /\ Locals /\ AboveK /\ Apart
        /\ Announced /\ Online /\ LockedOnlyWhenEmpty /\ Listening

-----------------------------------------------------------------------------
\* k is a natural number.
LEMMA KNat == TypeOK => k \in Nat
  BY LenProperties DEF TypeOK, k

\* Session numbers, and the null pointer's 0, are integers.
LEMMA IdInt == \A s \in SessionIds \cup {nullptr} : s \in Int
  BY SessionAssumption DEF SessionIds, nullptr

\* No session has number 0.
LEMMA IdNotNull == \A s \in SessionIds : s \in Int /\ s # nullptr
  BY SessionAssumption DEF SessionIds, nullptr

-----------------------------------------------------------------------------
(* A session less in the vector.                                            *)

\* pop_back on a sequence of sessions.
LEMMA PopSeq ==
    \A v \in Seq(SessionIds) : Len(v) > 0 =>
        /\ SubSeq(v, 1, Len(v) - 1) \in Seq(SessionIds)
        /\ Len(SubSeq(v, 1, Len(v) - 1)) = Len(v) - 1
        /\ \A i \in 1 .. (Len(v) - 1) : SubSeq(v, 1, Len(v) - 1)[i] = v[i]
<1> SUFFICES ASSUME NEW v \in Seq(SessionIds), Len(v) > 0
             PROVE  /\ SubSeq(v, 1, Len(v) - 1) \in Seq(SessionIds)
                    /\ Len(SubSeq(v, 1, Len(v) - 1)) = Len(v) - 1
                    /\ \A i \in 1 .. (Len(v) - 1) : SubSeq(v, 1, Len(v) - 1)[i] = v[i]
  OBVIOUS
<1> PICK n \in Nat : n = Len(v) - 1
  OBVIOUS
<1> QED
  OBVIOUS

\* pop_back leaves the sessions 1 .. k - 1.
LEMMA PopVector ==
    ASSUME TypeOK, VectorIsPrefix, NEW t \in Threads, Pop(t), k > 0
    PROVE  /\ m_NetSessionVector' \in Seq(SessionIds)
           /\ k' = k - 1
           /\ VectorIsPrefix'
<1>1. /\ m_NetSessionVector \in Seq(SessionIds)
      /\ m_NetSessionVector' = SubSeq(m_NetSessionVector, 1, Len(m_NetSessionVector) - 1)
  BY DEF TypeOK, Pop
<1>2. k \in Nat
  BY <1>1 DEF k
<1>3. /\ m_NetSessionVector' \in Seq(SessionIds)
      /\ Len(m_NetSessionVector') = k - 1
      /\ \A i \in 1 .. (k - 1) : m_NetSessionVector'[i] = m_NetSessionVector[i]
  BY <1>1, <1>2, PopSeq DEF k
<1> QED
  BY <1>2, <1>3, SessionAssumption DEF VectorIsPrefix, k

\* OnNewConnect for a session that was not announced before.
LEMMA AppendConnects ==
    ASSUME TypeOK, Announced, NEW s \in SessionIds, s \notin received, Connected(s)
    PROVE  newConnects' \in Seq(SessionIds) /\ Announced'
<1>1. /\ newConnects \in Seq(SessionIds)
      /\ newConnects' = Append(newConnects, s)
      /\ received' = received \cup {s}
  BY DEF TypeOK, Connected
<1>2. /\ newConnects' \in Seq(SessionIds)
      /\ DOMAIN newConnects' = 1 .. Len(newConnects) + 1
      /\ DOMAIN newConnects = 1 .. Len(newConnects)
      /\ Len(newConnects) \in Nat
      /\ newConnects'[Len(newConnects) + 1] = s
      /\ \A i \in 1 .. Len(newConnects) : newConnects'[i] = newConnects[i]
  BY <1>1, AppendProperties
<1>3. \A i \in DOMAIN newConnects' : i \in DOMAIN newConnects \/ i = Len(newConnects) + 1
  BY <1>2
<1> QED
  BY <1>1, <1>2, <1>3 DEF Announced

-----------------------------------------------------------------------------
(* CreateNetSession preserves the invariant.                                *)

\* The mutex is free, so nobody else is inside.
LEMMA LockStep ==
    ASSUME IInv, NEW t \in Threads, Lock(t)
    PROVE  IInv'
<1>1. k' = k /\ m_NetSessionVector' = m_NetSessionVector
  BY DEF k, Lock
<1>2. TypeOK'
  BY <1>1 DEF IInv, TypeOK, Threads, nullptr, Lock
<1>3. Exclusive'
  BY <1>1 DEF IInv, TypeOK, Exclusive, Threads, nullptr, Lock
<1>4. Locals'
  BY <1>1 DEF IInv, TypeOK, VectorIsPrefix, Exclusive, Locals, Threads, nullptr, Lock
<1>5. Apart'
  BY <1>1 DEF IInv, TypeOK, Locals, AboveK, Apart, InHand, Threads, nullptr, Lock
<1>6. Online'
  BY <1>1 DEF IInv, TypeOK, Online, Threads, nullptr, Lock
<1>7. LockedOnlyWhenEmpty'
  BY <1>1 DEF IInv, TypeOK, LockedOnlyWhenEmpty, Threads, nullptr, Lock
<1>8. Listening'
  BY <1>1 DEF IInv, TypeOK, Listening, Threads, nullptr, Lock
<1>9. VectorIsPrefix' /\ AboveK' /\ Announced'
  BY <1>1 DEF IInv, VectorIsPrefix, AboveK, Announced, Lock
<1> QED
  BY <1>2, <1>3, <1>4, <1>5, <1>6, <1>7, <1>8, <1>9 DEF IInv

\* The call that keeps the mutex has seen an empty vector.
LEMMA EmptyStep ==
    ASSUME IInv, NEW t \in Threads, Empty(t)
    PROVE  IInv'
<1>1. k' = k /\ m_NetSessionVector' = m_NetSessionVector
  BY DEF k, Empty, pool
<1>2. TypeOK'
  BY <1>1 DEF IInv, TypeOK, Threads, nullptr, Empty, pool
<1>3. Exclusive'
  BY <1>1 DEF IInv, TypeOK, Exclusive, Threads, nullptr, Empty, pool
<1>4. Locals'
  BY <1>1 DEF IInv, TypeOK, VectorIsPrefix, Exclusive, Locals, Threads, nullptr, Empty, pool
<1>5. Apart'
  BY <1>1 DEF IInv, TypeOK, Locals, AboveK, Apart, InHand, Threads, nullptr, Empty, pool
<1>6. Online'
  BY <1>1 DEF IInv, TypeOK, Online, Threads, nullptr, Empty, pool
<1>7. LockedOnlyWhenEmpty'
  <2>1. m_NetSessionVector \in Seq(SessionIds) /\ Len(m_NetSessionVector) <= 0
    BY DEF IInv, TypeOK, Empty
  <2>2. Len(m_NetSessionVector) = 0
    BY <2>1, LenProperties
  <2>3. m_NetSessionVector = <<>>
    BY <2>1, <2>2, EmptySeq
  <2> QED
    BY <1>1, <2>3 DEF IInv, LockedOnlyWhenEmpty
<1>8. Listening'
  BY <1>1 DEF IInv, TypeOK, Listening, Threads, nullptr, Empty, pool
<1>9. VectorIsPrefix' /\ AboveK' /\ Announced'
  BY <1>1 DEF IInv, VectorIsPrefix, AboveK, Announced, Empty, pool
<1> QED
  BY <1>2, <1>3, <1>4, <1>5, <1>6, <1>7, <1>8, <1>9 DEF IInv

\* The last session of the vector is number k.
LEMMA BackStep ==
    ASSUME IInv, NEW t \in Threads, Back(t)
    PROVE  IInv'
<1>1. k' = k /\ m_NetSessionVector' = m_NetSessionVector
  BY DEF k, Back, pool
<1>2. k \in SessionIds /\ CNetSession_' = [CNetSession_ EXCEPT ![t] = k]
  <2>1. k \in Nat /\ VectorIsPrefix
    BY KNat DEF IInv
  <2>2. k > 0 /\ CNetSession_' = [CNetSession_ EXCEPT ![t] = m_NetSessionVector[k]]
    BY DEF Back, k
  <2>3. k \in 1 .. k /\ k \in SessionIds
    BY <2>1, <2>2, SessionAssumption DEF VectorIsPrefix, SessionIds
  <2>4. m_NetSessionVector[k] = k
    BY <2>1, <2>3 DEF VectorIsPrefix
  <2> QED
    BY <2>2, <2>3, <2>4
<1>3. TypeOK'
  BY <1>1, <1>2 DEF IInv, TypeOK, Threads, nullptr, Back, pool
<1>4. Exclusive'
  BY <1>1 DEF IInv, TypeOK, Exclusive, Threads, nullptr, Back, pool
<1>5. Locals'
  <2>1. k \in Nat /\ k > 0
    BY <1>2, SessionAssumption DEF SessionIds
  <2> QED
    BY <1>1, <1>2, <2>1 DEF IInv, TypeOK, Exclusive, Locals, Threads, nullptr, Back
<1>6. Apart'
  BY <1>1 DEF IInv, TypeOK, Locals, AboveK, Apart, InHand, Threads, nullptr, Back, pool
<1>7. Online'
  BY <1>1 DEF IInv, TypeOK, Online, Threads, nullptr, Back, pool
<1>8. LockedOnlyWhenEmpty'
  BY <1>1 DEF IInv, TypeOK, LockedOnlyWhenEmpty, Threads, nullptr, Back, pool
<1>9. Listening'
  BY <1>1 DEF IInv, TypeOK, Listening, Threads, nullptr, Back, pool
<1>10. VectorIsPrefix' /\ AboveK' /\ Announced'
  BY <1>1 DEF IInv, VectorIsPrefix, AboveK, Announced, Back, pool
<1> QED
  BY <1>3, <1>4, <1>5, <1>6, <1>7, <1>8, <1>9, <1>10 DEF IInv

\* Number k enters the map while it is still in the vector.
LEMMA InsertStep ==
    ASSUME IInv, NEW t \in Threads, Insert(t)
    PROVE  IInv'
<1>1. k' = k /\ m_NetSessionVector' = m_NetSessionVector
  BY DEF k, Insert
<1>2. CNetSession_[t] \in SessionIds /\ CNetSession_[t] = k
  <2>1. k \in Nat /\ k > 0 /\ CNetSession_[t] = k /\ k < nMaxCons
    BY KNat DEF IInv, Locals, VectorIsPrefix, Insert
  <2> QED
    BY <2>1, SessionAssumption DEF SessionIds
<1>3. TypeOK'
  BY <1>1, <1>2 DEF IInv, TypeOK, Threads, nullptr, Insert
<1>4. Exclusive'
  BY <1>1 DEF IInv, TypeOK, Exclusive, Threads, nullptr, Insert
<1>5. Locals'
  BY <1>1 DEF IInv, TypeOK, VectorIsPrefix, Exclusive, Locals, Threads, nullptr, Insert
<1>6. Apart'
  BY <1>1 DEF IInv, TypeOK, Locals, AboveK, Apart, InHand, Threads, nullptr, Insert
<1>7. Online'
  BY <1>1, <1>2 DEF IInv, TypeOK, Online, Exclusive, Threads, Insert
<1>8. LockedOnlyWhenEmpty'
  BY <1>1 DEF IInv, TypeOK, LockedOnlyWhenEmpty, Threads, nullptr, Insert
<1>9. Listening'
  BY <1>1 DEF IInv, TypeOK, Listening, Threads, nullptr, Insert
<1>10. VectorIsPrefix' /\ AboveK' /\ Announced'
  BY <1>1 DEF IInv, VectorIsPrefix, AboveK, Announced, Insert
<1> QED
  BY <1>3, <1>4, <1>5, <1>6, <1>7, <1>8, <1>9, <1>10 DEF IInv

\* The mutex is released with the session above k.
LEMMA UnlockStep ==
    ASSUME IInv, NEW t \in Threads, Unlock(t)
    PROVE  IInv'
<1>1. k' = k /\ m_NetSessionVector' = m_NetSessionVector
  BY DEF k, Unlock
<1>2. TypeOK'
  BY <1>1 DEF IInv, TypeOK, Threads, nullptr, Unlock
<1>3. Exclusive'
  BY <1>1 DEF IInv, TypeOK, Exclusive, Threads, nullptr, Unlock
<1>4. Locals'
  BY <1>1 DEF IInv, TypeOK, VectorIsPrefix, Exclusive, Locals, Threads, nullptr, Unlock
<1>5. Apart'
  BY <1>1 DEF IInv, TypeOK, Locals, AboveK, Apart, InHand, Threads, nullptr, Unlock
<1>6. Online'
  BY <1>1 DEF IInv, TypeOK, Online, Threads, nullptr, Unlock
<1>7. LockedOnlyWhenEmpty'
  BY <1>1 DEF IInv, TypeOK, LockedOnlyWhenEmpty, Threads, nullptr, Unlock
<1>8. Listening'
  BY <1>1 DEF IInv, TypeOK, Listening, Threads, nullptr, Unlock
<1>9. VectorIsPrefix' /\ AboveK' /\ Announced'
  BY <1>1 DEF IInv, VectorIsPrefix, AboveK, Announced, Unlock
<1> QED
  BY <1>2, <1>3, <1>4, <1>5, <1>6, <1>7, <1>8, <1>9 DEF IInv

\* Number k leaves the vector and is in the hand of this thread only.
LEMMA PopStep ==
    ASSUME IInv, NEW t \in Threads, Pop(t)
    PROVE  IInv'
<1>1. k \in Nat /\ k > 0 /\ CNetSession_[t] = k
  BY KNat DEF IInv, Locals, Pop
<1>2. m_NetSessionVector' \in Seq(SessionIds) /\ k' = k - 1 /\ VectorIsPrefix'
  BY <1>1, PopVector DEF IInv
<1>3. TypeOK'
  BY <1>2 DEF IInv, TypeOK, Threads, Pop
<1>4. Exclusive'
  BY DEF IInv, TypeOK, Exclusive, Threads, Pop
<1>5. Locals'
  <2>1. \A u \in Threads : u # t => pc[u] \notin {"size", "insert", "pop", "unlock"}
    BY DEF IInv, Exclusive, Pop, Threads
  <2>2. \A u \in Threads : CNetSession_[u] \in Int
    BY IdInt DEF IInv, TypeOK
  <2>3. /\ CNetSession_' = CNetSession_ /\ pc'[t] = "unlock"
        /\ \A u \in Threads : u # t => pc'[u] = pc[u]
    BY DEF IInv, TypeOK, Pop
  <2> QED
    BY <1>1, <1>2, <2>1, <2>2, <2>3 DEF IInv, Locals
<1>6. AboveK'
  <2>1. accepting \in Int /\ \A s \in connecting \cup received : s \in Int
    BY IdInt DEF IInv, TypeOK
  <2> QED
    BY <1>1, <1>2, <2>1 DEF IInv, AboveK, Pop
<1>7. Apart'
  <2>1. InHand(t)' = {k}
    <3>1. pc'[t] = "unlock" /\ CNetSession_'[t] = k
      BY <1>1 DEF IInv, TypeOK, Pop
    <3>2. k # nullptr
      BY <1>1 DEF nullptr
    <3> QED
      BY <3>1, <3>2 DEF InHand
  <2>2. ASSUME NEW u \in Threads, u # t
        PROVE  InHand(u)' = InHand(u) /\ k \notin InHand(u)
    <3>1. pc'[u] = pc[u] /\ CNetSession_'[u] = CNetSession_[u]
      BY <2>2 DEF IInv, TypeOK, Pop
    <3>2. pc[u] # "unlock"
      BY <2>2 DEF IInv, Exclusive, Pop
    <3>3. pc[u] = "return" => CNetSession_[u] = nullptr \/ CNetSession_[u] > k
      BY DEF IInv, Locals
    <3> QED
      BY <1>1, <3>1, <3>2, <3>3 DEF InHand
  <2>3. k \notin {accepting} \cup connecting \cup received
    BY <1>1 DEF IInv, AboveK, nullptr
  <2>4. UNCHANGED <<accepting, connecting, received>>
    BY DEF Pop
  <2> QED
    BY <2>1, <2>2, <2>3, <2>4 DEF IInv, Apart, Threads
<1>8. Online'
  <2>1. k \in m_OnlineNetSessionVector
    BY DEF IInv, Online, Pop
  <2>2. \A s \in SessionIds : s > k' => s = k \/ s > k
    BY <1>1, <1>2, IdNotNull
  <2>3. \A u \in Threads : pc'[u] # "pop"
    BY DEF IInv, TypeOK, Exclusive, Threads, Pop
  <2> QED
    BY <2>1, <2>2, <2>3 DEF IInv, Online, Pop
<1>9. LockedOnlyWhenEmpty'
  BY DEF IInv, TypeOK, LockedOnlyWhenEmpty, Exclusive, Threads, Pop
<1>10. Announced' /\ Listening'
  BY DEF IInv, TypeOK, Announced, Listening, Threads, Pop
<1> QED
  BY <1>2, <1>3, <1>4, <1>5, <1>6, <1>7, <1>8, <1>9, <1>10 DEF IInv

-----------------------------------------------------------------------------
(* The handlers of the io thread and the calls of the game thread.          *)

\* The session that waited is connected and announced.
LEMMA HandleAcceptStep ==
    ASSUME IInv, HandleAccept
    PROVE  IInv'
<1>1. k' = k /\ m_NetSessionVector' = m_NetSessionVector
  BY DEF k, HandleAccept, Connected, pool
<1>2. accepting \in SessionIds /\ accepting \notin received
  BY DEF IInv, TypeOK, Apart, HandleAccept
<1>3. newConnects' \in Seq(SessionIds) /\ Announced'
  BY <1>2, AppendConnects DEF IInv, HandleAccept
<1>4. TypeOK'
  BY <1>1, <1>2, <1>3 DEF IInv, TypeOK, Threads, nullptr, HandleAccept, Connected, pool
<1>5. Exclusive'
  BY <1>1 DEF IInv, TypeOK, Exclusive, Threads, nullptr, HandleAccept, Connected, pool
<1>6. Locals'
  BY <1>1 DEF IInv, TypeOK, VectorIsPrefix, Exclusive, Locals, Threads, nullptr, HandleAccept,
     Connected, pool
<1>7. AboveK'
  BY <1>1 DEF IInv, TypeOK, Locals, AboveK, Threads, nullptr, HandleAccept, Connected, pool
<1>8. Apart'
  <2>1. \A t \in Threads : InHand(t)' = InHand(t) /\ nullptr \notin InHand(t)
    BY DEF IInv, TypeOK, InHand, Threads, HandleAccept
  <2>2. \A s \in connecting \cup received : s # nullptr
    BY IdNotNull DEF IInv, TypeOK
  <2>3. connecting' = connecting /\ received' = received \cup {accepting}
        /\ accepting' = nullptr /\ accepting # nullptr
    BY DEF HandleAccept, Connected
  <2> QED
    BY <2>1, <2>2, <2>3 DEF IInv, Apart, Threads
<1>9. Announced'
  BY <1>3
<1>10. Online'
  BY <1>1 DEF IInv, TypeOK, Online, Threads, nullptr, HandleAccept, Connected, pool
<1>11. LockedOnlyWhenEmpty'
  BY <1>1 DEF IInv, TypeOK, LockedOnlyWhenEmpty, Threads, nullptr, HandleAccept, Connected, pool
<1>12. Listening'
  BY <1>1 DEF IInv, TypeOK, Listening, Threads, nullptr, HandleAccept, Connected, pool
<1>13. VectorIsPrefix'
  BY <1>1 DEF IInv, VectorIsPrefix, HandleAccept, Connected, pool
<1> QED
  BY <1>4, <1>5, <1>6, <1>7, <1>8, <1>9, <1>10, <1>11, <1>12, <1>13 DEF IInv

\* The session that waited is lost.
LEMMA HandleAcceptErrorStep ==
    ASSUME IInv, HandleAcceptError
    PROVE  IInv'
<1>1. k' = k /\ m_NetSessionVector' = m_NetSessionVector
  BY DEF k, HandleAcceptError, pool
<1>2. TypeOK'
  BY <1>1 DEF IInv, TypeOK, Threads, nullptr, HandleAcceptError, pool
<1>3. AboveK'
  BY <1>1 DEF IInv, TypeOK, Locals, AboveK, Threads, nullptr, HandleAcceptError, pool
<1>4. Apart'
  <2>1. \A t \in Threads : InHand(t)' = InHand(t) /\ nullptr \notin InHand(t)
    BY DEF IInv, TypeOK, InHand, Threads, HandleAcceptError
  <2>2. \A s \in connecting \cup received : s # nullptr
    BY IdNotNull DEF IInv, TypeOK
  <2>3. connecting' = connecting /\ received' = received /\ accepting' = nullptr
    BY DEF HandleAcceptError
  <2> QED
    BY <2>1, <2>2, <2>3 DEF IInv, Apart, Threads
<1>5. Listening'
  BY <1>1 DEF IInv, TypeOK, Listening, Threads, nullptr, HandleAcceptError, pool
<1>6. VectorIsPrefix' /\ Exclusive' /\ Locals' /\ Announced' /\ Online' /\ LockedOnlyWhenEmpty'
  BY <1>1 DEF IInv, VectorIsPrefix, Exclusive, Locals, Announced, Online, LockedOnlyWhenEmpty,
     HandleAcceptError, pool
<1> QED
  BY <1>2, <1>3, <1>4, <1>5, <1>6 DEF IInv

\* The session in hand becomes the one that waits.
LEMMA WaitForConnetStep ==
    ASSUME IInv, WaitForConnet
    PROVE  IInv'
<1>1. k' = k /\ m_NetSessionVector' = m_NetSessionVector
  BY DEF k, WaitForConnet, pool
<1>2. TypeOK'
  BY <1>1 DEF IInv, TypeOK, Threads, nullptr, WaitForConnet, pool
<1>3. Exclusive'
  BY <1>1 DEF IInv, TypeOK, Exclusive, Threads, nullptr, WaitForConnet, pool
<1>4. Locals'
  BY <1>1 DEF IInv, TypeOK, VectorIsPrefix, Exclusive, Locals, Threads, nullptr, WaitForConnet,
     pool
<1>5. AboveK'
  BY <1>1 DEF IInv, TypeOK, Locals, AboveK, Threads, nullptr, WaitForConnet, pool
<1>6. Apart'
  <2>1. PICK s \in SessionIds : s = CNetSession_["io"]
    BY DEF IInv, TypeOK, Threads, WaitForConnet
  <2>2. /\ InHand("io") = {s} /\ InHand("io")' = {} /\ InHand("game")' = InHand("game")
        /\ accepting' = s /\ connecting' = connecting /\ received' = received
    BY <2>1 DEF IInv, TypeOK, InHand, Threads, nullptr, WaitForConnet
  <2> HIDE DEF InHand
  <2> QED
    BY <2>2 DEF IInv, Apart, Threads
<1>7. Online'
  BY <1>1 DEF IInv, TypeOK, Online, Threads, nullptr, WaitForConnet, pool
<1>8. LockedOnlyWhenEmpty'
  BY <1>1 DEF IInv, TypeOK, LockedOnlyWhenEmpty, Threads, nullptr, WaitForConnet, pool
<1>9. Listening'
  BY <1>1 DEF IInv, TypeOK, Listening, Threads, nullptr, WaitForConnet, pool
<1>10. VectorIsPrefix' /\ Announced'
  BY <1>1 DEF IInv, VectorIsPrefix, Announced, WaitForConnet, pool
<1> QED
  BY <1>2, <1>3, <1>4, <1>5, <1>6, <1>7, <1>8, <1>9, <1>10 DEF IInv

\* There is no session to wait with.
LEMMA WaitForConnetFailsStep ==
    ASSUME IInv, WaitForConnetFails
    PROVE  IInv'
<1>1. k' = k /\ m_NetSessionVector' = m_NetSessionVector
  BY DEF k, WaitForConnetFails, pool
<1>2. TypeOK'
  BY <1>1 DEF IInv, TypeOK, Threads, nullptr, WaitForConnetFails, pool
<1>3. Exclusive'
  BY <1>1 DEF IInv, TypeOK, Exclusive, Threads, nullptr, WaitForConnetFails, pool
<1>4. Locals'
  BY <1>1 DEF IInv, TypeOK, VectorIsPrefix, Exclusive, Locals, Threads, nullptr,
     WaitForConnetFails, pool
<1>5. Apart'
  BY <1>1 DEF IInv, TypeOK, Locals, AboveK, Apart, InHand, Threads, nullptr, WaitForConnetFails,
     pool
<1>6. Online'
  BY <1>1 DEF IInv, TypeOK, Online, Threads, nullptr, WaitForConnetFails, pool
<1>7. LockedOnlyWhenEmpty'
  BY <1>1 DEF IInv, TypeOK, LockedOnlyWhenEmpty, Threads, nullptr, WaitForConnetFails, pool
<1>8. Listening'
  BY <1>1 DEF IInv, TypeOK, Listening, Threads, nullptr, WaitForConnetFails, pool
<1>9. VectorIsPrefix' /\ AboveK' /\ Announced'
  BY <1>1 DEF IInv, VectorIsPrefix, AboveK, Announced, WaitForConnetFails, pool
<1> QED
  BY <1>2, <1>3, <1>4, <1>5, <1>6, <1>7, <1>8, <1>9 DEF IInv

\* A connecting session is connected and announced.
LEMMA HandleConnectStep ==
    ASSUME IInv, NEW s \in SessionIds, HandleConnect(s)
    PROVE  IInv'
<1>1. k' = k /\ m_NetSessionVector' = m_NetSessionVector
  BY DEF k, HandleConnect, Connected, pool
<1>2. s \notin received
  BY DEF IInv, Apart, HandleConnect
<1>3. newConnects' \in Seq(SessionIds) /\ Announced'
  BY <1>2, AppendConnects DEF IInv, HandleConnect
<1>4. TypeOK'
  BY <1>1, <1>3 DEF IInv, TypeOK, Threads, nullptr, HandleConnect, Connected, pool
<1>5. AboveK'
  BY <1>1 DEF IInv, TypeOK, Locals, AboveK, Threads, nullptr, HandleConnect, Connected, pool
<1>6. Apart'
  BY <1>1 DEF IInv, TypeOK, Locals, AboveK, Apart, InHand, Threads, nullptr, HandleConnect,
     Connected, pool
<1>7. Announced'
  BY <1>3
<1>8. VectorIsPrefix' /\ Exclusive' /\ Locals' /\ Online' /\ LockedOnlyWhenEmpty' /\ Listening'
  BY <1>1 DEF IInv, VectorIsPrefix, Exclusive, Locals, Online, LockedOnlyWhenEmpty, Listening,
     HandleConnect, Connected, pool
<1> QED
  BY <1>4, <1>5, <1>6, <1>7, <1>8 DEF IInv

\* A connecting session is lost.
LEMMA HandleConnectErrorStep ==
    ASSUME IInv, NEW s \in SessionIds, HandleConnectError(s)
    PROVE  IInv'
<1>1. k' = k /\ m_NetSessionVector' = m_NetSessionVector
  BY DEF k, HandleConnectError, pool
<1>2. TypeOK'
  BY <1>1 DEF IInv, TypeOK, Threads, nullptr, HandleConnectError, pool
<1>3. AboveK'
  BY <1>1 DEF IInv, TypeOK, Locals, AboveK, Threads, nullptr, HandleConnectError, pool
<1>4. Apart'
  BY <1>1 DEF IInv, TypeOK, Locals, AboveK, Apart, InHand, Threads, nullptr, HandleConnectError,
     pool
<1>5. VectorIsPrefix' /\ Exclusive' /\ Locals' /\ Announced' /\ Online' /\ LockedOnlyWhenEmpty'
       /\ Listening'
  BY <1>1 DEF IInv, VectorIsPrefix, Exclusive, Locals, Announced, Online, LockedOnlyWhenEmpty,
     Listening, HandleConnectError, pool
<1> QED
  BY <1>2, <1>3, <1>4, <1>5 DEF IInv

\* The game thread asks for the mutex.
LEMMA ConnectTo_AsyncStep ==
    ASSUME IInv, ConnectTo_Async
    PROVE  IInv'
<1>1. k' = k /\ m_NetSessionVector' = m_NetSessionVector
  BY DEF k, ConnectTo_Async, pool
<1>2. TypeOK'
  BY <1>1 DEF IInv, TypeOK, Threads, nullptr, ConnectTo_Async, pool
<1>3. Exclusive'
  BY <1>1 DEF IInv, TypeOK, Exclusive, Threads, nullptr, ConnectTo_Async, pool
<1>4. Locals'
  BY <1>1 DEF IInv, TypeOK, VectorIsPrefix, Exclusive, Locals, Threads, nullptr,
     ConnectTo_Async, pool
<1>5. Apart'
  BY <1>1 DEF IInv, TypeOK, Locals, AboveK, Apart, InHand, Threads, nullptr, ConnectTo_Async,
     pool
<1>6. Online'
  BY <1>1 DEF IInv, TypeOK, Online, Threads, nullptr, ConnectTo_Async, pool
<1>7. LockedOnlyWhenEmpty'
  BY <1>1 DEF IInv, TypeOK, LockedOnlyWhenEmpty, Threads, nullptr, ConnectTo_Async, pool
<1>8. Listening'
  BY <1>1 DEF IInv, TypeOK, Listening, Threads, nullptr, ConnectTo_Async, pool
<1>9. VectorIsPrefix' /\ AboveK' /\ Announced'
  BY <1>1 DEF IInv, VectorIsPrefix, AboveK, Announced, ConnectTo_Async, pool
<1> QED
  BY <1>2, <1>3, <1>4, <1>5, <1>6, <1>7, <1>8, <1>9 DEF IInv

\* The session in hand becomes a connecting one.
LEMMA AsyncConnectStep ==
    ASSUME IInv, AsyncConnect
    PROVE  IInv'
<1>1. k' = k /\ m_NetSessionVector' = m_NetSessionVector
  BY DEF k, AsyncConnect, pool
<1>2. TypeOK'
  BY <1>1 DEF IInv, TypeOK, Threads, nullptr, AsyncConnect, pool
<1>3. Exclusive'
  BY <1>1 DEF IInv, TypeOK, Exclusive, Threads, nullptr, AsyncConnect, pool
<1>4. Locals'
  BY <1>1 DEF IInv, TypeOK, VectorIsPrefix, Exclusive, Locals, Threads, nullptr, AsyncConnect,
     pool
<1>5. AboveK'
  BY <1>1 DEF IInv, TypeOK, Locals, AboveK, Threads, nullptr, AsyncConnect, pool
<1>6. Apart'
  BY <1>1 DEF IInv, TypeOK, Locals, AboveK, Apart, InHand, Threads, nullptr, AsyncConnect, pool
<1>7. Online'
  BY <1>1 DEF IInv, TypeOK, Online, Threads, nullptr, AsyncConnect, pool
<1>8. LockedOnlyWhenEmpty'
  BY <1>1 DEF IInv, TypeOK, LockedOnlyWhenEmpty, Threads, nullptr, AsyncConnect, pool
<1>9. Listening'
  BY <1>1 DEF IInv, TypeOK, Listening, Threads, nullptr, AsyncConnect, pool
<1>10. VectorIsPrefix' /\ Announced'
  BY <1>1 DEF IInv, VectorIsPrefix, Announced, AsyncConnect, pool
<1> QED
  BY <1>2, <1>3, <1>4, <1>5, <1>6, <1>7, <1>8, <1>9, <1>10 DEF IInv

\* Nothing changes but that the process ends.
LEMMA ConnectDiesStep ==
    ASSUME IInv, ConnectDies
    PROVE  IInv'
<1>1. k' = k /\ m_NetSessionVector' = m_NetSessionVector
  BY DEF k, ConnectDies, pool
<1>2. TypeOK'
  BY <1>1 DEF IInv, TypeOK, Threads, nullptr, ConnectDies, pool
<1>3. VectorIsPrefix' /\ Exclusive' /\ Locals' /\ AboveK' /\ Apart' /\ Announced' /\ Online' /\
       LockedOnlyWhenEmpty' /\ Listening'
  BY <1>1 DEF IInv, VectorIsPrefix, Exclusive, Locals, AboveK, Apart, InHand, Announced, Online,
     LockedOnlyWhenEmpty, Listening, ConnectDies, pool
<1> QED
  BY <1>2, <1>3 DEF IInv

-----------------------------------------------------------------------------
(* The initial state, and every step.                                       *)

\* Start has taken the last session off the vector.
LEMMA InitIInv == Init => IInv
<1> SUFFICES ASSUME Init
             PROVE  IInv
  OBVIOUS
<1>1. /\ m_NetSessionVector \in Seq(SessionIds) /\ k = nMaxCons - 1
      /\ VectorIsPrefix
  <2>1. PICK n \in Nat : n = nMaxCons - 1
    BY SessionAssumption
  <2>2. m_NetSessionVector = [i \in 1 .. n |-> i]
    BY <2>1 DEF Init, SessionID
  <2>3. \A i \in 1 .. n : i \in SessionIds
    BY <2>1, SessionAssumption DEF SessionIds
  <2>4. m_NetSessionVector \in Seq(SessionIds) /\ Len(m_NetSessionVector) = n
    BY <2>2, <2>3
  <2> QED
    BY <2>1, <2>2, <2>4, SessionAssumption DEF k, VectorIsPrefix
<1>2. nMaxCons \in SessionIds /\ nMaxCons > 0
  BY SessionAssumption DEF SessionIds
<1>3. TypeOK
  <2>1. /\ newConnects \in Seq(SessionIds) /\ m_OnlineNetSessionVector \subseteq SessionIds
        /\ accepting \in SessionIds /\ CNetSession_ \in [Threads -> SessionIds \cup {nullptr}]
    BY <1>2 DEF Init, SessionID
  <2> QED
    BY <1>1, <2>1 DEF Init, SessionID, TypeOK, Threads
<1>4. AboveK
  BY <1>1, SessionAssumption DEF Init, SessionID, AboveK
<1>5. Online
  BY <1>1, SessionAssumption DEF Init, SessionID, Online, SessionIds, Threads
<1>6. Apart /\ Announced
  BY <1>2 DEF Init, SessionID, Apart, Announced, InHand, Threads
<1>7. Exclusive /\ Locals /\ LockedOnlyWhenEmpty /\ Listening
  BY <1>2 DEF Init, SessionID, Exclusive, Locals, LockedOnlyWhenEmpty, Listening, Threads, nullptr
<1> QED
  BY <1>1, <1>3, <1>4, <1>5, <1>6, <1>7 DEF IInv

\* One lemma per action of the two threads.
LEMMA NextIInv == IInv /\ [Next]_vars => IInv'
<1> SUFFICES ASSUME IInv, [Next]_vars
             PROVE  IInv'
  OBVIOUS
<1>1. ASSUME NEW t \in Threads, CreateNetSession(t)
      PROVE  IInv'
  BY <1>1, LockStep, EmptyStep, BackStep, InsertStep, PopStep, UnlockStep
     DEF CreateNetSession
<1>2. CASE IoStep
  BY <1>1, <1>2, HandleAcceptStep, HandleAcceptErrorStep, WaitForConnetStep,
     WaitForConnetFailsStep, HandleConnectStep, HandleConnectErrorStep DEF IoStep, Threads
<1>3. CASE GameStep
  BY <1>1, <1>3, ConnectTo_AsyncStep, AsyncConnectStep, ConnectDiesStep DEF GameStep, Threads
<1>4. CASE UNCHANGED vars
  BY <1>4 DEF vars, IInv, TypeOK, VectorIsPrefix, Exclusive, Locals, AboveK, Apart, InHand,
              Announced, Online, LockedOnlyWhenEmpty, Listening, k
<1> QED
  BY <1>2, <1>3, <1>4 DEF Next

-----------------------------------------------------------------------------
(* What the invariant says of the sessions.                                 *)

\* Sessions in use are above k and apart, those in the vector are not.
LEMMA UsedOnce == IInv => SessionUsedOnce
<1> SUFFICES ASSUME IInv
             PROVE  SessionUsedOnce
  OBVIOUS
<1>1. k \in Nat /\ DOMAIN m_NetSessionVector = 1 .. k
  BY KNat, LenProperties DEF IInv, TypeOK, k
<1>2. \A s \in Unused : s \in Nat /\ 0 < s /\ s <= k
  BY <1>1 DEF IInv, VectorIsPrefix, Unused
<1>3. \A i, j \in DOMAIN m_NetSessionVector :
          m_NetSessionVector[i] = m_NetSessionVector[j] => i = j
  BY <1>1 DEF IInv, VectorIsPrefix
<1>4. \A t \in Threads : \A s \in InHand(t) : s > k
  BY DEF IInv, Locals, InHand, nullptr
<1>5. \A s \in {accepting} \cup connecting \cup received : s = 0 \/ s > k
  BY DEF IInv, AboveK, nullptr
<1>6. Unused \cap (InHand("io") \cup InHand("game") \cup {accepting} \cup connecting
                   \cup received) = {}
  BY <1>1, <1>2, <1>4, <1>5 DEF Threads
<1> QED
  BY <1>3, <1>6 DEF IInv, Apart, Announced, SessionUsedOnce, Threads

\* Everything above k is in the map.
LEMMA KnownOnline == IInv => KnownIsOnline
<1> SUFFICES ASSUME IInv
             PROVE  KnownIsOnline
  OBVIOUS
<1>1. \A i \in DOMAIN newConnects : newConnects[i] \in received
  BY DEF IInv, Announced
<1>2. received \cup connecting \cup ({accepting} \ {nullptr}) \subseteq m_OnlineNetSessionVector
  BY DEF IInv, TypeOK, AboveK, Online
<1> QED
  BY <1>1, <1>2 DEF KnownIsOnline

-----------------------------------------------------------------------------
(* The theorems.                                                            *)

(***************************************************************************)
(* IInv is an invariant: the two threads that call CreateNetSession take   *)
(* the sessions off the vector one at a time, from the last to the first.   *)
(***************************************************************************)
THEOREM InductiveInvariant == Spec => []IInv
  BY InitIInv, NextIInv, PTL DEF Spec

(* The variables of the session manager and of the two threads keep their   *)
(* types: CreateNetSession reads back() of a vector that is not empty.       *)
THEOREM TypeCorrect == Spec => []TypeOK
<1>1. IInv => TypeOK
  BY DEF IInv
<1> QED
  BY <1>1, InductiveInvariant, PTL

(* No session CreateNetSession hands out is ever used twice.                *)
THEOREM EverySessionUsedOnce == Spec => []SessionUsedOnce
  BY UsedOnce, InductiveInvariant, PTL

(* The lookup of a session the service was told of finds it in the map.     *)
THEOREM KnownSessionsOnline == Spec => []KnownIsOnline
  BY KnownOnline, InductiveInvariant, PTL

(* The mutex of CreateNetSession is left locked only by a call that finds   *)
(* no session left.                                                         *)
THEOREM MutexLeakOnlyWhenEmpty == Spec => []LockedOnlyWhenEmpty
<1>1. IInv => LockedOnlyWhenEmpty
  BY DEF IInv
<1> QED
  BY <1>1, InductiveInvariant, PTL

(* One accept waits for clients until one fails or the sessions are used up. *)
THEOREM KeepsListening == Spec => []Listening
<1>1. IInv => Listening
  BY DEF IInv
<1> QED
  BY <1>1, InductiveInvariant, PTL

-----------------------------------------------------------------------------
(* The composition.                                                         *)

\* Everything put, and what the running handler is going to put.
AllEvents == Events \o toPut

Ordered(a) ==
    \A j \in DOMAIN a :
        /\ a[j].kind # "NEW" => \E i \in 1 .. (j - 1) : a[i] = Packet("NEW", a[j].conn)
        /\ \A i \in 1 .. (j - 1) : a[i].conn = a[j].conn => a[i].kind # "CLOSE" /\ a[j].kind # "NEW"

\* What a says of a session in phase ph.
ToldOf(a, s, ph) ==
    /\ ph = "none" => \A i \in DOMAIN a : a[i].conn # s
    /\ ph # "none" => \E i \in DOMAIN a : a[i] = Packet("NEW", s)
    /\ ph \in {"request", "frames"} => \A i \in DOMAIN a : a[i].conn = s => a[i].kind # "CLOSE"

Told == \A s \in SessionIds : ToldOf(AllEvents, s, phase[s])

\* DoReceive was called for every session that reads, or has read.
Begun == \A s \in SessionIds : phase[s] # "none" => s \in received

GInv == IInv /\ GatewayTypeOK /\ Begun /\ Ordered(AllEvents) /\ Told

-----------------------------------------------------------------------------
(* Packets, and sequences of them.                                          *)

\* The fields of a packet.
LEMMA PacketFacts ==
    \A kind \in {"NEW", "DATA", "CLOSE"}, s \in SessionIds :
        /\ Packet(kind, s) \in NetPackets
        /\ Packet(kind, s).kind = kind /\ Packet(kind, s).conn = s
  BY DEF Packet, NetPackets

\* A put appends to everything put.
LEMMA PutAppends ==
    \A h, p \in Seq(NetPackets), m \in NetPackets : h \o Append(p, m) = Append(h \o p, m)
  <1> SUFFICES ASSUME NEW h \in Seq(NetPackets), NEW p \in Seq(NetPackets), NEW m \in NetPackets
               PROVE  h \o Append(p, m) = Append(h \o p, m)
    OBVIOUS
  <1>1. <<m>> \in Seq(NetPackets) /\ h \o p \in Seq(NetPackets)
    OBVIOUS
  <1>2. Append(p, m) = p \o <<m>> /\ Append(h \o p, m) = (h \o p) \o <<m>>
    BY <1>1, AppendIsConcat
  <1>3. (h \o p) \o <<m>> = h \o (p \o <<m>>)
    BY <1>1, ConcatAssociative
  <1> QED BY <1>2, <1>3

\* Moving the first element of the second sequence to the end of the first.
LEMMA MoveHead ==
    \A h, p \in Seq(NetPackets) : p # <<>> => Append(h, Head(p)) \o Tail(p) = h \o p
  <1> SUFFICES ASSUME NEW h \in Seq(NetPackets), NEW p \in Seq(NetPackets), p # <<>>
               PROVE  Append(h, Head(p)) \o Tail(p) = h \o p
    OBVIOUS
  <1>1. Head(p) \in NetPackets /\ Tail(p) \in Seq(NetPackets) /\ p = <<Head(p)>> \o Tail(p)
    BY HeadTailProperties
  <1>2. PICK e \in NetPackets, t \in Seq(NetPackets) : e = Head(p) /\ t = Tail(p)
    BY <1>1
  <1>3. Append(h, e) = h \o <<e>> /\ <<e>> \in Seq(NetPackets)
    BY AppendIsConcat
  <1>4. (h \o <<e>>) \o t = h \o (<<e>> \o t)
    BY <1>3, ConcatAssociative
  <1> QED BY <1>1, <1>2, <1>3, <1>4

\* What an appended packet must satisfy.
LEMMA AppendOrdered ==
    ASSUME NEW a \in Seq(NetPackets), NEW m \in NetPackets, Ordered(a),
           m.kind # "NEW" => \E i \in DOMAIN a : a[i] = Packet("NEW", m.conn),
           \A i \in DOMAIN a : a[i].conn = m.conn => a[i].kind # "CLOSE" /\ m.kind # "NEW"
    PROVE  Ordered(Append(a, m))
  <1> DEFINE b == Append(a, m)
  <1>1. /\ DOMAIN b = 1 .. (Len(a) + 1) /\ DOMAIN a = 1 .. Len(a) /\ Len(a) \in Nat
        /\ b[Len(a) + 1] = m /\ \A i \in 1 .. Len(a) : b[i] = a[i]
    OBVIOUS
  <1> HIDE DEF b
  <1>2. ASSUME NEW j \in 1 .. Len(a)
        PROVE  /\ b[j].kind # "NEW" => \E i \in 1 .. (j - 1) : b[i] = Packet("NEW", b[j].conn)
               /\ \A i \in 1 .. (j - 1) : b[i].conn = b[j].conn => b[i].kind # "CLOSE" /\ b[j].kind # "NEW"
    <2>1. \A i \in 1 .. (j - 1) : i \in 1 .. Len(a) /\ b[i] = a[i]
      BY <1>1
    <2>2. b[j] = a[j] /\ j \in DOMAIN a
      BY <1>1
    <2> QED BY <2>1, <2>2 DEF Ordered
  <1>3. ASSUME NEW j \in DOMAIN b, j = Len(a) + 1
        PROVE  /\ b[j].kind # "NEW" => \E i \in 1 .. (j - 1) : b[i] = Packet("NEW", b[j].conn)
               /\ \A i \in 1 .. (j - 1) : b[i].conn = b[j].conn => b[i].kind # "CLOSE" /\ b[j].kind # "NEW"
    <2>1. b[j] = m /\ 1 .. (j - 1) = DOMAIN a
      BY <1>1, <1>3
    <2>2. \A i \in 1 .. (j - 1) : b[i] = a[i]
      BY <1>1, <2>1
    <2> QED BY <2>1, <2>2
  <1>4. \A j \in DOMAIN b : j \in 1 .. Len(a) \/ j = Len(a) + 1
    BY <1>1
  <1>5. Ordered(b)
    BY <1>2, <1>3, <1>4 DEF Ordered
  <1> QED BY <1>5 DEF b

\* An appended packet is the only one more.
LEMMA AppendToldOf ==
    ASSUME NEW a \in Seq(NetPackets), NEW m \in NetPackets, NEW s \in SessionIds, NEW ph, NEW new,
           ToldOf(a, s, ph),
           m.conn # s => new = ph,
           m.conn = s => /\ new # "none"
                         /\ ph # "none" \/ m = Packet("NEW", s)
                         /\ new \in {"request", "frames"} =>
                              m.kind # "CLOSE" /\ ph \in {"none", "request", "frames"}
    PROVE  ToldOf(Append(a, m), s, new)
  <1> DEFINE b == Append(a, m)
  <1>1. /\ DOMAIN b = 1 .. (Len(a) + 1) /\ DOMAIN a = 1 .. Len(a) /\ Len(a) \in Nat
        /\ b[Len(a) + 1] = m /\ \A i \in 1 .. Len(a) : b[i] = a[i]
    OBVIOUS
  <1> HIDE DEF b
  <1>2. \A i \in DOMAIN b : (i \in DOMAIN a /\ b[i] = a[i]) \/ b[i] = m
    BY <1>1
  <1>3. \A i \in DOMAIN a : i \in DOMAIN b /\ b[i] = a[i]
    BY <1>1
  <1>4. Len(a) + 1 \in DOMAIN b /\ b[Len(a) + 1] = m
    BY <1>1
  <1>5. ToldOf(b, s, new)
    BY <1>2, <1>3, <1>4 DEF ToldOf
  <1> QED BY <1>5 DEF b

\* The first part of an ordered sequence is ordered.
LEMMA PrefixOrdered ==
    ASSUME NEW a \in Seq(NetPackets), NEW b \in Seq(NetPackets), Ordered(a \o b)
    PROVE  Ordered(a)
  <1> DEFINE c == a \o b
  <1>1. /\ DOMAIN a = 1 .. Len(a) /\ Len(a) \in Nat
        /\ \A i \in 1 .. Len(a) : i \in DOMAIN c /\ c[i] = a[i]
    OBVIOUS
  <1> HIDE DEF c
  <1>2. Ordered(c)
    BY DEF c
  <1>3. ASSUME NEW j \in DOMAIN a
        PROVE  /\ a[j].kind # "NEW" => \E i \in 1 .. (j - 1) : a[i] = Packet("NEW", a[j].conn)
               /\ \A i \in 1 .. (j - 1) : a[i].conn = a[j].conn => a[i].kind # "CLOSE" /\ a[j].kind # "NEW"
    <2>1. \A i \in 1 .. (j - 1) : i \in 1 .. Len(a) /\ c[i] = a[i]
      BY <1>1
    <2>2. c[j] = a[j] /\ j \in DOMAIN c
      BY <1>1
    <2> QED BY <1>2, <2>1, <2>2 DEF Ordered
  <1> QED BY <1>3 DEF Ordered
-----------------------------------------------------------------------------
(* The initial state, and the steps.                                        *)

LEMMA GatewayInitGInv == GatewayInit => GInv
  <1> SUFFICES ASSUME GatewayInit PROVE GInv
    OBVIOUS
  <1>1. IInv
    BY InitIInv DEF GatewayInit
  <1>2. /\ handled = <<>> /\ pending = <<>> /\ toPut = <<>> /\ reads = 0
        /\ ioDone = FALSE /\ phase = [s \in SessionIds |-> "none"]
    BY DEF GatewayInit, Queue!ChannelInit
  <1>3. GatewayTypeOK
    <2>1. <<>> \in Seq(NetPackets) /\ 0 \in 0 .. MaxReads
      BY GatewayAssumption
    <2> QED BY <1>1, <1>2, <2>1 DEF GatewayTypeOK, IInv
  <1>4. AllEvents = <<>> /\ DOMAIN <<>> = {}
    BY <1>2 DEF AllEvents, Events
  <1>5. Ordered(AllEvents) /\ Told /\ Begun
    BY <1>2, <1>4 DEF Ordered, Told, ToldOf, Begun
  <1> QED BY <1>1, <1>3, <1>5 DEF GInv

\* The process ends: nothing else changes.
LEMMA DiesIInv ==
    ASSUME IInv, crashed' \in BOOLEAN,
           UNCHANGED <<m_GetSessionMutex, m_NetSessionVector, m_OnlineNetSessionVector, pc,
                       CNetSession_, accepting, connecting, received, newConnects, stopped>>
    PROVE  IInv'
  <1>1. TypeOK'
    BY DEF IInv, TypeOK
  <1> QED BY <1>1 DEF IInv, VectorIsPrefix, Exclusive, Locals, AboveK, Apart, InHand, Announced,
                      Online, LockedOnlyWhenEmpty, Listening, k

\* The sequences of events.
LEMMA EventsType ==
    ASSUME GInv
    PROVE  /\ handled \in Seq(NetPackets) /\ pending \in Seq(NetPackets) /\ toPut \in Seq(NetPackets)
           /\ Events \in Seq(NetPackets) /\ AllEvents \in Seq(NetPackets)
  <1>1. handled \in Seq(NetPackets) /\ pending \in Seq(NetPackets) /\ toPut \in Seq(NetPackets)
    BY DEF GInv, GatewayTypeOK
  <1>2. Events \in Seq(NetPackets)
    BY <1>1, ConcatProperties DEF Events
  <1>3. AllEvents \in Seq(NetPackets)
    BY <1>1, <1>2, ConcatProperties DEF AllEvents
  <1> QED BY <1>1, <1>2, <1>3

\* A handler that has nothing to put yet puts m.
LEMMA PutAll ==
    ASSUME GInv, NEW m \in NetPackets, toPut = <<>>, Queue!Put(m), UNCHANGED toPut
    PROVE  pending' \in Seq(NetPackets) /\ handled' = handled /\ AllEvents' = Append(AllEvents, m)
  <1>1. /\ handled \in Seq(NetPackets) /\ pending \in Seq(NetPackets)
        /\ pending' = Append(pending, m) /\ handled' = handled
    BY EventsType DEF Queue!Put
  <1>2. PICK h \in Seq(NetPackets), p \in Seq(NetPackets) : h = handled /\ p = pending
    BY <1>1
  <1>3. Append(p, m) \in Seq(NetPackets)
    OBVIOUS
  <1>4. h \o p \in Seq(NetPackets) /\ h \o Append(p, m) \in Seq(NetPackets)
    BY <1>3, ConcatProperties
  <1>5. (h \o p) \o <<>> = h \o p /\ (h \o Append(p, m)) \o <<>> = h \o Append(p, m)
    BY <1>4, ConcatEmptySeq
  <1>6. h \o Append(p, m) = Append(h \o p, m)
    BY PutAppends
  <1> QED BY <1>1, <1>2, <1>3, <1>5, <1>6 DEF AllEvents, Events

\* OnNewConnect for a session of which nothing has been told.
LEMMA NewConnectGInv ==
    ASSUME GInv, IInv', NEW s \in SessionIds, NewConnect(s), toPut = <<>>, 
           s \notin received, s \in received', received \subseteq received'
    PROVE  GInv'
  <1>1. PICK m \in NetPackets : m = Packet("NEW", s) /\ m.kind = "NEW" /\ m.conn = s
    BY PacketFacts
  <1>2. /\ Queue!Put(m) /\ phase' = [phase EXCEPT ![s] = "request"]
        /\ UNCHANGED <<toPut, reads, ioDone>>
    BY <1>1 DEF NewConnect
  <1>3. pending' \in Seq(NetPackets) /\ handled' = handled /\ AllEvents' = Append(AllEvents, m)
    BY <1>2, PutAll
  <1>4. PICK a \in Seq(NetPackets) : a = AllEvents
    BY EventsType
  <1>5. phase[s] = "none" /\ phase \in [SessionIds -> {"none", "request", "frames", "closed", "gone"}]
    BY DEF GInv, Begun, GatewayTypeOK
  <1>6. Ordered(a) /\ \A t \in SessionIds : ToldOf(a, t, phase[t])
    BY <1>4 DEF GInv, Told
  <1>7. Ordered(Append(a, m))
    <2>1. \A i \in DOMAIN a : a[i].conn # s
      BY <1>5, <1>6 DEF ToldOf
    <2> QED BY <1>1, <1>6, <2>1, AppendOrdered
  <1>8. ASSUME NEW t \in SessionIds
        PROVE  ToldOf(Append(a, m), t, phase'[t])
    <2>1. CASE t = s
      <3>1. phase'[t] = "request" /\ phase[t] = "none"
        BY <1>2, <1>5, <2>1
      <3> QED BY <1>1, <1>6, <2>1, <3>1, AppendToldOf
    <2>2. CASE t # s
      <3>1. phase'[t] = phase[t]
        BY <1>2, <1>5, <2>2
      <3> QED BY <1>1, <1>6, <2>2, <3>1, AppendToldOf
    <2> QED BY <2>1, <2>2
  <1>9. Begun'
    BY <1>2, <1>5 DEF GInv, Begun
  <1>10. GatewayTypeOK'
    BY <1>2, <1>3, <1>5 DEF GInv, GatewayTypeOK, IInv
  <1> QED BY <1>3, <1>4, <1>7, <1>8, <1>9, <1>10 DEF GInv, Told
\* A read event appends to everything put and leaves the pool alone.
LEMMA TellGInv ==
    ASSUME GInv, NEW s \in SessionIds, Reading(s), UNCHANGED <<vars, ioDone>>, ~ioDone,
           NEW new \in {"frames", "closed"}, phase' = [phase EXCEPT ![s] = new],
           pending' \in Seq(NetPackets), toPut' \in Seq(NetPackets), handled' = handled,
           reads' \in 0 .. MaxReads,
           Ordered(AllEvents'), ToldOf(AllEvents', s, new),
           \A t \in SessionIds \ {s} : ToldOf(AllEvents', t, phase[t])
    PROVE  GInv'
  <1>1. phase \in [SessionIds -> {"none", "request", "frames", "closed", "gone"}] /\ phase[s] # "none"
    BY DEF GInv, GatewayTypeOK, Reading
  <1>2. phase'[s] = new /\ \A t \in SessionIds \ {s} : phase'[t] = phase[t]
    BY <1>1
  <1>3. IInv'
    BY NextIInv DEF GInv
  <1>4. GatewayTypeOK'
    BY <1>1, <1>3 DEF GInv, GatewayTypeOK, IInv
  <1>5. Told'
    BY <1>2 DEF Told
  <1>6. Begun'
    BY <1>1, <1>2 DEF GInv, Begun, vars
  <1> QED BY <1>3, <1>4, <1>5, <1>6 DEF GInv

\* What a packet of a session that reads does to the order and to the others.
LEMMA AppendRead ==
    ASSUME NEW a \in Seq(NetPackets), NEW s \in SessionIds, NEW ph \in {"request", "frames"},
           NEW kind \in {"DATA", "CLOSE"}, Ordered(a), ToldOf(a, s, ph)
    PROVE  /\ Append(a, Packet(kind, s)) \in Seq(NetPackets)
           /\ Ordered(Append(a, Packet(kind, s)))
           /\ ToldOf(Append(a, Packet(kind, s)), s, IF kind = "CLOSE" THEN "closed" ELSE ph)
           /\ \A t \in SessionIds \ {s} : \A q : ToldOf(a, t, q) => ToldOf(Append(a, Packet(kind, s)), t, q)
  <1>1. PICK m \in NetPackets : m = Packet(kind, s) /\ m.kind = kind /\ m.conn = s
    BY PacketFacts
  <1>2. Append(a, m) \in Seq(NetPackets)
    OBVIOUS
  <1>3. Ordered(Append(a, m))
    <2>1. \E i \in DOMAIN a : a[i] = Packet("NEW", s)
      BY DEF ToldOf
    <2>2. \A i \in DOMAIN a : a[i].conn = s => a[i].kind # "CLOSE"
      BY DEF ToldOf
    <2> QED BY <1>1, <2>1, <2>2, AppendOrdered
  <1>4. ToldOf(Append(a, m), s, IF kind = "CLOSE" THEN "closed" ELSE ph)
    <2>1. CASE kind = "CLOSE"
      <3>1. ToldOf(Append(a, m), s, "closed")
        BY <1>1, AppendToldOf
      <3> QED BY <2>1, <3>1
    <2>2. CASE kind = "DATA"
      <3>1. ToldOf(Append(a, m), s, ph)
        BY <1>1, <2>2, AppendToldOf
      <3> QED BY <2>2, <3>1
    <2> QED BY <2>1, <2>2
  <1>5. ASSUME NEW t \in SessionIds \ {s}, NEW q, ToldOf(a, t, q)
        PROVE  ToldOf(Append(a, m), t, q)
    BY <1>1, <1>5, AppendToldOf
  <1> QED BY <1>1, <1>2, <1>3, <1>4, <1>5

\* The request without a key.
LEMMA HandshakeRefusedGInv ==
    ASSUME GInv, NEW s \in SessionIds, HandshakeRefused(s)
    PROVE  GInv'
  <1>1. PICK m \in NetPackets : m = Packet("CLOSE", s)
    BY PacketFacts
  <1>2. /\ toPut = <<>> /\ ~ioDone /\ phase[s] = "request" /\ Queue!Put(m)
        /\ phase' = [phase EXCEPT ![s] = "closed"] /\ UNCHANGED <<vars, toPut, reads, ioDone>>
    BY <1>1 DEF HandshakeRefused, IoIdle, AfterClose
  <1>3. pending' \in Seq(NetPackets) /\ handled' = handled /\ AllEvents' = Append(AllEvents, m)
    BY <1>2, PutAll
  <1>4. PICK a \in Seq(NetPackets) : a = AllEvents /\ Ordered(a) /\ \A t \in SessionIds : ToldOf(a, t, phase[t])
    BY EventsType DEF GInv, Told
  <1>5. ToldOf(a, s, "request")
    BY <1>2, <1>4
  <1>6. /\ Ordered(Append(a, m)) /\ ToldOf(Append(a, m), s, "closed")
        /\ \A t \in SessionIds \ {s} : ToldOf(Append(a, m), t, phase[t])
    BY <1>1, <1>4, <1>5, AppendRead
  <1>7. toPut' \in Seq(NetPackets) /\ reads' \in 0 .. MaxReads /\ Reading(s)
    BY <1>2 DEF GInv, GatewayTypeOK, Reading
  <1> QED BY <1>2, <1>3, <1>4, <1>6, <1>7, TellGInv

\* The calls of a handler as packets of the session.
LEMMA OutcomesAre ==
    ASSUME NEW s, NEW d, NEW c, d = Packet("DATA", s), c = Packet("CLOSE", s)
    PROVE  Outcomes(s) = {<<d>>, <<d, d>>, <<c>>, <<d, c>>}
  <1> DEFINE Of(f) == [i \in DOMAIN f |-> Packet(f[i], s)]
  <1>1. Of(<<"DATA">>) = <<d>> /\ Of(<<"CLOSE">>) = <<c>>
    OBVIOUS
  <1>2. Of(<<"DATA", "DATA">>) = <<d, d>> /\ Of(<<"DATA", "CLOSE">>) = <<d, c>>
    OBVIOUS
  <1>3. HandlerCalls \ {<<>>} = {<<"DATA">>, <<"DATA", "DATA">>, <<"CLOSE">>, <<"DATA", "CLOSE">>}
    BY DEF HandlerCalls, DataCalls, CloseCalls
  <1>4. Outcomes(s) = {Of(f) : f \in HandlerCalls \ {<<>>}}
    BY DEF Outcomes
  <1> HIDE DEF Of
  <1> QED BY <1>1, <1>2, <1>3, <1>4

\* What a read event has to put.
LEMMA ExtractBufferGInv ==
    ASSUME GInv, NEW s \in SessionIds, NEW packets \in Outcomes(s), ExtractBuffer(s, packets)
    PROVE  GInv'
  <1>1. /\ toPut = <<>> /\ ~ioDone /\ phase[s] = "frames" /\ toPut' = packets
        /\ reads < MaxReads /\ reads' = reads + 1 /\ UNCHANGED <<vars, pending, handled, ioDone>>
        /\ phase' = IF Packet("CLOSE", s) \in {packets[i] : i \in DOMAIN packets}
                    THEN [phase EXCEPT ![s] = "closed"] ELSE phase
    BY DEF ExtractBuffer, IoIdle, AfterClose
  <1>2. PICK a \in Seq(NetPackets) : a = AllEvents /\ Ordered(a) /\ \A t \in SessionIds : ToldOf(a, t, phase[t])
    BY EventsType DEF GInv, Told
  <1>3. Events \in Seq(NetPackets) /\ Events' = Events
    BY <1>1, EventsType DEF Events
  <1>4. a = Events
    BY <1>1, <1>2, <1>3, ConcatEmptySeq DEF AllEvents
  <1>5. PICK d \in NetPackets, c \in NetPackets : /\ d = Packet("DATA", s) /\ c = Packet("CLOSE", s)
                                                  /\ d # c
    <2>1. Packet("DATA", s) # Packet("CLOSE", s)
      BY DEF Packet
    <2> QED BY <2>1, PacketFacts
  <1>6. pending' \in Seq(NetPackets) /\ reads' \in 0 .. MaxReads /\ Reading(s)
    BY <1>1, GatewayAssumption DEF GInv, GatewayTypeOK, Reading
  <1>7. ToldOf(a, s, "frames")
    BY <1>1, <1>2
  <1>8. phase \in [SessionIds -> {"none", "request", "frames", "closed", "gone"}]
    BY DEF GInv, GatewayTypeOK
  <1>9. phase = [phase EXCEPT ![s] = "frames"]
    BY <1>1, <1>8
  \* one packet, data or close
  <1>10. /\ Append(a, d) \in Seq(NetPackets) /\ Ordered(Append(a, d)) /\ ToldOf(Append(a, d), s, "frames")
         /\ \A t \in SessionIds \ {s} : ToldOf(Append(a, d), t, phase[t])
    BY <1>2, <1>5, <1>7, AppendRead
  <1>11. /\ Ordered(Append(a, c)) /\ ToldOf(Append(a, c), s, "closed")
         /\ \A t \in SessionIds \ {s} : ToldOf(Append(a, c), t, phase[t])
    BY <1>2, <1>5, <1>7, AppendRead
  <1>12. PICK b \in Seq(NetPackets) : b = Append(a, d)
    BY <1>10
  <1>13. /\ Ordered(Append(b, d)) /\ ToldOf(Append(b, d), s, "frames")
         /\ \A t \in SessionIds \ {s} : ToldOf(Append(b, d), t, phase[t])
    BY <1>5, <1>10, <1>12, AppendRead
  <1>14. /\ Ordered(Append(b, c)) /\ ToldOf(Append(b, c), s, "closed")
         /\ \A t \in SessionIds \ {s} : ToldOf(Append(b, c), t, phase[t])
    BY <1>5, <1>10, <1>12, AppendRead
  <1>15. AllEvents' = a \o packets
    BY <1>1, <1>3, <1>4 DEF AllEvents
  <1>16. /\ <<d>> \in Seq(NetPackets) /\ <<c>> \in Seq(NetPackets)
         /\ <<d, d>> \in Seq(NetPackets) /\ <<d, c>> \in Seq(NetPackets)
    OBVIOUS
  <1>17. /\ a \o <<d>> = Append(a, d) /\ a \o <<c>> = Append(a, c)
         /\ a \o <<d, d>> = Append(Append(a, d), d) /\ a \o <<d, c>> = Append(Append(a, d), c)
    OBVIOUS
  <1>18. CASE packets = <<d>>
    <2>1. {packets[i] : i \in DOMAIN packets} = {d}
      BY <1>18
    <2>2. phase' = [phase EXCEPT ![s] = "frames"]
      BY <1>1, <1>5, <1>9, <2>1
    <2> QED BY <1>1, <1>6, <1>10, <1>15, <1>16, <1>17, <1>18, <2>2, TellGInv
  <1>19. CASE packets = <<d, d>>
    <2>1. {packets[i] : i \in DOMAIN packets} = {d}
      BY <1>19
    <2>2. phase' = [phase EXCEPT ![s] = "frames"]
      BY <1>1, <1>5, <1>9, <2>1
    <2> QED BY <1>1, <1>6, <1>12, <1>13, <1>15, <1>16, <1>17, <1>19, <2>2, TellGInv
  <1>20. CASE packets = <<c>>
    <2>1. c \in {packets[i] : i \in DOMAIN packets}
      BY <1>20
    <2>2. phase' = [phase EXCEPT ![s] = "closed"]
      BY <1>1, <1>5, <2>1
    <2> QED BY <1>1, <1>6, <1>11, <1>15, <1>16, <1>17, <1>20, <2>2, TellGInv
  <1>21. CASE packets = <<d, c>>
    <2>1. c \in {packets[i] : i \in DOMAIN packets}
      BY <1>21
    <2>2. phase' = [phase EXCEPT ![s] = "closed"]
      BY <1>1, <1>5, <2>1
    <2> QED BY <1>1, <1>6, <1>12, <1>14, <1>15, <1>16, <1>17, <1>21, <2>2, TellGInv
  <1> QED BY <1>5, <1>18, <1>19, <1>20, <1>21, OutcomesAre

\* The order of events does not change, and no session begins or is closed.
LEMMA SameEventsGInv ==
    ASSUME GInv, IInv', AllEvents' = AllEvents, received \subseteq received', Begun',
           GatewayTypeOK',
           \A s \in SessionIds : \/ phase'[s] = phase[s]
                                 \/ Reading(s) /\ phase'[s] \in {"frames", "gone"}
    PROVE  GInv'
  <1>1. \A s \in SessionIds : ToldOf(AllEvents, s, phase'[s])
    BY DEF GInv, Told, ToldOf, Reading
  <1>2. Told' /\ Ordered(AllEvents')
    BY <1>1 DEF GInv, Told
  <1> QED BY <1>2 DEF GInv

\* The handler goes on with what it has to put.
LEMMA PutNextGInv ==
    ASSUME GInv, PutNext
    PROVE  GInv'
  <1>1. /\ toPut # <<>> /\ pending' = Append(pending, Head(toPut)) /\ handled' = handled
        /\ toPut' = Tail(toPut) /\ UNCHANGED <<vars, phase, reads, ioDone>>
    BY DEF PutNext, Queue!Put
  <1>2. PICK h \in Seq(NetPackets), p \in Seq(NetPackets), q \in Seq(NetPackets) :
            h = handled /\ p = pending /\ q = toPut /\ q # <<>>
    BY <1>1, EventsType
  <1>3. Head(q) \in NetPackets /\ Tail(q) \in Seq(NetPackets)
    BY <1>2
  <1>4. PICK m \in NetPackets : m = Head(q)
    BY <1>3
  <1>5. h \o p \in Seq(NetPackets) /\ Append(p, m) \in Seq(NetPackets)
    BY ConcatProperties
  <1>6. Append(h \o p, m) \o Tail(q) = (h \o p) \o q
    BY <1>2, <1>4, <1>5, MoveHead
  <1>7. h \o Append(p, m) = Append(h \o p, m)
    BY PutAppends
  <1>8. AllEvents' = AllEvents
    BY <1>1, <1>2, <1>4, <1>6, <1>7 DEF AllEvents, Events
  <1>9. IInv'
    BY <1>1, NextIInv DEF GInv
  <1>10. GatewayTypeOK'
    BY <1>1, <1>2, <1>3, <1>4, <1>5, <1>9 DEF GInv, GatewayTypeOK, IInv
  <1>11. Begun' /\ received' = received
    BY <1>1 DEF GInv, Begun, Reading, vars
  <1> QED BY <1>1, <1>8, <1>9, <1>10, <1>11, SameEventsGInv

\* A turn of Update's loop.
LEMMA DispatchGInv ==
    ASSUME GInv, Dispatch
    PROVE  GInv'
  <1>1. /\ pending # <<>> /\ handled' = Append(handled, Head(pending)) /\ pending' = Tail(pending)
        /\ UNCHANGED <<vars, phase, toPut, reads, ioDone>>
    BY DEF Dispatch, Queue!Take
  <1>2. PICK h \in Seq(NetPackets), p \in Seq(NetPackets) : h = handled /\ p = pending /\ p # <<>>
    BY <1>1, EventsType
  <1>3. Head(p) \in NetPackets /\ Tail(p) \in Seq(NetPackets)
    BY <1>2
  <1>4. Append(h, Head(p)) \o Tail(p) = h \o p
    BY <1>2, MoveHead
  <1>5. AllEvents' = AllEvents
    BY <1>1, <1>2, <1>4 DEF AllEvents, Events
  <1>6. IInv'
    BY <1>1, NextIInv DEF GInv
  <1>7. Append(h, Head(p)) \in Seq(NetPackets)
    BY <1>3
  <1>8. GatewayTypeOK'
    BY <1>1, <1>2, <1>3, <1>6, <1>7 DEF GInv, GatewayTypeOK, IInv
  <1>9. Begun' /\ received' = received
    BY <1>1 DEF GInv, Begun, Reading, vars
  <1> QED BY <1>1, <1>5, <1>6, <1>8, <1>9, SameEventsGInv

\* The handshake is done, or the peer is gone: the events are the same.
LEMMA PhaseStepGInv ==
    ASSUME GInv, NEW s \in SessionIds, HandshakeDone(s) \/ ReadError(s)
    PROVE  GInv'
  <1>1. PICK new \in {"frames", "gone"} : phase' = [phase EXCEPT ![s] = new]
    BY DEF HandshakeDone, ReadError
  <1>2. /\ Reading(s) /\ ~ioDone /\ UNCHANGED <<vars, toPut, pending, handled, reads, ioDone>>
    BY DEF HandshakeDone, ReadError, Reading, IoIdle
  <1>3. phase \in [SessionIds -> {"none", "request", "frames", "closed", "gone"}]
    BY DEF GInv, GatewayTypeOK
  <1>4. phase'[s] = new /\ \A t \in SessionIds \ {s} : phase'[t] = phase[t]
    BY <1>1, <1>3
  <1>5. IInv' /\ received' = received /\ AllEvents' = AllEvents
    BY <1>2, NextIInv DEF GInv, vars, AllEvents, Events
  <1>6. GatewayTypeOK'
    BY <1>1, <1>2, <1>3, <1>5 DEF GInv, GatewayTypeOK, IInv
  <1>7. Begun'
    BY <1>2, <1>4, <1>5 DEF GInv, Begun, Reading
  <1> QED BY <1>2, <1>4, <1>5, <1>6, <1>7, SameEventsGInv

\* Steps of the pool the service does not see.
LEMMA PoolStepGInv ==
    ASSUME GInv, PoolIoStep \/ PoolGameStep
    PROVE  GInv'
  <1>1. UNCHANGED <<phase, toPut, pending, handled, reads, ioDone>>
    BY DEF PoolIoStep, PoolGameStep, connVars
  <1>2. Next
    BY DEF PoolIoStep, PoolGameStep, Next, IoStep
  <1>3. IInv'
    BY <1>2, NextIInv DEF GInv
  <1>4. received' = received
    BY DEF PoolIoStep, PoolGameStep, GameStep, CreateNetSession, Lock, Empty, Back, Insert, Pop, Unlock,
           HandleAcceptError, WaitForConnet, WaitForConnetFails, HandleConnectError,
           ConnectTo_Async, AsyncConnect, ConnectDies
  <1>5. GatewayTypeOK' /\ AllEvents' = AllEvents
    BY <1>1, <1>3 DEF GInv, GatewayTypeOK, IInv, AllEvents, Events
  <1>6. Begun'
    BY <1>1, <1>4 DEF GInv, Begun
  <1> QED BY <1>1, <1>3, <1>4, <1>5, <1>6, SameEventsGInv

\* run returns: the io thread ends and nothing else changes.
LEMMA IoServiceRunsGInv ==
    ASSUME GInv, IoServiceRuns
    PROVE  GInv'
  <1>1. ioDone' = TRUE /\ UNCHANGED <<vars, phase, toPut, pending, handled, reads>>
    BY DEF IoServiceRuns
  <1>2. IInv'
    BY <1>1, NextIInv DEF GInv
  <1>3. GatewayTypeOK' /\ AllEvents' = AllEvents /\ received' = received
    BY <1>1, <1>2 DEF GInv, GatewayTypeOK, IInv, AllEvents, Events, vars
  <1>4. Begun'
    BY <1>1, <1>3 DEF GInv, Begun
  <1> QED BY <1>1, <1>2, <1>3, <1>4, SameEventsGInv

\* A handler throws and the process ends.
LEMMA HandlerThrowsGInv ==
    ASSUME GInv, NEW s \in SessionIds, HandlerThrows(s)
    PROVE  GInv'
  <1>1. /\ UNCHANGED <<m_GetSessionMutex, m_NetSessionVector, m_OnlineNetSessionVector, pc,
                       CNetSession_, accepting, connecting, received, newConnects, stopped>>
        /\ UNCHANGED <<phase, toPut, pending, handled, reads, ioDone>> /\ crashed' \in BOOLEAN
    BY DEF HandlerThrows, connVars
  <1>2. IInv'
    BY <1>1, DiesIInv DEF GInv
  <1>3. GatewayTypeOK' /\ AllEvents' = AllEvents
    BY <1>1, <1>2 DEF GInv, GatewayTypeOK, IInv, AllEvents, Events
  <1>4. Begun'
    BY <1>1 DEF GInv, Begun, Reading
  <1> QED BY <1>1, <1>2, <1>3, <1>4, SameEventsGInv

\* The lookup changes nothing, or ends the process.
LEMMA GetNetSessionByIDGInv ==
    ASSUME GInv, NEW s \in SessionIds, GetNetSessionByID(s)
    PROVE  GInv'
  <1>1. /\ UNCHANGED <<m_GetSessionMutex, m_NetSessionVector, m_OnlineNetSessionVector, pc,
                       CNetSession_, accepting, connecting, received, newConnects, stopped>>
        /\ UNCHANGED <<phase, toPut, pending, handled, reads, ioDone>>
    BY DEF GetNetSessionByID
  <1>2. crashed' \in BOOLEAN
    BY DEF GetNetSessionByID
  <1>3. IInv'
    BY <1>1, <1>2, DiesIInv DEF GInv
  <1>4. GatewayTypeOK' /\ AllEvents' = AllEvents
    BY <1>1, <1>2, <1>3 DEF GInv, GatewayTypeOK, IInv, AllEvents, Events
  <1>5. Begun'
    BY <1>1 DEF GInv, Begun
  <1> QED BY <1>1, <1>3, <1>4, <1>5, SameEventsGInv

\* An accepted connection, or one the game thread asked for.
LEMMA ConnectedGInv ==
    ASSUME GInv, Accepted \/ \E s \in SessionIds : ConnectedTo(s)
    PROVE  GInv'
  <1>1. IInv'
    BY NextIInv DEF GInv, Accepted, ConnectedTo, Next, IoStep
  <1>2. CASE Accepted
    <2>1. accepting \in SessionIds /\ accepting \notin received
      BY <1>2 DEF Accepted, HandleAccept, GInv, IInv, TypeOK, Apart
    <2>2. received' = received \cup {accepting} /\ NewConnect(accepting) /\ toPut = <<>> /\ ~ioDone
      BY <1>2 DEF Accepted, HandleAccept, Connected, IoIdle
    <2> QED BY <1>1, <2>1, <2>2, NewConnectGInv
  <1>3. ASSUME NEW s \in SessionIds, ConnectedTo(s)
        PROVE  GInv'
    <2>1. s \notin received
      BY <1>3 DEF ConnectedTo, HandleConnect, GInv, IInv, Apart
    <2>2. received' = received \cup {s} /\ NewConnect(s) /\ toPut = <<>> /\ ~ioDone
      BY <1>3 DEF ConnectedTo, HandleConnect, Connected, IoIdle
    <2> QED BY <1>1, <2>1, <2>2, NewConnectGInv
  <1> QED BY <1>2, <1>3

LEMMA GatewayNextGInv == GInv /\ [GatewayNext]_gatewayVars => GInv'
  <1> SUFFICES ASSUME GInv, [GatewayNext]_gatewayVars PROVE GInv'
    OBVIOUS
  <1>1. CASE IoRuns
    BY <1>1, PoolStepGInv, ConnectedGInv, PutNextGInv, IoServiceRunsGInv, PhaseStepGInv,
       HandshakeRefusedGInv, HandlerThrowsGInv, ExtractBufferGInv DEF IoRuns
  <1>2. CASE GameRuns
    BY <1>2, PoolStepGInv, DispatchGInv, GetNetSessionByIDGInv DEF GameRuns
  <1>3. CASE UNCHANGED gatewayVars
    <2>1. UNCHANGED vars /\ UNCHANGED <<phase, toPut, pending, handled, reads, ioDone>>
      BY <1>3 DEF gatewayVars, connVars
    <2>2. IInv' /\ AllEvents' = AllEvents /\ received' = received
      BY <2>1, NextIInv DEF GInv, AllEvents, Events, vars
    <2>3. GatewayTypeOK' /\ Begun'
      BY <2>1, <2>2 DEF GInv, GatewayTypeOK, IInv, Begun, Reading, vars
    <2> QED BY <2>1, <2>2, <2>3, SameEventsGInv
  <1> QED BY <1>1, <1>2, <1>3 DEF GatewayNext

-----------------------------------------------------------------------------
(* The theorems.                                                            *)

(* GInv is an invariant of the composition.                                 *)
THEOREM GatewayInvariant == GatewaySpec => []GInv
  BY GatewayInitGInv, GatewayNextGInv, PTL DEF GatewaySpec

(* The queue, the sessions and the pool keep their types together.          *)
THEOREM GatewayTypeCorrect == GatewaySpec => []GatewayTypeOK
  <1>1. GInv => GatewayTypeOK
    BY DEF GInv
  <1> QED BY <1>1, GatewayInvariant, PTL

(***************************************************************************)
(* What was proved of the session pool alone holds in the whole server,     *)
(* where the io thread has other handlers to run, the game loop looks        *)
(* sessions up, and the process may die in any of them.                     *)
(***************************************************************************)
THEOREM PoolServes ==
    GatewaySpec => [](SessionUsedOnce /\ KnownIsOnline /\ LockedOnlyWhenEmpty /\ Listening)
  <1>1. GInv => SessionUsedOnce /\ KnownIsOnline /\ LockedOnlyWhenEmpty /\ Listening
    BY UsedOnce, KnownOnline DEF GInv, IInv
  <1> QED BY <1>1, GatewayInvariant, PTL

(***************************************************************************)
(* The service is told of every connection in the order new, data, close,   *)
(* for any number of sessions whose accepts, connects and reads interleave. *)
(***************************************************************************)
THEOREM EventsInOrder == GatewaySpec => []EventOrder
  <1>1. GInv => EventOrder
    <2> SUFFICES ASSUME GInv PROVE EventOrder
      OBVIOUS
    <2>1. PICK e \in Seq(NetPackets), t \in Seq(NetPackets) : e = Events /\ t = toPut
      BY EventsType
    <2>2. Ordered(e \o t)
      BY <2>1 DEF GInv, AllEvents
    <2>3. Ordered(e)
      BY <2>2, PrefixOrdered
    <2> QED BY <2>1, <2>3 DEF Ordered, EventOrder
  <1> QED BY <1>1, GatewayInvariant, PTL
=============================================================================
