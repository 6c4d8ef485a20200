-------------------------- MODULE BufferPoolProofs --------------------------
(***************************************************************************)
(* Theorems about BufferPool for any number of buffers, threads and         *)
(* references.  The inductive invariant adds to the type what ties the      *)
(* counts to the references held, and what every link says about the buffer *)
(* at its other end.                                                        *)
(***************************************************************************)
EXTENDS BufferPool, FiniteSetTheorems, TLAPS

\* The references to a buffer.
Refs(own, b) == {r \in References : own[r] = b}

\* m_dwRefCount is the number of references held.
RefsCounted == \A b \in Buffers : m_dwRefCount[b] = Cardinality(Refs(owner, b))

\* A thread inside ReleaseDataBuff holds the reference, and no other does.
ReleasingHeld ==
    \A t \in Threads : releasing[t] # NULL =>
        /\ owner[releasing[t]] # NULL
        /\ \A u \in Threads : releasing[u] = releasing[t] => u = t

BuffersCounted == m_dwBufferCount = Cardinality(Used)

\* The two ends of every link agree.
Links ==
    /\ m_pFreeList # NULL => m_pFreeList \notin Used /\ m_pPrev[m_pFreeList] = NULL
    /\ m_pUsedList # NULL => m_pUsedList \in Used
    /\ \A b \in Used :
        /\ m_pNext[b] # NULL => m_pNext[b] \in Used /\ m_pPrev[m_pNext[b]] = b
        /\ m_pPrev[b] # NULL => m_pPrev[b] \in Used /\ m_pNext[m_pPrev[b]] = b
        /\ (b = m_pUsedList) <=> (m_pPrev[b] = NULL)
    /\ \A b \in Buffers \ Used :
        m_pNext[b] # NULL => m_pNext[b] \notin Used /\ m_pPrev[m_pNext[b]] = b

\* No link leads to a buffer that does not exist.
Alive ==
    ~down => /\ Used \subseteq live
             /\ m_pFreeList # NULL => m_pFreeList \in live
             /\ \A b \in Buffers : /\ m_pNext[b] # NULL => m_pNext[b] \in live
                                   /\ b \notin live => m_pNext[b] = NULL

IInv == /\ TypeOK /\ RefsCounted /\ ReleasingHeld /\ BuffersCounted
        /\ Links /\ Alive /\ PoolClean

-----------------------------------------------------------------------------
(* A reference more, or less: what happens to the counts.                   *)

\* The references to a buffer are a finite set.
LEMMA RefsFinite ==
    ASSUME NEW own, NEW b
    PROVE  IsFiniteSet(Refs(own, b)) /\ Cardinality(Refs(own, b)) \in Nat
<1>1. Refs(own, b) \subseteq References
  BY DEF Refs
<1> QED
  BY <1>1, PoolAssumption, FS_Subset, FS_CardinalityType

\* Naming the buffer a reference is to adds one to the count of that buffer.
LEMMA RefAdded ==
    ASSUME NEW own \in [References -> Pointer], NEW r \in References, own[r] = NULL,
           NEW x \in Buffers, NEW b \in Buffers
    PROVE  Cardinality(Refs([own EXCEPT ![r] = x], b))
             = IF b = x THEN Cardinality(Refs(own, b)) + 1 ELSE Cardinality(Refs(own, b))
<1> DEFINE new == [own EXCEPT ![r] = x]
<1>1. CASE b = x
  <2>1. Refs(new, b) = Refs(own, b) \cup {r} /\ r \notin Refs(own, b)
    BY <1>1, PoolAssumption DEF Refs
  <2> QED
    BY <1>1, <2>1, RefsFinite, FS_AddElement
<1>2. CASE b # x
  <2>1. Refs(new, b) = Refs(own, b)
    BY <1>2, PoolAssumption DEF Refs
  <2> QED
    BY <1>2, <2>1
<1> QED
  BY <1>1, <1>2

\* Giving a reference up takes one from the count of its buffer.
LEMMA RefRemoved ==
    ASSUME NEW own \in [References -> Pointer], NEW r \in References, own[r] \in Buffers,
           NEW b \in Buffers
    PROVE  Cardinality(Refs([own EXCEPT ![r] = NULL], b))
             = IF b = own[r] THEN Cardinality(Refs(own, b)) - 1 ELSE Cardinality(Refs(own, b))
<1> DEFINE new == [own EXCEPT ![r] = NULL]
<1>1. CASE b = own[r]
  <2>1. Refs(new, b) = Refs(own, b) \ {r} /\ r \in Refs(own, b)
    BY <1>1, PoolAssumption DEF Refs
  <2> QED
    BY <1>1, <2>1, RefsFinite, FS_RemoveElement
<1>2. CASE b # own[r]
  <2>1. Refs(new, b) = Refs(own, b)
    BY <1>2, PoolAssumption DEF Refs
  <2> QED
    BY <1>2, <2>1
<1> QED
  BY <1>1, <1>2

\* The buffer a reference is to has a count above 0.
LEMMA RefPositive ==
    ASSUME TypeOK, RefsCounted, NEW r \in References, owner[r] # NULL
    PROVE  owner[r] \in Buffers /\ m_dwRefCount[owner[r]] > 0
<1>1. owner[r] \in Buffers
  BY DEF TypeOK, Pointer
<1>2. r \in Refs(owner, owner[r])
  BY DEF Refs
<1>3. Cardinality(Refs(owner, owner[r])) # 0
  BY <1>2, RefsFinite, FS_EmptySet
<1> QED
  BY <1>1, <1>3, RefsFinite DEF RefsCounted

\* Used is finite.
LEMMA UsedFinite == IsFiniteSet(Used) /\ Cardinality(Used) \in Nat
<1>1. Used \subseteq Buffers
  BY DEF Used
<1> QED
  BY <1>1, PoolAssumption, FS_Subset, FS_CardinalityType

-----------------------------------------------------------------------------
(* AllocDataBuff.                                                           *)

\* The counts when b leaves the unused buffers.
LEMMA PushUsedCounts ==
    ASSUME IInv, NEW r \in References, NEW b \in Buffers, NEW prev,
           owner[r] = NULL, b \notin Used, PushUsed(r, b, prev)
    PROVE  /\ RefsCounted' /\ BuffersCounted' /\ PoolClean' /\ ReleasingHeld'
           /\ Used' = Used \cup {b}
<1>1. m_dwRefCount[b] = 0
  BY DEF IInv, TypeOK, Used
<1>2. Used' = Used \cup {b}
  BY DEF IInv, TypeOK, Used, PushUsed
<1>3. RefsCounted'
  <2> SUFFICES ASSUME NEW c \in Buffers
               PROVE  m_dwRefCount'[c] = Cardinality(Refs(owner', c))
    BY DEF RefsCounted
  <2>1. Cardinality(Refs(owner', c))
          = IF c = b THEN Cardinality(Refs(owner, c)) + 1 ELSE Cardinality(Refs(owner, c))
    <3>1. owner' = [owner EXCEPT ![r] = b] /\ owner \in [References -> Pointer]
      BY DEF IInv, TypeOK, PushUsed
    <3> QED
      BY <3>1, RefAdded
  <2>2. m_dwRefCount'[c] = IF c = b THEN 1 ELSE m_dwRefCount[c]
    BY DEF IInv, TypeOK, PushUsed
  <2>3. m_dwRefCount[c] = Cardinality(Refs(owner, c))
    BY DEF IInv, RefsCounted
  <2> QED
    BY <1>1, <2>1, <2>2, <2>3
<1>4. BuffersCounted'
  BY <1>2, UsedFinite, FS_AddElement DEF IInv, BuffersCounted, PushUsed
<1>5. PoolClean'
  BY <1>2 DEF IInv, PoolClean, PushUsed
<1>6. ReleasingHeld'
  BY PoolAssumption DEF IInv, TypeOK, ReleasingHeld, PushUsed, Pointer
<1> QED
  BY <1>2, <1>3, <1>4, <1>5, <1>6

\* A new buffer is in no list, so no link leads to it.
LEMMA AllocNewStep ==
    ASSUME IInv, NEW r \in References, NEW b \in Buffers, AllocNew(r, b)
    PROVE  IInv'
<1>1. b \notin Used /\ owner[r] = NULL /\ ~down
  BY DEF IInv, Alive, AllocNew
<1>2. PushUsed(r, b, m_pPrev)
  BY DEF AllocNew
<1>3. /\ RefsCounted' /\ BuffersCounted' /\ PoolClean' /\ ReleasingHeld'
      /\ Used' = Used \cup {b}
  BY <1>1, <1>2, PushUsedCounts
<1>4. TypeOK'
  BY DEF IInv, TypeOK, AllocNew, PushUsed, Assign, Pointer
<1>5. Links'
  BY <1>1, <1>3, PoolAssumption
     DEF IInv, TypeOK, Pointer, Links, Alive, AllocNew, PushUsed, Assign
<1>6. Alive'
  BY <1>1, <1>3, PoolAssumption
     DEF IInv, TypeOK, Pointer, Links, Alive, AllocNew, PushUsed, Assign
<1> QED
  BY <1>3, <1>4, <1>5, <1>6 DEF IInv

\* The head of the free list moves to the used list; its successor becomes the head.
LEMMA AllocPooledStep ==
    ASSUME IInv, NEW r \in References, NEW b \in Buffers, AllocPooled(r, b)
    PROVE  IInv'
<1>1. b \notin Used /\ owner[r] = NULL /\ ~down
  BY DEF IInv, Links, AllocPooled
<1>2. PushUsed(r, b, Assign(m_pPrev, m_pNext[b], NULL))
  BY DEF AllocPooled
<1>3. /\ RefsCounted' /\ BuffersCounted' /\ PoolClean' /\ ReleasingHeld'
      /\ Used' = Used \cup {b}
  BY <1>1, <1>2, PushUsedCounts
<1>4. TypeOK'
  BY DEF IInv, TypeOK, AllocPooled, PushUsed, Assign, Pointer
<1>5. Links'
  BY <1>1, <1>3, PoolAssumption
     DEF IInv, TypeOK, Pointer, Links, Alive, AllocPooled, PushUsed, Assign
<1>6. Alive'
  BY <1>1, <1>3, PoolAssumption
     DEF IInv, TypeOK, Pointer, Links, Alive, AllocPooled, PushUsed, Assign
<1> QED
  BY <1>3, <1>4, <1>5, <1>6 DEF IInv

-----------------------------------------------------------------------------
(* A reference more, a length, and the test that precedes a release.        *)

\* AddRef changes a count above 0 and no list.
LEMMA AddRefStep ==
    ASSUME IInv, NEW r \in References, NEW s \in References, AddRef(r, s)
    PROVE  IInv'
<1>1. owner[s] \in Buffers /\ m_dwRefCount[owner[s]] > 0 /\ owner[r] = NULL
  BY RefPositive DEF IInv, AddRef
<1>2. Used' = Used
  BY <1>1 DEF IInv, TypeOK, Used, AddRef
<1>3. RefsCounted'
  <2> SUFFICES ASSUME NEW c \in Buffers
               PROVE  m_dwRefCount'[c] = Cardinality(Refs(owner', c))
    BY DEF RefsCounted
  <2>1. Cardinality(Refs(owner', c)) = IF c = owner[s] THEN Cardinality(Refs(owner, c)) + 1
                                                       ELSE Cardinality(Refs(owner, c))
    <3>1. owner' = [owner EXCEPT ![r] = owner[s]] /\ owner \in [References -> Pointer]
      BY DEF IInv, TypeOK, AddRef
    <3> QED
      BY <1>1, <3>1, RefAdded
  <2>2. m_dwRefCount'[c] = IF c = owner[s] THEN m_dwRefCount[c] + 1 ELSE m_dwRefCount[c]
    BY DEF IInv, TypeOK, AddRef
  <2>3. m_dwRefCount[c] = Cardinality(Refs(owner, c))
    BY DEF IInv, RefsCounted
  <2> QED
    BY <2>1, <2>2, <2>3
<1>4. TypeOK'
  BY <1>1 DEF IInv, TypeOK, AddRef, Pointer
<1>5. ReleasingHeld'
  BY <1>1, PoolAssumption DEF IInv, TypeOK, ReleasingHeld, AddRef, Pointer
<1>6. BuffersCounted' /\ PoolClean' /\ Links' /\ Alive'
  BY <1>2 DEF IInv, BuffersCounted, PoolClean, Links, Alive, AddRef
<1> QED
  BY <1>3, <1>4, <1>5, <1>6 DEF IInv

\* Only a buffer in use gets a length.
LEMMA SetTotalLenthStep ==
    ASSUME IInv, NEW s \in References, NEW nPos \in 0 .. SIZE, SetTotalLenth(s, nPos)
    PROVE  IInv'
<1>1. owner[s] \in Buffers /\ m_dwRefCount[owner[s]] > 0
  BY RefPositive DEF IInv, SetTotalLenth
<1>2. Used' = Used /\ owner[s] \in Used
  BY <1>1 DEF Used, SetTotalLenth
<1>3. TypeOK'
  BY <1>1 DEF IInv, TypeOK, SetTotalLenth
<1>4. PoolClean'
  BY <1>1, <1>2 DEF IInv, TypeOK, PoolClean, SetTotalLenth
<1>5. RefsCounted' /\ ReleasingHeld' /\ BuffersCounted' /\ Links' /\ Alive'
  BY <1>2 DEF IInv, RefsCounted, ReleasingHeld, BuffersCounted, Links, Alive, SetTotalLenth
<1> QED
  BY <1>3, <1>4, <1>5 DEF IInv

\* The test before the lock changes nothing but the thread's position.
LEMMA ReleaseCheckStep ==
    ASSUME IInv, NEW t \in Threads, NEW s \in References, ReleaseCheck(t, s)
    PROVE  IInv'
<1>1. Used' = Used
  BY DEF Used, ReleaseCheck, fields
<1>2. TypeOK'
  BY DEF IInv, TypeOK, ReleaseCheck, fields
<1>3. ReleasingHeld'
  BY DEF IInv, TypeOK, ReleasingHeld, ReleaseCheck, fields
<1>4. RefsCounted' /\ PoolClean' /\ BuffersCounted' /\ Links' /\ Alive'
  BY <1>1 DEF IInv, RefsCounted, PoolClean, BuffersCounted, Links, Alive, ReleaseCheck,
              fields
<1> QED
  BY <1>2, <1>3, <1>4 DEF IInv

-----------------------------------------------------------------------------
(* ReleaseDataBuff under the lock.                                          *)

\* What the thread is about to give up, and what is left once it has.
LEMMA ReturnedHolds ==
    ASSUME IInv, NEW t \in Threads, releasing[t] # NULL, Returned(t)
    PROVE  /\ releasing[t] \in References
           /\ owner[releasing[t]] \in Buffers
           /\ m_dwRefCount[owner[releasing[t]]] > 0
           /\ owner' \in [References -> Pointer]
           /\ obtained' \in [References -> {"alloc", "addref", "not"}]
           /\ releasing' \in [Threads -> References \cup {NULL}]
           /\ ReleasingHeld'
           /\ \A c \in Buffers : Cardinality(Refs(owner', c)) =
                  IF c = owner[releasing[t]] THEN m_dwRefCount[c] - 1 ELSE m_dwRefCount[c]
<1>1. releasing[t] \in References /\ owner[releasing[t]] # NULL
  BY DEF IInv, TypeOK, ReleasingHeld
<1>2. owner[releasing[t]] \in Buffers /\ m_dwRefCount[owner[releasing[t]]] > 0
  BY <1>1, RefPositive DEF IInv
<1>3. /\ owner' \in [References -> Pointer]
      /\ obtained' \in [References -> {"alloc", "addref", "not"}]
      /\ releasing' \in [Threads -> References \cup {NULL}]
  BY <1>1 DEF IInv, TypeOK, Returned, Pointer
<1>4. ReleasingHeld'
  BY <1>1, PoolAssumption DEF IInv, TypeOK, ReleasingHeld, Returned
<1>5. \A c \in Buffers : Cardinality(Refs(owner', c)) =
          IF c = owner[releasing[t]] THEN m_dwRefCount[c] - 1 ELSE m_dwRefCount[c]
  <2>1. owner' = [owner EXCEPT ![releasing[t]] = NULL] /\ owner \in [References -> Pointer]
    BY DEF IInv, TypeOK, Returned
  <2>2. ASSUME NEW c \in Buffers
        PROVE  Cardinality(Refs(owner', c)) = IF c = owner[releasing[t]]
                                                THEN Cardinality(Refs(owner, c)) - 1
                                                ELSE Cardinality(Refs(owner, c))
    BY <1>1, <1>2, <2>1, RefRemoved
  <2>3. RefsCounted
    BY DEF IInv
  <2> QED
    BY <2>2, <2>3 DEF RefsCounted
<1> QED
  BY <1>1, <1>2, <1>3, <1>4, <1>5

\* A count above 1 goes down by 1; the lists stay.
LEMMA ReleaseSharedStep ==
    ASSUME IInv, NEW t \in Threads, ReleaseShared(t)
    PROVE  IInv'
<1>1. releasing[t] # NULL /\ Returned(t)
  BY DEF ReleaseShared
<1>2. PICK b \in Buffers : b = owner[releasing[t]]
  BY <1>1, ReturnedHolds
<1>3. m_dwRefCount[b] > 1 /\ m_dwRefCount' = [m_dwRefCount EXCEPT ![b] = @ - 1]
  BY <1>2 DEF ReleaseShared
<1>4. Used' = Used
  BY <1>3 DEF IInv, TypeOK, Used
<1>5. RefsCounted'
  BY <1>1, <1>2, <1>3, ReturnedHolds DEF IInv, TypeOK, RefsCounted
<1>6. TypeOK'
  <2>1. /\ owner' \in [References -> Pointer]
        /\ obtained' \in [References -> {"alloc", "addref", "not"}]
        /\ releasing' \in [Threads -> References \cup {NULL}]
    BY <1>1, ReturnedHolds
  <2>2. m_dwRefCount' \in [Buffers -> Nat]
    BY <1>3 DEF IInv, TypeOK
  <2> QED
    BY <2>1, <2>2 DEF IInv, TypeOK, ReleaseShared, Returned
<1>7. ReleasingHeld'
  BY <1>1, ReturnedHolds
<1>8. BuffersCounted' /\ PoolClean' /\ Links' /\ Alive'
  BY <1>4 DEF IInv, BuffersCounted, PoolClean, Links, Alive, ReleaseShared, Returned
<1> QED
  BY <1>5, <1>6, <1>7, <1>8 DEF IInv

\* The parts of the invariant that do not depend on where the buffer goes.
LEMMA ReleaseLastCounts ==
    ASSUME IInv, NEW t \in Threads, NEW b \in Buffers, ReleaseLast(t, b)
    PROVE  /\ b \in Used /\ Used' = Used \ {b}
           /\ RefsCounted' /\ ReleasingHeld' /\ BuffersCounted' /\ PoolClean'
           /\ m_dwRefCount' \in [Buffers -> Nat]
           /\ m_nDataLen' \in [Buffers -> 0 .. SIZE]
           /\ m_dwBufferCount' \in Nat
           /\ owner' \in [References -> Pointer]
           /\ obtained' \in [References -> {"alloc", "addref", "not"}]
           /\ releasing' \in [Threads -> References \cup {NULL}]
<1>1. releasing[t] # NULL /\ Returned(t) /\ b = owner[releasing[t]]
  BY DEF ReleaseLast
<1>2. m_dwRefCount[b] = 1
  BY <1>1, ReturnedHolds DEF IInv, TypeOK, ReleaseLast
<1>3. m_dwRefCount' = [m_dwRefCount EXCEPT ![b] = 0]
  BY <1>2 DEF ReleaseLast
<1>4. b \in Used /\ Used' = Used \ {b}
  BY <1>2, <1>3 DEF IInv, TypeOK, Used
<1>5. RefsCounted'
  BY <1>1, <1>2, <1>3, ReturnedHolds DEF IInv, TypeOK, RefsCounted
<1>6. BuffersCounted' /\ m_dwBufferCount' \in Nat
  <2>1. Cardinality(Used \ {b}) = Cardinality(Used) - 1 /\ Cardinality(Used \ {b}) \in Nat
    BY <1>4, UsedFinite, FS_RemoveElement, FS_CardinalityType
  <2> QED
    BY <1>4, <2>1 DEF IInv, BuffersCounted, ReleaseLast
<1>7. PoolClean' /\ m_nDataLen' \in [Buffers -> 0 .. SIZE]
  BY <1>4, PoolAssumption DEF IInv, TypeOK, PoolClean, ReleaseLast
<1>8. m_dwRefCount' \in [Buffers -> Nat]
  BY <1>3 DEF IInv, TypeOK
<1> QED
  BY <1>1, <1>4, <1>5, <1>6, <1>7, <1>8, ReturnedHolds

\* The buffer is cut out of the used list and put before the free list.
LEMMA ReleaseToPoolStep ==
    ASSUME IInv, NEW t \in Threads, NEW b \in Buffers, ReleaseToPool(t, b)
    PROVE  IInv'
<1>1. ReleaseLast(t, b)
  BY DEF ReleaseToPool
<1>2. b \in Used /\ Used' = Used \ {b}
  BY <1>1, ReleaseLastCounts
<1>3. RefsCounted' /\ ReleasingHeld' /\ BuffersCounted' /\ PoolClean'
  BY <1>1, ReleaseLastCounts
<1>4. TypeOK'
  <2>1. /\ m_pNext \in [Buffers -> Pointer] /\ m_pPrev \in [Buffers -> Pointer]
        /\ m_pFreeList \in Pointer /\ m_pUsedList \in Pointer
        /\ b \in Pointer /\ NULL \in Pointer /\ live \subseteq Buffers
        /\ m_pNext[b] \in Pointer /\ m_pPrev[b] \in Pointer
    BY DEF IInv, TypeOK, Pointer
  <2>2. NextWithout(b) \in [Buffers -> Pointer] /\ PrevWithout(b) \in [Buffers -> Pointer]
    BY <2>1 DEF NextWithout, PrevWithout, Assign
  <2>3. m_pNext' \in [Buffers -> Pointer]
    BY <2>1, <2>2 DEF ReleaseToPool
  <2>4. m_pPrev' \in [Buffers -> Pointer]
    BY <2>1, <2>2 DEF ReleaseToPool, Assign
  <2>5. m_pFreeList' \in Pointer /\ m_pUsedList' \in Pointer /\ live' \subseteq Buffers
    BY <2>1 DEF ReleaseToPool, ReleaseLast
  <2>6. m_EnablePool' \in BOOLEAN /\ down' \in BOOLEAN
    BY DEF IInv, TypeOK, ReleaseToPool, ReleaseLast, Returned
  <2>7. /\ m_dwRefCount' \in [Buffers -> Nat]
        /\ m_nDataLen' \in [Buffers -> 0 .. SIZE]
        /\ m_dwBufferCount' \in Nat
        /\ owner' \in [References -> Pointer]
        /\ obtained' \in [References -> {"alloc", "addref", "not"}]
        /\ releasing' \in [Threads -> References \cup {NULL}]
    BY <1>1, ReleaseLastCounts
  <2> QED
    BY <2>3, <2>4, <2>5, <2>6, <2>7 DEF TypeOK
<1>5. Links'
  <2> USE PoolAssumption
  <2>1. m_pUsedList = b <=> m_pPrev[b] = NULL
    BY <1>2 DEF IInv, Links
  <2>2. \A c \in Buffers : m_pNext'[c] = IF c = b THEN m_pFreeList
                                           ELSE IF c = m_pPrev[b] THEN m_pNext[b] ELSE m_pNext[c]
    BY <2>1 DEF IInv, TypeOK, Pointer, ReleaseToPool, NextWithout, Assign
  <2>3. \A c \in Buffers : m_pPrev'[c] = IF c = m_pFreeList THEN b ELSE IF c = b THEN NULL
                                           ELSE IF c = m_pNext[b] THEN m_pPrev[b] ELSE m_pPrev[c]
    BY <2>1 DEF IInv, TypeOK, Pointer, ReleaseToPool, PrevWithout, Assign
  <2>4. /\ m_pUsedList' = IF m_pPrev[b] = NULL THEN m_pNext[b] ELSE m_pUsedList
        /\ m_pFreeList' = b
    BY <2>1 DEF ReleaseToPool, ReleaseLast
  <2>5. /\ m_pPrev \in [Buffers -> Pointer] /\ m_pNext \in [Buffers -> Pointer]
        /\ m_pFreeList \in Pointer /\ m_pUsedList \in Pointer /\ Used \subseteq Buffers
    BY DEF IInv, TypeOK, Used
  <2>6. Links
    BY DEF IInv
  <2> HIDE PoolAssumption DEF Used
  <2>7. NULL \notin Buffers
    BY PoolAssumption
  <2>8. m_pFreeList' # NULL => m_pFreeList' \notin Used' /\ m_pPrev'[m_pFreeList'] = NULL
    BY <1>2, <2>2, <2>3, <2>4, <2>5, <2>6, <2>7 DEF Links, Pointer
  <2>9. m_pUsedList' # NULL => m_pUsedList' \in Used'
    BY <1>2, <2>2, <2>3, <2>4, <2>5, <2>6, <2>7 DEF Links, Pointer
  <2>10. ASSUME NEW c \in Used'
         PROVE  m_pNext'[c] # NULL => m_pNext'[c] \in Used' /\ m_pPrev'[m_pNext'[c]] = c
    BY <1>2, <2>2, <2>3, <2>5, <2>6, <2>7 DEF Links, Pointer
  <2>11. ASSUME NEW c \in Used'
         PROVE  m_pPrev'[c] # NULL => m_pPrev'[c] \in Used' /\ m_pNext'[m_pPrev'[c]] = c
    BY <1>2, <2>2, <2>3, <2>5, <2>6, <2>7 DEF Links, Pointer
  <2>12. ASSUME NEW c \in Used'
         PROVE  (c = m_pUsedList') <=> (m_pPrev'[c] = NULL)
    BY <1>2, <2>2, <2>3, <2>4, <2>5, <2>6, <2>7 DEF Links, Pointer
  <2>13. ASSUME NEW c \in Buffers, c \notin Used'
         PROVE  m_pNext'[c] # NULL => m_pNext'[c] \notin Used' /\ m_pPrev'[m_pNext'[c]] = c
    BY <1>2, <2>2, <2>3, <2>5, <2>6, <2>7, <2>13 DEF Links, Pointer
  <2> QED
    BY <2>8, <2>9, <2>10, <2>11, <2>12, <2>13 DEF Links
<1>6. Alive'
  BY <1>2, PoolAssumption
     DEF IInv, TypeOK, Pointer, Links, Alive, ReleaseToPool, ReleaseLast, Returned,
         NextWithout, PrevWithout, Assign
<1> QED
  BY <1>3, <1>4, <1>5, <1>6 DEF IInv

\* The buffer is cut out of the used list and is gone.
LEMMA ReleaseDeleteStep ==
    ASSUME IInv, NEW t \in Threads, NEW b \in Buffers, ReleaseDelete(t, b)
    PROVE  IInv'
<1>1. ReleaseLast(t, b)
  BY DEF ReleaseDelete
<1>2. b \in Used /\ Used' = Used \ {b}
  BY <1>1, ReleaseLastCounts
<1>3. RefsCounted' /\ ReleasingHeld' /\ BuffersCounted' /\ PoolClean'
  BY <1>1, ReleaseLastCounts
<1>4. TypeOK'
  <2>1. /\ m_pNext \in [Buffers -> Pointer] /\ m_pPrev \in [Buffers -> Pointer]
        /\ m_pFreeList \in Pointer /\ m_pUsedList \in Pointer
        /\ b \in Pointer /\ NULL \in Pointer /\ live \subseteq Buffers
        /\ m_pNext[b] \in Pointer /\ m_pPrev[b] \in Pointer
    BY DEF IInv, TypeOK, Pointer
  <2>2. NextWithout(b) \in [Buffers -> Pointer] /\ PrevWithout(b) \in [Buffers -> Pointer]
    BY <2>1 DEF NextWithout, PrevWithout, Assign
  <2>3. m_pNext' \in [Buffers -> Pointer]
    BY <2>1, <2>2 DEF ReleaseDelete
  <2>4. m_pPrev' \in [Buffers -> Pointer]
    BY <2>1, <2>2 DEF ReleaseDelete, Assign
  <2>5. m_pFreeList' \in Pointer /\ m_pUsedList' \in Pointer /\ live' \subseteq Buffers
    BY <2>1 DEF ReleaseDelete, ReleaseLast
  <2>6. m_EnablePool' \in BOOLEAN /\ down' \in BOOLEAN
    BY DEF IInv, TypeOK, ReleaseDelete, ReleaseLast, Returned
  <2>7. /\ m_dwRefCount' \in [Buffers -> Nat]
        /\ m_nDataLen' \in [Buffers -> 0 .. SIZE]
        /\ m_dwBufferCount' \in Nat
        /\ owner' \in [References -> Pointer]
        /\ obtained' \in [References -> {"alloc", "addref", "not"}]
        /\ releasing' \in [Threads -> References \cup {NULL}]
    BY <1>1, ReleaseLastCounts
  <2> QED
    BY <2>3, <2>4, <2>5, <2>6, <2>7 DEF TypeOK
<1>5. Links'
  <2> USE PoolAssumption
  <2>1. m_pUsedList = b <=> m_pPrev[b] = NULL
    BY <1>2 DEF IInv, Links
  <2>2. \A c \in Buffers : m_pNext'[c] = IF c = b THEN NULL
                                           ELSE IF c = m_pPrev[b] THEN m_pNext[b] ELSE m_pNext[c]
    BY <2>1 DEF IInv, TypeOK, Pointer, ReleaseDelete, NextWithout, Assign
  <2>3. \A c \in Buffers : m_pPrev'[c] = IF c = b THEN NULL
                                           ELSE IF c = m_pNext[b] THEN m_pPrev[b] ELSE m_pPrev[c]
    BY <2>1 DEF IInv, TypeOK, Pointer, ReleaseDelete, PrevWithout, Assign
  <2>4. /\ m_pUsedList' = IF m_pPrev[b] = NULL THEN m_pNext[b] ELSE m_pUsedList
        /\ m_pFreeList' = m_pFreeList
    BY <2>1 DEF ReleaseDelete, ReleaseLast
  <2>5. /\ m_pPrev \in [Buffers -> Pointer] /\ m_pNext \in [Buffers -> Pointer]
        /\ m_pFreeList \in Pointer /\ m_pUsedList \in Pointer /\ Used \subseteq Buffers
    BY DEF IInv, TypeOK, Used
  <2>6. Links
    BY DEF IInv
  <2> HIDE PoolAssumption DEF Used
  <2>7. NULL \notin Buffers
    BY PoolAssumption
  <2>8. m_pFreeList' # NULL => m_pFreeList' \notin Used' /\ m_pPrev'[m_pFreeList'] = NULL
    BY <1>2, <2>2, <2>3, <2>4, <2>5, <2>6, <2>7 DEF Links, Pointer
  <2>9. m_pUsedList' # NULL => m_pUsedList' \in Used'
    BY <1>2, <2>2, <2>3, <2>4, <2>5, <2>6, <2>7 DEF Links, Pointer
  <2>10. ASSUME NEW c \in Used'
         PROVE  m_pNext'[c] # NULL => m_pNext'[c] \in Used' /\ m_pPrev'[m_pNext'[c]] = c
    BY <1>2, <2>2, <2>3, <2>5, <2>6, <2>7 DEF Links, Pointer
  <2>11. ASSUME NEW c \in Used'
         PROVE  m_pPrev'[c] # NULL => m_pPrev'[c] \in Used' /\ m_pNext'[m_pPrev'[c]] = c
    BY <1>2, <2>2, <2>3, <2>5, <2>6, <2>7 DEF Links, Pointer
  <2>12. ASSUME NEW c \in Used'
         PROVE  (c = m_pUsedList') <=> (m_pPrev'[c] = NULL)
    BY <1>2, <2>2, <2>3, <2>4, <2>5, <2>6, <2>7 DEF Links, Pointer
  <2>13. ASSUME NEW c \in Buffers, c \notin Used'
         PROVE  m_pNext'[c] # NULL => m_pNext'[c] \notin Used' /\ m_pPrev'[m_pNext'[c]] = c
    BY <1>2, <2>2, <2>3, <2>5, <2>6, <2>7, <2>13 DEF Links, Pointer
  <2> QED
    BY <2>8, <2>9, <2>10, <2>11, <2>12, <2>13 DEF Links
<1>6. Alive'
  BY <1>2, PoolAssumption
     DEF IInv, TypeOK, Pointer, Links, Alive, ReleaseDelete, ReleaseLast, Returned,
         NextWithout, PrevWithout, Assign
<1> QED
  BY <1>3, <1>4, <1>5, <1>6 DEF IInv

\* After the destructor nothing is said about which buffers exist.
LEMMA ReleaseAllStep ==
    ASSUME IInv, ReleaseAll
    PROVE  IInv'
<1>1. Used' = Used
  BY DEF Used, ReleaseAll
<1>2. TypeOK'
  BY DEF IInv, TypeOK, ReleaseAll
<1>3. RefsCounted' /\ ReleasingHeld' /\ BuffersCounted' /\ PoolClean' /\ Links'
  BY <1>1 DEF IInv, RefsCounted, ReleasingHeld, BuffersCounted, PoolClean, Links, ReleaseAll
<1>4. Alive'
  BY DEF Alive, ReleaseAll
<1> QED
  BY <1>2, <1>3, <1>4 DEF IInv

-----------------------------------------------------------------------------
(* The theorems about the counts and the links.                             *)

\* A manager without a buffer.
LEMMA InitIInv == Init => IInv
<1> SUFFICES ASSUME Init
             PROVE  IInv
  OBVIOUS
<1>1. Used = {}
  BY DEF Init, Used
<1>2. TypeOK
  <2>1. m_nDataLen \in [Buffers -> 0 .. SIZE]
    BY PoolAssumption DEF Init
  <2> QED
    BY <2>1 DEF Init, TypeOK, Pointer
<1>3. RefsCounted
  <2> SUFFICES ASSUME NEW b \in Buffers
               PROVE  m_dwRefCount[b] = Cardinality(Refs(owner, b))
    BY DEF RefsCounted
  <2>1. Refs(owner, b) = {}
    BY PoolAssumption DEF Init, Refs
  <2> QED
    BY <2>1, FS_EmptySet DEF Init
<1>4. BuffersCounted
  BY <1>1, FS_EmptySet DEF Init, BuffersCounted
<1>5. ReleasingHeld /\ Links /\ Alive /\ PoolClean
  BY <1>1 DEF Init, ReleasingHeld, Links, Alive, PoolClean
<1> QED
  BY <1>2, <1>3, <1>4, <1>5 DEF IInv

\* Every step keeps the counts and the links.
LEMMA NextIInv == IInv /\ [Next]_vars => IInv'
<1> SUFFICES ASSUME IInv, [Next]_vars
             PROVE  IInv'
  OBVIOUS
<1>1. CASE Next
  BY <1>1, AllocNewStep, AllocPooledStep, AddRefStep, SetTotalLenthStep, ReleaseCheckStep,
     ReleaseSharedStep, ReleaseToPoolStep, ReleaseDeleteStep, ReleaseAllStep DEF Next
<1>2. CASE UNCHANGED vars
  BY <1>2 DEF vars, fields, IInv, TypeOK, RefsCounted, ReleasingHeld, BuffersCounted, Links,
              Alive, PoolClean, Used
<1> QED
  BY <1>1, <1>2

(***************************************************************************)
(* IInv is an invariant of the manager: the counts of AddRef and            *)
(* ReleaseDataBuff are the references held, and the links that AllocDataBuff *)
(* and ReleaseDataBuff rewrite agree at both ends.                          *)
(***************************************************************************)
THEOREM InductiveInvariant == Spec => []IInv
  BY InitIInv, NextIInv, PTL DEF Spec

(* The manager keeps its types, and m_dwBufferCount, an unsigned number,     *)
(* never goes below 0.                                                      *)
THEOREM TypeCorrect == Spec => []TypeOK
<1>1. IInv => TypeOK
  BY DEF IInv
<1> QED
  BY <1>1, InductiveInvariant, PTL

(* No assertion of AllocDataBuff and ReleaseDataBuff fails, however many     *)
(* threads release at the same time.                                        *)
THEOREM NoAssertFails == Spec => []AssertsHold
<1>1. IInv => AssertsHold
  <2> SUFFICES ASSUME IInv
               PROVE  AssertsHold
    OBVIOUS
  <2>1. m_pFreeList # NULL => m_dwRefCount[m_pFreeList] = 0
    BY DEF IInv, TypeOK, Pointer, Links, Used
  <2>2. \A r \in References : owner[r] # NULL => m_dwRefCount[owner[r]] > 0
    BY RefPositive DEF IInv
  <2>3. \A b \in Used : b # m_pUsedList => m_pPrev[b] # NULL
    BY DEF IInv, Links
  <2> QED
    BY <2>1, <2>2, <2>3 DEF AssertsHold
<1> QED
  BY <1>1, InductiveInvariant, PTL

(* A buffer that AllocDataBuff takes from the pool has length 0.            *)
THEOREM PoolBuffersClean == Spec => []PoolClean
<1>1. IInv => PoolClean
  BY DEF IInv
<1> QED
  BY <1>1, InductiveInvariant, PTL

(* AllocDataBuff never hands out a buffer somebody holds a reference to:    *)
(* the pointer-level manager implements BufferOwners.                       *)
THEOREM OwnersRefined == Spec => ImplementsOwners
<1>1. Init => Owners!Init
  BY DEF Init, Owners!Init
<1>2. IInv /\ [Next]_vars => [Owners!Next]_<<owner, obtained>>
  <2> SUFFICES ASSUME IInv, Next
               PROVE  Owners!Next \/ UNCHANGED <<owner, obtained>>
    BY DEF vars
  <2>1. ASSUME NEW b \in Buffers, b \notin Used
        PROVE  Owners!Unreferenced(b)
    BY <2>1, RefPositive, PoolAssumption DEF IInv, Owners!Unreferenced, Used
  <2>2. ASSUME NEW r \in References, NEW b \in Buffers, AllocNew(r, b)
        PROVE  Owners!Alloc(r, b)
    BY <2>1, <2>2 DEF IInv, Alive, AllocNew, PushUsed, Owners!Alloc
  <2>3. ASSUME NEW r \in References, NEW b \in Buffers, AllocPooled(r, b)
        PROVE  Owners!Alloc(r, b)
    BY <2>1, <2>3 DEF IInv, Links, AllocPooled, PushUsed, Owners!Alloc
  <2>4. ASSUME NEW r \in References, NEW s \in References, AddRef(r, s)
        PROVE  Owners!AddRef(r, s)
    BY <2>4 DEF AddRef, Owners!AddRef
  <2>5. ASSUME NEW t \in Threads, releasing[t] # NULL, Returned(t)
        PROVE  \E r \in References : Owners!Release(r)
    BY <2>5 DEF IInv, TypeOK, ReleasingHeld, Returned, Owners!Release
  <2>6. ASSUME NEW t \in Threads, NEW b \in Buffers,
               ReleaseToPool(t, b) \/ ReleaseDelete(t, b)
        PROVE  \E r \in References : Owners!Release(r)
    BY <2>5, <2>6 DEF ReleaseToPool, ReleaseDelete, ReleaseLast
  <2>7. ASSUME NEW t \in Threads, ReleaseShared(t)
        PROVE  \E r \in References : Owners!Release(r)
    BY <2>5, <2>7 DEF ReleaseShared
  <2>8. ASSUME NEW s \in References, NEW n \in 0 .. SIZE, SetTotalLenth(s, n)
        PROVE  UNCHANGED <<owner, obtained>>
    BY <2>8 DEF SetTotalLenth
  <2>9. ASSUME NEW t \in Threads, NEW s \in References, ReleaseCheck(t, s)
        PROVE  UNCHANGED <<owner, obtained>>
    BY <2>9 DEF ReleaseCheck
  <2>10. ReleaseAll => UNCHANGED <<owner, obtained>>
    BY DEF ReleaseAll
  <2> QED
    BY <2>2, <2>3, <2>4, <2>6, <2>7, <2>8, <2>9, <2>10 DEF Next, Owners!Next
<1> QED
  BY <1>1, <1>2, InductiveInvariant, PTL DEF Spec, ImplementsOwners, Owners!Spec

-----------------------------------------------------------------------------
(* The lists.  Links alone allows a ring of buffers that no head leads to;   *)
(* what excludes it is that the buffers of a list are the least set closed   *)
(* under its links.                                                         *)

\* The list that starts at head consists of the buffers X.
List(next, head, X) ==
    /\ Closed(next, head, X)
    /\ \A S \in SUBSET X : Closed(next, head, S) => S = X

\* The used list has the buffers in use, the free list the others that exist;
\* after the destructor there is none, and no thread is left to put one back.
Lists ==
    IF down
      THEN live = {} /\ \A t \in Threads : releasing[t] = NULL
      ELSE List(m_pNext, m_pUsedList, Used) /\ List(m_pNext, m_pFreeList, live \ Used)

LInv == IInv /\ Lists

\* A list does not depend on the links of buffers outside it.
LEMMA ListSame ==
    ASSUME NEW next, NEW next2, NEW h, NEW X,
           List(next, h, X),
           \A c \in X : next2[c] = next[c]
    PROVE  List(next2, h, X)
  BY DEF List, Closed

\* A buffer put before the head of a list.
LEMMA ListPush ==
    ASSUME NEW next, NEW next2, NEW h, NEW X, NEW b, b # NULL, b \notin X,
           List(next, h, X),
           next2[b] = h,
           \A c \in X : next2[c] = next[c]
    PROVE  List(next2, b, X \cup {b})
<1>1. Closed(next2, b, X \cup {b})
  BY DEF List, Closed
<1>2. ASSUME NEW S \in SUBSET (X \cup {b}), Closed(next2, b, S)
      PROVE  S = X \cup {b}
  <2>1. b \in S /\ S \ {b} \in SUBSET X
    BY <1>2 DEF Closed
  <2>2. Closed(next, h, S \ {b})
    BY <1>2, <2>1 DEF List, Closed
  <2>3. S \ {b} = X
    BY <2>1, <2>2 DEF List
  <2> QED
    BY <2>1, <2>3
<1> QED
  BY <1>1, <1>2 DEF List

\* The head taken from a list, when no buffer of the list leads back to it.
LEMMA ListPop ==
    ASSUME NEW next, NEW next2, NEW X, NEW b \in X, b # NULL,
           List(next, b, X),
           \A c \in X : next[c] # b,
           \A c \in X \ {b} : next2[c] = next[c]
    PROVE  List(next2, next[b], X \ {b})
<1>1. Closed(next2, next[b], X \ {b})
  BY DEF List, Closed
<1>2. ASSUME NEW S \in SUBSET (X \ {b}), Closed(next2, next[b], S)
      PROVE  S = X \ {b}
  <2>1. S \cup {b} \in SUBSET X /\ b \notin S
    OBVIOUS
  <2>2. Closed(next, b, S \cup {b})
    BY <1>2, <2>1 DEF Closed
  <2>3. S \cup {b} = X
    BY <2>1, <2>2 DEF List
  <2> QED
    BY <2>1, <2>3
<1> QED
  BY <1>1, <1>2 DEF List

\* A buffer cut out of a list behind its head: p, the only one that leads to it,
\* leads past it.
LEMMA ListCut ==
    ASSUME NEW next, NEW next2, NEW h, NEW X, NEW b \in X, NEW p \in X, b # NULL,
           List(next, h, X),
           h # b,
           \A c \in X : next[c] = b <=> c = p,
           p = b \/ next2[p] = next[b],
           \A c \in X \ {b, p} : next2[c] = next[c]
    PROVE  List(next2, h, X \ {b})
<1>1. p # b
  <2> SUFFICES ASSUME p = b
               PROVE  FALSE
    OBVIOUS
  <2>1. Closed(next, h, X \ {b})
    BY DEF List, Closed
  <2>2. X \ {b} \in SUBSET X
    OBVIOUS
  <2> QED
    BY <2>1, <2>2 DEF List
<1>2. Closed(next2, h, X \ {b})
  BY <1>1 DEF List, Closed
<1>3. ASSUME NEW S \in SUBSET (X \ {b}), Closed(next2, h, S)
      PROVE  S = X \ {b}
  <2>1. CASE p \in S
    <3>1. S \cup {b} \in SUBSET X /\ b \notin S
      OBVIOUS
    <3>2. Closed(next, h, S \cup {b})
      BY <1>1, <1>3, <2>1 DEF List, Closed
    <3>3. S \cup {b} = X
      BY <3>1, <3>2 DEF List
    <3> QED
      BY <3>1, <3>3
  <2>2. CASE p \notin S
    <3>1. Closed(next, h, S) /\ S \in SUBSET X
      BY <1>1, <1>3, <2>2 DEF List, Closed
    <3> QED
      BY <2>2, <3>1 DEF List
  <2> QED
    BY <2>1, <2>2
<1> QED
  BY <1>2, <1>3 DEF List

\* A walk along m_pNext meets the buffers of the list and no other.
LEMMA ChainIsList ==
    ASSUME NEW h, NEW X \in SUBSET Buffers, List(m_pNext, h, X)
    PROVE  Chain(h) = X
<1>1. Chain(h) \subseteq X
  BY DEF Chain, List
<1>2. ASSUME NEW S \in SUBSET Buffers, Closed(m_pNext, h, S)
      PROVE  X \subseteq S
  <2>1. S \cap X \in SUBSET X /\ Closed(m_pNext, h, S \cap X)
    BY <1>2 DEF List, Closed
  <2> QED
    BY <2>1 DEF List
<1>3. X \subseteq Chain(h)
  BY <1>2 DEF Chain
<1> QED
  BY <1>1, <1>3

-----------------------------------------------------------------------------
(* Every operation keeps the lists.                                         *)

\* An empty list holds no buffer: the pool is used up.
LEMMA AllocNewLists ==
    ASSUME LInv, NEW r \in References, NEW b \in Buffers, AllocNew(r, b)
    PROVE  Lists'
<1>1. /\ b \notin Used /\ ~down /\ ~down' /\ b # NULL /\ owner[r] = NULL
      /\ live' = live \cup {b} /\ b \notin live
      /\ m_pFreeList = NULL /\ m_pFreeList' = NULL /\ m_pUsedList' = b
  BY PoolAssumption DEF LInv, IInv, Alive, AllocNew, PushUsed
<1>2. Used' = Used \cup {b}
  BY <1>1, PushUsedCounts DEF LInv, AllocNew
<1>3. \A c \in Buffers : m_pNext'[c] = IF c = b THEN m_pUsedList ELSE m_pNext[c]
  BY DEF LInv, IInv, TypeOK, AllocNew, PushUsed
<1>4. Used \subseteq Buffers
  BY DEF Used
<1>5. List(m_pNext', m_pUsedList', Used')
  BY <1>1, <1>2, <1>3, <1>4, ListPush DEF LInv, Lists
<1>6. live' \ Used' = live \ Used /\ live \ Used \subseteq Buffers
  BY <1>1, <1>2 DEF LInv, IInv, TypeOK
<1>7. List(m_pNext', m_pFreeList', live' \ Used')
  BY <1>1, <1>3, <1>6, ListSame DEF LInv, Lists
<1> QED
  BY <1>1, <1>5, <1>7 DEF Lists

\* The head of the free list becomes the head of the used list.
LEMMA AllocPooledLists ==
    ASSUME LInv, NEW r \in References, NEW b \in Buffers, AllocPooled(r, b)
    PROVE  Lists'
<1>1. /\ b \notin Used /\ ~down /\ ~down' /\ b # NULL /\ owner[r] = NULL
      /\ live' = live /\ b \in live
      /\ m_pFreeList = b /\ m_pFreeList' = m_pNext[b] /\ m_pUsedList' = b
  BY PoolAssumption DEF LInv, IInv, Links, Alive, AllocPooled, PushUsed
<1>2. Used' = Used \cup {b}
  BY <1>1, PushUsedCounts DEF LInv, AllocPooled
<1>3. \A c \in Buffers : m_pNext'[c] = IF c = b THEN m_pUsedList ELSE m_pNext[c]
  BY DEF LInv, IInv, TypeOK, AllocPooled, PushUsed
<1>4. Used \subseteq Buffers
  BY DEF Used
<1>5. List(m_pNext', m_pUsedList', Used')
  BY <1>1, <1>2, <1>3, <1>4, ListPush DEF LInv, Lists
<1>6. /\ live' \ Used' = (live \ Used) \ {b} /\ live \ Used \subseteq Buffers
      /\ b \in live \ Used
  BY <1>1, <1>2 DEF LInv, IInv, TypeOK
<1>7. \A c \in live \ Used : m_pNext[c] # b
  <2>1. m_pPrev[b] = NULL
    BY <1>1 DEF LInv, IInv, Links
  <2>2. \A c \in Buffers \ Used : m_pNext[c] # NULL => m_pPrev[m_pNext[c]] = c
    BY DEF LInv, IInv, Links
  <2> QED
    BY <1>1, <1>6, <2>1, <2>2, PoolAssumption
<1>8. List(m_pNext', m_pNext[b], (live \ Used) \ {b})
  <2>1. List(m_pNext, b, live \ Used)
    BY <1>1 DEF LInv, Lists
  <2>2. \A c \in (live \ Used) \ {b} : m_pNext'[c] = m_pNext[c]
    BY <1>3, <1>6
  <2> HIDE DEF Used
  <2> QED
    BY <1>1, <1>6, <1>7, <2>1, <2>2, ListPop
<1> QED
  BY <1>1, <1>5, <1>6, <1>8 DEF Lists

\* The used list without b, wherever in it b was.
LEMMA UsedListCut ==
    ASSUME LInv, ~down, NEW b \in Used, NEW next2,
           \A c \in Buffers \ {b} :
               next2[c] = IF c = m_pPrev[b] THEN m_pNext[b] ELSE m_pNext[c]
    PROVE  List(next2, IF m_pUsedList = b THEN m_pNext[b] ELSE m_pUsedList, Used \ {b})
<1>1. /\ List(m_pNext, m_pUsedList, Used) /\ Links /\ Used \subseteq Buffers
      /\ b # NULL /\ NULL \notin Buffers /\ m_pPrev[b] \in Pointer
  BY PoolAssumption DEF LInv, IInv, TypeOK, Lists, Used
<1> HIDE DEF Used, LInv
<1>2. CASE m_pUsedList = b
  <2>1. m_pPrev[b] = NULL
    BY <1>1, <1>2 DEF Links
  <2>2. \A c \in Used \ {b} : next2[c] = m_pNext[c]
    BY <1>1, <2>1
  <2>3. \A c \in Used : m_pNext[c] # b
    BY <1>1, <2>1 DEF Links
  <2>4. List(next2, m_pNext[b], Used \ {b})
    BY <1>1, <1>2, <2>2, <2>3, ListPop
  <2> QED
    BY <1>2, <2>4
<1>3. CASE m_pUsedList # b
  <2>1. PICK p \in Used : p = m_pPrev[b]
    BY <1>1, <1>3 DEF Links
  <2>2. \A c \in Used : m_pNext[c] = b <=> c = p
    BY <1>1, <2>1 DEF Links
  <2>3. \A c \in Used \ {b, p} : next2[c] = m_pNext[c]
    BY <1>1, <2>1
  <2>4. p = b \/ next2[p] = m_pNext[b]
    BY <1>1, <2>1
  <2>5. List(next2, m_pUsedList, Used \ {b})
    BY <1>1, <1>3, <2>2, <2>3, <2>4, ListCut
  <2> QED
    BY <1>3, <2>5
<1> QED
  BY <1>2, <1>3

\* The buffer that leaves the used list becomes the head of the free list.
LEMMA ReleaseToPoolLists ==
    ASSUME LInv, ~down, NEW t \in Threads, NEW b \in Buffers, ReleaseToPool(t, b)
    PROVE  Lists'
<1>1. ReleaseLast(t, b) /\ ~down' /\ live' = live /\ m_pFreeList' = b
  BY DEF ReleaseToPool, ReleaseLast, Returned
<1>2. b \in Used /\ Used' = Used \ {b} /\ Used \subseteq Buffers /\ NULL \notin Buffers
  BY <1>1, ReleaseLastCounts, PoolAssumption DEF LInv, Used
<1>3. m_pUsedList = b <=> m_pPrev[b] = NULL
  BY <1>2 DEF LInv, IInv, Links
<1>4. \A c \in Buffers : m_pNext'[c] = IF c = b THEN m_pFreeList
                                         ELSE IF c = m_pPrev[b] THEN m_pNext[b] ELSE m_pNext[c]
  BY <1>2, <1>3 DEF LInv, IInv, TypeOK, Pointer, ReleaseToPool, NextWithout, Assign
<1>5. m_pUsedList' = IF m_pUsedList = b THEN m_pNext[b] ELSE m_pUsedList
  BY <1>1 DEF ReleaseLast
<1>6. List(m_pNext', m_pUsedList', Used')
  BY <1>2, <1>4, <1>5, UsedListCut
<1>7. /\ List(m_pNext, m_pFreeList, live \ Used) /\ live \ Used \subseteq Buffers
      /\ b \in live /\ b \notin live \ Used
  BY <1>2 DEF LInv, IInv, TypeOK, Alive, Lists
<1>8. \A c \in live \ Used : m_pNext'[c] = m_pNext[c]
  <2>1. m_pPrev[b] = NULL \/ m_pPrev[b] \in Used
    BY <1>2 DEF LInv, IInv, Links
  <2> QED
    BY <1>2, <1>4, <1>7, <2>1
<1>9. m_pNext'[b] = m_pFreeList /\ b # NULL
  BY <1>2, <1>4
<1>10. List(m_pNext', b, (live \ Used) \cup {b})
  <2> HIDE DEF Used
  <2> QED
    BY <1>7, <1>8, <1>9, ListPush
<1>11. live' \ Used' = (live \ Used) \cup {b}
  BY <1>1, <1>2, <1>7
<1> QED
  BY <1>1, <1>6, <1>10, <1>11 DEF Lists

\* The buffer that leaves the used list is gone.
LEMMA ReleaseDeleteLists ==
    ASSUME LInv, ~down, NEW t \in Threads, NEW b \in Buffers, ReleaseDelete(t, b)
    PROVE  Lists'
<1>1. ReleaseLast(t, b) /\ ~down' /\ live' = live \ {b} /\ m_pFreeList' = m_pFreeList
  BY DEF ReleaseDelete, ReleaseLast, Returned
<1>2. b \in Used /\ Used' = Used \ {b} /\ Used \subseteq Buffers /\ NULL \notin Buffers
  BY <1>1, ReleaseLastCounts, PoolAssumption DEF LInv, Used
<1>3. m_pUsedList = b <=> m_pPrev[b] = NULL
  BY <1>2 DEF LInv, IInv, Links
<1>4. \A c \in Buffers : m_pNext'[c] = IF c = b THEN NULL
                                         ELSE IF c = m_pPrev[b] THEN m_pNext[b] ELSE m_pNext[c]
  BY <1>2, <1>3 DEF LInv, IInv, TypeOK, Pointer, ReleaseDelete, NextWithout, Assign
<1>5. m_pUsedList' = IF m_pUsedList = b THEN m_pNext[b] ELSE m_pUsedList
  BY <1>1 DEF ReleaseLast
<1>6. List(m_pNext', m_pUsedList', Used')
  BY <1>2, <1>4, <1>5, UsedListCut
<1>7. List(m_pNext, m_pFreeList, live \ Used) /\ live \ Used \subseteq Buffers
  BY DEF LInv, IInv, TypeOK, Lists
<1>8. \A c \in live \ Used : m_pNext'[c] = m_pNext[c]
  <2>1. m_pPrev[b] = NULL \/ m_pPrev[b] \in Used
    BY <1>2 DEF LInv, IInv, Links
  <2> QED
    BY <1>2, <1>4, <1>7, <2>1
<1>9. List(m_pNext', m_pFreeList, live \ Used)
  <2> HIDE DEF Used
  <2> QED
    BY <1>7, <1>8, ListSame
<1>10. live' \ Used' = live \ Used
  BY <1>1, <1>2
<1> QED
  BY <1>1, <1>6, <1>9, <1>10 DEF Lists

\* The destructor walks both lists, and they have every buffer there is.
LEMMA ReleaseAllLists ==
    ASSUME LInv, ReleaseAll
    PROVE  Lists'
<1>1. ~down /\ Used \subseteq Buffers /\ live \ Used \subseteq Buffers
  BY DEF LInv, IInv, TypeOK, ReleaseAll, Used
<1>2. Chain(m_pUsedList) = Used /\ Chain(m_pFreeList) = live \ Used
  BY <1>1, ChainIsList DEF LInv, Lists
<1>3. live' = {}
  BY <1>2 DEF ReleaseAll
<1> QED
  BY <1>3 DEF Lists, ReleaseAll

\* A step that changes neither a link nor which buffers are in use.
LEMMA SameLists ==
    ASSUME LInv, ~down, Used' = Used,
           UNCHANGED <<m_pNext, m_pUsedList, m_pFreeList, live, down>>
    PROVE  Lists'
  BY DEF LInv, Lists

\* Both lists are empty at first.
LEMMA InitLists == Init => Lists
<1> SUFFICES ASSUME Init
             PROVE  Lists
  OBVIOUS
<1>1. Used = {} /\ live = {} /\ ~down /\ m_pFreeList = NULL /\ m_pUsedList = NULL
  BY DEF Init, Used
<1> QED
  BY <1>1 DEF Lists, List, Closed

\* Every step keeps the lists.
LEMMA NextLists ==
    ASSUME LInv, Next
    PROVE  Lists'
<1>1. ASSUME NEW r \in References, NEW s \in References, AddRef(r, s)
      PROVE  Lists'
  <2>1. owner[s] \in Buffers /\ m_dwRefCount[owner[s]] > 0
    BY <1>1, RefPositive DEF LInv, IInv, AddRef
  <2>2. Used' = Used
    BY <1>1, <2>1 DEF LInv, IInv, TypeOK, Used, AddRef
  <2> QED
    BY <1>1, <2>2, SameLists DEF AddRef
<1>2. ASSUME NEW s \in References, NEW nPos \in 0 .. SIZE, SetTotalLenth(s, nPos)
      PROVE  Lists'
  <2>1. Used' = Used
    BY <1>2 DEF Used, SetTotalLenth
  <2> QED
    BY <1>2, <2>1, SameLists DEF SetTotalLenth
<1>3. ASSUME NEW t \in Threads, NEW s \in References, ReleaseCheck(t, s)
      PROVE  Lists'
  <2>1. Used' = Used
    BY <1>3 DEF Used, ReleaseCheck, fields
  <2> QED
    BY <1>3, <2>1, SameLists DEF ReleaseCheck, fields
<1>4. ASSUME NEW t \in Threads, ReleaseShared(t)
      PROVE  Lists'
  <2>1. ~down
    BY <1>4 DEF LInv, Lists, ReleaseShared
  <2>2. PICK b \in Buffers : b = owner[releasing[t]]
    BY <1>4, ReturnedHolds DEF LInv, ReleaseShared
  <2>3. Used' = Used
    BY <1>4, <2>2 DEF LInv, IInv, TypeOK, Used, ReleaseShared
  <2> QED
    BY <1>4, <2>1, <2>3, SameLists DEF ReleaseShared, Returned
<1>5. ASSUME NEW t \in Threads, NEW b \in Buffers, ReleaseToPool(t, b)
      PROVE  Lists'
  <2>1. ~down
    BY <1>5 DEF LInv, Lists, ReleaseToPool, ReleaseLast
  <2> QED
    BY <1>5, <2>1, ReleaseToPoolLists
<1>6. ASSUME NEW t \in Threads, NEW b \in Buffers, ReleaseDelete(t, b)
      PROVE  Lists'
  <2>1. ~down
    BY <1>6 DEF LInv, Lists, ReleaseDelete, ReleaseLast
  <2> QED
    BY <1>6, <2>1, ReleaseDeleteLists
<1> QED
  BY <1>1, <1>2, <1>3, <1>4, <1>5, <1>6, AllocNewLists, AllocPooledLists, ReleaseAllLists
     DEF Next

(***************************************************************************)
(* AllocDataBuff and ReleaseDataBuff keep the used and the free list whole: *)
(* no buffer drops out of both, so the destructor deletes every one.        *)
(***************************************************************************)
THEOREM ListsSound == Spec => []ListsPartition
<1>1. Init => LInv
  BY InitIInv, InitLists DEF LInv
<1>2. LInv /\ [Next]_vars => LInv'
  <2> SUFFICES ASSUME LInv, [Next]_vars
               PROVE  LInv'
    OBVIOUS
  <2>1. IInv'
    BY NextIInv DEF LInv
  <2>2. UNCHANGED vars => Lists'
    BY DEF vars, fields, LInv, Lists, Used
  <2>3. Lists'
    BY <2>2, NextLists
  <2> QED
    BY <2>1, <2>3 DEF LInv
<1>3. LInv => ListsPartition
  <2> SUFFICES ASSUME LInv
               PROVE  ListsPartition
    OBVIOUS
  <2>1. CASE down
    BY <2>1 DEF LInv, Lists, ListsPartition
  <2>2. CASE ~down
    <3>1. Used \subseteq live /\ Used \subseteq Buffers /\ live \ Used \subseteq Buffers
      BY <2>2 DEF LInv, IInv, TypeOK, Alive, Used
    <3>2. Chain(m_pUsedList) = Used /\ Chain(m_pFreeList) = live \ Used
      BY <2>2, <3>1, ChainIsList DEF LInv, Lists
    <3> QED
      BY <2>2, <3>1, <3>2 DEF LInv, IInv, BuffersCounted, ListsPartition
  <2> QED
    BY <2>1, <2>2
<1> QED
  BY <1>1, <1>2, <1>3, PTL DEF Spec
=============================================================================
