----------------------------- MODULE BufferPool -----------------------------
(***************************************************************************)
(* CBufferManager<SIZE> and the CDataBuffer objects it hands out            *)
(* (Common/DataBuffer.h), at the level of the pointers: a doubly linked     *)
(* list of the buffers in use, one of the free ones, and a count of         *)
(* references in every buffer.                                              *)
(*                                                                         *)
(* What is done under m_BuffMutex is one step.  ReleaseDataBuff looks at    *)
(* the count before it takes the lock, so it is two.  The callers are the   *)
(* io thread and the game loop: they release only references they hold,     *)
(* each one once, and may hand a reference over to another thread.          *)
(***************************************************************************)
EXTENDS Integers, FiniteSets

CONSTANTS
    Buffers,      \* addresses new CDataBuffer may return
    Threads,
    References,   \* names of the references callers may hold at one time
    SIZE,         \* size of a buffer, bound of m_nDataLen
    NULL

ASSUME PoolAssumption ==
    /\ IsFiniteSet(Buffers) /\ IsFiniteSet(References)
    /\ SIZE \in Nat
    /\ NULL \notin Buffers /\ NULL \notin References

VARIABLES
    m_pFreeList, m_pUsedList,   \* heads of the lists
    m_pNext, m_pPrev,           \* links of every buffer
    m_dwRefCount, m_nDataLen,   \* the other fields of every buffer
    m_dwBufferCount,            \* UINT32, bounded by the memory there is
    m_EnablePool,
    live,                       \* the buffers that exist
    owner,                      \* the buffer a reference is to, or NULL
    obtained,                   \* history: how a caller got the reference
    releasing,                  \* the reference a thread is past the check with
    down                        \* the manager has been destroyed

fields == <<m_pFreeList, m_pUsedList, m_pNext, m_pPrev, m_dwRefCount, m_nDataLen,
            m_dwBufferCount, live>>
vars == <<fields, m_EnablePool, owner, obtained, releasing, down>>

\* CBufferAllocator's constructor calls SetEnablePool before the first use.
Init ==
    /\ m_pFreeList = NULL
    /\ m_pUsedList = NULL
    /\ m_pNext = [b \in Buffers |-> NULL]
    /\ m_pPrev = [b \in Buffers |-> NULL]
    /\ m_dwRefCount = [b \in Buffers |-> 0]
    /\ m_nDataLen = [b \in Buffers |-> 0]
    /\ m_dwBufferCount = 0
    /\ m_EnablePool \in BOOLEAN
    /\ live = {}
    /\ owner = [r \in References |-> NULL]
    /\ obtained = [r \in References |-> "not"]
    /\ releasing = [t \in Threads |-> NULL]
    /\ down = FALSE

\* if (p != NULL) p->field = v;
Assign(field, p, v) == IF p = NULL THEN field ELSE [field EXCEPT ![p] = v]

-----------------------------------------------------------------------------
(* AllocDataBuff.  prev is m_pPrev after the buffer has left the free list. *)

\* Deliberately wrong: the old head of the used list does not point back.
PushUsed_NoBackLink(r, b, prev) ==
    /\ m_dwRefCount' = [m_dwRefCount EXCEPT ![b] = 1]
    /\ m_pNext' = [m_pNext EXCEPT ![b] = m_pUsedList]
    /\ m_pPrev' = [prev EXCEPT ![b] = NULL]
    /\ m_pUsedList' = b
    /\ m_dwBufferCount' = m_dwBufferCount + 1
    /\ owner' = [owner EXCEPT ![r] = b]
    /\ obtained' = [obtained EXCEPT ![r] = "alloc"]
    /\ UNCHANGED <<m_nDataLen, m_EnablePool, releasing, down>>

PushUsed(r, b, prev) ==
    /\ m_dwRefCount' = [m_dwRefCount EXCEPT ![b] = 1]
    /\ m_pNext' = [m_pNext EXCEPT ![b] = m_pUsedList]
    /\ m_pPrev' = [Assign(prev, m_pUsedList, b) EXCEPT ![b] = NULL]
    /\ m_pUsedList' = b
    /\ m_dwBufferCount' = m_dwBufferCount + 1
    /\ owner' = [owner EXCEPT ![r] = b]
    /\ obtained' = [obtained EXCEPT ![r] = "alloc"]
    /\ UNCHANGED <<m_nDataLen, m_EnablePool, releasing, down>>

AllocNew(r, b) ==
    /\ ~down /\ owner[r] = NULL
    /\ m_pFreeList = NULL
    /\ b \notin live
    /\ live' = live \cup {b}
    /\ PushUsed(r, b, m_pPrev)
    /\ UNCHANGED m_pFreeList

AllocPooled(r, b) ==
    /\ ~down /\ owner[r] = NULL
    /\ m_pFreeList # NULL
    /\ b = m_pFreeList
    /\ m_pFreeList' = m_pNext[b]
    /\ PushUsed(r, b, Assign(m_pPrev, m_pNext[b], NULL))
    /\ UNCHANGED live

-----------------------------------------------------------------------------
(* What the holder of a reference s may do with the buffer.                 *)

\* Deliberately wrong: the count stays.
AddRef_NotCounted(r, s) ==
    /\ ~down /\ owner[r] = NULL /\ owner[s] # NULL
    /\ \A t \in Threads : releasing[t] # s
    /\ owner' = [owner EXCEPT ![r] = owner[s]]
    /\ obtained' = [obtained EXCEPT ![r] = "addref"]
    /\ UNCHANGED <<fields, m_EnablePool, releasing, down>>

AddRef(r, s) ==
    /\ ~down /\ owner[r] = NULL /\ owner[s] # NULL
    /\ \A t \in Threads : releasing[t] # s
    /\ m_dwRefCount' = [m_dwRefCount EXCEPT ![owner[s]] = @ + 1]
    /\ owner' = [owner EXCEPT ![r] = owner[s]]
    /\ obtained' = [obtained EXCEPT ![r] = "addref"]
    /\ UNCHANGED <<m_pFreeList, m_pUsedList, m_pNext, m_pPrev, m_nDataLen,
                   m_dwBufferCount, live, m_EnablePool, releasing, down>>

SetTotalLenth(s, nPos) ==
    /\ ~down /\ owner[s] # NULL
    /\ \A t \in Threads : releasing[t] # s
    /\ m_nDataLen' = [m_nDataLen EXCEPT ![owner[s]] = nPos]
    /\ UNCHANGED <<m_pFreeList, m_pUsedList, m_pNext, m_pPrev, m_dwRefCount,
                   m_dwBufferCount, live, m_EnablePool, owner, obtained, releasing, down>>

-----------------------------------------------------------------------------
(* ReleaseDataBuff: the test of the count, then the part under the lock.    *)

ReleaseCheck(t, s) ==
    /\ ~down /\ releasing[t] = NULL
    /\ owner[s] # NULL
    /\ \A u \in Threads : releasing[u] # s
    /\ m_dwRefCount[owner[s]] > 0
    /\ releasing' = [releasing EXCEPT ![t] = s]
    /\ UNCHANGED <<fields, m_EnablePool, owner, obtained, down>>

\* The reference thread t gives up is gone when the call returns.
Returned(t) ==
    /\ owner' = [owner EXCEPT ![releasing[t]] = NULL]
    /\ obtained' = [obtained EXCEPT ![releasing[t]] = "not"]
    /\ releasing' = [releasing EXCEPT ![t] = NULL]
    /\ UNCHANGED <<m_EnablePool, down>>

\* Deliberately wrong: a buffer less although this one is still in use.
ReleaseShared_Uncounts(t) ==
    /\ releasing[t] # NULL
    /\ m_dwRefCount[owner[releasing[t]]] > 1
    /\ m_dwRefCount' = [m_dwRefCount EXCEPT ![owner[releasing[t]]] = @ - 1]
    /\ m_dwBufferCount' = m_dwBufferCount - 1
    /\ Returned(t)
    /\ UNCHANGED <<m_pFreeList, m_pUsedList, m_pNext, m_pPrev, m_nDataLen, live>>

ReleaseShared(t) ==
    /\ releasing[t] # NULL
    /\ m_dwRefCount[owner[releasing[t]]] > 1
    /\ m_dwRefCount' = [m_dwRefCount EXCEPT ![owner[releasing[t]]] = @ - 1]
    /\ Returned(t)
    /\ UNCHANGED <<m_pFreeList, m_pUsedList, m_pNext, m_pPrev, m_nDataLen,
                   m_dwBufferCount, live>>

\* Deliberately wrong: the buffer keeps its length.
ReleaseLast_KeepsLength(t, b) ==
    /\ releasing[t] # NULL
    /\ b = owner[releasing[t]]
    /\ m_dwRefCount[b] <= 1
    /\ m_dwRefCount' = [m_dwRefCount EXCEPT ![b] = @ - 1]
    /\ m_pUsedList' = IF m_pUsedList = b THEN m_pNext[b] ELSE m_pUsedList
    /\ m_dwBufferCount' = m_dwBufferCount - 1
    /\ Returned(t)
    /\ UNCHANGED m_nDataLen

\* The last reference: the buffer's own fields and the head of the used list.
ReleaseLast(t, b) ==
    /\ releasing[t] # NULL
    /\ b = owner[releasing[t]]
    /\ m_dwRefCount[b] <= 1
    /\ m_dwRefCount' = [m_dwRefCount EXCEPT ![b] = @ - 1]
    /\ m_nDataLen' = [m_nDataLen EXCEPT ![b] = 0]
    /\ m_pUsedList' = IF m_pUsedList = b THEN m_pNext[b] ELSE m_pUsedList
    /\ m_dwBufferCount' = m_dwBufferCount - 1
    /\ Returned(t)

\* Deliberately wrong: the buffer before b still points to it.
NextWithout_Kept(b) == m_pNext

\* The links once b has been taken out of the used list.
NextWithout(b) == IF m_pUsedList = b THEN m_pNext ELSE Assign(m_pNext, m_pPrev[b], m_pNext[b])
PrevWithout(b) == Assign(m_pPrev, m_pNext[b], IF m_pUsedList = b THEN NULL ELSE m_pPrev[b])

ReleaseToPool(t, b) ==
    /\ ReleaseLast(t, b)
    /\ m_EnablePool
    /\ m_pNext' = [NextWithout(b) EXCEPT ![b] = m_pFreeList]
    /\ m_pPrev' = Assign([PrevWithout(b) EXCEPT ![b] = NULL], m_pFreeList, b)
    /\ m_pFreeList' = b
    /\ UNCHANGED live

\* Nothing is left of a deleted buffer: its fields are as in one not yet made.
ReleaseDelete(t, b) ==
    /\ ReleaseLast(t, b)
    /\ ~m_EnablePool
    /\ m_pNext' = [NextWithout(b) EXCEPT ![b] = NULL]
    /\ m_pPrev' = [PrevWithout(b) EXCEPT ![b] = NULL]
    /\ live' = live \ {b}
    /\ UNCHANGED m_pFreeList

-----------------------------------------------------------------------------
\* S has the first buffer of a list and, with every buffer, the one after it.
Closed(next, head, S) ==
    /\ head # NULL => head \in S
    /\ \A b \in S : next[b] # NULL => next[b] \in S

\* The buffers a walk along m_pNext meets: those no closed set can leave out.
Chain(head) == {b \in Buffers : \A S \in SUBSET Buffers : Closed(m_pNext, head, S) => b \in S}

\* The destructor of the allocator's static object, after the last call.
ReleaseAll ==
    /\ ~down
    /\ \A t \in Threads : releasing[t] = NULL
    /\ down' = TRUE
    /\ live' = live \ (Chain(m_pFreeList) \cup Chain(m_pUsedList))
    /\ UNCHANGED <<m_pFreeList, m_pUsedList, m_pNext, m_pPrev, m_dwRefCount, m_nDataLen,
                   m_dwBufferCount, m_EnablePool, owner, obtained, releasing>>

Next ==
    \/ \E r \in References, b \in Buffers : AllocNew(r, b) \/ AllocPooled(r, b)
    \/ \E r, s \in References : AddRef(r, s)
    \/ \E s \in References, nPos \in 0 .. SIZE : SetTotalLenth(s, nPos)
    \/ \E t \in Threads, s \in References : ReleaseCheck(t, s)
    \/ \E t \in Threads : ReleaseShared(t)
    \/ \E t \in Threads, b \in Buffers : ReleaseToPool(t, b) \/ ReleaseDelete(t, b)
    \/ ReleaseAll

Spec == Init /\ [][Next]_vars

-----------------------------------------------------------------------------
Pointer == Buffers \cup {NULL}

(* Every variable keeps its type; the count of buffers does not wrap.       *)
TypeOK ==
    /\ m_pFreeList \in Pointer /\ m_pUsedList \in Pointer
    /\ m_pNext \in [Buffers -> Pointer] /\ m_pPrev \in [Buffers -> Pointer]
    /\ m_dwRefCount \in [Buffers -> Nat]
    /\ m_nDataLen \in [Buffers -> 0 .. SIZE]
    /\ m_dwBufferCount \in Nat
    /\ m_EnablePool \in BOOLEAN
    /\ live \subseteq Buffers
    /\ owner \in [References -> Pointer]
    /\ obtained \in [References -> {"alloc", "addref", "not"}]
    /\ releasing \in [Threads -> References \cup {NULL}]
    /\ down \in BOOLEAN

Used == {b \in Buffers : m_dwRefCount[b] > 0}

(***************************************************************************)
(* The assertions of DataBuffer.h: the buffer at the head of the free list *)
(* has no reference left (line 139), a thread on its way into the locked    *)
(* part of ReleaseDataBuff, and a caller about to call it, find a count     *)
(* above 0 (line 164), and a buffer in use that is not the head of its list *)
(* has one before it (line 187).                                            *)
(***************************************************************************)
AssertsHold ==
    /\ m_pFreeList # NULL => m_dwRefCount[m_pFreeList] = 0
    /\ \A r \in References : owner[r] # NULL => m_dwRefCount[owner[r]] > 0
    /\ \A b \in Used : b # m_pUsedList => m_pPrev[b] # NULL

(***************************************************************************)
(* A walk along one list meets every buffer in use, a walk along the other *)
(* every buffer that waits in the pool, and neither meets any other one:    *)
(* unlinking from the middle of a list never cuts a tail off and never      *)
(* leaves a freed buffer reachable.  So ReleaseAll deletes every buffer.    *)
(***************************************************************************)
ListsPartition ==
    IF down THEN live = {}
    ELSE /\ Chain(m_pUsedList) = Used
         /\ Chain(m_pFreeList) = live \ Used
         /\ Used \subseteq live
         /\ m_dwBufferCount = Cardinality(Used)

(***************************************************************************)
(* A buffer of the pool carries nothing over from its last use: AllocDataBuff *)
(* does not touch m_nDataLen and yet returns a buffer of length 0.          *)
(***************************************************************************)
PoolClean == \A b \in Buffers \ Used : m_nDataLen[b] = 0

Owners == INSTANCE BufferOwners

(***************************************************************************)
(* AllocDataBuff returns a buffer only while nobody holds a reference to   *)
(* it, although ReleaseDataBuff tests the count before it takes the lock.   *)
(***************************************************************************)
ImplementsOwners == Owners!Spec
=============================================================================
