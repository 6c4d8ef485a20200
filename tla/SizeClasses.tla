---------------------------- MODULE SizeClasses ----------------------------
(***************************************************************************)
(* CBufferAllocator (Common/DataBuffer.cpp): which CBufferManager serves a  *)
(* request of nSize bytes.  A manager is named by the size of its buffers,  *)
(* which is what GetBufferSize of a buffer it hands out returns.            *)
(***************************************************************************)
EXTENDS Integers

Pooled == {64, 128, 256, 512, 1024, 2048, 4096, 8192, 16384, 32768, 65536}

\* m_BufferManagerAny
AnySize == 10 * 1024 * 1014

Larger(nSize) == {c \in Pooled : nSize < c}

\* Deliberately wrong: the managers of 1K and 2K are swapped.
AllocDataBuff_Swapped(nSize) ==
    IF nSize < 1024 THEN 2048 ELSE IF nSize < 2048 THEN 1024 ELSE AnySize

\* The chain of ifs tries the managers from the smallest to the largest.
AllocDataBuff(nSize) ==
    IF Larger(nSize) = {} THEN AnySize
    ELSE CHOOSE c \in Larger(nSize) : \A d \in Larger(nSize) : c <= d

-----------------------------------------------------------------------------
\* What ExtractBuffer, RetHttpHandlerPackkage or SendMessageData copies into
\* the buffer they asked for stays inside it.
Fits(nSize) == nSize <= AllocDataBuff(nSize)
=============================================================================
