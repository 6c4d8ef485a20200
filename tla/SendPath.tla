------------------------------ MODULE SendPath ------------------------------
(***************************************************************************)
(* What one CNetSession sends (CNetManager::SendMessageData, SendBuffer,    *)
(* RetHttpHandlerPackkage, DoSend, HandWritedata).                          *)
(*                                                                         *)
(* The game thread queues messages and posts a DoSend for each; the io      *)
(* thread queues the answer to the handshake and runs every DoSend.  The    *)
(* queue is lock-free and is pushed by one thread while the other pops, so  *)
(* a push and a pop are one step each and a DoSend is several.              *)
(*                                                                         *)
(* DoSend gives async_write a buffer of its own stack frame.  Overlapped    *)
(* writes of a socket are served in order; each takes its bytes at once or  *)
(* later, when the memory holds the next message of the same loop or, once  *)
(* DoSend has returned, may hold anything.                                  *)
(*                                                                         *)
(* That buffer has 1024 bytes whatever the message.  A longer one is copied *)
(* over what lies behind it on the stack: the process may die of it, at     *)
(* once or when the frame is checked at DoSend's return, or go on.          *)
(***************************************************************************)
EXTENDS SizeClasses, Sequences

CONSTANTS
    CAPACITY,     \* of lockfree_queue (40000)
    Sizes,        \* total lengths of the messages sent, header included
    AnswerSize,   \* length of the answer to the handshake
    MaxSends      \* bound: calls of SendMessageData

\* DoSend's char buf[1024]
BufSize == 1024

ASSUME SendAssumption ==
    /\ CAPACITY \in Nat /\ CAPACITY > 0
    /\ Sizes \subseteq Nat /\ AnswerSize \in Nat
    /\ MaxSends \in Nat

(***************************************************************************)
(* An "early" message is sent before the service has seen data of the      *)
(* connection (from OnNewConnect, or unasked), a "reply" after that.        *)
(***************************************************************************)
Message == [no : 0 .. MaxSends, kind : {"answer", "early", "reply"},
            size : Sizes \cup {AnswerSize}]
Answer == [no |-> 0, kind |-> "answer", size |-> AnswerSize]
\* Any other bytes.
Garbage == [no |-> 0, kind |-> "garbage", size |-> 0]

VARIABLES
    lockfree_queue,
    posted,         \* DoSend handlers the io_service has been given by post
    game,           \* the game thread: "idle", or in SendMessageData before "post"
    io,             \* the io thread: "idle", or in a DoSend, "send" or "answer"
    m_IsHandler,    \* the handshake has been answered, and data may come
    writing,        \* the writes whose bytes have not been taken yet
    unfinished,     \* writes that have been taken and not yet completed
    written,        \* history: the messages given to async_write
    wire,           \* history: what was sent, with the number of bytes
    sends,          \* calls of SendMessageData so far
    answerLost,     \* the queue was full when the answer was pushed
    smashed,        \* the running DoSend has written past the end of buf
    crashed         \* the process has died of it

stack == <<smashed, crashed>>
vars == <<lockfree_queue, posted, game, io, m_IsHandler, writing, unfinished,
          written, wire, sends, answerLost, stack>>

Init ==
    /\ lockfree_queue = <<>>
    /\ posted = 0
    /\ game = "idle"
    /\ io = "idle"
    /\ m_IsHandler = FALSE
    /\ writing = <<>>
    /\ unfinished = 0
    /\ written = <<>>
    /\ wire = <<>>
    /\ sends = 0
    /\ answerLost = FALSE
    /\ smashed = FALSE
    /\ crashed = FALSE

-----------------------------------------------------------------------------
(* The game thread.                                                         *)

\* Deliberately wrong: one message too many.
Full_Late == Len(lockfree_queue) > CAPACITY

Full == Len(lockfree_queue) = CAPACITY

SendBuffer(m) ==
    /\ ~Full
    /\ lockfree_queue' = Append(lockfree_queue, m)
    /\ game' = "post"

\* The push fails, and SendMessageData returns true.
SendBufferFails ==
    /\ Full
    /\ UNCHANGED <<lockfree_queue, game>>

\* Deliberately wrong: ExtractBuffer is called before the handshake too.
DataSeen_Always == TRUE

\* The service can have got data of the connection.
DataSeen == m_IsHandler

\* SendMessageData up to the post.
SendMessageData(kind, size) ==
    /\ ~crashed /\ game = "idle" /\ sends < MaxSends
    /\ kind = "reply" => DataSeen
    /\ sends' = sends + 1
    /\ SendBuffer([no |-> sends', kind |-> kind, size |-> size]) \/ SendBufferFails
    /\ UNCHANGED <<posted, io, m_IsHandler, writing, unfinished, written, wire,
                   answerLost, stack>>

Post ==
    /\ ~crashed /\ game = "post"
    /\ posted' = posted + 1
    /\ game' = "idle"
    /\ UNCHANGED <<lockfree_queue, io, m_IsHandler, writing, unfinished, written, wire,
                   sends, answerLost, stack>>

-----------------------------------------------------------------------------
(* The io thread.                                                           *)

\* The request has come.  Nobody looks at the result of the push.
RetHttpHandlerPackkage ==
    /\ ~crashed /\ io = "idle" /\ ~m_IsHandler
    /\ io' = "answer"
    /\ answerLost' = Full
    /\ lockfree_queue' = IF Full THEN lockfree_queue ELSE Append(lockfree_queue, Answer)
    /\ UNCHANGED <<posted, game, m_IsHandler, writing, unfinished, written, wire, sends,
                   stack>>

\* The io_service runs a posted DoSend.
RunPosted ==
    /\ ~crashed /\ io = "idle" /\ posted > 0
    /\ posted' = posted - 1
    /\ io' = "send"
    /\ UNCHANGED <<lockfree_queue, game, m_IsHandler, writing, unfinished, written,
                   wire, sends, answerLost, stack>>

\* A write is complete: the handler calls DoSend, or returns on an error.
HandWritedata(error) ==
    /\ ~crashed /\ io = "idle" /\ unfinished > 0
    /\ unfinished' = unfinished - 1
    /\ io' = IF error THEN "idle" ELSE "send"
    /\ UNCHANGED <<lockfree_queue, posted, game, m_IsHandler, writing, written, wire,
                   sends, answerLost, stack>>

\* Deliberately wrong: the loop is left although the queue is not empty.
Drained_Always == TRUE

\* pop fails.
Drained == lockfree_queue = <<>>

\* What the memory of the writes holds once m has been copied into buf.
CopyTo(m) == [i \in DOMAIN writing |-> IF writing[i].live THEN [writing[i] EXCEPT !.msg = m]
                                       ELSE writing[i]]

\* One turn of the loop: as much as the message has is copied, and the whole
\* size of its buffer is written.
DoSend ==
    LET m == Head(lockfree_queue) IN
    /\ ~crashed /\ io # "idle" /\ lockfree_queue # <<>>
    /\ lockfree_queue' = Tail(lockfree_queue)
    /\ smashed' = (smashed \/ m.size > BufSize)
    /\ writing' = Append(CopyTo(m), [given |-> m, msg |-> m, bytes |-> AllocDataBuff(m.size),
                                     live |-> TRUE])
    /\ written' = Append(written, m)
    /\ UNCHANGED <<posted, game, io, m_IsHandler, unfinished, wire, sends, answerLost, crashed>>

\* The loop ends and its frame is dead.  After the answer HandleRecvEvent sets
\* m_IsHandler.
DoSendReturns ==
    /\ ~crashed /\ io # "idle" /\ Drained
    /\ m_IsHandler' = (m_IsHandler \/ io = "answer")
    /\ writing' = [i \in DOMAIN writing |-> [writing[i] EXCEPT !.live = FALSE]]
    /\ io' = "idle"
    /\ smashed' = FALSE
    /\ UNCHANGED <<lockfree_queue, posted, game, unfinished, written, wire, sends, answerLost,
                   crashed>>

\* What lay behind buf was needed.
Crash ==
    /\ ~crashed /\ smashed
    /\ crashed' = TRUE
    /\ UNCHANGED <<lockfree_queue, posted, game, io, m_IsHandler, writing, unfinished,
                   written, wire, sends, answerLost, smashed>>

\* The operating system takes the bytes of the oldest write.
TakeBytes ==
    /\ ~crashed /\ writing # <<>>
    /\ \E taken \in {Head(writing).msg, Garbage} :
          /\ Head(writing).live => taken = Head(writing).msg
          /\ wire' = Append(wire, [msg |-> taken, bytes |-> Head(writing).bytes])
    /\ writing' = Tail(writing)
    /\ unfinished' = unfinished + 1
    /\ UNCHANGED <<lockfree_queue, posted, game, io, m_IsHandler, written, sends, answerLost,
                   stack>>

DoSendStep == DoSend \/ DoSendReturns

Next ==
    \/ \E kind \in {"early", "reply"}, size \in Sizes : SendMessageData(kind, size)
    \/ Post
    \/ RetHttpHandlerPackkage \/ RunPosted
    \/ \E error \in BOOLEAN : HandWritedata(error)
    \/ DoSendStep \/ Crash
    \/ TakeBytes

Spec == Init /\ [][Next]_vars

(***************************************************************************)
(* The io thread runs what was posted and a DoSend goes on; the game thread *)
(* inside SendMessageData goes on.  Nothing is assumed of the network.      *)
(***************************************************************************)
FairSpec == Spec /\ WF_vars(Post) /\ WF_vars(RunPosted) /\ WF_vars(DoSendStep)

-----------------------------------------------------------------------------
\* A write: the message it was given, and what its memory holds now.
Write == [given : Message, msg : Message, bytes : Nat, live : BOOLEAN]

(* Every variable keeps its type.                                           *)
TypeOK ==
    /\ lockfree_queue \in Seq(Message) /\ Len(lockfree_queue) <= CAPACITY
    /\ posted \in Nat /\ unfinished \in Nat
    /\ game \in {"idle", "post"}
    /\ io \in {"idle", "send", "answer"}
    /\ m_IsHandler \in BOOLEAN /\ answerLost \in BOOLEAN
    /\ smashed \in BOOLEAN /\ crashed \in BOOLEAN
    /\ writing \in Seq(Write)
    /\ written \in Seq(Message)
    /\ wire \in Seq([msg : Message \cup {Garbage}, bytes : Nat])
    /\ sends \in 0 .. MaxSends

(***************************************************************************)
(* No lost wakeup: while a message waits in the queue, a DoSend is running, *)
(* has been posted, or is about to be.  A push that falls between the last  *)
(* pop of one DoSend and its return has its own post, so no message, and no *)
(* full queue, is left behind until somebody sends again.                   *)
(***************************************************************************)
NoStranded == lockfree_queue # <<>> => io # "idle" \/ posted > 0 \/ game = "post"

(***************************************************************************)
(* The peer gets the answer to its handshake before any reply to its data, *)
(* whichever thread's push and whichever DoSend comes first, unless the     *)
(* queue was full and the answer was lost.  (A message sent before data     *)
(* have come may overtake the answer.)                                      *)
(***************************************************************************)
AnswerBeforeReplies ==
    answerLost \/ \A i \in DOMAIN written :
                      written[i].kind = "reply" => \E j \in 1 .. i : written[j] = Answer

(***************************************************************************)
(* Which messages overrun DoSend's buf.  async_write is told to write the   *)
(* whole buffer of the size class, so it reads past the end of buf just for *)
(* messages of 1K and more; and only a message of more than 1K, which was   *)
(* written, can have damaged the stack or ended the process.  A session     *)
(* that is sent nothing longer is safe whatever the order of pushes and     *)
(* writes.                                                                  *)
(***************************************************************************)
OverrunsAreLong ==
    /\ \A i \in DOMAIN writing : writing[i].bytes > BufSize <=> writing[i].given.size >= BufSize
    /\ smashed \/ crashed => \E i \in DOMAIN written : written[i].size > BufSize

(***************************************************************************)
(* The queue with its wakeups is a FIFO channel to async_write: whatever    *)
(* two threads push is written once, in order, and, with the fairness of    *)
(* FairSpec, eventually, unless a message that overran buf has ended the    *)
(* process.  A push into a full queue is no step of the channel: that       *)
(* message is lost.                                                         *)
(***************************************************************************)
Channel == INSTANCE ServiceChannel WITH Packets <- Message, pending <- lockfree_queue,
                                        handled <- written

ImplementsChannel == Channel!ChannelSafety /\ (<>crashed \/ Channel!Served)

-----------------------------------------------------------------------------
(***************************************************************************)
(* DoSend "must keep a copy for sending here" (CNetSession .cpp, line 277): *)
(* what goes out is what was given to async_write, message by message.      *)
(***************************************************************************)
WireIsWritten == \A i \in DOMAIN wire : wire[i].msg = written[i]
=============================================================================
