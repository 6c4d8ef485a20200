# A TLA+ model of ALLServer

ALLServer is a C++ game-server framework under development: a WebSocket
gateway built on boost::asio, with a network layer (`src/ServerEngine/baseinet`),
a pooled buffer allocator (`src/Common/DataBuffer.*`) and a small service on top
(`src/Gateway`).  The modules here model its concurrent and stateful core.  TLC
checks each of them on small instances, and TLAPS proves the main safety
properties for every value of the parameters.

Contents: [1 The system](#1-the-system) ·
[2 Modules](#2-modules-and-their-correspondence-to-the-code) ·
[3 Runs](#3-runs) · [4 Fairness](#4-fairness) · [5 Proofs](#5-proofs) ·
[6 Disagreements found](#6-disagreements-between-comments-and-code) ·
[7 Limits](#7-what-is-not-modelled-and-why) · [8 Plan](#8-plan)

## 1 The system

### Threads

There are two threads.  `CNetManager::Start` makes one `std::thread` that runs
`io_service::run` (CNetManager.cpp:32); every completion handler of every
socket runs there, one at a time.  The main thread runs `CGameService::Run`
(CGameService.cpp:34-40), an endless loop around `CServiceBase::Update` that
calls the packet handlers.  Game logic on the main thread may call back into the
network layer (`ConnectTo`, `SendMsgProtoBuf`).

    peer --bytes--> CNetSession --NetPacket--> CServiceBase --callback--> CGameService
         (asio)     handshake,      (m_QueueLock,              DispatchPacket
                    framing         two deques)
                       ^                                            |
         CNetManager --+-- CNetSessionMrg <-- ConnectTo, SendMsgProtoBuf
         accept/connect    (m_GetSessionMutex)

    CBufferAllocator / CBufferManager<SIZE>: every buffer that crosses a thread

### Inventory

| component | state | operations | what is hard | what makes it correct |
|---|---|---|---|---|
| `CServiceBase` | two deques, two pointers, `m_QueueLock` | `OnNewConnect`, `OnCloseConnect`, `OnDataHandle`, `Update` | the walk and the clear happen without the lock | no race on a deque; every packet dispatched exactly once, in order, eventually |
| `CNetSession`, receiving | `m_pRecvBuf`, the long packet in progress, `m_IsHandler`, the socket | `HandReaddata`, `HandleRecvEvent`, `CheckHttpPackkage`, `ExtractBuffer`, `Close` | TCP cuts the stream anywhere; 32-bit length arithmetic; packets longer than the buffer | no write outside a buffer, no byte lost or repeated, frames cut where the stream has them, silence after close, progress |
| `CNetSession`, sending | bounded lock-free queue of 40000 buffers | `SendBuffer`, `DoSend`, `HandWritedata` | two threads; a write from a stack buffer; overlapping writes; a full queue | nothing queued is forgotten; bytes on the wire are those queued |
| `CNetSessionMrg`, `CNetManager` | unused sessions, map of used ones, `m_GetSessionMutex`, outstanding accept and connects | `CreateNetSession`, `GetNetSessionByID`, `WaitForConnet`, `HandleAccept`, `ConnectTo_Async`, `HandleConnect` | two threads take sessions; an early return keeps the mutex; errors end the accept loop | a session serves one connection; an announced session can be looked up; the server keeps listening |
| `CBufferManager`, `CDataBuffer` | two intrusive lists, reference counts, buffer count | `AllocDataBuff`, `ReleaseDataBuff`, `AddRef`, `ReleaseAll` | the count is tested before the lock is taken; unlinking from the middle; reuse | assertions hold; lists never lose a buffer; nobody gets a buffer another one still refers to |
| `CBufferAllocator` | twelve managers | `AllocDataBuff(size)` | boundaries of the size classes | the buffer is large enough |
| `CGameService`, `Main` | none of its own | `Init`, `Run`, `DispatchPacket` | unsigned length of a short packet; what one connection's end does to the others | events of a connection come in order; the game loop goes on |
| `CMsgDispatcher`, `CMsgDispacher`, `IMsgHandle` | callback maps | register, dispatch | callbacks that register and dispatch while they run | the callback registered last is the one called |
| `CheckHeader` | the global `m_nCheckNo` | check of a packet header | one global counter for all sessions; wrap-around | a client that numbers its packets one by one is refused only when others have moved the counter |
| `HttpParameter`, `CommonFunc` | pure functions | encode, decode, split | boundaries | parsing understands what is written |
| `CServerConfig` | two indexes of the JSON entries | load, look up by name or id | two entries with the same id | an entry is found unless a later one hides it; the server comes to listen |
| `crypt` | pure functions | base64, SHA-1 | padding | reference definition |
| `http_parser`, `mjson`, protobuf, boost | third party or generated | | | |

`PROJECT.json` lists every component with its status, and under `hazards` the
places where the code is hard to test, each with the properties that would catch
it going wrong, or the reason why none does yet.

## 2 Modules and their correspondence to the code

`PROJECT.json` maps every definition to the lines it models.  Definitions keep
the code's names.  An operator whose comment begins with "Deliberately wrong" is
a faulty variant of the operator below it; replacing the right one by it makes a
property fail, which shows that the property depends on that code.  No
specification uses them.

### ServiceChannel and ServiceQueue: `CServiceBase`

`ServiceChannel` is the promise: one unbounded FIFO channel (`Put`, `Take`)
whose consumer eventually takes everything.  `ServiceQueue` is the code.

* `deque[1]` and `deque[2]` are the two `std::deque` objects, and
  `m_pRecvDataQueue` and `m_pDispathQueue` say which is which.
* `OnPacket` begins one of the three producers, which differ only in the
  `NetPacket` they build; `IoLock`, `IoPushBegin`, `IoPushEnd`, `IoUnlock` are
  its statements.  A deque is not thread safe, so a push takes two steps, and
  between them the thread is inside the deque.
* `UpdateLock` ... `UpdateClear` are the statements of `Update`; `UpdateItem` is
  one turn of its loop, callback included.
* `handed` and `handled` are history variables.

The mapping to the channel is `pending <- InFlight`: what Update has not yet
walked, followed by the receive deque.  `CLOSE_CONNECTION` packets count as
processed although `Update` only logs them: it never calls the dispatcher's
`OnCloseConnect`.

### SessionEvents and WsReceive: the receive path of one `CNetSession`

`SessionEvents` is the promise to the service: data only after the handshake, at
most two packets to a read event, one close and nothing behind it.  `SessionCalls`
names what one handler may call of `IDataHandler`; `WsReceive` records it in `calls`.
`WsReceive` is the code.  The mapping is `phase <- Phase`, with `calls` and `closes`
as they are: buffers, cuts and long packets disappear.

A byte in a buffer is named by its *position* in the stream the peer sends, so a
byte that is lost, copied twice or misplaced is visible; its *value* is looked up
only where `recv_ws_header` looks at it.  A read returns any number of the bytes
that are there (1 up to the space left; exactly 0 into a full buffer).  A
handler runs to its end on the one io thread and is one step.

| action | code |
|---|---|
| `HandshakeOk`, `HandshakeFails` | `HandleRecvEvent` before the handshake, `CheckHttpPackkage`, `RetHttpHandlerPackkage`, `Close` |
| `ContinueLong` | `ExtractBuffer`: the buffer disappears in the long packet in progress |
| `TooBig` | size at least `MAX_PKG_SIZE`: `Close` |
| `WaitForMore` | an incomplete packet that fits the buffer |
| `Deliver` | a complete packet; the loop is left after one |
| `StartLong` | a packet longer than the buffer begins |
| `ReadError` | `HandReaddata` with an error: returns, without `Close` |

The last four also complete the long packet in progress first (`Completed`,
`Rest`), with the size the code read from the front of the buffer *before* that
(`PacketSize(buf)`, where buf is the whole buffer), as the code does.
`recv_ws_header` keeps its 32-bit arithmetic (`Add14`), the little-endian lengths
and its "-1" cases, which leave the size at 0.

Abstractions: `m_pCurBufferSize = 0` stands for a null `m_pCurRecvBuffer`; sizes
of 2^16 and more are all "too big" and are represented by 2^16 (TLC integers have
32 bits); the HTTP request is a run of bytes in which the key's value occupies
`keyFrom .. keyEnd`, and the third-party parser reports as much of the value as
is there; the 127-byte limit of `client_ws_key` and the text of the answer are
left out.  Exceptions of `shutdown` and `remote_endpoint` on a socket that was
just reset end the process; for the session this is `ReadError`.

### BufferOwners and BufferPool: `CBufferManager<SIZE>` and `CDataBuffer`

`BufferOwners` is the promise: a buffer is allocated only while nobody refers to
it, and every other reference came from `AddRef`.  `BufferPool` is the code at
the level of its pointers: heads, `m_pNext`, `m_pPrev`, `m_dwRefCount`,
`m_nDataLen`, `m_dwBufferCount`.

* `AllocNew` and `AllocPooled` are the two branches of `AllocDataBuff`;
  `PushUsed` is their common tail.
* `ReleaseCheck` is the test at the top of `ReleaseDataBuff`, made *before* the
  lock is taken; `ReleaseShared`, `ReleaseToPool` and `ReleaseDelete` are what
  happens under the lock.  A section under `m_BuffMutex` is one step.
* `AddRef`, `SetTotalLenth` and `ReleaseAll` are the remaining state changes.
  What the walk of `ReleaseAll` meets from a head is `Chain`, the least set that holds
  the head and is closed under `m_pNext` (`Closed`).

What callers hold is `owner`: a reference is released once, by one thread, and
only by its holder.  This is the discipline the API asks for; the repository
itself allocates and never releases or shares a buffer yet, so these actions
model the interface offered to game logic.  The abstract variables `owner` and
`obtained` are the concrete ones (identity mapping): the content of the
refinement is that the pointer-level guards (head of the free list, a fresh
`new`) imply that nobody refers to the buffer.

### SessionPool: `CNetSessionMrg` and `CNetManager`

`m_NetSessionVector` (unused sessions), `m_OnlineNetSessionVector` (keys of the
map), `m_GetSessionMutex`, and the local variable of `CreateNetSession` in each
thread.  `Lock`, `Empty`, `Back`, `Insert`, `Pop`, `Unlock` are the statements of
`CreateNetSession`; `Empty` is the early return that keeps the mutex locked.
`HandleAccept`, `HandleAcceptError`, `WaitForConnet`, `WaitForConnetFails`,
`HandleConnect`, `HandleConnectError` are the io thread; `ConnectTo_Async`,
`AsyncConnect`, `ConnectDies` the game thread.

`Init` is the state in which `CNetManager::Start` creates the io thread: it has
run `InitConnectionList` and the first `WaitForConnet` alone, so with
`nMaxCons >= 1` the last session is waiting in an accept.  Nothing in the code
catches the exceptions of `resolve` or survives the null session `ConnectTo_Async`
dereferences: `crashed` stands for the end of the process.  No caller of
`ConnectTo` exists in the repository yet; it is modelled as the interface it
offers to the game loop.

`SessionID` is the id `InitConnectionList` gives the i-th session.

### SizeClasses: `CBufferAllocator`

`AllocDataBuff(nSize)` is the size of the buffer a request gets: the smallest
class that is strictly larger, or `AnySize`, which is 10 * 1024 * 1014, for every
larger size without a limit.

### SendPath: sending on one `CNetSession`

The game thread runs `SendMessageData`: a push into `lockfree_queue` (bounded;
a failed push is ignored), then a `post` of `DoSend`.  The io thread runs
`RetHttpHandlerPackkage` (push and a `DoSend` of its own), posted `DoSend`s
(`RunPosted`) and completed writes (`HandWritedata`, which calls `DoSend` again).
`DoSend` is one turn of the loop and `DoSendReturns` its end; pushes of the other
thread fall between turns.

`async_write` gets the array `buf` of `DoSend`'s frame.  `writing` is the list of
writes whose bytes the operating system has not yet taken, with what their memory
holds: the next turn of the same loop overwrites it (`CopyTo`), and once the frame
is dead (`live` false) it may be anything (`Garbage`).  A write may be taken at
any time, in order.  An "early" message is one the service sends before it has
seen data of the connection, a "reply" one it sends after.

Abstractions: a message is its number, kind and total length; the fields of the
header other than `dwSize` are left out; a write that fails is a `HandWritedata`
with an error; the peer's close is not modelled here, so every result is about the
time the socket is open.  Lengths of 2^31 and more, which the signed parameters turn
into negative numbers, are left out.

No code between `SendMessageData` and `DoSend` limits the length, so `Sizes` is any
set.  A message of more than 1024 bytes is copied over what lies behind `buf` on the
stack (`smashed`); what comes of that is undefined.  The model has the outcomes a
build can produce that matter here: the process dies, at once or when `DoSend` returns
and its frame is checked (`Crash`), or it goes on.

### Gateway: the composition

`Gateway` EXTENDS `SessionPool`, uses `ServiceChannel` for the queue (which
`ServiceQueue` is shown to implement) and reduces `WsReceive` to the calls a
session makes of `IDataHandler` (`phase`, `Outcomes`).  The calls are those of
`SessionCalls` and the phases those of `SessionEvents`, which `WsReceive` is shown to
implement (`ImplementsSession`, theorem `SessionRefined`).

| action | code |
|---|---|
| `Accepted`, `ConnectedTo` | `HandleAccept`, `HandleConnect`: `OnNewConnect`, `DoReceive` |
| `HandshakeDone`, `HandshakeRefused` | the first read |
| `ExtractBuffer`, `PutNext` | a read event puts its packets one after the other |
| `ReadError` | `HandReaddata` with an error: no CLOSE |
| `HandlerThrows` | `shutdown` or `remote_endpoint` throws: the process ends |
| `IoServiceRuns` | `io_service::run` returns when nothing is outstanding |
| `Dispatch` | a turn of `Update` |
| `GetNetSessionByID` | the lookup for a send; a race with an insertion may have any outcome |

`HandlerThrows` may happen in any read handler: the reset that provokes it can
come at any time.

### PacketCheck: `CheckHeader`

`m_nCheckNo` modulo `WORD`, with the xor of id and size and the sentinel 0, shared by
any number of clients (`Peers`).  `WordXor` is
a constant operator, so that the theorem is about every way to hide a number; the
run gives it the bitwise one.
`SendNext` is a client's next packet, `SendOther` any other one: repeated, out of
order, or with a header that is not allowed.  `disturbed` is a history variable: it
says for each client whether, since its last accepted packet, the counter was moved by
another one or set by a packet of its own out of order.

### Startup: `CServerConfig`, `CGameService::Init`, `CNetManager::Start`

`LoadEntry` is one turn of the loop over the members of "root", `Value` the lookup
by name inside it (of two members with one name it finds the first).  A map is a
total function whose default is what the lookups return for a missing key.
`IoThreadEnds` is `io_service::run` without work.

### Dispatcher: `CMsgDispatcher`

The callbacks run inside `OnceDispatch`, so a dispatch is two steps and the
dispatches that have not returned form a `stack`; anything the class offers may
be called in between.  The message is a local of `OnceDispatch`, made and deleted
with its frame, and is not modelled apart from it.  What protobuf makes of the bytes is a choice:
`OnceDispatch(T)` or `OnceDispatchFails`.  The constructor's two registrations are
`registerMessageCallback` steps like any other.  `m_bCanceled` is set and read by
nobody, as in the code.

### HttpParameter and Base64

Pure functions.  `SpliteString` and `ParseStringToMap` (into an empty map) are
recursive functions along their argument, one turn of the loop to a position or an
item; `SpliteString` is compared with `Stretches`, the longest stretches without a
delimiter, and `ParseStringToMap` with `GetResultString`.  `base64_encode` gives the
characters of its result by their position, four to a turn of the loop, and is
compared with the bits of its argument.  A character of the code is its index in the
alphabet.  `Arguments` puts the functions on all their arguments: a state is a size,
a parameter string or a text.  `MCFunctions` checks it together with `PacketCheck`, the
other module about code on which no thread depends.

### How the modules fit together

`ServiceQueue` implements `ServiceChannel`; `SendPath`'s queue does too, with
`async_write` as its consumer.  `Gateway` composes `SessionPool`, the sessions and
`ServiceChannel`; its sessions are `SessionEvents`, which `WsReceive` implements.
`SendPath` extends `SizeClasses`, whose classes are each a
`BufferPool`.  `Startup` ends where `SessionPool` begins.

## 3 Runs

| run | module, cfg | distinct states | result |
|---|---|---|---|
| `service_queue` | `MCServiceQueue` | 59136 | passes |
| `ws_receive` | `MCWsReceive` | 12668 | passes |
| `ws_empty_packet` | `MCWsReceive`, `MCWsEmptyPacket.cfg` | | violated, section 6 |
| `ws_partial_key` | `MCWsReceive`, `MCWsPartialKey.cfg` | | violated, section 6 |
| `buffer_pool` | `MCBufferPool` | 7422 (with symmetry) | passes |
| `send_path` | `MCSendPath` | 1157467 | passes |
| `send_stack_buffer` | `MCSendPath`, `MCWireIsWritten.cfg` | | violated, section 6 |
| `gateway` | `MCGateway` | 323002 | passes |
| `startup` | `MCStartup` | 8914 | passes |
| `dispatcher` | `MCDispatcher` | 23924 | passes |
| `functions` | `MCFunctions` | 99541 | passes |
| `ten_megabytes` | `Arguments`, `MCTenMegabytes.cfg` | | violated, section 6 |

**service_queue.**  `NoConcurrentAccess`: nobody is inside a deque another thread
uses, and no pointer is swapped under a push.  `FifoExactlyOnce`: processed
packets followed by those in the deques are those handed over.
`ImplementsChannel`: refinement of `ServiceChannel`, with eventual delivery.
Bounds: the one io thread of the code, two connections and all three kinds of
packet, `MaxPackets = 3`.  Three packets can be spread over the deque being
walked, the deque being filled and the one in a producer's hand at the same time,
and allow each deque to be used and reused; the queue has no other state that
depends on their number.

**ws_receive.**  `NoOverflow`, `ByteConservation`; `FramingExact`: delivered
packets with data are the frames of the stream, up to and including the first one
longer than the receive buffer; `ImplementsSession`: refinement of `SessionEvents`, so
among other things silence after a close; `BacklogShrinks`: complete frames may wait
in the buffer, but every read that leaves one there has delivered another;
`StreamIsRead`: the loop reads on
to the end unless a read fails, the session is closed, or the buffer is full and
begins with a length `recv_ws_header` refuses.  Bounds: the buffer has 16 bytes
instead of 8192, the limit is 40 instead of 65535.  16 is more than the longest
header (14) and leaves room for two short frames; 40 allows a packet more than
twice the buffer.  The five streams have every header form, empty payloads,
frames longer than the buffer between short ones, an announced size over the
limit, a 64-bit length that wraps in 32 bits, and one whose high word is not
zero; every way of cutting each of them into reads is explored.
`FramingExact` stops at the first long packet because the property is false
behind it: after completing a long packet the loop uses a size it has read from
the middle of that packet, and may cut a packet at the wrong place.
`ByteConservation` and `NoOverflow` hold there too.  `CHECK_DEADLOCK FALSE`: the
session ends when its read fails.

**buffer_pool.**  `AssertsHold`: the assertions at DataBuffer.h:139, 164 and 187.
`ListsPartition`: a walk along each list meets exactly the buffers in use and the
free ones, so `ReleaseAll` deletes all.  `PoolClean`: a free buffer has length 0.
`ImplementsOwners`.  Bounds: three buffers, the fewest with one in the middle of a
list; two threads, so that two releases of one buffer can both be past the test;
four references, so that a buffer is shared while all three are in use; length 0
or 1, all `PoolClean` tells apart.  Pooling is on and off (`m_EnablePool`).
Symmetry is sound: no definition distinguishes buffers, threads or references, and
`ImplementsOwners` has no fairness.  `CHECK_DEADLOCK FALSE`: the program ends.

**send_path.**  `NoStranded`: a queued message always has a `DoSend` running,
posted or about to be; `AnswerBeforeReplies`; `OverrunsAreLong`: a write reads past
the end of `buf` exactly for messages of 1K and more, because it is given the whole
buffer of the size class, and the stack is damaged, or the process dead, only after a
message of more than 1K was written; `ImplementsChannel`: the queue is a FIFO channel
to `async_write` with eventual writing unless the process dies, where a failed push is
a message that never entered it.  Bounds: a queue of two and four pushes (three
messages and the answer), so that it is full when a message comes and when the answer
comes, and so that a push falls into each point of a `DoSend`; of the sizes, 1023 is
the largest whose class equals `buf` and 1025 the smallest whose copy overruns it.
`CHECK_DEADLOCK FALSE`: everything has been sent, or the process is dead.

**gateway.**  Of the pool: `SessionUsedOnce`, `KnownIsOnline`,
`LockedOnlyWhenEmpty`, `Listening`, and `LockGranted`, nobody waits for the mutex for
ever while there is a session to hand out.  Of the whole: `EventOrder` and
`DispatchGoesOn`.  `SessionPool` is checked here
and not alone: every step of it is a step of the composition, where other
handlers of the io thread come between.  Bounds: three sessions, so that one
waits in an accept from the start, each thread can take one, or one thread both
while the other waits, and both find the pool empty while connections live; one
read event that brings packets, with up to two packets of which the first can be
taken before the second is put.  The events of different connections meet only in
the queue, which more packets leave as it is.  `CHECK_DEADLOCK FALSE`: the process
may die, the mutex may be left locked, and clients need not come.

**startup.**  Every file of up to two entries over two names, ids, addresses and
member names, and `MaxConct` 0 or not: enough for one entry to hide another in
either map, and for the server's own entry to be missing.

**dispatcher.**  Three dispatches, so they nest three deep or follow each other;
two registrations, so one replaces another, before, during or after a dispatch.

**functions.**  `SizesThatFit`: exactly the sizes up to `AnySize` get a buffer that
holds them; every size from 0 to 66000, and five around the largest buffer and around
10M (between them the answer does not change).  `SplitChecked`, `RoundTripChecked`,
`EncodeChecked`: all strings of up to seven characters
over a, b and the two delimiters, enough for three items and for empty and
repeated parts; all texts of up to five bytes over six byte values whose bits
differ at the borders of the 6-bit groups, so each kind of tail stands alone and
behind a group.  `NumberedAccepted`: two clients share the counter, so that each can
put the other out of step, and 32 bits are scaled to 3, so that it wraps within a
behaviour; ids and sizes include both limits and the first value beyond each, and
their xor takes several values.  A behaviour of this run either builds one argument or
sends packets.

## 4 Fairness

* `ServiceQueue`: `WF(Update)`, because `Run` calls `Update` in a loop without
  an exit; `WF(IoStep(t))`, because a thread in a handler runs on.  Weak fairness
  is enough for the lock: only the game thread competes with the one io thread,
  and `MaxPackets` bounds the producers.  No packet need ever come.
* `WsReceive`: `WF(HandleRecvEvent)`: `io_service::run` completes an outstanding
  read when bytes are there.  A read may fail at any time.
* `SessionPool`, within `Gateway`: weak fairness of the steps of a thread inside `CreateNetSession`
  and in its callers.  Nothing is assumed of clients, of the hosts connected to,
  or of the resolver.  `LockGranted` needs no strong fairness here because each
  pass through the mutex uses up a session, and the property allows the vector
  to become empty.
* `SendPath`: weak fairness of the game thread inside `SendMessageData` (`Post`), of
  running what was posted and of a `DoSend`.  `io_service::run` goes on while a
  read of the session is outstanding, which is boost's rule.  Nothing is
  assumed of the network: writes may never be taken or completed.
* `Gateway`: weak fairness of `Dispatch` (the endless `Run`) and of a thread inside a
  read handler, `CreateNetSession` or `ConnectTo_Async`.  Nothing is assumed of
  clients.  In `DispatchGoesOn` the game thread may start a `ConnectTo` again and
  again, but each one uses up a session or ends in one of the exceptions.
* `Startup`: weak fairness of the main thread.
* `BufferPool`, `PacketCheck` and `Dispatcher` have safety properties only.

## 5 Proofs

All proofs are checked by TLAPS 1.4.5 with Z3, Zenon and LS4.

| module | assumption | theorems |
|---|---|---|
| `ServiceQueueProofs` | `QueueAssumption`: the threads and `NoThread` are distinct, `MaxPackets` a natural number | `TypeCorrect`, `RaceFree` (`NoConcurrentAccess`), `FifoDelivery` (`FifoExactlyOnce`), `ChannelRefined` (`ChannelSafety`) |
| `WsReceiveProofs` | `RecvAssumption`: 0 < `RECV_BUF_SIZE` <= `MAX_PKG_SIZE` <= 2^16; each stream has its key inside it | `TypeCorrect`, `BuffersSafe` (`NoOverflow`), `BytesConserved` (`ByteConservation`), `SessionRefined` (`ImplementsSession`), `SilentAfterClose` (`ClosedIsFinal`), `FramesFound` (`FramingExact`), `BacklogServed` (`BacklogShrinks`), `LoopGoesOn` (`ReadsProgress`) |
| `BufferPoolProofs` | `PoolAssumption`: finitely many buffers and references, `NULL` is neither | `TypeCorrect`, `NoAssertFails` (`AssertsHold`), `PoolBuffersClean` (`PoolClean`), `OwnersRefined` (`ImplementsOwners`), `ListsSound` (`ListsPartition`) |
| `GatewayProofs` | `SessionAssumption`: at least one session; `GatewayAssumption`: `MaxReads` a natural number | of the pool alone: `TypeCorrect`, `EverySessionUsedOnce`, `KnownSessionsOnline`, `MutexLeakOnlyWhenEmpty`, `KeepsListening`; of the server: `GatewayTypeCorrect`, `PoolServes` (the last four of them), `EventsInOrder` (`EventOrder`) |
| `SendPathProofs` | `SendAssumption`: a queue of at least one message; messages and answer of any size | `TypeCorrect`, `NothingStranded` (`NoStranded`), `OnlyLongOverrun` (`OverrunsAreLong`), `AnswerFirst` (`AnswerBeforeReplies`), `QueueRefined` (`ChannelSafety`) |
| `FunctionProofs` | `CheckAssumption`: words modulo `WORD` > 1, `WordXor` of words is a word; any number of clients | `NumberedPacketsAccepted` (`NumberedAccepted`) |
| | `ArgumentAssumption` for the run's arguments, none for the functions | `SizesFit` (`SizesThatFit`), `AnswerEncoded` (`EncodeChecked`), `ParametersSplit` (`SplitChecked`) |
| `StartupProofs` | none | `ConfigurationFound` (`EntriesFound`) |
| `DispatcherProofs` | none | `LastDelegateCalled` (`LastRegistrationCalled`) |

The code's own values (8192 and 65535, 20 sessions, one io thread) satisfy the
assumptions.  The queue theorems hold for any number of io threads.  Each module
proves `Init => IInv`, one lemma per action for `IInv /\ [Next]_vars => IInv'`, and
that `IInv` implies the properties.

* **ServiceQueue.**  `FifoExactlyOnce` alone is not inductive: the swap keeps the
  order only if the deque that becomes the receive queue is empty, and the clear
  loses nothing only if the walk has reached the end.  `WalkDone` says both;
  `LockOwner` says that who is between lock and unlock owns the lock, which makes
  pushes and the swap exclusive.  The same invariant gives `ChannelRefined`: the end
  of a push is a `Put`, a turn of the walk a `Take`, and the swap and the clear change
  nothing of `InFlight`.
* **WsReceive.**  `ByteConservation` speaks of sessions past the handshake, so
  `Fresh` adds what the handshake finds: nothing delivered, no long packet begun.
  `NoOverflow` is needed for the arithmetic of `Missing`, and is inductive because
  a long packet is handed over by the very read that fills it.  `ClosedIsFinal`
  needs only that a session of which `OnCloseConnect` was called has a closed socket.
  `SessionRefined` maps every action to the step of `SessionEvents` with its calls; a
  read that cannot happen on a closed or failed socket is what keeps the phases
  apart.  `LoopGoesOn` is the safety core of `StreamIsRead`: with nothing new read,
  a handler that leaves the session reading has shortened the buffer (`HandlerProgress`,
  from `FullBuffer`: nothing is read only into a full buffer), so bytes to come and
  then bytes in the buffer decrease until the stream is read, or the buffer is
  undecodable.  That a decreasing measure ends is left to TLC.
  `FramingExact` compares the packets with frames whose size is read from the whole
  stream (`SizeAt`), while the code reads it from the part of the frame that happens
  to be in the buffer.  That the two agree once the header is there is
  `HeaderOfPrefix`.  `FInv` says that the packets delivered end where the next frame
  begins, and that the size of a long packet in progress is the size of the frame at
  that place, for as long as no earlier packet was long.
* **BufferPool.**  `RefsCounted` ties every count to the references held,
  `ReleasingHeld` says that a thread past the unlocked test still holds its
  reference (so the count cannot have dropped to 0 meanwhile), `Links` that the
  two ends of every link agree, `Alive` that no link leads to a deleted buffer,
  `BuffersCounted` that `m_dwBufferCount` is the number of buffers in use.
  `ListsPartition` needs more: `Links` is also true of a ring of buffers no head leads
  to.  `LInv` says that each list is the range of a sequence without repetition whose
  neighbours are linked (`List`), and the lemmas `ListPush`, `ListPop` and `ListCut`
  say what the three pointer updates do to that sequence.  `Chain` is the least set
  closed under `m_pNext`, which is the range of the sequence (`ChainIsList`).
* **SessionPool.**  With k sessions left the vector is 1..k and every session in
  use has a number above k (`VectorIsPrefix`, `AboveK`); `Exclusive` and `Locals`
  carry this through the steps of `CreateNetSession`; `Apart`, `Announced` and
  `Online` are the properties in a form that is preserved.
* **Gateway.**  A step of the composition is a step of `SessionPool`, leaves its
  variables alone, or ends the process, so the pool's invariant is part of `GInv`.
  `EventOrder` speaks of what was put into the queue and is not inductive: a read
  handler puts its packets one after the other and may have a close still to put
  (`toPut`).  `Ordered` says it of both, and `Told` ties the phase of each session to
  what the service has been or will be told of it: nothing before its accept, no
  close while it reads.
* **SendPath.**  `AnswerBeforeReplies` speaks of what was written, but a reply may
  be pushed while the answer still waits.  `Order` says it of everything pushed
  (`Pushed`: written, then queued), and that the answer is among it once the
  handshake counts as done.  A pop leaves `Pushed` as it is.  `OverrunsAreLong`
  rests on `OneK`: the chain of ifs gives a buffer of at most 1K exactly to a message
  below 1K.
* **Size classes.**  `SizesFit` rests on `SmallestLarger`: the chain of ifs finds the
  smallest of the larger classes, none of which is larger than `AnySize`.
* **base64_encode.**  A byte is the sum of its bits (`BitsOf`, `Binary`), so the four
  characters of a group have the 24 bits of its three bytes (`GroupBits`), and a tail
  is a group whose missing bytes are 0 (`TailIs`).  `Encodes` finds bit k of the code
  in group `(k - 1) \div 24` and so needs no induction along the text.
* **SpliteString.**  The recursion is shown to have exactly one solution
  (`SplitsOnce`), the function whose value at i is the stretches of the string from i
  on.  It is a solution because one turn of the loop takes off the first stretch, or
  just a delimiter (`OneTurnOfSplit`), and counting starts of stretches below a
  position orders them (`RankedAdd`).  It is the only one because of the positions
  where another solution differs one is the last, and there it agrees with what
  follows.  A greatest or least number (`Least`, from `WFMin`) takes the place of
  the induction the provers cannot do.
* **PacketCheck.**  For every client the counter is 0 or the number of its next
  packet, or the client is `disturbed` (`InStep`).  Resynchronising at 0 leads there
  because taking the key out of the header gives back the number that was put in,
  wherever the sum wraps (`NumberComesBack`); a packet accepted at another value had
  that very number (`SameNumber`), so one accepted packet puts a disturbed client in
  step again.  Nothing is needed of the xor except that its result is a word.
* **Startup.**  The loop invariant of the constructor: the maps are right for the
  entries before `DocIter`.  An entry goes in under the first value of its member's
  name, so the lemma `ValueFound` needs that a set of numbers has a least one, which
  comes from `WFMin` of `WellFoundedInduction`.
* **Dispatcher.**  `LastRegistrationCalled` speaks of calls made in the past; `Current` adds what makes
  the next one right, that the map holds the last delegate of every type.

**Only model-checked:** everything with fairness (the liveness of `ImplementsChannel`,
`StreamIsRead`, `LockGranted`, `DispatchGoesOn`, `StartedListens`), which the prover
cannot express, and `RoundTripChecked`: `GetResultString` folds over the keys of the
map in an order `SetToSeq` chooses, and what a fold computes needs induction over
data.  Every other property of a passing run is a theorem.

## 6 Disagreements between comments and code

* **An empty packet is delivered for an incomplete header** (`ws_empty_packet`,
  `NoPacketWithoutHeader`).  `recv_ws_header` returns -1 when the header "has not
  been received completely" (CHttpParser.h:82, 91).  `ExtractBuffer` ignores the
  result, takes the size as 0, finds `0 <= m_dwDataLen` and hands an empty packet
  to the service (CNetSession .cpp:155, 191-199).  It loses no bytes
  (`ByteConservation` holds), but `DispatchPacket` then computes a body length of
  0 - 28 in unsigned arithmetic.
* **A truncated key completes the handshake** (`ws_partial_key`,
  `HandshakeHasWholeKey`).  A handshake that did not succeed is to close the
  socket (CNetSession .cpp:232-233).  Only the first read is parsed, and any part
  of the value of `Sec-WebSocket-Key` counts: a request cut inside it is answered
  with a hash of the part, and its rest is taken for frames.
* **Writes from a stack buffer** (`send_stack_buffer`, `WireIsWritten`).  `DoSend`'s
  comment says that sending needs a buffer of its own (CNetSession .cpp:277); the
  code gives `async_write` the array on its stack, which the next message of the
  loop overwrites and which dies with the call.
* **Ten megabytes do not fit** (`ten_megabytes`, `TenMegabytesFit`).  The comment on
  `m_BufferManagerAny` says that it manages memory of "<=10M" (DataBuffer.h:306); its
  buffers have 10 * 1024 * 1014 = 10383360 bytes.  `AllocDataBuff` gives one of them for
  every size from 64K on (DataBuffer.cpp:68), so a request of 10383361 to 10485760
  bytes gets too small a buffer.  What holds of all sizes is `SizesThatFit`.

Other behaviours a reader may not expect, modelled as they are and listed as
hazards, but contradicted by no line of the repository: one frame is delivered per
read event, so complete frames may wait in the buffer; frames that arrive together
with the request are dropped; a peer's disconnect produces no `CLOSE_CONNECTION`;
framing is lost behind a packet longer than the buffer; a failed accept ends the
accept loop; sessions are never reused; the call that finds no session leaves the
mutex locked; a full send queue loses messages, and possibly the answer to the
handshake, without a sign; a message sent before data have come may overtake that
answer; `io_service::run` ends for good when nothing is outstanding; with `MaxConct`
0 the server starts and listens to nobody; any packet number is accepted when the
counter wraps to 0, and since `m_nCheckNo` belongs to the process, not to a session
(CNetSession .cpp:106), clients that send by turns have packets refused
(`NumberedAccepted` says when); a message of more than 1K overruns the stack
(CNetSession .cpp:274); a reset at the wrong moment ends the process; `DoSend` writes
the whole buffer of the size class, so more bytes than `dwSize` in the packet's
header says (CNetSession .cpp:278, BaseDefine.h:77); no buffer the server allocates is
ever released.

## 7 What is not modelled, and why

* Third-party and generated code (boost, rapidjson, protobuf, `http_parser`,
  `mjson`, `Login.pb.*`): not the program's own logic; `WsReceive` keeps what
  `http_parser` does with a request that is cut short.
* SHA-1: exhaustive checking of 32-bit word arithmetic is out of TLC's reach.
* `ClientTest`: straight-line use of asio; logging: no property is about it.
* `parser_ws_pack`, `DelHttpPackage` and the JSON entry points: no caller.
* `IMsgHandle`: two setters of an array that nothing reads.
* The number conversions of `HttpParameter` and `CommonFunc`: library calls on
  values no property tells apart.
* What the bytes behind `buf` hold after an overrun: the process dies or goes on
  (section 2, SendPath).

## 8 Plan

The components that carry behaviour are modelled, composed through promises they are
proved to keep (`ServiceChannel`, `SessionEvents`, `BufferOwners`), and their safety
properties are proved.  Liveness and `RoundTripChecked` stay with TLC.  What would be
worth adding as the code grows: the release of buffers by the game service, once it
releases any, and the return of sessions to the pool.
