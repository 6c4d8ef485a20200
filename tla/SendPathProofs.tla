--------------------------- MODULE SendPathProofs ---------------------------
(***************************************************************************)
(* Proofs about SendPath, for a queue of any capacity, any number of       *)
(* messages and messages of any size.                                      *)
(*                                                                         *)
(* AnswerBeforeReplies speaks of what was written and is not inductive: a   *)
(* reply may wait in the queue.  Order says the same of everything pushed,  *)
(* written or not, and adds that the answer is there once the handshake     *)
(* counts as done.                                                          *)
(***************************************************************************)
EXTENDS SendPath, SequenceTheorems, TLAPS

\* Every reply in a stands behind the answer.
Guarded(a) == \A i \in DOMAIN a : a[i].kind = "reply" => \E j \in 1 .. i : a[j] = Answer
Answered(a) == \E j \in DOMAIN a : a[j] = Answer

\* Everything pushed, oldest first.
Pushed == written \o lockfree_queue

Order ==
    /\ answerLost => io = "answer" \/ m_IsHandler
    /\ ~answerLost => Guarded(Pushed) /\ (io = "answer" \/ m_IsHandler => Answered(Pushed))

IInv == TypeOK /\ NoStranded /\ OverrunsAreLong /\ Order

-----------------------------------------------------------------------------
(* The buffers of a message.                                                *)

\* A buffer is larger than 1K just when the message is not smaller.
LEMMA OneK ==
    \A n \in Nat : /\ AllocDataBuff(n) \in Nat
                   /\ AllocDataBuff(n) > BufSize <=> n >= BufSize
  <1> SUFFICES ASSUME NEW n \in Nat
               PROVE  AllocDataBuff(n) \in Nat /\ (AllocDataBuff(n) > 1024 <=> n >= 1024)
    BY DEF BufSize
  <1>1. AnySize \in Nat /\ AnySize > 1024
    BY DEF AnySize
  <1>2. CASE n < 1024
    <2>1. n < 64 => 64 \in Larger(n) /\ \A d \in Larger(n) : 64 <= d
      BY <1>2 DEF Larger, Pooled
    <2>2. n >= 64 /\ n < 128 => 128 \in Larger(n) /\ \A d \in Larger(n) : 128 <= d
      BY <1>2 DEF Larger, Pooled
    <2>3. n >= 128 /\ n < 256 => 256 \in Larger(n) /\ \A d \in Larger(n) : 256 <= d
      BY <1>2 DEF Larger, Pooled
    <2>4. n >= 256 /\ n < 512 => 512 \in Larger(n) /\ \A d \in Larger(n) : 512 <= d
      BY <1>2 DEF Larger, Pooled
    <2>5. n >= 512 => 1024 \in Larger(n) /\ \A d \in Larger(n) : 1024 <= d
      BY <1>2 DEF Larger, Pooled
    <2>6. \E c \in Larger(n) : \A d \in Larger(n) : c <= d
      BY <1>2, <2>1, <2>2, <2>3, <2>4, <2>5
    <2>7. 1024 \in Larger(n) /\ Larger(n) \subseteq Nat
      BY <1>2 DEF Larger, Pooled
    <2> QED BY <1>2, <2>6, <2>7 DEF AllocDataBuff
  <1>3. CASE n >= 1024
    <2>1. Larger(n) = {} \/ \E c \in Larger(n) : \A d \in Larger(n) : c <= d
      <3>1. n < 2048 => 2048 \in Larger(n) /\ \A d \in Larger(n) : 2048 <= d
        BY <1>3 DEF Larger, Pooled
      <3>2. n >= 2048 /\ n < 4096 => 4096 \in Larger(n) /\ \A d \in Larger(n) : 4096 <= d
        BY <1>3 DEF Larger, Pooled
      <3>3. n >= 4096 /\ n < 8192 => 8192 \in Larger(n) /\ \A d \in Larger(n) : 8192 <= d
        BY <1>3 DEF Larger, Pooled
      <3>4. n >= 8192 /\ n < 16384 => 16384 \in Larger(n) /\ \A d \in Larger(n) : 16384 <= d
        BY <1>3 DEF Larger, Pooled
      <3>5. n >= 16384 /\ n < 32768 => 32768 \in Larger(n) /\ \A d \in Larger(n) : 32768 <= d
        BY <1>3 DEF Larger, Pooled
      <3>6. n >= 32768 /\ n < 65536 => 65536 \in Larger(n) /\ \A d \in Larger(n) : 65536 <= d
        BY <1>3 DEF Larger, Pooled
      <3>7. n >= 65536 => Larger(n) = {}
        BY DEF Larger, Pooled
      <3> QED BY <1>3, <3>1, <3>2, <3>3, <3>4, <3>5, <3>6, <3>7
    <2>2. \A c \in Larger(n) : c \in Nat /\ c > 1024
      BY <1>3 DEF Larger, Pooled
    <2> QED BY <1>1, <1>3, <2>1, <2>2 DEF AllocDataBuff
  <1> QED BY <1>2, <1>3

-----------------------------------------------------------------------------
(* What pushing and popping do to the sequence of everything pushed.        *)

\* A pop moves a message from the queue to what was written.
LEMMA PopKeeps ==
    \A w, q \in Seq(Message) : q # <<>> => Append(w, Head(q)) \o Tail(q) = w \o q
  <1> SUFFICES ASSUME NEW w \in Seq(Message), NEW q \in Seq(Message), q # <<>>
               PROVE  Append(w, Head(q)) \o Tail(q) = w \o q
    OBVIOUS
  <1>0. Head(q) \in Message /\ Tail(q) \in Seq(Message) /\ q = <<Head(q)>> \o Tail(q)
    BY HeadTailProperties
  <1>1. PICK e \in Message, t \in Seq(Message) : e = Head(q) /\ t = Tail(q)
    BY <1>0
  <1>2. q = <<e>> \o t
    BY <1>0, <1>1
  <1>3. Append(w, e) = w \o <<e>> /\ <<e>> \in Seq(Message)
    BY AppendIsConcat
  <1>4. (w \o <<e>>) \o t = w \o (<<e>> \o t)
    BY <1>3, ConcatAssociative
  <1> QED BY <1>1, <1>2, <1>3, <1>4

\* A push appends to everything pushed.
LEMMA PushAppends ==
    \A w, q \in Seq(Message), m \in Message : w \o Append(q, m) = Append(w \o q, m)
  <1> SUFFICES ASSUME NEW w \in Seq(Message), NEW q \in Seq(Message), NEW m \in Message
               PROVE  w \o Append(q, m) = Append(w \o q, m)
    OBVIOUS
  <1>1. <<m>> \in Seq(Message) /\ w \o q \in Seq(Message)
    OBVIOUS
  <1>2. Append(q, m) = q \o <<m>> /\ Append(w \o q, m) = (w \o q) \o <<m>>
    BY <1>1, AppendIsConcat
  <1>3. (w \o q) \o <<m>> = w \o (q \o <<m>>)
    BY <1>1, ConcatAssociative
  <1> QED BY <1>2, <1>3

\* A reply may be pushed once the answer has been.
LEMMA AppendGuarded ==
    ASSUME NEW a \in Seq(Message), NEW m \in Message,
           Guarded(a), m.kind = "reply" => Answered(a)
    PROVE  Guarded(Append(a, m))
  <1> DEFINE b == Append(a, m)
  <1>1. /\ DOMAIN b = 1 .. (Len(a) + 1) /\ DOMAIN a = 1 .. Len(a) /\ Len(a) \in Nat
        /\ b[Len(a) + 1] = m /\ \A i \in 1 .. Len(a) : b[i] = a[i]
    OBVIOUS
  <1> HIDE DEF b
  <1>2. ASSUME NEW i \in DOMAIN b, b[i].kind = "reply"
        PROVE  \E j \in 1 .. i : b[j] = Answer
    <2>1. CASE i = Len(a) + 1
      <3>1. PICK j \in 1 .. Len(a) : a[j] = Answer
        BY <1>1, <1>2, <2>1 DEF Answered
      <3> QED BY <1>1, <2>1, <3>1
    <2>2. CASE i \in 1 .. Len(a)
      <3>1. PICK j \in 1 .. i : a[j] = Answer
        BY <1>1, <1>2, <2>2 DEF Guarded
      <3> QED BY <1>1, <2>2, <3>1
    <2> QED BY <1>1, <2>1, <2>2
  <1> QED BY <1>2 DEF Guarded, b

\* The answer stays, and comes with its own push.
LEMMA AppendAnswered ==
    ASSUME NEW a \in Seq(Message), NEW m \in Message,
           Answered(a) \/ m = Answer
    PROVE  Answered(Append(a, m))
  <1>1. /\ DOMAIN Append(a, m) = 1 .. (Len(a) + 1) /\ DOMAIN a = 1 .. Len(a) /\ Len(a) \in Nat
        /\ Append(a, m)[Len(a) + 1] = m /\ \A i \in 1 .. Len(a) : Append(a, m)[i] = a[i]
    OBVIOUS
  <1> QED BY <1>1 DEF Answered

\* What was written comes first in what was pushed.
LEMMA WrittenGuarded ==
    \A w, q \in Seq(Message) : Guarded(w \o q) => Guarded(w)
  <1> SUFFICES ASSUME NEW w \in Seq(Message), NEW q \in Seq(Message), Guarded(w \o q)
               PROVE  Guarded(w)
    OBVIOUS
  <1> DEFINE a == w \o q
  <1>1. /\ DOMAIN w = 1 .. Len(w) /\ Len(w) \in Nat
        /\ \A i \in 1 .. Len(w) : i \in DOMAIN a /\ a[i] = w[i]
    OBVIOUS
  <1> HIDE DEF a
  <1>2. Guarded(a)
    BY DEF a
  <1>3. ASSUME NEW i \in DOMAIN w, w[i].kind = "reply"
        PROVE  \E j \in 1 .. i : w[j] = Answer
    <2>1. PICK j \in 1 .. i : a[j] = Answer
      BY <1>1, <1>2, <1>3 DEF Guarded
    <2> QED BY <1>1, <2>1
  <1> QED BY <1>3 DEF Guarded

\* The messages there are.
LEMMA Messages ==
    /\ Answer \in Message
    /\ \A n \in 1 .. MaxSends, kind \in {"early", "reply"}, size \in Sizes :
          [no |-> n, kind |-> kind, size |-> size] \in Message
    /\ \A m \in Message : m.size \in Nat
  <1>1. 0 \in 0 .. MaxSends /\ 1 .. MaxSends \subseteq 0 .. MaxSends
    BY SendAssumption
  <1>2. Answer \in Message
    BY <1>1 DEF Message, Answer
  <1>3. ASSUME NEW n \in 1 .. MaxSends, NEW kind \in {"early", "reply"}, NEW size \in Sizes
        PROVE  [no |-> n, kind |-> kind, size |-> size] \in Message
    BY <1>1 DEF Message
  <1>4. ASSUME NEW m \in Message
        PROVE  m.size \in Nat
    <2>1. m.size \in Sizes \cup {AnswerSize}
      BY DEF Message
    <2> QED BY <2>1, SendAssumption
  <1> QED BY <1>2, <1>3, <1>4

-----------------------------------------------------------------------------
(* The steps.                                                               *)

LEMMA InitIInv == Init => IInv
  <1> SUFFICES ASSUME Init PROVE IInv
    OBVIOUS
  <1>1. TypeOK
    <2>1. <<>> \in Seq(Message) /\ <<>> \in Seq(Write) /\ Len(<<>>) = 0
          /\ <<>> \in Seq([msg : Message \cup {Garbage}, bytes : Nat])
      OBVIOUS
    <2>2. 0 <= CAPACITY /\ 0 \in 0 .. MaxSends
      BY SendAssumption
    <2> QED BY <2>1, <2>2 DEF Init, TypeOK
  <1>2. NoStranded /\ OverrunsAreLong
    BY DEF Init, NoStranded, OverrunsAreLong
  <1>3. Order
    <2>1. <<>> \o <<>> = <<>> /\ DOMAIN <<>> = {}
      OBVIOUS
    <2> QED BY <2>1 DEF Init, Order, Guarded, Pushed
  <1> QED BY <1>1, <1>2, <1>3 DEF IInv

\* Steps that push and pop nothing and do not touch the handshake.
LEMMA OrderUnchanged ==
    ASSUME IInv, UNCHANGED <<lockfree_queue, written, m_IsHandler, answerLost>>,
           io' = "answer" <=> io = "answer"
    PROVE  Order'
  BY DEF IInv, Order, Pushed

\* The game thread pushes a message, or fails to.
LEMMA SendMessageDataIInv ==
    ASSUME IInv, NEW kind \in {"early", "reply"}, NEW size \in Sizes,
           SendMessageData(kind, size)
    PROVE  IInv'
  <1>1. sends' \in 1 .. MaxSends
    BY SendAssumption DEF SendMessageData, IInv, TypeOK
  <1>2. PICK m \in Message : m = [no |-> sends', kind |-> kind, size |-> size]
    BY <1>1, Messages
  <1>3. CASE SendBufferFails
    <2>1. TypeOK'
      BY <1>1, <1>3 DEF SendMessageData, SendBufferFails, IInv, TypeOK, stack
    <2>2. NoStranded' /\ OverrunsAreLong'
      BY <1>3 DEF SendMessageData, SendBufferFails, IInv, NoStranded, OverrunsAreLong, stack
    <2>3. Order'
      BY <1>3, OrderUnchanged DEF SendMessageData, SendBufferFails
    <2> QED BY <2>1, <2>2, <2>3 DEF IInv
  <1>4. CASE SendBuffer(m)
    <2>1. /\ lockfree_queue' = Append(lockfree_queue, m) /\ game' = "post"
          /\ Len(lockfree_queue) # CAPACITY
          /\ UNCHANGED <<posted, io, m_IsHandler, writing, unfinished, written, wire, answerLost, stack>>
      BY <1>4 DEF SendMessageData, SendBuffer, Full
    <2>2. lockfree_queue \in Seq(Message) /\ Len(lockfree_queue) <= CAPACITY /\ written \in Seq(Message)
      BY DEF IInv, TypeOK
    <2>3. lockfree_queue' \in Seq(Message) /\ Len(lockfree_queue') <= CAPACITY
      BY <2>1, <2>2, SendAssumption
    <2>4. TypeOK'
      BY <1>1, <2>1, <2>3 DEF IInv, TypeOK, stack
    <2>5. NoStranded' /\ OverrunsAreLong'
      BY <2>1 DEF IInv, NoStranded, OverrunsAreLong, stack
    <2>6. Order'
      <3>0. Pushed \in Seq(Message)
        BY <2>2, ConcatProperties DEF Pushed
      <3>1. PICK a \in Seq(Message) : a = Pushed
        BY <3>0
      <3>2. Pushed' = Append(a, m)
        BY <2>1, <2>2, <3>1, PushAppends DEF Pushed
      <3>3. m.kind = "reply" => m_IsHandler
        BY <1>2 DEF SendMessageData, DataSeen
      <3>4. CASE answerLost
        BY <2>1, <3>4 DEF IInv, Order
      <3>5. CASE ~answerLost
        <4>1. Guarded(a) /\ (io = "answer" \/ m_IsHandler => Answered(a))
          BY <3>1, <3>5 DEF IInv, Order
        <4>2. Guarded(Append(a, m))
          BY <3>3, <4>1, AppendGuarded
        <4>3. io = "answer" \/ m_IsHandler => Answered(Append(a, m))
          BY <4>1, AppendAnswered
        <4> QED BY <2>1, <3>2, <3>5, <4>2, <4>3 DEF Order
      <3> QED BY <3>4, <3>5, <2>2 DEF IInv, TypeOK
    <2> QED BY <2>4, <2>5, <2>6 DEF IInv
  <1> QED BY <1>2, <1>3, <1>4 DEF SendMessageData

\* A DoSend is posted.
LEMMA PostIInv ==
    ASSUME IInv, Post
    PROVE  IInv'
  <1>1. TypeOK' /\ NoStranded' /\ OverrunsAreLong'
    BY DEF Post, IInv, TypeOK, NoStranded, OverrunsAreLong, stack
  <1>2. Order'
    BY OrderUnchanged DEF Post
  <1> QED BY <1>1, <1>2 DEF IInv

\* The answer is pushed, or the queue is full and it is lost.
LEMMA RetHttpHandlerPackkageIInv ==
    ASSUME IInv, RetHttpHandlerPackkage
    PROVE  IInv'
  <1>1. /\ io = "idle" /\ ~m_IsHandler /\ io' = "answer" /\ answerLost' = Full
        /\ UNCHANGED <<posted, game, m_IsHandler, writing, unfinished, written, wire, sends, stack>>
    BY DEF RetHttpHandlerPackkage
  <1>2. lockfree_queue \in Seq(Message) /\ Len(lockfree_queue) <= CAPACITY /\ written \in Seq(Message)
    BY DEF IInv, TypeOK
  <1>3. ~answerLost
    BY <1>1 DEF IInv, Order
  <1>4. NoStranded' /\ OverrunsAreLong'
    BY <1>1 DEF IInv, NoStranded, OverrunsAreLong, stack
  <1>5. CASE Full
    <2>1. lockfree_queue' = lockfree_queue /\ answerLost' = TRUE
      BY <1>5 DEF RetHttpHandlerPackkage
    <2>2. TypeOK' /\ Order'
      BY <1>1, <2>1 DEF IInv, TypeOK, Order, stack
    <2> QED BY <1>4, <2>2 DEF IInv
  <1>6. CASE ~Full
    <2>1. lockfree_queue' = Append(lockfree_queue, Answer) /\ answerLost' = FALSE
      BY <1>6 DEF RetHttpHandlerPackkage
    <2>2. PICK m \in Message : m = Answer
      BY Messages
    <2>3. lockfree_queue' \in Seq(Message) /\ Len(lockfree_queue') <= CAPACITY
      BY <1>2, <1>6, <2>1, <2>2, SendAssumption DEF Full
    <2>4. TypeOK'
      BY <1>1, <2>1, <2>3 DEF IInv, TypeOK, stack
    <2>5. Order'
      <3>0. Pushed \in Seq(Message)
        BY <1>2, ConcatProperties DEF Pushed
      <3>1. PICK a \in Seq(Message) : a = Pushed
        BY <3>0
      <3>2. Pushed' = Append(a, m)
        BY <1>1, <1>2, <2>1, <2>2, <3>1, PushAppends DEF Pushed
      <3>3. Guarded(a)
        BY <1>3, <3>1 DEF IInv, Order
      <3>4. m.kind # "reply"
        BY <2>2 DEF Answer
      <3>5. Guarded(Append(a, m)) /\ Answered(Append(a, m))
        BY <2>2, <3>3, <3>4, AppendGuarded, AppendAnswered
      <3> QED BY <2>1, <3>2, <3>5 DEF Order
    <2> QED BY <1>4, <2>4, <2>5 DEF IInv
  <1> QED BY <1>5, <1>6

\* The io thread enters a posted DoSend.
LEMMA RunPostedIInv ==
    ASSUME IInv, RunPosted
    PROVE  IInv'
  <1>1. TypeOK' /\ NoStranded' /\ OverrunsAreLong'
    BY DEF RunPosted, IInv, TypeOK, NoStranded, OverrunsAreLong, stack
  <1>2. Order'
    BY OrderUnchanged DEF RunPosted
  <1> QED BY <1>1, <1>2 DEF IInv

\* A completed write leads to a DoSend, one that failed to nothing.
LEMMA HandWritedataIInv ==
    ASSUME IInv, NEW error \in BOOLEAN, HandWritedata(error)
    PROVE  IInv'
  <1>1. TypeOK' /\ NoStranded' /\ OverrunsAreLong'
    BY DEF HandWritedata, IInv, TypeOK, NoStranded, OverrunsAreLong, stack
  <1>2. Order'
    BY OrderUnchanged DEF HandWritedata
  <1> QED BY <1>1, <1>2 DEF IInv

\* One turn of the loop moves a message from the queue to the writes.
LEMMA DoSendIInv ==
    ASSUME IInv, DoSend
    PROVE  IInv'
  <1>1. /\ lockfree_queue \in Seq(Message) /\ lockfree_queue # <<>>
        /\ Len(lockfree_queue) <= CAPACITY /\ written \in Seq(Message) /\ writing \in Seq(Write)
    BY DEF DoSend, IInv, TypeOK
  <1>2. Head(lockfree_queue) \in Message
    BY <1>1
  <1>3. PICK m \in Message : m = Head(lockfree_queue)
    BY <1>2
  <1>4. /\ lockfree_queue' = Tail(lockfree_queue) /\ written' = Append(written, m) /\ io # "idle"
        /\ writing' = Append(CopyTo(m), [given |-> m, msg |-> m, bytes |-> AllocDataBuff(m.size),
                                         live |-> TRUE])
        /\ smashed' = (smashed \/ m.size > BufSize)
        /\ UNCHANGED <<posted, game, io, m_IsHandler, unfinished, wire, sends, answerLost, crashed>>
    BY <1>3 DEF DoSend
  <1>5. PICK w \in Write : /\ w = [given |-> m, msg |-> m, bytes |-> AllocDataBuff(m.size), live |-> TRUE]
                           /\ w.bytes > BufSize <=> w.given.size >= BufSize
    <2>1. m.size \in Nat
      BY Messages
    <2>2. AllocDataBuff(m.size) \in Nat /\ (AllocDataBuff(m.size) > BufSize <=> m.size >= BufSize)
      BY <2>1, OneK
    <2>3. PICK k \in Nat : k = AllocDataBuff(m.size) /\ (k > BufSize <=> m.size >= BufSize)
      BY <2>2
    <2>4. [given |-> m, msg |-> m, bytes |-> k, live |-> TRUE] \in Write
      BY DEF Write
    <2> QED BY <2>3, <2>4
  <1>6. ASSUME NEW i \in DOMAIN writing
        PROVE  /\ CopyTo(m)[i] \in Write /\ CopyTo(m)[i].bytes = writing[i].bytes
               /\ CopyTo(m)[i].given = writing[i].given
    <2>1. writing[i] \in Write
      BY <1>1
    <2>2. CopyTo(m)[i] = IF writing[i].live THEN [writing[i] EXCEPT !.msg = m] ELSE writing[i]
      BY DEF CopyTo
    <2> QED BY <2>1, <2>2 DEF Write
  <1>7. PICK c \in Seq(Write) : /\ c = CopyTo(m) /\ DOMAIN c = DOMAIN writing
                                /\ \A i \in DOMAIN writing : /\ c[i].bytes = writing[i].bytes
                                                             /\ c[i].given = writing[i].given
    <2>1. DOMAIN writing = 1 .. Len(writing) /\ Len(writing) \in Nat
      BY <1>1
    <2>2. DOMAIN CopyTo(m) = DOMAIN writing /\ CopyTo(m) \in [1 .. Len(writing) -> Write]
      BY <1>6, <2>1 DEF CopyTo
    <2>3. CopyTo(m) \in Seq(Write)
      BY <2>1, <2>2
    <2> QED BY <1>6, <2>2, <2>3
  <1>8. writing' = Append(c, w)
    BY <1>4, <1>5, <1>7
  <1>9. TypeOK'
    <2>1. writing' \in Seq(Write)
      BY <1>8
    <2>2. written' \in Seq(Message)
      BY <1>1, <1>4
    <2>3. lockfree_queue' \in Seq(Message) /\ Len(lockfree_queue') <= CAPACITY
      BY <1>1, <1>4, SendAssumption
    <2>4. smashed' \in BOOLEAN
      BY <1>4
    <2> QED BY <1>4, <2>1, <2>2, <2>3, <2>4 DEF IInv, TypeOK
  <1>10. OverrunsAreLong'
    <2>1. /\ DOMAIN writing' = 1 .. (Len(c) + 1) /\ DOMAIN c = 1 .. Len(c) /\ Len(c) \in Nat
          /\ writing'[Len(c) + 1] = w /\ \A i \in 1 .. Len(c) : writing'[i] = c[i]
      BY <1>8
    <2>2. \A i \in 1 .. Len(c) : c[i].bytes > BufSize <=> c[i].given.size >= BufSize
      BY <1>7, <2>1 DEF IInv, OverrunsAreLong
    <2>3. \A i \in DOMAIN writing' : i \in 1 .. Len(c) \/ i = Len(c) + 1
      BY <2>1
    <2>4. \A i \in DOMAIN writing' : writing'[i].bytes > BufSize <=> writing'[i].given.size >= BufSize
      BY <1>5, <2>1, <2>2, <2>3
    <2>5. smashed' \/ crashed' => \E i \in DOMAIN written' : written'[i].size > BufSize
      <3>1. /\ \A i \in DOMAIN written : i \in DOMAIN written' /\ written'[i] = written[i]
            /\ Len(written) + 1 \in DOMAIN written' /\ written'[Len(written) + 1] = m
        BY <1>1, <1>4
      <3>2. CASE smashed \/ crashed
        <4>1. PICK i \in DOMAIN written : written[i].size > BufSize
          BY <3>2 DEF IInv, OverrunsAreLong
        <4> QED BY <3>1, <4>1
      <3>3. CASE m.size > BufSize
        BY <3>1, <3>3
      <3> QED BY <1>4, <3>2, <3>3
    <2> QED BY <2>4, <2>5 DEF OverrunsAreLong
  <1>11. NoStranded'
    BY <1>4 DEF NoStranded
  <1>12. Order'
    <2>1. Pushed' = Pushed
      BY <1>1, <1>3, <1>4, PopKeeps DEF Pushed
    <2> QED BY <1>4, <2>1 DEF IInv, Order
  <1> QED BY <1>9, <1>10, <1>11, <1>12 DEF IInv

\* A DoSend ends; the one of the handshake lets data through from now on.
LEMMA DoSendReturnsIInv ==
    ASSUME IInv, DoSendReturns
    PROVE  IInv'
  <1>1. /\ io # "idle" /\ lockfree_queue = <<>> /\ io' = "idle"
        /\ m_IsHandler' = (m_IsHandler \/ io = "answer")
        /\ writing' = [i \in DOMAIN writing |-> [writing[i] EXCEPT !.live = FALSE]]
        /\ smashed' = FALSE
        /\ UNCHANGED <<lockfree_queue, posted, game, unfinished, written, wire, sends, answerLost, crashed>>
    BY DEF DoSendReturns, Drained
  <1>2. writing \in Seq(Write)
    BY DEF IInv, TypeOK
  <1>3. ASSUME NEW i \in DOMAIN writing
        PROVE  /\ writing'[i] \in Write /\ writing'[i].bytes = writing[i].bytes
               /\ writing'[i].given = writing[i].given
    <2>1. writing[i] \in Write
      BY <1>2
    <2>2. writing'[i] = [writing[i] EXCEPT !.live = FALSE]
      BY <1>1
    <2> QED BY <2>1, <2>2 DEF Write
  <1>4. DOMAIN writing = 1 .. Len(writing) /\ Len(writing) \in Nat /\ DOMAIN writing' = DOMAIN writing
    BY <1>1, <1>2
  <1>5. writing' \in Seq(Write)
    <2>1. writing' \in [1 .. Len(writing) -> Write]
      BY <1>1, <1>3, <1>4
    <2> QED BY <1>4, <2>1
  <1>6. m_IsHandler' \in BOOLEAN
    BY <1>1 DEF IInv, TypeOK
  <1>7. TypeOK'
    BY <1>1, <1>5, <1>6 DEF IInv, TypeOK
  <1>8. NoStranded'
    BY <1>1 DEF NoStranded
  <1>9. OverrunsAreLong'
    BY <1>1, <1>3, <1>4 DEF IInv, OverrunsAreLong
  <1>10. Order'
    BY <1>1 DEF IInv, Order, Pushed
  <1> QED BY <1>7, <1>8, <1>9, <1>10 DEF IInv

\* The oldest write goes out.
LEMMA TakeBytesIInv ==
    ASSUME IInv, TakeBytes
    PROVE  IInv'
  <1>1. /\ writing # <<>> /\ writing' = Tail(writing) /\ unfinished' = unfinished + 1
        /\ UNCHANGED <<lockfree_queue, posted, game, io, m_IsHandler, written, sends, answerLost, stack>>
    BY DEF TakeBytes
  <1>2. PICK taken \in {Head(writing).msg, Garbage} :
            wire' = Append(wire, [msg |-> taken, bytes |-> Head(writing).bytes])
    BY DEF TakeBytes
  <1>3. writing \in Seq(Write) /\ wire \in Seq([msg : Message \cup {Garbage}, bytes : Nat])
    BY DEF IInv, TypeOK
  <1>4. Head(writing) \in Write
    BY <1>1, <1>3
  <1>5. taken \in Message \cup {Garbage} /\ Head(writing).bytes \in Nat
    BY <1>2, <1>4 DEF Write
  <1>6. wire' \in Seq([msg : Message \cup {Garbage}, bytes : Nat])
    <2>1. [msg |-> taken, bytes |-> Head(writing).bytes] \in [msg : Message \cup {Garbage}, bytes : Nat]
      BY <1>5
    <2> QED BY <1>2, <1>3, <2>1
  <1>7. writing' \in Seq(Write) /\ DOMAIN writing = 1 .. Len(writing) /\ Len(writing) \in Nat
        /\ \A i \in DOMAIN writing' : i + 1 \in DOMAIN writing /\ writing'[i] = writing[i + 1]
    BY <1>1, <1>3
  <1>8. TypeOK'
    BY <1>1, <1>6, <1>7 DEF IInv, TypeOK, stack
  <1>9. NoStranded'
    BY <1>1 DEF IInv, NoStranded
  <1>10. OverrunsAreLong'
    BY <1>1, <1>7 DEF IInv, OverrunsAreLong, stack
  <1>11. Order'
    BY <1>1, OrderUnchanged
  <1> QED BY <1>8, <1>9, <1>10, <1>11 DEF IInv

\* The process dies of a message that has overrun buf.
LEMMA CrashIInv ==
    ASSUME IInv, Crash
    PROVE  IInv'
  <1>1. TypeOK' /\ NoStranded' /\ OverrunsAreLong'
    BY DEF Crash, IInv, TypeOK, NoStranded, OverrunsAreLong
  <1>2. Order'
    BY OrderUnchanged DEF Crash
  <1> QED BY <1>1, <1>2 DEF IInv

LEMMA NextIInv == IInv /\ [Next]_vars => IInv'
  <1> SUFFICES ASSUME IInv, [Next]_vars PROVE IInv'
    OBVIOUS
  <1>1. CASE UNCHANGED vars
    BY <1>1 DEF vars, stack, IInv, TypeOK, NoStranded, OverrunsAreLong, Order, Pushed
  <1>2. CASE Next
    BY <1>2, SendMessageDataIInv, PostIInv, RetHttpHandlerPackkageIInv, RunPostedIInv,
       HandWritedataIInv, DoSendIInv, DoSendReturnsIInv, CrashIInv, TakeBytesIInv DEF Next, DoSendStep
  <1> QED BY <1>1, <1>2

LEMMA Invariance == Spec => []IInv
  BY InitIInv, NextIInv, PTL DEF Spec

-----------------------------------------------------------------------------
(* The theorems.                                                            *)

(* The queue, the writes and the counters of the send path keep their types. *)
THEOREM TypeCorrect == Spec => []TypeOK
  <1>1. IInv => TypeOK
    BY DEF IInv
  <1> QED BY <1>1, Invariance, PTL

(***************************************************************************)
(* SendMessageData pushes before it posts, so no message is left in the     *)
(* queue without a DoSend to come: whatever the capacity and the number of  *)
(* messages.                                                                *)
(***************************************************************************)
THEOREM NothingStranded == Spec => []NoStranded
  <1>1. IInv => NoStranded
    BY DEF IInv
  <1> QED BY <1>1, Invariance, PTL

(***************************************************************************)
(* Of messages of any size, exactly those of 1K and more make async_write   *)
(* read past the end of DoSend's buf, and the process dies of no others     *)
(* than longer ones.                                                        *)
(***************************************************************************)
THEOREM OnlyLongOverrun == Spec => []OverrunsAreLong
  <1>1. IInv => OverrunsAreLong
    BY DEF IInv
  <1> QED BY <1>1, Invariance, PTL

(***************************************************************************)
(* The answer to the handshake, pushed by the io thread, is written before  *)
(* every reply the game thread pushes.                                      *)
(***************************************************************************)
THEOREM AnswerFirst == Spec => []AnswerBeforeReplies
  <1>1. IInv => AnswerBeforeReplies
    <2> SUFFICES ASSUME IInv, ~answerLost PROVE Guarded(written)
      BY DEF AnswerBeforeReplies, Guarded
    <2>1. Guarded(written \o lockfree_queue)
      BY DEF IInv, Order, Pushed
    <2> QED BY <2>1, WrittenGuarded DEF IInv, TypeOK
  <1> QED BY <1>1, Invariance, PTL

(***************************************************************************)
(* The queue and what was written are a FIFO channel: nothing the two       *)
(* threads push is written twice, skipped or overtaken.                     *)
(***************************************************************************)
THEOREM QueueRefined == Spec => Channel!ChannelSafety
  <1>1. Init => Channel!ChannelInit
    BY DEF Init, Channel!ChannelInit
  <1>2. IInv /\ [Next]_vars => [Channel!ChannelNext]_(Channel!channelVars)
    <2> SUFFICES ASSUME IInv, [Next]_vars
                 PROVE  Channel!ChannelNext \/ UNCHANGED <<lockfree_queue, written>>
      BY DEF Channel!channelVars
    <2>1. ASSUME NEW kind \in {"early", "reply"}, NEW size \in Sizes, SendMessageData(kind, size)
          PROVE  Channel!ChannelNext \/ UNCHANGED <<lockfree_queue, written>>
      <3>1. sends' \in 1 .. MaxSends
        BY <2>1, SendAssumption DEF SendMessageData, IInv, TypeOK
      <3>2. PICK m \in Message : m = [no |-> sends', kind |-> kind, size |-> size]
        BY <3>1, Messages
      <3> QED BY <2>1, <3>2 DEF SendMessageData, SendBuffer, SendBufferFails,
                                Channel!ChannelNext, Channel!Put
    <2>2. CASE RetHttpHandlerPackkage
      BY <2>2, Messages DEF RetHttpHandlerPackkage, Channel!ChannelNext, Channel!Put
    <2>3. CASE DoSend
      BY <2>3 DEF DoSend, Channel!ChannelNext, Channel!Take
    <2>4. CASE Post \/ RunPosted \/ DoSendReturns \/ Crash \/ TakeBytes
      BY <2>4 DEF Post, RunPosted, DoSendReturns, Crash, TakeBytes
    <2>5. CASE \E error \in BOOLEAN : HandWritedata(error)
      BY <2>5 DEF HandWritedata
    <2>6. CASE UNCHANGED vars
      BY <2>6 DEF vars
    <2> QED BY <2>1, <2>2, <2>3, <2>4, <2>5, <2>6 DEF Next, DoSendStep
  <1> QED BY <1>1, <1>2, Invariance, PTL DEF Spec, Channel!ChannelSafety
=============================================================================
