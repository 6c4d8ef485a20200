-------------------------- MODULE DispatcherProofs --------------------------
(***************************************************************************)
(* Theorems about Dispatcher for any message types, any delegates and any   *)
(* number of dispatches and registrations.                                  *)
(***************************************************************************)
EXTENDS Dispatcher, SequenceTheorems, TLAPS

Call == [type : Descriptors, callback : Callbacks \cup {discard}, after : Nat]
Registration == Descriptors \X Callbacks

Types ==
    /\ m_callbacks \in [Descriptors -> Callbacks \cup {discard}]
    /\ stack \in Seq(Descriptors)
    /\ calls \in Seq(Call)
    /\ registered \in Seq(Registration)

\* d is the delegate of the last of the first n registrations of T in reg.
Latest(reg, T, n, d) ==
    \/ d = discard /\ \A i \in 1 .. n : reg[i][1] # T
    \/ \E i \in 1 .. n : /\ reg[i][1] = T /\ d = reg[i][2]
                         /\ \A j \in 1 .. n : reg[j][1] = T => j <= i

\* The map holds the last delegates, and every call found the last one.
Current ==
    /\ \A T \in Descriptors : Latest(registered, T, Len(registered), m_callbacks[T])
    /\ \A c \in 1 .. Len(calls) :
          /\ calls[c].after \in 0 .. Len(registered)
          /\ Latest(registered, calls[c].type, calls[c].after, calls[c].callback)

IInv == Types /\ Current

-----------------------------------------------------------------------------
(* The registrations.                                                       *)

\* A registration more does not change what the earlier ones say.
LEMMA LatestKept ==
    ASSUME NEW reg \in Seq(Registration), NEW x \in Registration, NEW n \in 0 .. Len(reg),
           NEW T, NEW d, Latest(reg, T, n, d)
    PROVE  Latest(Append(reg, x), T, n, d)
<1>1. \A i \in 1 .. n : Append(reg, x)[i] = reg[i]
  OBVIOUS
<1> QED
  BY <1>1 DEF Latest

\* It is the last one of its own type, and of no other.
LEMMA LatestAdded ==
    ASSUME NEW reg \in Seq(Registration), NEW T \in Descriptors, NEW d \in Callbacks,
           NEW U, NEW e, Latest(reg, U, Len(reg), e)
    PROVE  Latest(Append(reg, <<T, d>>), U, Len(reg) + 1, IF U = T THEN d ELSE e)
<1>1. PICK n \in Nat : n = Len(reg)
  OBVIOUS
<1>2. PICK new \in Seq(Registration) : new = Append(reg, <<T, d>>)
  <2>1. <<T, d>> \in Registration
    BY DEF Registration
  <2>2. Append(reg, <<T, d>>) \in Seq(Registration)
    BY <2>1
  <2> QED
    BY <2>2
<1>3. new[n + 1] = <<T, d>> /\ \A i \in 1 .. n : new[i] = reg[i]
  BY <1>1, <1>2
<1>4. \A i \in 1 .. n + 1 : i \in 1 .. n \/ i = n + 1
  OBVIOUS
<1>5. CASE U = T
  <2>1. n + 1 \in 1 .. n + 1 /\ \A j \in 1 .. n + 1 : j <= n + 1
    OBVIOUS
  <2> QED
    BY <1>1, <1>2, <1>3, <1>5, <2>1 DEF Latest
<1>6. CASE U # T
  <2>1. \A i \in 1 .. n : i \in 1 .. n + 1
    OBVIOUS
  <2>2. new[n + 1][1] # U
    BY <1>3, <1>6
  <2>3. Latest(new, U, n + 1, e)
    BY <1>1, <1>3, <1>4, <2>1, <2>2 DEF Latest
  <2> QED
    BY <1>1, <1>2, <1>6, <2>3
<1> QED
  BY <1>5, <1>6

-----------------------------------------------------------------------------
(* One lemma per operation.                                                 *)

\* registerMessageCallback writes the entry of one type.
LEMMA RegisterStep ==
    ASSUME IInv, NEW T \in Descriptors, NEW d \in Callbacks, registerMessageCallback(T, d)
    PROVE  IInv'
<1>1. PICK reg \in Seq(Registration), n \in Nat : reg = registered /\ n = Len(reg)
  BY DEF IInv, Types
<1>2. /\ registered' = Append(reg, <<T, d>>)
      /\ m_callbacks' = [m_callbacks EXCEPT ![T] = d]
      /\ UNCHANGED <<stack, calls>>
  BY <1>1 DEF registerMessageCallback, Store
<1>3. <<T, d>> \in Registration
  BY DEF Registration
<1>4. Append(reg, <<T, d>>) \in Seq(Registration) /\ Len(Append(reg, <<T, d>>)) = n + 1
  BY <1>1, <1>3
<1>5. Types'
  BY <1>2, <1>4 DEF IInv, Types
<1>6. ASSUME NEW U \in Descriptors
      PROVE  Latest(registered', U, n + 1, m_callbacks'[U])
  <2>1. Latest(reg, U, n, m_callbacks[U])
    BY <1>1 DEF IInv, Current
  <2>2. m_callbacks'[U] = IF U = T THEN d ELSE m_callbacks[U]
    BY <1>2 DEF IInv, Types
  <2> QED
    BY <1>1, <1>2, <2>1, <2>2, LatestAdded
<1>7. ASSUME NEW c \in 1 .. Len(calls)
      PROVE  /\ calls[c].after \in 0 .. n + 1
             /\ Latest(registered', calls[c].type, calls[c].after, calls[c].callback)
  <2>1. /\ calls[c].after \in 0 .. n
        /\ Latest(reg, calls[c].type, calls[c].after, calls[c].callback)
    BY <1>1 DEF IInv, Current
  <2>2. PICK a \in 0 .. n : a = calls[c].after
    BY <2>1
  <2> QED
    BY <1>1, <1>2, <1>3, <2>1, <2>2, LatestKept
<1>8. Current'
  <2>1. Len(registered') = n + 1
    BY <1>2, <1>4
  <2> QED
    BY <1>2, <1>6, <1>7, <2>1 DEF Current
<1> QED
  BY <1>2, <1>5, <1>8 DEF IInv

\* OnceDispatch calls the delegate the map holds.
LEMMA DispatchStep ==
    ASSUME IInv, NEW T \in Descriptors, OnceDispatch(T)
    PROVE  IInv'
<1>1. PICK a \in Nat, cs \in Seq(Call) : a = Len(registered) /\ cs = calls
  BY DEF IInv, Types
<1>2. PICK x \in Call : x = [type |-> T, callback |-> m_callbacks[T], after |-> a]
  <2>1. m_callbacks[T] \in Callbacks \cup {discard}
    BY DEF IInv, Types
  <2>2. [type |-> T, callback |-> m_callbacks[T], after |-> a] \in Call
    BY <2>1 DEF Call
  <2> QED
    BY <2>2
<1>3. /\ stack' = Append(stack, T) /\ calls' = Append(cs, x)
      /\ UNCHANGED <<m_callbacks, registered>>
  BY <1>1, <1>2 DEF OnceDispatch
<1>4. PICK l \in Nat : l = Len(cs)
  OBVIOUS
<1>5. PICK ds \in Seq(Call) : ds = Append(cs, x)
  <2>1. Append(cs, x) \in Seq(Call)
    OBVIOUS
  <2> QED
    BY <2>1
<1>6. Len(ds) = l + 1 /\ ds[l + 1] = x /\ \A c \in 1 .. l : ds[c] = cs[c]
  BY <1>4, <1>5
<1>7. Types'
  BY <1>3, <1>5 DEF IInv, Types
<1>8. x.after = a /\ x.type = T /\ x.callback = m_callbacks[T] /\ a \in 0 .. a
  BY <1>2
<1>9. Latest(registered, x.type, x.after, x.callback)
  BY <1>1, <1>8 DEF IInv, Current
<1>10. ASSUME NEW c \in 1 .. l + 1
       PROVE  ds[c].after \in 0 .. a /\ Latest(registered, ds[c].type, ds[c].after, ds[c].callback)
  <2>1. CASE c \in 1 .. l
    BY <1>1, <1>4, <1>6, <2>1 DEF IInv, Current
  <2>2. CASE c = l + 1
    BY <1>6, <1>8, <1>9, <2>2
  <2> QED
    BY <2>1, <2>2
<1>11. \A U \in Descriptors : Latest(registered, U, a, m_callbacks[U])
  BY <1>1 DEF IInv, Current
<1>12. Current'
  BY <1>1, <1>3, <1>5, <1>6, <1>10, <1>11 DEF Current
<1> QED
  BY <1>7, <1>12 DEF IInv

\* The callback returns and takes its frame off the stack.
LEMMA ReturnStep ==
    ASSUME IInv, CallbackReturns
    PROVE  IInv'
<1>1. PICK s \in Seq(Descriptors) : s = stack /\ s # <<>>
  BY DEF IInv, Types, CallbackReturns
<1>2. stack' = SubSeq(s, 1, Len(s) - 1) /\ UNCHANGED <<m_callbacks, calls, registered>>
  BY <1>1 DEF CallbackReturns
<1>3. SubSeq(s, 1, Len(s) - 1) \in Seq(Descriptors)
  BY <1>1
<1> QED
  BY <1>2, <1>3 DEF IInv, Types, Current

\* Every step keeps the invariant.
LEMMA NextIInv == IInv /\ [Next]_vars => IInv'
<1> SUFFICES ASSUME IInv, [Next]_vars
             PROVE  IInv'
  OBVIOUS
<1>1. CASE \/ \E canceled \in BOOLEAN : CancelDispatch(canceled)
           \/ OnceDispatchFails
           \/ UNCHANGED vars
  <2>1. UNCHANGED <<m_callbacks, stack, calls, registered>>
    BY <1>1 DEF CancelDispatch, OnceDispatchFails, vars
  <2> QED
    BY <2>1 DEF IInv, Types, Current
<1> QED
  BY <1>1, RegisterStep, DispatchStep, ReturnStep DEF Next

-----------------------------------------------------------------------------
(***************************************************************************)
(* IInv is an invariant of the dispatcher: registerMessageCallback keeps the *)
(* last delegate of every type, and what a call found stays the last of the *)
(* registrations before it.                                                 *)
(***************************************************************************)
THEOREM InductiveInvariant == Spec => []IInv
<1>1. Init => IInv
  <2> SUFFICES ASSUME Init
               PROVE  IInv
    OBVIOUS
  <2>1. Len(stack) = 0 /\ Len(registered) = 0 /\ Len(calls) = 0
    BY DEF Init
  <2>2. Types
    BY DEF Init, Types
  <2>3. Current
    BY <2>1 DEF Init, Current, Latest
  <2> QED
    BY <2>2, <2>3 DEF IInv
<1> QED
  BY <1>1, NextIInv, PTL DEF Spec

(* A message goes to the delegate registered last for its type, whatever     *)
(* callbacks register while they run.                                       *)
THEOREM LastDelegateCalled == Spec => []LastRegistrationCalled
<1>1. IInv => LastRegistrationCalled
  <2> SUFFICES ASSUME IInv
               PROVE  LastRegistrationCalled
    OBVIOUS
  <2>1. DOMAIN calls = 1 .. Len(calls)
    BY DEF IInv, Types
  <2>2. ASSUME NEW c \in 1 .. Len(calls)
        PROVE  LET before == Registrations(calls[c].type, calls[c].after)
               IN  IF before = {} THEN calls[c].callback = discard
                   ELSE \E i \in before : /\ \A j \in before : j <= i
                                          /\ calls[c].callback = registered[i][2]
    <3>1. PICK T, n, d : T = calls[c].type /\ n = calls[c].after /\ d = calls[c].callback
      OBVIOUS
    <3>2. Latest(registered, T, n, d)
      BY <3>1 DEF IInv, Current
    <3> QED
      BY <3>1, <3>2 DEF Latest, Registrations
  <2> QED
    BY <2>1, <2>2 DEF LastRegistrationCalled
<1> QED
  BY <1>1, InductiveInvariant, PTL
=============================================================================
