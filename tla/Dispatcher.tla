----------------------------- MODULE Dispatcher -----------------------------
(***************************************************************************)
(* CMsgDispatcher (Gateway/Dispatcher.cpp): a request names the type of the  *)
(* message it carries; OnceDispatch makes a message of that type and calls  *)
(* the callback registered for the type.  The message is a local of         *)
(* OnceDispatch and lives as long as its frame of the stack.                *)
(*                                                                         *)
(* One thread, but a callback may itself dispatch, register a callback, or  *)
(* cancel: every dispatch that has not returned is a frame of the stack.    *)
(***************************************************************************)
EXTENDS Integers, Sequences

CONSTANTS
    Descriptors,  \* the message types the generated pool knows
    Callbacks,    \* delegates
    MaxMessages,  \* bound: dispatches
    MaxRegister   \* bound: calls of registerMessageCallback

discard == "discardProtobufMessage"

ASSUME DispatcherAssumption == MaxMessages \in Nat /\ discard \notin Callbacks

VARIABLES
    m_callbacks,  \* the delegate of every type, discard for a type without one
    m_bCanceled,  \* set and reset, and consulted by nobody
    stack,        \* the types of the dispatches whose callback runs, the innermost last
    rejected,     \* history: dispatches that returned false
    calls,        \* history: the callbacks called, in order
    registered    \* history: the registrations, in order

vars == <<m_callbacks, m_bCanceled, stack, rejected, calls, registered>>

\* CMsgDispacher's constructor registers its two callbacks with the actions.
Init ==
    /\ m_callbacks = [d \in Descriptors |-> discard]
    /\ m_bCanceled = FALSE
    /\ stack = <<>>
    /\ rejected = 0
    /\ calls = <<>>
    /\ registered = <<>>

\* Deliberately wrong: insert, which keeps the first delegate.
Store_First(T, d) ==
    IF m_callbacks[T] = discard THEN [m_callbacks EXCEPT ![T] = d] ELSE m_callbacks

Store(T, d) == [m_callbacks EXCEPT ![T] = d]

registerMessageCallback(T, d) ==
    /\ Len(registered) < MaxRegister
    /\ m_callbacks' = Store(T, d)
    /\ registered' = Append(registered, <<T, d>>)
    /\ UNCHANGED <<m_bCanceled, stack, rejected, calls>>

CancelDispatch(canceled) ==
    /\ m_bCanceled # canceled
    /\ m_bCanceled' = canceled
    /\ UNCHANGED <<m_callbacks, stack, rejected, calls, registered>>

\* Parse gives NULL: fewer than four bytes, no Request, or an unknown type.
OnceDispatchFails ==
    /\ Len(calls) + rejected < MaxMessages
    /\ rejected' = rejected + 1
    /\ UNCHANGED <<m_callbacks, m_bCanceled, stack, calls, registered>>

\* Parse makes a message; whether its own fields parse is not looked at.
OnceDispatch(T) ==
    /\ Len(calls) + rejected < MaxMessages
    /\ stack' = Append(stack, T)
    /\ calls' = Append(calls, [type |-> T, callback |-> m_callbacks[T], after |-> Len(registered)])
    /\ UNCHANGED <<m_callbacks, m_bCanceled, rejected, registered>>

\* The callback returns, and OnceDispatch after it.
CallbackReturns ==
    /\ stack # <<>>
    /\ stack' = SubSeq(stack, 1, Len(stack) - 1)
    /\ UNCHANGED <<m_callbacks, m_bCanceled, rejected, calls, registered>>

Next ==
    \/ \E T \in Descriptors : OnceDispatch(T) \/ \E d \in Callbacks : registerMessageCallback(T, d)
    \/ \E canceled \in BOOLEAN : CancelDispatch(canceled)
    \/ OnceDispatchFails
    \/ CallbackReturns

Spec == Init /\ [][Next]_vars

-----------------------------------------------------------------------------
\* The registrations of type T among the first n.
Registrations(T, n) == {i \in 1 .. n : registered[i][1] = T}

(***************************************************************************)
(* A message goes to the callback that was registered last for its type,    *)
(* also when a callback that was running at the time registered it, and is  *)
(* discarded if there was none.                                             *)
(***************************************************************************)
LastRegistrationCalled ==
    \A c \in DOMAIN calls :
        LET before == Registrations(calls[c].type, calls[c].after)
        IN  IF before = {} THEN calls[c].callback = discard
            ELSE \E i \in before : /\ \A j \in before : j <= i
                                   /\ calls[c].callback = registered[i][2]
=============================================================================
