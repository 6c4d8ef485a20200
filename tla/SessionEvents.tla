---------------------------- MODULE SessionEvents ----------------------------
(***************************************************************************)
(* What a CNetSession promises to the service once OnNewConnect has been    *)
(* called: data come only after the handshake, at most two packets to a     *)
(* read event, and after OnCloseConnect, which is called once, there is     *)
(* nothing more.                                                            *)
(***************************************************************************)
EXTENDS SessionCalls, Integers

VARIABLES
    phase,    \* "request" and "frames", while it reads; "closed", by Close, or
              \* "gone", by a read error
    calls,    \* what the last handler called of IDataHandler
    closes    \* calls of OnCloseConnect

sessionVars == <<phase, calls, closes>>

SessionInit == phase = "request" /\ calls = <<>> /\ closes = 0

HandshakeDone ==
    /\ phase = "request"
    /\ phase' = "frames" /\ calls' = <<>>
    /\ UNCHANGED closes

HandshakeRefused ==
    /\ phase = "request"
    /\ phase' = "closed" /\ calls' = <<"CLOSE">>
    /\ closes' = closes + 1

ExtractBuffer ==
    /\ phase = "frames"
    /\ \/ calls' \in DataCalls /\ UNCHANGED <<phase, closes>>
       \/ calls' \in CloseCalls /\ phase' = "closed" /\ closes' = closes + 1

\* The read of a closed socket fails too.
ReadError ==
    /\ phase # "gone"
    /\ phase' = IF phase = "closed" THEN "closed" ELSE "gone"
    /\ calls' = <<>>
    /\ UNCHANGED closes

SessionNext == HandshakeDone \/ HandshakeRefused \/ ExtractBuffer \/ ReadError

SessionSpec == SessionInit /\ [][SessionNext]_sessionVars
=============================================================================
