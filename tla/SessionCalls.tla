---------------------------- MODULE SessionCalls ----------------------------
(***************************************************************************)
(* What one handler of CNetSession's reads may call of IDataHandler, in     *)
(* order: the vocabulary that WsReceive, which models one session, and      *)
(* Gateway, which composes many, have in common.                            *)
(***************************************************************************)
EXTENDS Sequences

\* ExtractBuffer hands over the long packet it completes, if any, and then one
\* more packet, or waits for more bytes.
DataCalls == {<<>>, <<"DATA">>, <<"DATA", "DATA">>}

\* ... or closes.
CloseCalls == {<<"CLOSE">>, <<"DATA", "CLOSE">>}

HandlerCalls == DataCalls \cup CloseCalls
=============================================================================
