---------------------------- MODULE MCFunctions ----------------------------
(***************************************************************************)
(* The functions and CheckHeader in one run: a behaviour builds one argument *)
(* or sends packets.                                                        *)
(***************************************************************************)
EXTENDS Arguments, PacketCheck, Bitwise

\* The words are small numbers here, and their bits those of the numbers.
BitwiseXor(a, b) == a ^^ b

NoArgument == nSize = 0 /\ strParam = <<>> /\ text = <<>>

NoPacket ==
    /\ m_nCheckNo = 0 /\ index = [p \in Peers |-> 0]
    /\ refused = [p \in Peers |-> FALSE] /\ disturbed = [p \in Peers |-> FALSE]

FunctionInit == (ArgumentInit /\ NoPacket) \/ (NoArgument /\ Init)

FunctionNext ==
    \/ NoPacket /\ NextArgument /\ UNCHANGED vars
    \/ NoArgument /\ Next /\ UNCHANGED arguments

FunctionSpec == FunctionInit /\ [][FunctionNext]_<<arguments, vars>>
=============================================================================
