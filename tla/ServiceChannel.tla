--------------------------- MODULE ServiceChannel ---------------------------
(***************************************************************************)
(* What CServiceBase promises to the network thread and to the game loop:  *)
(* one unbounded FIFO channel of NetPackets.  Whatever a thread hands to   *)
(* OnNewConnect, OnCloseConnect or OnDataHandle is taken by the game loop   *)
(* exactly once, in the order in which it was handed over.                  *)
(***************************************************************************)
EXTENDS Sequences

CONSTANT Packets      \* the NetPackets that can be handed over

VARIABLES pending,    \* handed over, not yet processed by the game loop
          handled     \* processed by the game loop, oldest first

channelVars == <<pending, handled>>

ChannelInit ==
    /\ pending = <<>>
    /\ handled = <<>>

Put(p) ==
    /\ pending' = Append(pending, p)
    /\ UNCHANGED handled

Take ==
    /\ pending # <<>>
    /\ handled' = Append(handled, Head(pending))
    /\ pending' = Tail(pending)

ChannelNext == Take \/ \E p \in Packets : Put(p)

\* The channel without the promise that everything is taken in the end.
ChannelSafety == ChannelInit /\ [][ChannelNext]_channelVars

\* That promise.
Served == WF_channelVars(Take)

ChannelSpec == ChannelSafety /\ Served
=============================================================================
