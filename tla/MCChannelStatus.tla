-------------------------- MODULE MCChannelStatus --------------------------
(* Instances of ChannelStatus for TLC. *)
EXTENDS ChannelStatus

OneCall == [c \in Channels |-> 1]
AnyProbing == SUBSET Channels
AllProbed == {Channels}
=============================================================================
