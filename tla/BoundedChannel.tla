---------------------------- MODULE BoundedChannel ----------------------------
(***************************************************************************)
(* What a producer and a consumer around a buffer of Capacity places       *)
(* promise: values come out in the order they went in, each exactly once,  *)
(* and at most Capacity of them are inside at any time.                    *)
(***************************************************************************)
EXTENDS Naturals, Sequences

CONSTANTS Capacity, Values

VARIABLES
    produced,       \* the values put into the channel, oldest first
    consumed        \* the values taken out of it, oldest first

chanVars == <<produced, consumed>>

ChannelInit == produced = <<>> /\ consumed = <<>>

Put(v) ==
    /\ Len(produced) < Len(consumed) + Capacity
    /\ produced' = Append(produced, v)
    /\ UNCHANGED consumed

Get ==
    /\ Len(consumed) < Len(produced)
    /\ consumed' = Append(consumed, produced[Len(consumed) + 1])
    /\ UNCHANGED produced

ChannelNext == Get \/ \E v \in Values : Put(v)

ChannelSpec == ChannelInit /\ [][ChannelNext]_chanVars
=============================================================================
