---------------------------- MODULE ByteChannel ----------------------------
(***************************************************************************)
(* What a pipe promises: a channel of bounded capacity whose readers get   *)
(* the bytes that were written, in the order they were written.            *)
(***************************************************************************)
EXTENDS Integers, Sequences

CONSTANTS Bytes, Capacity

VARIABLES sent, received

Init == sent = <<>> /\ received = <<>>

Put == /\ Len(sent) < Len(received) + Capacity
       /\ \E b \in Bytes : sent' = Append(sent, b)
       /\ UNCHANGED received

Get == /\ Len(received) < Len(sent)
       /\ received' = Append(received, sent[Len(received) + 1])
       /\ UNCHANGED sent

Spec == Init /\ [][Put \/ Get]_<<sent, received>>
=============================================================================
