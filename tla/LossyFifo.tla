------------------------------ MODULE LossyFifo ------------------------------
(***************************************************************************)
(* What the queue between the RTSP thread and the decoder promises:        *)
(* packets arrive in the order they were received, none twice, and a       *)
(* packet is lost only when it is the oldest of at least Capacity packets  *)
(* nobody took yet.                                                        *)
(***************************************************************************)
EXTENDS Integers, Sequences

CONSTANT Capacity

VARIABLES
    pending,    \* packets sent and neither lost nor delivered, oldest first
    sent,       \* number of the last packet sent
    delivered   \* number of the last packet delivered

Init == pending = <<>> /\ sent = 0 /\ delivered = 0

Send ==
    /\ Len(pending) < Capacity
    /\ sent' = sent + 1
    /\ pending' = Append(pending, sent + 1)
    /\ UNCHANGED delivered

Lose ==
    /\ Len(pending) = Capacity
    /\ pending' = Tail(pending)
    /\ UNCHANGED <<sent, delivered>>

Deliver ==
    /\ pending # <<>>
    /\ delivered' = Head(pending)
    /\ pending' = Tail(pending)
    /\ UNCHANGED sent

Next == Send \/ Lose \/ Deliver

vars == <<pending, sent, delivered>>

SafetySpec == Init /\ [][Next]_vars

\* The receiver gets something while something is pending.
Spec == SafetySpec /\ WF_vars(Deliver)
=============================================================================
