----------------------------- MODULE MessageFifo -----------------------------
(***************************************************************************)
(* What the queue of ASM messages promises: messages are handed out in the *)
(* order they were accepted, each once, and at most Capacity of them wait. *)
(***************************************************************************)
EXTENDS Integers, Sequences

CONSTANT Capacity

VARIABLES
    queue,    \* messages accepted and not handed out, oldest first
    number,   \* messages accepted so far
    taken     \* the message handed out last

Init == queue = <<>> /\ number = 0 /\ taken = 0

Accept ==
    /\ Len(queue) < Capacity
    /\ number' = number + 1
    /\ queue' = Append(queue, number + 1)
    /\ UNCHANGED taken

HandOut ==
    /\ queue # <<>>
    /\ taken' = Head(queue)
    /\ queue' = Tail(queue)
    /\ UNCHANGED number

Next == Accept \/ HandOut

Spec == Init /\ [][Next]_<<queue, number, taken>>
=============================================================================
