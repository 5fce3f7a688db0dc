------------------------------ MODULE FreeList ------------------------------
(***************************************************************************)
(* What a pool of surfaces promises the decoder: a surface is free or in   *)
(* use, never both; only a free one is handed out, the one that has been   *)
(* free for longest; a surface given back is free again.                   *)
(***************************************************************************)
EXTENDS Integers, Sequences

CONSTANT Sizes

VARIABLES free, used

Init == free = <<>> /\ used = {}

\* n surfaces, numbered from 0 in the order they will be handed out.
Fill(n) ==
    /\ free = <<>> /\ used = {}
    /\ free' = [k \in 1 .. n |-> k - 1]
    /\ UNCHANGED used

Take ==
    /\ free # <<>>
    /\ free' = Tail(free)
    /\ used' = used \cup {Head(free)}

\* Taking a surface and giving it straight back.
Rotate ==
    /\ free # <<>>
    /\ free' = Append(Tail(free), Head(free))
    /\ UNCHANGED used

Give(s) ==
    /\ s \in used
    /\ free' = Append(free, s)
    /\ used' = used \ {s}

Dispose ==
    /\ used = {}
    /\ free' = <<>>
    /\ UNCHANGED used

Next ==
    \/ \E n \in Sizes : Fill(n)
    \/ Take
    \/ Rotate
    \/ \E s \in used : Give(s)
    \/ Dispose

Spec == Init /\ [][Next]_<<free, used>>
=============================================================================
