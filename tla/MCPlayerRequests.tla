------------------------- MODULE MCPlayerRequests -------------------------
(***************************************************************************)
(* PlayerRequests on a small instance: on a 2 by 2 grid every pair of     *)
(* horizontal borders, in either order, and some that leave the frame.     *)
(***************************************************************************)
EXTENDS PlayerRequests

MCCropRequests ==
    [x0 : {0}, y0 : 0 .. 2, x1 : {2}, y1 : 0 .. 2]
        \cup [x0 : {-1, 1, 2}, y0 : {0}, x1 : {2}, y1 : {-1, 1, 3}]

\* A picture that leaves out the lowest lines of its surface.
MCOwnRects == {[x0 |-> 0, y0 |-> 0, x1 |-> 2, y1 |-> 1]}
=============================================================================
