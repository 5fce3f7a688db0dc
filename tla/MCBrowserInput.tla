--------------------------- MODULE MCBrowserInput ---------------------------
(***************************************************************************)
(* BrowserInput on a small instance: consumers are interchangeable, and a  *)
(* ring that was spoilt, of which no property says anything any more, is   *)
(* followed for one message.                                               *)
(***************************************************************************)
EXTENDS BrowserInput, TLC

MCSymmetry == Permutations(Consumers)

MCBound == port = "comm" /\ crossed = "spoilt" => arrived < N
=============================================================================
