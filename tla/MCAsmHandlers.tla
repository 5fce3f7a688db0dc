--------------------------- MODULE MCAsmHandlers ---------------------------
(***************************************************************************)
(* AsmHandlers on a small instance: x stands for the message 0xf1ea, which *)
(* gets several threads.                                                   *)
(***************************************************************************)
EXTENDS AsmHandlers, TLC

CONSTANT x

MCCopies == (x :> 2)
=============================================================================
