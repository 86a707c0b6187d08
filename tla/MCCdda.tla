------------------------------- MODULE MCCdda -------------------------------
(***************************************************************************)
(* Small instances of Cdda.  Two slots and areas of one and three chunks   *)
(* give an area that fits the buffer and one that wraps it and fills it;   *)
(* two plays are what it takes to see what one leaves to the next.         *)
(***************************************************************************)
EXTENDS CddaInv

MCTotals    == {1, 3}
AllButCreate == {"read", "write", "open", "hang"}
=============================================================================
