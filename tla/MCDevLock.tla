----------------------------- MODULE MCDevLock -----------------------------
(* The settings for TLC: the sound one, the sound one with attempts that   *)
(* overlap, and one in which the lock may be taken over at any time.       *)
EXTENDS DevLock
MCSettings ==
  {[overlap |-> FALSE, faults |-> {"quit", "crash", "blank"}],
   [overlap |-> TRUE,  faults |-> {}],
   [overlap |-> TRUE,  faults |-> {"quit", "crash", "node"}]}
=============================================================================
