----------------------------- MODULE MCDiscInfo -----------------------------
(* Instances of DiscInfo for TLC. *)
EXTENDS DiscInfo
MCSettings == {{}, {"helper"}, {"prompt", "calm"}, {"prompt", "calm", "close", "single"}}
=============================================================================
