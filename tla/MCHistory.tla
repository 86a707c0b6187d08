----------------------------- MODULE MCHistory -----------------------------
(* The settings for TLC. *)
EXTENDS History
MCSettings == {{}, {"still"}, {"share", "apart"}, {"come", "apart"}, {"fail"}}
=============================================================================
