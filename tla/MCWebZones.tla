---------------------------- MODULE MCWebZones -----------------------------
(* A small instance of WebZones for TLC.                                   *)
EXTENDS WebZones

=============================================================================
