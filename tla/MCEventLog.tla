----------------------------- MODULE MCEventLog -----------------------------
(* A small instance of EventLog for TLC.                                   *)
EXTENDS EventLog

=============================================================================
