---------------------------- MODULE MCLineReader ----------------------------
(* A small instance of LineReader for TLC, and the comparison of the loops *)
(* on baud rates, which has no states of its own.                          *)
EXTENDS LineReader, BaudRateLoops

=============================================================================
