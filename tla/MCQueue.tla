------------------------------ MODULE MCQueue -------------------------------
(* A small instance of QueueLifecycle for TLC, without symmetry: what is   *)
(* checked is temporal.                                                    *)
EXTENDS QueueLifecycle

=============================================================================
