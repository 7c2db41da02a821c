--------------------------- MODULE MCZoneService ----------------------------
(* A small instance of ZoneService for TLC.                                *)
EXTENDS ZoneService

AllZones == (1..2) \X (1..2)
\* a zone of the second amplifier, and one amplifier too many
Inputs == {<<2, 1>>, <<3, 1>>}

=============================================================================
