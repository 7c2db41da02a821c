---------------------------- MODULE MCZoneReads -----------------------------
(* A small instance of ZoneReads for TLC.                                  *)
EXTENDS ZoneReads

AllZones == (1..AmpCount) \X (1..ZonesPerAmp)
Inputs == {<<1, 2>>}

=============================================================================
