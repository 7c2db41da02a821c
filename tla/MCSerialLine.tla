---------------------------- MODULE MCSerialLine ----------------------------
(* Small instances of SerialLine for TLC.                                  *)
EXTENDS SerialLine

FourRates == <<9600, 19200, 38400, 57600>>
UpToTarget == {r \in Rates : r <= Target}

=============================================================================
