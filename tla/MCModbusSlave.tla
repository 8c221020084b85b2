--------------------------- MODULE MCModbusSlave ---------------------------
(* Instances of ModbusSlave for TLC: two units, two requests to the first  *)
(* with one fingerprint, and a broadcast.                                  *)
EXTENDS ModbusSlave

CONSTANTS f1, f2, f3, u1, u2

MCUnitOf == [f \in Frames |-> u1]
MCFingerprint == [f \in Frames |-> IF f = f3 THEN 2 ELSE 1]
=============================================================================
