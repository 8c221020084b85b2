-------------------------- MODULE MCModbusMaster --------------------------
(* Instances of ModbusMaster for TLC: three requests, of which the first   *)
(* two share a fingerprint and the third is a broadcast.                   *)
EXTENDS ModbusMaster

CONSTANTS r1, r2, r3

MCFingerprint == [r \in Requests |-> IF r = r3 THEN 2 ELSE 1]
=============================================================================
