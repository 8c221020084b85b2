------------------------- MODULE MCSlaveWriteLock -------------------------
(* Instances of SlaveWriteLock for TLC: on unit u1 four writes, two to the *)
(* same addresses, one with two ranges that meet all others, so that two   *)
(* are in flight together and the rest wait; on unit u2 two writes.        *)
EXTENDS SlaveWriteLock, TLC

CONSTANTS a1, a2, a3, a4, b1, b2, u1, u2

MCUnitOf == [j \in Jobs |-> IF j \in {b1, b2} THEN u2 ELSE u1]
MCSpans == [j \in Jobs |->
  CASE j = a1         -> {<<0, 2>>}
    [] j \in {a2, a3} -> {<<4, 6>>}
    [] j = a4         -> {<<1, 3>>, <<5, 7>>}
    [] OTHER          -> {<<0, 2>>}]

(* Writes to the same ranges of a unit may be exchanged.                   *)
MCSymmetry == Permutations({a2, a3}) \cup Permutations({b1, b2})
=============================================================================
