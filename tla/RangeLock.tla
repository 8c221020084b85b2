------------------------------ MODULE RangeLock ------------------------------
(***************************************************************************)
(* What the write-range lock of ModbusSlave promises: writes that share an *)
(* address of a unit are never carried out together, each is carried out   *)
(* at most once, and only the end of the slave withdraws one that waits.   *)
(***************************************************************************)
CONSTANTS Jobs, Conflict

VARIABLE phase

Init == phase = [j \in Jobs |-> "new"]

Ask(j) == phase[j] = "new" /\ phase' = [phase EXCEPT ![j] = "waiting"]

Acquire(j) ==
  /\ phase[j] \in {"new", "waiting"}
  /\ \A k \in Jobs \ {j} : phase[k] = "holding" => <<j, k>> \notin Conflict
  /\ phase' = [phase EXCEPT ![j] = "holding"]

Release(j) == phase[j] = "holding" /\ phase' = [phase EXCEPT ![j] = "over"]

WithdrawAll ==
  phase' = [j \in Jobs |-> IF phase[j] = "waiting" THEN "over" ELSE phase[j]]

Next == WithdrawAll \/ \E j \in Jobs : Ask(j) \/ Acquire(j) \/ Release(j)

Spec == Init /\ [][Next]_phase
=============================================================================
