--------------------------- MODULE SerialPipeline ---------------------------
(***************************************************************************)
(* SerialPipelineLayer of src/plugins/serial: the writes on a serial port. *)
(* A cycle is one write and one drain of the port, whose callbacks the     *)
(* port (external) calls when it likes; every callback may itself write.   *)
(***************************************************************************)
EXTENDS Naturals, Sequences, FiniteSets

CONSTANT MaxWrites   \* bound on the calls of write()
ASSUME SerialAssumption == MaxWrites \in Nat

VARIABLES
  spState,    \* _state
  isDraining, \* _isDraining
  writeQueue, \* _writeDataQueue with _writeCbQueue
  cycles,     \* cycles in the port, and whether they write or drain
  wrote,      \* history: calls of write() so far
  settled,    \* history: how often the callback of each write has run
  refilled    \* history: a failed write's own callback has written

spVars == <<spState, isDraining, writeQueue, cycles, wrote, settled, refilled>>

WriteIds == 1..MaxWrites
Cycle(k, phase) == [id |-> k, phase |-> phase]

SpInit ==
  /\ spState = "connected" /\ isDraining = FALSE /\ writeQueue = <<>>
  /\ cycles = {} /\ wrote = 0 /\ settled = [k \in WriteIds |-> 0] /\ refilled = FALSE

CallBack(S) == settled' = [k \in WriteIds |-> IF k \in S THEN settled[k] + 1 ELSE settled[k]]
Queued_(q) == {q[i] : i \in DOMAIN q}

(* The write a callback makes (n), or none (0).                            *)
MadeBy(n) == n \in 0..MaxWrites /\ n \in {0, wrote + 1} /\ wrote' = wrote + (IF n = 0 THEN 0 ELSE 1)

(* A write made while a cycle runs waits; on a pipeline that is closing it *)
(* fails at once.                                                          *)
QueueWith(n) == IF n # 0 /\ spState = "connected" THEN Append(writeQueue, n) ELSE writeQueue
FailsAtOnce(n) == IF n # 0 /\ spState # "connected" THEN {n} ELSE {}

(* write()                                                                 *)
Write(n) ==
  /\ n # 0 /\ MadeBy(n)
  /\ \/ /\ spState = "connected" /\ isDraining
        /\ writeQueue' = Append(writeQueue, n) /\ UNCHANGED <<isDraining, cycles, settled>>
     \/ /\ spState = "connected" /\ ~isDraining
        /\ isDraining' = TRUE /\ cycles' = cycles \cup {Cycle(n, "write")}
        /\ UNCHANGED <<writeQueue, settled>>
     \/ /\ spState # "connected" /\ CallBack({n})
        /\ UNCHANGED <<isDraining, writeQueue, cycles>>
  /\ UNCHANGED <<spState, refilled>>

(* The port has taken the bytes of a write.                                *)
WriteTaken(k, n) ==
  /\ Cycle(k, "write") \in cycles /\ MadeBy(n)
  /\ cycles' = (cycles \ {Cycle(k, "write")}) \cup {Cycle(k, "drain")}
  /\ CallBack({k} \cup FailsAtOnce(n)) /\ writeQueue' = QueueWith(n)
  /\ UNCHANGED <<spState, isDraining, refilled>>

(* Fault: the flag falls after the next cycle has begun.                   *)
NextCycleThenFlag(q, rest) ==
  /\ isDraining' = FALSE
  /\ writeQueue' = IF q = <<>> THEN q ELSE Tail(q)
  /\ cycles' = rest \cup IF q = <<>> THEN {} ELSE {Cycle(Head(q), "write")}
(* A cycle is over: the write that waits longest begins the next one.      *)
NextCycle(q, rest) ==
  \/ q = <<>> /\ isDraining' = FALSE /\ writeQueue' = q /\ cycles' = rest
  \/ /\ q # <<>> /\ isDraining' = TRUE /\ writeQueue' = Tail(q)
     /\ cycles' = rest \cup {Cycle(Head(q), "write")}

(* The port has drained; a listener of 'tx' may write before the flag      *)
(* falls.                                                                  *)
Drained(k, n) ==
  /\ Cycle(k, "drain") \in cycles /\ MadeBy(n)
  /\ NextCycle(QueueWith(n), cycles \ {Cycle(k, "drain")})
  /\ CallBack(FailsAtOnce(n))
  /\ UNCHANGED <<spState, refilled>>

(* The queue is failed.  The flag is down while the callbacks run: a write *)
(* of theirs begins a cycle at once.  That of the failed write's own       *)
(* callback comes before the flag falls, and leaves it down.               *)
FlushWithError(failed, rest, n) ==
  /\ MadeBy(n)
  /\ CallBack(failed \cup Queued_(writeQueue) \cup FailsAtOnce(n))
  /\ writeQueue' = <<>>
  /\ IF n # 0 /\ spState = "connected"
     THEN /\ (failed # {} \/ writeQueue # <<>>)
          /\ cycles' = rest \cup {Cycle(n, "write")}
          /\ isDraining' \in {d \in BOOLEAN : IF d THEN writeQueue # <<>> ELSE failed # {}}
          /\ refilled' = (refilled \/ ~isDraining')
     ELSE cycles' = rest /\ isDraining' = FALSE /\ UNCHANGED refilled

WriteFails(k, n) ==
  /\ Cycle(k, "write") \in cycles
  /\ FlushWithError({k}, cycles \ {Cycle(k, "write")}, n)
  /\ UNCHANGED spState
DrainFails(k, n) ==
  /\ Cycle(k, "drain") \in cycles
  /\ FlushWithError({}, cycles \ {Cycle(k, "drain")}, n)
  /\ UNCHANGED spState

(* destroy(), which closes the port; closing it may fail.                  *)
Destroy ==
  /\ spState = "connected" /\ spState' = "destroying"
  /\ UNCHANGED <<isDraining, writeQueue, cycles, wrote, settled, refilled>>

(* The port has closed, asked to or not.                                   *)
PortClosed ==
  /\ spState # "destroyed" /\ spState' = "destroyed"
  /\ CallBack(Queued_(writeQueue)) /\ writeQueue' = <<>> /\ isDraining' = FALSE
  /\ UNCHANGED <<cycles, wrote, refilled>>

SpNext ==
  \/ Destroy \/ PortClosed
  \/ \E n \in 0..MaxWrites :
       \/ Write(n)
       \/ \E k \in WriteIds : WriteTaken(k, n) \/ Drained(k, n) \/ WriteFails(k, n) \/ DrainFails(k, n)
SpSpec == SpInit /\ [][SpNext]_spVars
-----------------------------------------------------------------------------
(* "only one write+drain cycle is in flight at a time" and every write is  *)
(* settled once, however cycles fail and the port closes: a write waits in *)
(* the queue, is in the port or has been settled, and what waits has a     *)
(* cycle before it.  A write made by the callback of a failed one is apart:*)
(* the flag falls after it, and the next write shares the port with it.    *)
OneCycleAtATime ==
  /\ \A k \in 1..wrote :
       settled[k] + Cardinality({i \in DOMAIN writeQueue : writeQueue[i] = k})
                  + Cardinality({c \in cycles : c = Cycle(k, "write")}) = 1
  /\ ~refilled /\ spState # "destroyed" =>
       /\ Cardinality(cycles) <= 1 /\ (isDraining <=> cycles # {})
       /\ writeQueue # <<>> => isDraining
=============================================================================
