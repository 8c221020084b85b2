--------------------------- MODULE SlaveWriteLock ---------------------------
(***************************************************************************)
(* The write-range lock of ModbusSlave (src/slave/slave.ts): with          *)
(* queueStrategy 'concurrent' and enableWriteRangeLock, a write whose      *)
(* addresses overlap those of a write in flight on the same unit waits,    *)
(* and the end of a write flushes those that wait.                         *)
(*                                                                         *)
(* A handler calls back at once or later, and the checkRuntime hook may    *)
(* defer the end of the write further.  Calling back at once re-enters the *)
(* lock: below the event loop this is the same as calling back in the next *)
(* turn, but a handler started by the flush loop calls back in the middle  *)
(* of the loop.  `calling` is that handler while it is on the stack.       *)
(***************************************************************************)
EXTENDS Naturals, Sequences

CONSTANTS
  Jobs,        \* locked writes, one per unit for a broadcast
  NoJob,       \* not a write
  Units,       \* the units that are written to
  NoUnit,      \* not a unit
  UnitOf,      \* [Jobs -> Units]
  Spans,       \* [Jobs -> set of <<start, end>>]: WriteRequest.ranges, end exclusive
  Reaches      \* the writes handlers complete at once: "own", "unit" or "any"

ASSUME LockAssumption ==
  /\ NoJob \notin Jobs /\ NoUnit \notin Units
  /\ UnitOf \in [Jobs -> Units]
  /\ Spans \in [Jobs -> SUBSET (Nat \X Nat)]
  /\ Reaches \subseteq {"own", "unit", "any"}

VARIABLES
  reach,      \* whose writes a handler called by the flush loop completes, read only
  inFlight,   \* _unitWriteQueues[unit].inFlight
  index,      \* WriteRequest.inFlightIndex, counted from 1
  pending,    \* _unitWriteQueues[unit].pending, without the slots the loop gave up
  flushUnit,  \* the unit of the running _flushPendingWrites, or NoUnit
  kept,       \* writeIdx: the writes this pass looked at and left waiting
  again,      \* _pendingFlushPending
  calling,    \* the write whose handler the flush loop is calling
  status,     \* how far a write has come
  destroyed,  \* _destroyed
  ticket,     \* history: the number of the arrival of a write
  arrived     \* history: arrivals so far

queues == <<inFlight, index, pending>>
flush == <<flushUnit, kept, again, calling>>
history == <<ticket, arrived>>
vars == <<reach, queues, flush, status, destroyed, history>>
-----------------------------------------------------------------------------
(* Each fault stands before the operator it breaks.  Here: the second      *)
(* comparison is missing.                                                  *)
OverlapOneSided(j, k) ==
  \E s \in Spans[j], t \in Spans[k] : s[1] <= t[1] /\ t[1] < s[2]

(* rangesOverlap.                                                          *)
Overlap(j, k) ==
  \E s \in Spans[j], t \in Spans[k] : s[1] < t[2] /\ t[1] < s[2]

Blocked(j) ==
  \E i \in 1..Len(inFlight[UnitOf[j]]) : Overlap(j, inFlight[UnitOf[j]][i])

(* The event loop may take the next event.                                 *)
Idle == flushUnit = NoUnit
NoFlush == UNCHANGED flush

(* The write takes its place and its handler is called.                    *)
Start(j) ==
  LET u == UnitOf[j] IN
  /\ inFlight' = [inFlight EXCEPT ![u] = Append(@, j)]
  /\ index' = [index EXCEPT ![j] = Len(inFlight[u]) + 1]
  /\ status' = [status EXCEPT ![j] = "running"]

Init ==
  /\ reach \in Reaches
  /\ inFlight = [u \in Units |-> <<>>]
  /\ index = [j \in Jobs |-> 0]
  /\ pending = [u \in Units |-> <<>>]
  /\ flushUnit = NoUnit /\ kept = 0 /\ again = FALSE /\ calling = NoJob
  /\ status = [j \in Jobs |-> "new"]
  /\ destroyed = FALSE
  /\ ticket = [j \in Jobs |-> 0] /\ arrived = 0
-----------------------------------------------------------------------------
(* Fault: a write that waits goes before those that wait already.          *)
WaitAtFront(j) ==
  /\ pending' = [pending EXCEPT ![UnitOf[j]] = <<j>> \o @]
  /\ status' = [status EXCEPT ![j] = "pending"]
  /\ UNCHANGED <<inFlight, index>>

Wait(j) ==
  /\ pending' = [pending EXCEPT ![UnitOf[j]] = Append(@, j)]
  /\ status' = [status EXCEPT ![j] = "pending"]
  /\ UNCHANGED <<inFlight, index>>

(* Fault: a write that arrives does not look at those in flight.           *)
ArriveUnlocked(j) ==
  /\ Idle /\ ~destroyed /\ status[j] = "new"
  /\ ticket' = [ticket EXCEPT ![j] = arrived + 1]
  /\ arrived' = arrived + 1
  /\ Start(j) /\ UNCHANGED pending
  /\ NoFlush /\ UNCHANGED <<reach, destroyed>>

(* _processUnitWrite of a write with ranges: only the writes in flight are *)
(* looked at, not those that wait.                                         *)
Arrive(j) ==
  /\ Idle /\ ~destroyed /\ status[j] = "new"
  /\ ticket' = [ticket EXCEPT ![j] = arrived + 1]
  /\ arrived' = arrived + 1
  /\ IF Blocked(j) THEN Wait(j) ELSE Start(j) /\ UNCHANGED pending
  /\ NoFlush /\ UNCHANGED <<reach, destroyed>>
-----------------------------------------------------------------------------
(* Fault: the index of the moved write is not corrected.                   *)
RemoveStaleIndex(j) ==
  LET u == UnitOf[j]
      flying == inFlight[u]
      n == Len(flying)
  IN  IF index[j] \in 1..n
        THEN /\ inFlight' = [inFlight EXCEPT ![u] =
                   SubSeq([flying EXCEPT ![index[j]] = flying[n]], 1, n - 1)]
             /\ UNCHANGED index
        ELSE UNCHANGED <<inFlight, index>>

(* The last write in flight moves to the slot of the one that ends; after  *)
(* destroy() the slot is out of range and nothing is removed.              *)
Remove(j) ==
  LET u == UnitOf[j]
      flying == inFlight[u]
      n == Len(flying)
      last == flying[n]
  IN  IF index[j] \in 1..n
        THEN /\ inFlight' = [inFlight EXCEPT ![u] =
                   SubSeq([flying EXCEPT ![index[j]] = last], 1, n - 1)]
             /\ index' = IF last = j THEN index
                                     ELSE [index EXCEPT ![last] = index[j]]
        ELSE UNCHANGED <<inFlight, index>>

(* Fault: a completion inside the loop is forgotten.                       *)
FlushForgetful(u) ==
  IF Idle THEN flushUnit' = u /\ kept' = 0 /\ again' = FALSE /\ UNCHANGED calling
          ELSE NoFlush

(* The head of _flushPendingWrites: a flush on the stack, of whatever unit,*)
(* is only asked for another pass.                                         *)
Flush(u) ==
  IF Idle THEN flushUnit' = u /\ kept' = 0 /\ again' = FALSE /\ UNCHANGED calling
          ELSE again' = TRUE /\ UNCHANGED <<flushUnit, kept, calling>>

(* _onLockedUnitWriteDone.                                                 *)
Finish(j) ==
  /\ Remove(j)
  /\ status' = [status EXCEPT ![j] = "done"]
  /\ Flush(UnitOf[j])
  /\ UNCHANGED <<reach, pending, destroyed, history>>

(* What the handler on the stack of the flush loop may complete at once:   *)
(* its own write, also writes of its unit that it had kept, or any.        *)
WithinReach(j) ==
  /\ calling # NoJob
  /\ \/ j = calling
     \/ reach = "unit" /\ UnitOf[j] = flushUnit
     \/ reach = "any"

(* The callback the handler is given: the write ends, or checkRuntime      *)
(* returns a promise and it ends later.                                    *)
HandlerDone(j) ==
  /\ status[j] = "running"
  /\ ~Idle => WithinReach(j)
  /\ \/ Finish(j)
     \/ /\ ~destroyed
        /\ status' = [status EXCEPT ![j] = "authorizing"]
        /\ NoFlush /\ UNCHANGED <<reach, queues, destroyed, history>>

(* The promise of checkRuntime is fulfilled.                               *)
RuntimeDone(j) ==
  /\ Idle /\ status[j] = "authorizing"
  /\ Finish(j)
-----------------------------------------------------------------------------
(* The do-while of _flushPendingWrites, one waiting write at a time.       *)
Scanning == ~Idle /\ calling = NoJob
Without(s, n) == [i \in 1..(Len(s) - 1) |-> IF i < n THEN s[i] ELSE s[i + 1]]

(* Faults: the loop steps back as after a splice; the slot of the started  *)
(* write is left in the list.                                              *)
FlushStartBackwards ==
  LET u == flushUnit IN
  /\ Scanning /\ kept < Len(pending[u])
  /\ LET j == pending[u][kept + 1] IN ~Blocked(j) /\ Start(j) /\ calling' = j
  /\ pending' = [pending EXCEPT ![u] = Without(@, kept + 1)]
  /\ kept' = kept - 1
  /\ UNCHANGED <<reach, flushUnit, again, destroyed, history>>

FlushStartKeeping ==
  LET u == flushUnit IN
  /\ Scanning /\ kept < Len(pending[u])
  /\ LET j == pending[u][kept + 1] IN ~Blocked(j) /\ Start(j) /\ calling' = j
  /\ kept' = kept + 1
  /\ UNCHANGED <<reach, pending, flushUnit, again, destroyed, history>>

FlushStart ==
  LET u == flushUnit IN
  /\ Scanning /\ kept < Len(pending[u])
  /\ LET j == pending[u][kept + 1] IN ~Blocked(j) /\ Start(j) /\ calling' = j
  /\ pending' = [pending EXCEPT ![u] = Without(@, kept + 1)]
  /\ UNCHANGED <<reach, flushUnit, kept, again, destroyed, history>>

FlushKeep ==
  /\ Scanning /\ kept < Len(pending[flushUnit])
  /\ Blocked(pending[flushUnit][kept + 1])
  /\ kept' = kept + 1
  /\ UNCHANGED <<reach, queues, flushUnit, again, calling, status, destroyed,
                 history>>

(* The handler returns to the loop, having called back or not.             *)
HandlerReturns ==
  /\ calling # NoJob
  /\ calling' = NoJob
  /\ UNCHANGED <<reach, queues, flushUnit, kept, again, status, destroyed, history>>

FlushEnd ==
  /\ Scanning /\ kept = Len(pending[flushUnit])
  /\ kept' = 0 /\ again' = FALSE
  /\ flushUnit' = IF again THEN flushUnit ELSE NoUnit
  /\ UNCHANGED <<reach, queues, calling, status, destroyed, history>>

(* destroy(): the lists are emptied; handlers may still call back.         *)
Destroy ==
  /\ Idle /\ ~destroyed
  /\ destroyed' = TRUE
  /\ inFlight' = [u \in Units |-> <<>>]
  /\ pending' = [u \in Units |-> <<>>]
  /\ status' = [j \in Jobs |-> IF status[j] = "pending" THEN "dropped" ELSE status[j]]
  /\ NoFlush /\ UNCHANGED <<reach, index, history>>

(* Nothing is running and nothing more arrives.                            *)
Rest ==
  /\ Idle /\ \A j \in Jobs : status[j] \in {"done", "dropped"} \/ (destroyed /\ status[j] = "new")
  /\ UNCHANGED vars

Next ==
  \/ \E j \in Jobs : Arrive(j) \/ HandlerDone(j) \/ RuntimeDone(j)
  \/ FlushStart \/ FlushKeep \/ HandlerReturns \/ FlushEnd
  \/ Destroy
  \/ Rest

Spec == Init /\ [][Next]_vars
-----------------------------------------------------------------------------
Statuses == {"new", "pending", "running", "authorizing", "done", "dropped"}

(* Every variable holds a value of its type.                               *)
TypeOK ==
  /\ reach \in {"own", "unit", "any"}
  /\ inFlight \in [Units -> Seq(Jobs)] /\ pending \in [Units -> Seq(Jobs)]
  /\ index \in [Jobs -> Nat]
  /\ flushUnit \in Units \cup {NoUnit} /\ kept \in Nat /\ again \in BOOLEAN
  /\ calling \in Jobs \cup {NoJob}
  /\ status \in [Jobs -> Statuses]
  /\ destroyed \in BOOLEAN
  /\ ticket \in [Jobs -> Nat] /\ arrived \in Nat

Holding(j) == status[j] \in {"running", "authorizing"}

(* Two writes to one unit have an address in common.                       *)
Shares(j, k) ==
  /\ UnitOf[j] = UnitOf[k]
  /\ \E s \in Spans[j], t \in Spans[k] : \E a \in s[1]..s[2] :
       a < s[2] /\ t[1] <= a /\ a < t[2]
Conflict == {p \in Jobs \X Jobs : Shares(p[1], p[2])}

(* README: "write requests ... with overlapping address ranges on the same *)
(* unit are serialized", from the call of the handler until checkRuntime   *)
(* has spoken, whatever completes inside the flush loop.                   *)
Exclusive ==
  \A j, k \in Jobs : j # k /\ Holding(j) /\ Holding(k) => <<j, k>> \notin Conflict

(* The list of a unit holds exactly the writes that hold the lock, each at *)
(* its index: swapping the last one into a freed slot loses none.          *)
InFlightSound ==
  ~destroyed =>
    /\ \A j \in Jobs : Holding(j) =>
         /\ index[j] \in 1..Len(inFlight[UnitOf[j]])
         /\ inFlight[UnitOf[j]][index[j]] = j
    /\ \A u \in Units : \A i \in 1..Len(inFlight[u]) :
         /\ UnitOf[inFlight[u][i]] = u
         /\ Holding(inFlight[u][i]) /\ index[inFlight[u][i]] = i

(* A write that waits is in the list of its unit once, others are not:     *)
(* the in-place compaction of the loop neither loses nor repeats a write.  *)
PendingSound ==
  /\ \A u \in Units : \A i \in 1..Len(pending[u]) :
       /\ UnitOf[pending[u][i]] = u /\ status[pending[u][i]] = "pending"
       /\ \A k \in 1..Len(pending[u]) : pending[u][i] = pending[u][k] => i = k
  /\ \A j \in Jobs : status[j] = "pending" =>
       \E i \in 1..Len(pending[UnitOf[j]]) : pending[UnitOf[j]][i] = j

(* slave.test.ts: "should flush pending writes after an in-flight write    *)
(* completes": between two turns no write waits for nothing.               *)
NoStrandedWrite ==
  Idle => \A j \in Jobs : status[j] = "pending" => Blocked(j)

(* It holds while handlers complete at once only writes of their own unit. *)
PendingIsBlocked == reach # "any" => NoStrandedWrite

(* Writes of a unit to the same addresses are carried out in the order of  *)
(* their arrival, although arrivals do not look at the writes that wait,   *)
(* while handlers complete at once only their own write.                   *)
SameRangeInOrder ==
  [][\A j, k \in Jobs :
       /\ reach = "own"
       /\ UnitOf[j] = UnitOf[k] /\ Spans[j] = Spans[k]
       /\ 0 < ticket[j] /\ ticket[j] < ticket'[k]
       /\ status[k] # "running" /\ status'[k] = "running"
       => status[j] # "pending"]_vars
-----------------------------------------------------------------------------
Phase(j) ==
  CASE status[j] = "new"     -> "new"
    [] status[j] = "pending" -> "waiting"
    [] Holding(j)            -> "holding"
    [] OTHER                 -> "over"

Lock == INSTANCE RangeLock WITH phase <- [j \in Jobs |-> Phase(j)]
ImplementsLock == Lock!Spec
=============================================================================
