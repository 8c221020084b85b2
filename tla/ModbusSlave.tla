----------------------------- MODULE ModbusSlave -----------------------------
(***************************************************************************)
(* The frame queue and the dispatch of ModbusSlave (src/slave/slave.ts).   *)
(*                                                                         *)
(* A frame passes the checkUnit and checkAddress hooks, the queue of the   *)
(* strategy and the handler of its unit, or of every unit when it is a     *)
(* broadcast, and the checkRuntime hook; then its reply is written and the *)
(* queue goes on.  Hooks and handlers answer at once or in a later turn.   *)
(*                                                                         *)
(* `looping` is TRUE while next() of the queue is on the call stack, `fan` *)
(* is the broadcast whose loop over the units is.  A handler that calls    *)
(* back at once is one that calls back in the next turn, except inside     *)
(* that loop.  The write-range lock of the concurrent strategy is module   *)
(* SlaveWriteLock; here it is off.                                         *)
(***************************************************************************)
EXTENDS Integers, FiniteSets

CONSTANTS
  Frames,       \* requests that come in, each once
  NoFrame,      \* not a frame
  Broadcasts,   \* the frames with unit 0
  Units,        \* the units that may be registered
  UnitOf,       \* [Frames -> Units], of no meaning for a broadcast
  Fingerprint,  \* [Frames -> key]: generateRequestFingerprint
  Strategies,   \* the queueStrategy values a slave may be built with
  Removals      \* may handlers call removeUnit()? a subset of BOOLEAN

ASSUME SlaveAssumption ==
  /\ NoFrame \notin Frames
  /\ Broadcasts \subseteq Frames
  /\ UnitOf \in [Frames -> Units] /\ IsFiniteSet(Units)
  /\ Strategies \subseteq {"concurrent", "fifo", "drop-stale", "deduplicate"}
  /\ Removals \subseteq BOOLEAN

VARIABLES
  queueStrategy, \* options.queueStrategy, read only
  removals,      \* handlers of a broadcast may call removeUnit(), read only
  destroyed,     \* _destroyed
  units,         \* the keys of _units
  gate,          \* where onFrame has brought a frame
  queue,         \* _queue.frames, in the order of their tickets
  processing,    \* _queue.processing
  looping,       \* next() is on the call stack
  fan,           \* the broadcast on the stack of _processFrame
  visiting,      \* the units its loop has still to visit
  completed,     \* its callback ran before the loop was over
  remaining,     \* the counter `remaining` of a broadcast
  handling,      \* <<frame, unit>>: the handler has not called back
  runtime,       \* <<frame, unit>>: the checkRuntime promise is unsettled
  fate,          \* "none", "over": the callback ran, "dropped" by the strategy
  replies,       \* replies written for a frame
  arrival,       \* history: the number of the arrival of a frame
  ticket         \* history: the number of its passing of the gates

options == <<queueStrategy, removals>>
walk == <<fan, visiting, completed>>
work == <<handling, runtime>>
vars == <<options, destroyed, units, gate, queue, processing, looping, walk,
          remaining, work, fate, replies, arrival, ticket>>
-----------------------------------------------------------------------------
Queued == queueStrategy # "concurrent"

(* The call stack is empty: the event loop may take the next event.        *)
Idle == ~looping /\ fan = NoFrame

Init ==
  /\ queueStrategy \in Strategies /\ removals \in Removals
  /\ destroyed = FALSE
  /\ units = {}
  /\ gate = [f \in Frames |-> "new"]
  /\ queue = {} /\ processing = FALSE /\ looping = FALSE
  /\ fan = NoFrame /\ visiting = {} /\ completed = FALSE
  /\ remaining = [f \in Frames |-> 0]
  /\ handling = {} /\ runtime = {}
  /\ fate = [f \in Frames |-> "none"]
  /\ replies = [f \in Frames |-> 0]
  /\ arrival = [f \in Frames |-> 0] /\ ticket = [f \in Frames |-> 0]
-----------------------------------------------------------------------------
Reply(f) == replies' = IF f \in Broadcasts THEN replies
                                           ELSE [replies EXCEPT ![f] = @ + 1]

(* The callback given to _processFrame: while _processFrame runs it is     *)
(* noted, later it calls next().                                           *)
Complete(f) ==
  /\ fate' = [fate EXCEPT ![f] = "over"]
  /\ completed' = (completed \/ fan = f)
  /\ looping' = IF Queued /\ fan # f THEN TRUE ELSE looping

(* onUnitDone of a broadcast; a request to one unit is over.               *)
UnitOver(f) ==
  IF f \in Broadcasts
    THEN /\ remaining' = [remaining EXCEPT ![f] = @ - 1]
         /\ IF remaining[f] = 1 THEN Complete(f)
                                ELSE UNCHANGED <<fate, completed, looping>>
    ELSE Complete(f) /\ UNCHANGED remaining

(* Fault: every frame is handled as a broadcast.                           *)
ProcessByAll(f) ==
  \/ /\ units = {}
     /\ fate' = [fate EXCEPT ![f] = "over"] /\ looping' = Queued
     /\ UNCHANGED <<walk, remaining, work, replies>>
  \/ /\ units # {}
     /\ remaining' = [remaining EXCEPT ![f] = Cardinality(units)]
     /\ fan' = f /\ visiting' = units /\ completed' = FALSE
     /\ looping' = FALSE
     /\ UNCHANGED <<work, fate, replies>>

(* _processFrame: no such unit, a handler, no units, or the loop over the  *)
(* units, which counts them first.  A loop of next() that waits for a      *)
(* handler has returned; one whose frame is over goes on.                  *)
Process(f) ==
  \/ /\ f \notin Broadcasts /\ UnitOf[f] \notin units
     /\ Reply(f)
     /\ fate' = [fate EXCEPT ![f] = "over"] /\ looping' = Queued
     /\ UNCHANGED <<walk, remaining, work>>
  \/ /\ f \notin Broadcasts /\ UnitOf[f] \in units
     /\ handling' = handling \cup {<<f, UnitOf[f]>>}
     /\ looping' = FALSE
     /\ UNCHANGED <<walk, remaining, runtime, fate, replies>>
  \/ /\ f \in Broadcasts /\ units = {}
     /\ fate' = [fate EXCEPT ![f] = "over"] /\ looping' = Queued
     /\ UNCHANGED <<walk, remaining, work, replies>>
  \/ /\ f \in Broadcasts /\ units # {}
     /\ remaining' = [remaining EXCEPT ![f] = Cardinality(units)]
     /\ fan' = f /\ visiting' = units /\ completed' = FALSE
     /\ looping' = FALSE
     /\ UNCHANGED <<work, fate, replies>>
-----------------------------------------------------------------------------
Superseded(f, g) ==
  \/ queueStrategy = "drop-stale"
  \/ queueStrategy = "deduplicate" /\ Fingerprint[f] = Fingerprint[g]

(* Fault: a push while a frame is processed starts a second loop.          *)
EnqueueUnguarded(f) ==
  LET stale == {g \in queue : Superseded(f, g)} IN
  /\ queue' = (queue \ stale) \cup {f}
  /\ fate' = [g \in Frames |-> IF g \in stale THEN "dropped" ELSE fate[g]]
  /\ processing' = TRUE /\ looping' = TRUE
  /\ UNCHANGED <<walk, remaining, work, replies>>

(* What the strategy drops, the push, and next() unless it is under way.   *)
Enqueue(f) ==
  LET stale == {g \in queue : Superseded(f, g)} IN
  /\ queue' = (queue \ stale) \cup {f}
  /\ fate' = [g \in Frames |-> IF g \in stale THEN "dropped" ELSE fate[g]]
  /\ processing' = TRUE /\ looping' = ~processing
  /\ UNCHANGED <<walk, remaining, work, replies>>

Admit(f) ==
  /\ gate' = [gate EXCEPT ![f] = "passed"]
  /\ ticket' = [ticket EXCEPT ![f] = Cardinality({g \in Frames : gate[g] = "passed"}) + 1]
  /\ IF Queued THEN Enqueue(f)
               ELSE Process(f) /\ UNCHANGED <<queue, processing>>

(* A hook says no, or the function code is unknown: an exception reply, or *)
(* silence when the hook gives no code.                                    *)
Refuse(f) ==
  /\ gate' = [gate EXCEPT ![f] = "refused"]
  /\ Reply(f) \/ UNCHANGED replies
  /\ UNCHANGED <<queue, processing, looping, walk, remaining, work, fate, ticket>>

Defer(f, stage) ==
  /\ ~destroyed
  /\ gate' = [gate EXCEPT ![f] = stage]
  /\ UNCHANGED <<queue, processing, looping, walk, remaining, work, fate, replies,
                 ticket>>

CheckAddress(f) == Admit(f) \/ Refuse(f) \/ Defer(f, "address")

(* onFrame of the protocol layer.                                          *)
Arrive(f) ==
  /\ Idle /\ ~destroyed /\ gate[f] = "new"
  /\ arrival' = [arrival EXCEPT ![f] = Cardinality({g \in Frames : gate[g] # "new"}) + 1]
  /\ CheckAddress(f) \/ Defer(f, "unit")
  /\ UNCHANGED <<options, destroyed, units>>

(* The promise of checkUnit, or of checkAddress, is fulfilled.             *)
GateChecked(f) ==
  /\ Idle /\ gate[f] \in {"unit", "address"}
  /\ IF gate[f] = "unit" THEN CheckAddress(f) ELSE Admit(f) \/ Refuse(f)
  /\ UNCHANGED <<options, destroyed, units, arrival>>
-----------------------------------------------------------------------------
(* Fault: the flag stays up when the queue is empty.                       *)
StopKeepingFlag ==
  /\ queue = {} /\ looping' = FALSE
  /\ UNCHANGED <<queue, processing, walk, remaining, work, fate, replies>>

StopDraining ==
  /\ queue = {} /\ looping' = FALSE /\ processing' = FALSE
  /\ UNCHANGED <<queue, walk, remaining, work, fate, replies>>

(* Fault: the last frame is taken instead of the first.                    *)
TakeLast ==
  \E f \in queue :
    /\ \A g \in queue : ticket[g] <= ticket[f]
    /\ queue' = queue \ {f} /\ Process(f) /\ UNCHANGED processing

TakeFirst ==
  \E f \in queue :
    /\ \A g \in queue : ticket[f] <= ticket[g]
    /\ queue' = queue \ {f} /\ Process(f) /\ UNCHANGED processing

(* One round of next().                                                    *)
DrainNext ==
  /\ looping
  /\ StopDraining \/ TakeFirst
  /\ UNCHANGED <<options, destroyed, units, gate, arrival, ticket>>

(* The loop over the units calls the next handler, or ends; then next(),   *)
(* which called it, goes on if the callback has run.                       *)
VisitNext ==
  /\ fan # NoFrame
  /\ \/ \E u \in visiting :
          /\ visiting' = visiting \ {u}
          /\ handling' = handling \cup {<<fan, u>>}
          /\ UNCHANGED <<fan, completed, looping>>
     \/ /\ visiting = {}
        /\ fan' = NoFrame /\ completed' = FALSE
        /\ looping' = (Queued /\ completed)
        /\ UNCHANGED <<visiting, handling>>
  /\ UNCHANGED <<options, destroyed, units, gate, queue, processing, remaining,
                 runtime, fate, replies, arrival, ticket>>
-----------------------------------------------------------------------------
(* Faults: the callback is forgotten when a reply is written; the reply is *)
(* written a second time.                                                  *)
AnswerForgetful(f) ==
  \/ Reply(f) /\ UNCHANGED <<remaining, fate, completed, looping>>
  \/ UNCHANGED replies /\ UnitOver(f)
AnswerTwice(f) ==
  /\ replies' = IF f \in Broadcasts THEN replies ELSE [replies EXCEPT ![f] = @ + 2]
  /\ UnitOver(f)

(* The end of _executeUnitWrite: a reply, or none when checkRuntime denies *)
(* without a code, and the callback.                                       *)
Answer(f) == (Reply(f) \/ UNCHANGED replies) /\ UnitOver(f)

(* A handler calls back; checkRuntime, which destroy() removes with the    *)
(* authorizer, may return a promise.                                       *)
HandlerDone(f, u) ==
  /\ ~looping /\ <<f, u>> \in handling
  /\ handling' = handling \ {<<f, u>>}
  /\ \/ Answer(f) /\ UNCHANGED runtime
     \/ /\ ~destroyed
        /\ runtime' = runtime \cup {<<f, u>>}
        /\ UNCHANGED <<replies, remaining, fate, completed, looping>>
  /\ UNCHANGED <<options, destroyed, units, gate, queue, processing, fan, visiting,
                 arrival, ticket>>

(* The promise of checkRuntime is fulfilled.                               *)
RuntimeDone(f, u) ==
  /\ Idle /\ <<f, u>> \in runtime
  /\ runtime' = runtime \ {<<f, u>>}
  /\ Answer(f)
  /\ UNCHANGED <<options, destroyed, units, gate, queue, processing, fan, visiting,
                 handling, arrival, ticket>>

AddUnit(u) ==
  /\ Idle /\ ~destroyed /\ u \notin units
  /\ units' = units \cup {u}
  /\ UNCHANGED <<options, destroyed, gate, queue, processing, looping, walk,
                 remaining, work, fate, replies, arrival, ticket>>

(* removeUnit(), between two turns or from a handler of a broadcast, whose *)
(* loop over the map then passes the unit by.                              *)
RemoveUnit(u) ==
  /\ ~looping /\ u \in units
  /\ Idle \/ removals
  /\ units' = units \ {u}
  /\ visiting' = visiting \ {u}
  /\ UNCHANGED <<options, destroyed, gate, queue, processing, looping, fan, completed,
                 remaining, work, fate, replies, arrival, ticket>>

Destroy ==
  /\ Idle /\ ~destroyed
  /\ destroyed' = TRUE
  /\ queue' = {} /\ processing' = FALSE /\ units' = {}
  /\ UNCHANGED <<options, gate, looping, walk, remaining, work, fate, replies,
                 arrival, ticket>>

Next ==
  \/ \E f \in Frames : Arrive(f) \/ GateChecked(f)
  \/ DrainNext \/ VisitNext
  \/ \E f \in Frames, u \in Units : HandlerDone(f, u) \/ RuntimeDone(f, u)
  \/ \E u \in Units : AddUnit(u) \/ RemoveUnit(u)
  \/ Destroy

(* The code on the stack goes on; handlers and hooks answer, in any order. *)
Fairness ==
  /\ WF_vars(DrainNext \/ VisitNext)
  /\ WF_vars(\E f \in Frames : \/ GateChecked(f)
                              \/ \E u \in Units : HandlerDone(f, u) \/ RuntimeDone(f, u))

Spec == Init /\ [][Next]_vars
FairSpec == Spec /\ Fairness
-----------------------------------------------------------------------------
(* Every variable holds a value of its type.                               *)
TypeOK ==
  /\ queueStrategy \in Strategies /\ removals \in Removals
  /\ destroyed \in BOOLEAN /\ units \subseteq Units
  /\ gate \in [Frames -> {"new", "unit", "address", "passed", "refused"}]
  /\ queue \subseteq Frames /\ processing \in BOOLEAN /\ looping \in BOOLEAN
  /\ fan \in Broadcasts \cup {NoFrame} /\ visiting \subseteq Units
  /\ completed \in BOOLEAN /\ remaining \in [Frames -> Int]
  /\ handling \subseteq Frames \X Units /\ runtime \subseteq Frames \X Units
  /\ fate \in [Frames -> {"none", "over", "dropped"}]
  /\ replies \in [Frames -> Nat]
  /\ arrival \in [Frames -> Nat] /\ ticket \in [Frames -> Nat]

Working == {f \in Frames : \E u \in Units : <<f, u>> \in handling \cup runtime}

(* A frame is answered once at most, a broadcast never, and one that has   *)
(* passed the gates is at one place: waiting, worked on, over or dropped.  *)
Accounted ==
  \A f \in Frames :
    /\ replies[f] <= IF f \in Broadcasts THEN 0 ELSE 1
    /\ fate[f] = "dropped" => replies[f] = 0
    /\ f \in queue => fate[f] = "none" /\ replies[f] = 0
    /\ f \in Working => f \notin queue /\ fate[f] = "none"
    /\ gate[f] = "passed" /\ fate[f] = "none" /\ f \notin queue /\ f \notin Working
         => f = fan \/ destroyed \/ removals

(* Outside the concurrent strategy the slave works on one frame at a time, *)
(* also when callbacks come inside the loop over the units.                *)
OneAtATime ==
  Queued => \A f, g \in Working \cup ({fan} \ {NoFrame}) : f = g

(* The flag is up exactly while the queue is served: no wakeup is lost and *)
(* no second loop starts.  A handler that removes a unit its broadcast has *)
(* still to visit is the exception: the count never comes down to zero.    *)
QueueServed ==
  Queued /\ ~removals /\ ~destroyed =>
    /\ queue # {} => processing
    /\ processing <=> (looping \/ fan # NoFrame \/ Working # {})
    /\ looping => Working = {} /\ fan = NoFrame

(* The next frame is begun when all that were queued before it and not     *)
(* dropped are over: replies leave in the order of the queue, however late *)
(* handlers and checkRuntime answer.                                       *)
ServedInOrder ==
  [][Queued /\ ~destroyed =>
       \A f, g \in Frames :
         f \in queue /\ f \notin queue' /\ fate'[f] # "dropped" /\ ~destroyed'
           /\ 0 < ticket[g] /\ ticket[g] < ticket[f]
         => fate[g] # "none"]_vars

(* Every frame is refused, dropped or worked off, when hooks and handlers  *)
(* answer and handlers remove no units.                                    *)
EveryFrameServed ==
  \A f \in Frames :
    gate[f] # "new" ~> gate[f] = "refused" \/ fate[f] # "none" \/ destroyed \/ removals

(* types.ts, 'drop-stale': "Last-arrived overwrites; new requests clear    *)
(* all stale unexecuted items in the queue."                               *)
LastArrivedWins ==
  [][\A f \in Frames :
       fate'[f] = "dropped" /\ fate[f] = "none" =>
         \E g \in Frames : gate[g] # "passed" /\ gate'[g] = "passed"
                           /\ arrival'[g] > arrival[f]]_vars
=============================================================================
