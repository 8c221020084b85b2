---------------------------- MODULE CompactEvent ----------------------------
(***************************************************************************)
(* CompactEventEmitter of src/utils, the emitter under ModbusMaster and    *)
(* ModbusSlave: on(), once(), off(), removeAllListeners(), emit() and      *)
(* emitLazy() for one event name.  A listener may call all of them but     *)
(* the last two.  A list that has been emptied or dropped from the         *)
(* registry is still the one an emit under way goes through.               *)
(***************************************************************************)
EXTENDS Naturals, Sequences

CONSTANT MaxListeners   \* bound on the listeners ever registered
ASSUME EmitterAssumption == MaxListeners \in Nat

VARIABLES
  listeners,   \* _registry[eventName], undefined when empty
  walk,        \* the emit under way, or the last one
  registered,  \* history: listeners registered so far, 1..registered
  owed,        \* history: the listeners that emit has to call
  called,      \* history: the listeners it has called
  disturbed,   \* history: its list has lost one while it had more to do
  threw        \* history: it called a listener that is not there

ceVars == <<listeners, walk, registered, owed, called, disturbed, threw>>

(* stage: over, next (the loop calls) or inside (a listener runs); i and   *)
(* len are those of the loop; list counts once the registry has dropped it *)
CeInit ==
  /\ listeners = <<>> /\ registered = 0
  /\ walk = [stage |-> "over", lazy |-> FALSE, i |-> 0, len |-> 0, dropped |-> TRUE, list |-> <<>>]
  /\ owed = <<>> /\ called = <<>> /\ disturbed = FALSE /\ threw = FALSE

WalkList == IF walk.dropped THEN walk.list ELSE listeners
Loops(w) == w.stage # "over" /\ ~w.dropped
Members(q) == {q[i] : i \in DOMAIN q}
Outside == walk.stage \in {"over", "inside"}
DropAt(q, i) == SubSeq(q, 1, i - 1) \o SubSeq(q, i + 1, Len(q))
-----------------------------------------------------------------------------
(* on(), and once() whose wrapper removes itself before it calls.          *)
Subscribe(once) ==
  /\ Outside /\ registered < MaxListeners /\ registered' = registered + 1
  /\ LET l == [id |-> registered', once |-> once]
     IN /\ listeners' = Append(listeners, l)
        /\ owed' = IF walk.lazy /\ Loops(walk) THEN Append(owed, l) ELSE owed
  /\ UNCHANGED <<walk, called, disturbed, threw>>

(* The registry's list loses its i-th while the loop stands at w.          *)
Splice(i, w) ==
  /\ listeners' = DropAt(listeners, i)
  /\ walk' = IF Loops(w) /\ Len(listeners) = 1 THEN [w EXCEPT !.dropped = TRUE, !.list = <<>>] ELSE w
  /\ disturbed' = (disturbed \/ (Loops(w) /\ (w.lazy \/ w.i < w.len)))

(* off(), which finds the listener or its wrapper.                         *)
Unsubscribe(i) ==
  /\ Outside /\ Splice(i, walk)
  /\ UNCHANGED <<registered, owed, called, threw>>

(* Fault: the list is emptied, where it should be dropped.                 *)
RemoveAllInPlace ==
  /\ Outside /\ listeners # <<>> /\ listeners' = <<>>
  /\ UNCHANGED <<walk, registered, owed, called, disturbed, threw>>
RemoveAllListeners ==
  /\ Outside /\ listeners # <<>> /\ listeners' = <<>>
  /\ walk' = IF Loops(walk) THEN [walk EXCEPT !.dropped = TRUE, !.list = listeners] ELSE walk
  /\ UNCHANGED <<registered, owed, called, disturbed, threw>>
-----------------------------------------------------------------------------
(* emit() and emitLazy() begin.                                            *)
Emit(lazy) ==
  /\ walk.stage = "over" /\ listeners # <<>>
  /\ walk' = [stage |-> "next", lazy |-> lazy, i |-> 0, len |-> Len(listeners),
              dropped |-> FALSE, list |-> <<>>]
  /\ owed' = listeners /\ called' = <<>> /\ disturbed' = FALSE /\ threw' = FALSE
  /\ UNCHANGED <<listeners, registered>>

More == IF walk.lazy THEN walk.i < Len(WalkList) ELSE walk.i < walk.len

(* The loop calls the next listener, whose wrapper may remove itself.      *)
CallNext ==
  /\ walk.stage = "next" /\ More /\ walk.i < Len(WalkList)
  /\ LET l == WalkList[walk.i + 1]
         w == [walk EXCEPT !.i = walk.i + 1, !.stage = "inside"]
         places == {p \in DOMAIN listeners : l.once /\ listeners[p] = l}
     IN /\ called' = Append(called, l)
        /\ \/ \E p \in places : Splice(p, w)
           \/ places = {} /\ walk' = w /\ UNCHANGED <<listeners, disturbed>>
  /\ UNCHANGED <<registered, owed, threw>>
Return ==
  /\ walk.stage = "inside" /\ walk' = [walk EXCEPT !.stage = "next"]
  /\ UNCHANGED <<listeners, registered, owed, called, disturbed, threw>>

(* emit() calls what is no longer there: a TypeError.                      *)
CallNothing ==
  /\ walk.stage = "next" /\ More /\ walk.i >= Len(WalkList)
  /\ threw' = TRUE /\ walk' = [walk EXCEPT !.stage = "over"]
  /\ UNCHANGED <<listeners, registered, owed, called, disturbed>>
EmitEnds ==
  /\ walk.stage = "next" /\ ~More /\ walk' = [walk EXCEPT !.stage = "over"]
  /\ UNCHANGED <<listeners, registered, owed, called, disturbed, threw>>

CeNext ==
  \/ \E b \in BOOLEAN : Subscribe(b) \/ Emit(b)
  \/ \E i \in DOMAIN listeners : Unsubscribe(i)
  \/ RemoveAllListeners \/ CallNext \/ Return \/ CallNothing \/ EmitEnds
CeSpec == CeInit /\ [][CeNext]_ceVars
-----------------------------------------------------------------------------
(* Whatever its listeners subscribe, and even when they drop the whole     *)
(* list, an emit calls those it found at its start once and in order, and  *)
(* emitLazy() those added on the way as well.  Only the removal of single  *)
(* listeners while others are to come, a once listener's own included, is  *)
(* not covered.                                                            *)
ListenersServed ==
  ~disturbed => /\ ~threw
                /\ called = SubSeq(owed, 1, Len(called))
                /\ walk.stage = "over" => called = owed

(* The listeners of an emit() that is over are gone only because they are  *)
(* once listeners and were called: none was taken off by another call.     *)
OnlyOnceLeft ==
  \A i \in DOMAIN owed : owed[i] \in Members(listeners) \/ (owed[i].once /\ owed[i] \in Members(called))

(* compact-event.ts, emit(): "Synchronously invoke all listeners for       *)
(* `eventName`", here where nothing but once() takes a listener off.  A    *)
(* once listener that removes itself is enough to break it: the listener   *)
(* after it moves into its place and is skipped, and the call beyond the   *)
(* end of the list throws.                                                 *)
AllListenersInvoked ==
  ~walk.lazy /\ walk.stage = "over" /\ OnlyOnceLeft => \A i \in DOMAIN owed : owed[i] \in Members(called)
=============================================================================
