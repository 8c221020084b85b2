----------------------------- MODULE TimerHeap -----------------------------
(***************************************************************************)
(* TimerHeap of src/utils: up to Threshold timers have a native timer      *)
(* each; one more, and all migrate to a binary heap that shares one.  The  *)
(* callback of a timer may call add(), remove() and clear() itself, from   *)
(* within a tick of the heap or from within add(), where the timers that   *)
(* have expired meanwhile fire during the migration.                       *)
(*                                                                         *)
(* Native timers and performance.now() are external: they fire once due,   *)
(* late at will.  Time is in whole milliseconds, so that rounding up what  *)
(* remains of a delay does not show, and delays are below 2^31.            *)
(***************************************************************************)
EXTENDS Integers, Sequences

CONSTANTS
  MaxTimers,  \* bound on the timers added
  Threshold,  \* concurrentThreshold
  Delays,     \* the delays added, above 0
  MaxClock    \* bound on the deadlines, as they are when asked for

ASSUME TimerHeapAssumption ==
  MaxTimers \in Nat /\ Threshold \in Nat /\ MaxClock \in Nat /\ Delays \subseteq Nat \ {0}

VARIABLES
  thMode,      \* _mode
  direct,      \* _directTimers in the order of the Map; not those migrated
  heap,        \* _deadlines, _ids and _seqs
  counter,     \* _counter
  shared,      \* when _timer is due, NoTimer if it is not armed
  clock,       \* performance.now()
  job,         \* what runs: idle, tick (with its now) or migrate (for an add)
  inCallback,  \* onFire runs, within job
  added,       \* history: timers added, which are 1..added
  over,        \* history: the timers that have fired or been taken away
  last         \* history: the timer that fired last, 0 at first

store == <<thMode, direct, heap, counter, shared>>
thVars == <<store, clock, job, inCallback, added, over, last>>

TimerIds == 1..MaxTimers
NoTimer == -1
IdleJob == [kind |-> "idle"]
Elements(q) == {q[i] : i \in DOMAIN q}
Without(q, i) == [j \in 1..(Len(q) - 1) |-> IF j < i THEN q[j] ELSE q[j + 1]]

ThInit ==
  /\ thMode = "direct" /\ direct = <<>> /\ heap = <<>> /\ counter = 0 /\ shared = NoTimer
  /\ clock = 0 /\ job = IdleJob /\ inCallback = FALSE /\ added = 0 /\ over = {} /\ last = 0
-----------------------------------------------------------------------------
(* The binary heap, the children of i at 2i and 2i + 1.                    *)
Before(x, y) == \/ x.deadline < y.deadline
                \/ x.deadline = y.deadline /\ x.seq < y.seq

(* The places e passes on its way up from j, j and its last place among    *)
(* them; each parent it passes moves down, and e takes the last place.     *)
WaysUp(h, e, n) ==
  LET way[j \in 1..n] ==
        IF j = 1 \/ Before(h[j \div 2], e) THEN {j} ELSE {j} \cup way[j \div 2]
  IN way
WayUp(h, i) == WaysUp(h, h[i], i)[i]
SiftUp(h, i) ==
  LET way == WayUp(h, i)
  IN [j \in 1..Len(h) |-> IF j \notin way THEN h[j]
                          ELSE IF j \div 2 \in way THEN h[j \div 2] ELSE h[i]]

(* Fault: the left child counts as the smaller one.                        *)
LeftChild(h, i) == 2 * i
MinChild(h, i) ==
  IF 2 * i + 1 <= Len(h) /\ Before(h[2 * i + 1], h[2 * i]) THEN 2 * i + 1 ELSE 2 * i

(* The places e passes on its way down from j: the smaller children move   *)
(* up.                                                                     *)
WaysDown(h, e, i) ==
  LET way[j \in i..Len(h)] ==
        IF 2 * j > Len(h) \/ Before(e, h[MinChild(h, j)]) THEN {j}
        ELSE {j} \cup way[MinChild(h, j)]
  IN way
WayDown(h, i) == WaysDown(h, h[i], i)[i]
SiftDown(h, i) ==
  LET way == WayDown(h, i)
  IN [j \in 1..Len(h) |-> IF j \notin way THEN h[j]
                          ELSE IF MinChild(h, j) \in way THEN h[MinChild(h, j)] ELSE h[i]]

Insert(h, e) == SiftUp(Append(h, e), Len(h) + 1)

(* Without its last element, which has taken the place of the i-th.        *)
Filled(h, i) == SubSeq([h EXCEPT ![i] = h[Len(h)]], 1, Len(h) - 1)
Pop(h) == IF Len(h) = 1 THEN <<>> ELSE SiftDown(Filled(h, 1), 1)

(* Fault: what has taken the place only moves down.                        *)
TakeOutDown(h, i) == IF i = Len(h) THEN Filled(h, i) ELSE SiftDown(Filled(h, i), i)
TakeOut(h, i) ==
  LET g == Filled(h, i)
  IN IF i = Len(h) THEN g
     ELSE IF WayUp(g, i) # {i} THEN SiftUp(g, i) ELSE SiftDown(g, i)
-----------------------------------------------------------------------------
(* _refresh(): the native timer is armed for the root.                     *)
Refreshed(h) ==
  IF h = <<>> THEN NoTimer ELSE IF h[1].deadline > clock THEN h[1].deadline ELSE clock

HeapAdd(id, ms) ==
  LET e == [id |-> id, deadline |-> clock + ms, seq |-> counter]
      h == Insert(heap, e)
  IN /\ heap' = h /\ counter' = counter + 1
     /\ shared' = IF h[1] = e THEN Refreshed(h) ELSE shared

(* add(), from outside or from a callback.  Within one that runs in a tick *)
(* or a migration it begins no other migration: a bound.                   *)
Add(ms) ==
  /\ job = IdleJob \/ inCallback
  /\ added < MaxTimers /\ clock + ms <= MaxClock /\ added' = added + 1
  /\ \/ /\ thMode = "direct" /\ Len(direct) + 1 <= Threshold
        /\ direct' = Append(direct, [id |-> added', deadline |-> clock + ms])
        /\ UNCHANGED <<thMode, heap, counter, shared, job, inCallback>>
     \/ /\ thMode = "direct" /\ Len(direct) + 1 > Threshold /\ job = IdleJob
        /\ thMode' = "heap" /\ job' = [kind |-> "migrate", id |-> added', ms |-> ms]
        /\ inCallback' = FALSE
        /\ UNCHANGED <<direct, heap, counter, shared>>
     \/ /\ thMode = "heap" /\ HeapAdd(added', ms)
        /\ UNCHANGED <<thMode, direct, job, inCallback>>
  /\ UNCHANGED <<clock, over, last>>

(* The migration goes on: the next timer moves to the heap, or has expired *)
(* and fires; after the last the new one is added.                         *)
Migrate ==
  /\ job.kind = "migrate" /\ ~inCallback
  /\ IF direct = <<>>
     THEN /\ HeapAdd(job.id, job.ms) /\ job' = IdleJob
          /\ UNCHANGED <<direct, inCallback, over, last>>
     ELSE LET t == Head(direct) IN
          /\ direct' = Tail(direct) /\ UNCHANGED job
          /\ IF t.deadline > clock
             THEN HeapAdd(t.id, t.deadline - clock) /\ UNCHANGED <<inCallback, over, last>>
             ELSE /\ inCallback' = TRUE /\ over' = over \cup {t.id} /\ last' = t.id
                  /\ UNCHANGED <<heap, counter, shared>>
  /\ UNCHANGED <<thMode, clock, added>>

(* remove(); one that finds no such timer answers false.                   *)
Take(id) ==
  /\ job = IdleJob \/ inCallback
  /\ \/ \E i \in DOMAIN direct :
          /\ thMode = "direct" /\ direct[i].id = id /\ direct' = Without(direct, i)
          /\ UNCHANGED <<heap, shared>>
     \/ \E i \in DOMAIN heap :
          /\ thMode = "heap" /\ heap[i].id = id /\ heap' = TakeOut(heap, i)
          /\ shared' = IF i = 1 THEN Refreshed(heap') ELSE shared
          /\ UNCHANGED direct
  /\ over' = over \cup {id}
  /\ UNCHANGED <<thMode, counter, clock, job, inCallback, added, last>>

(* clear(); an add() that is migrating goes on after it.                   *)
Clear ==
  /\ job = IdleJob \/ inCallback
  /\ over' = over \cup {e.id : e \in Elements(direct) \cup Elements(heap)}
  /\ thMode' = "direct" /\ direct' = <<>> /\ heap' = <<>> /\ counter' = 0 /\ shared' = NoTimer
  /\ UNCHANGED <<clock, job, inCallback, added, last>>
-----------------------------------------------------------------------------
(* The native timer of one timer fires.                                    *)
DirectFires(i) ==
  /\ job = IdleJob /\ ~inCallback /\ direct[i].deadline <= clock
  /\ direct' = Without(direct, i) /\ over' = over \cup {direct[i].id} /\ last' = direct[i].id
  /\ inCallback' = TRUE
  /\ UNCHANGED <<thMode, heap, counter, shared, clock, job, added>>

(* _onTick(): the time is read once.                                       *)
SharedFires ==
  /\ job = IdleJob /\ ~inCallback /\ shared # NoTimer /\ shared <= clock
  /\ shared' = NoTimer /\ job' = [kind |-> "tick", now |-> clock]
  /\ UNCHANGED <<thMode, direct, heap, counter, clock, inCallback, added, over, last>>

Due == heap # <<>> /\ heap[1].deadline <= job.now
TickFires ==
  /\ job.kind = "tick" /\ ~inCallback /\ Due
  /\ heap' = Pop(heap) /\ over' = over \cup {heap[1].id} /\ last' = heap[1].id
  /\ inCallback' = TRUE
  /\ UNCHANGED <<thMode, direct, counter, shared, clock, job, added>>

(* Fault: the native timer is armed only if the tick has left it so.       *)
TickEndsUnarmed ==
  /\ job.kind = "tick" /\ (inCallback \/ ~Due)
  /\ job' = IdleJob /\ inCallback' = FALSE
  /\ UNCHANGED <<store, clock, added, over, last>>
(* Nothing is due any more, or the callback has thrown.                    *)
TickEnds ==
  /\ job.kind = "tick" /\ (inCallback \/ ~Due)
  /\ shared' = Refreshed(heap) /\ job' = IdleJob /\ inCallback' = FALSE
  /\ UNCHANGED <<thMode, direct, heap, counter, clock, added, over, last>>

CallbackReturns ==
  /\ inCallback /\ inCallback' = FALSE
  /\ UNCHANGED <<store, clock, job, added, over, last>>

(* The clock starts with the first timer.                                  *)
TimePasses ==
  /\ added > 0
  /\ clock < MaxClock \/ \E e \in Elements(direct) \cup Elements(heap) : e.deadline > clock
  /\ clock' = clock + 1
  /\ UNCHANGED <<store, job, inCallback, added, over, last>>

ThNext ==
  \/ \E ms \in Delays : Add(ms)
  \/ Migrate
  \/ \E id \in TimerIds : Take(id)
  \/ Clear
  \/ \E i \in DOMAIN direct : DirectFires(i)
  \/ SharedFires \/ TickFires \/ TickEnds \/ CallbackReturns \/ TimePasses

(* Time passes, native timers fire, and what runs ends.                    *)
ThFairness ==
  /\ WF_thVars(TimePasses)
  /\ WF_thVars(Migrate \/ SharedFires \/ TickFires \/ TickEnds \/ CallbackReturns
               \/ \E i \in DOMAIN direct : DirectFires(i))
ThSpec == ThInit /\ [][ThNext]_thVars /\ ThFairness
-----------------------------------------------------------------------------
(* The heap, the native timers and the migration between them keep what    *)
(* Timers promises: no timer fires early or after its removal, and those   *)
(* of the heap fire by deadline and registration, whichever are taken out  *)
(* of the middle of the heap.                                              *)
Promised == INSTANCE Timers WITH
  Ids <- TimerIds, own <- Elements(direct), queue <- Elements(heap), now <- clock
ImplementsTimers == Promised!TSpec

(* Every element of the heap comes after its parent, between two steps of  *)
(* the code: what has taken the place of one in the middle moves the right *)
(* way.                                                                    *)
HeapOrdered == \A i \in 2..Len(heap) : Before(heap[i \div 2], heap[i])

(* In the end every timer has fired or been taken away: none is lost       *)
(* between the native timers and the heap, by a callback that changes the  *)
(* heap under a tick or a migration, or by one that throws.  Only finitely *)
(* many are added.                                                         *)
EveryTimerFires == <>[](over = 1..added)
=============================================================================
