------------------------------- MODULE Timers -------------------------------
(***************************************************************************)
(* What TimerHeap of src/utils promises: a timer fires once its deadline   *)
(* has passed and never after it has been removed; those that share one    *)
(* native timer fire by deadline, and in the order of their registration   *)
(* when deadlines are equal.                                               *)
(***************************************************************************)
EXTENDS Integers

CONSTANTS Ids, Delays

VARIABLES
  own,    \* timers with a native timer of their own: [id, deadline]
  queue,  \* timers that share one: [id, deadline, seq]
  now,
  last    \* the timer that fired last, 0 at first

tVars == <<own, queue, now, last>>

TInit == own = {} /\ queue = {} /\ now = 0 /\ last = 0

Earlier(x, y) == \/ x.deadline < y.deadline
                 \/ x.deadline = y.deadline /\ x.seq < y.seq
Idle(id) == \A e \in own \cup queue : e.id # id

AddOwn(id, ms) ==
  /\ Idle(id) /\ own' = own \cup {[id |-> id, deadline |-> now + ms]}
  /\ UNCHANGED <<queue, now, last>>

(* The last of its deadline to join.                                       *)
Join(e) == /\ \A q \in queue : q.deadline = e.deadline => q.seq < e.seq
           /\ queue' = queue \cup {e}
AddQueued(id, ms) ==
  /\ Idle(id) /\ \E e \in queue' \ queue : e.id = id /\ e.deadline = now + ms /\ Join(e)
  /\ UNCHANGED <<own, now, last>>

(* A timer comes to share the native timer, its deadline as it was.        *)
Share(t) ==
  /\ t \in own /\ own' = own \ {t}
  /\ \E e \in queue' \ queue : e.id = t.id /\ e.deadline = t.deadline /\ Join(e)
  /\ UNCHANGED <<now, last>>

FireOwn(t) ==
  /\ t \in own /\ t.deadline <= now /\ own' = own \ {t} /\ last' = t.id
  /\ UNCHANGED <<queue, now>>
FireNext(e) ==
  /\ e \in queue /\ e.deadline <= now /\ \A q \in queue \ {e} : Earlier(e, q)
  /\ queue' = queue \ {e} /\ last' = e.id /\ UNCHANGED <<own, now>>

Remove(id) ==
  /\ own' = {t \in own : t.id # id} /\ queue' = {e \in queue : e.id # id}
  /\ UNCHANGED <<now, last>>
Clear == own' = {} /\ queue' = {} /\ UNCHANGED <<now, last>>
Pass == now' = now + 1 /\ UNCHANGED <<own, queue, last>>

TNext ==
  \/ \E id \in Ids : Remove(id) \/ \E ms \in Delays : AddOwn(id, ms) \/ AddQueued(id, ms)
  \/ \E t \in own : Share(t) \/ FireOwn(t)
  \/ \E e \in queue : FireNext(e)
  \/ Clear \/ Pass
TSpec == TInit /\ [][TNext]_tVars
=============================================================================
