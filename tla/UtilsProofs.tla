----------------------------- MODULE UtilsProofs -----------------------------
(***************************************************************************)
(* Theorems about two of the utilities, and their proofs: CompactEvent,    *)
(* for any number of listeners, emissions and calls that listeners make    *)
(* while they are called; TimerHeap, for any number of timers, any         *)
(* threshold and any delays, with callbacks that add and remove timers.    *)
(***************************************************************************)
EXTENDS CompactEvent, TimerHeap, FiniteSetTheorems, SequenceTheorems, TLAPS

(* CompactEvent.                                                           *)
Listener == [id : Nat, once : BOOLEAN]
Walks == [stage : {"over", "next", "inside"}, lazy : BOOLEAN, i : Nat, len : Nat,
          dropped : BOOLEAN, list : Seq(Listener)]

(* Every variable holds a value of its type.                               *)
EmitterType ==
  /\ listeners \in Seq(Listener) /\ registered \in Nat
  /\ walk \in Walks
  /\ owed \in Seq(Listener) /\ called \in Seq(Listener)
  /\ disturbed \in BOOLEAN /\ threw \in BOOLEAN

(* The first n of two sequences agree.                                     *)
SameUpTo(n, s, t) == n <= Len(s) /\ n <= Len(t) /\ \A j \in 1..n : s[j] = t[j]

(* While no listener is removed under the loop, it has called as many as   *)
(* its index says, of those it owes; and it still finds the others in the  *)
(* list it goes through, emitLazy() those and no more.                     *)
InStep ==
  ~disturbed =>
    /\ ~threw
    /\ SameUpTo(Len(called), called, owed)
    /\ walk.stage = "over" => Len(called) = Len(owed)
    /\ walk.stage # "over" =>
         /\ walk.i = Len(called)
         /\ IF walk.lazy
              THEN Len(owed) = Len(WalkList) /\ SameUpTo(Len(owed), owed, WalkList)
              ELSE /\ walk.len = Len(owed)
                   /\ walk.i < walk.len => SameUpTo(walk.len, owed, WalkList)

EmitterInv == EmitterType /\ InStep
-----------------------------------------------------------------------------
LEMMA DropAtType ==
  ASSUME NEW q \in Seq(Listener), NEW i \in DOMAIN q
  PROVE  DropAt(q, i) \in Seq(Listener)
<1>1. i \in 1..Len(q) /\ Len(q) \in Nat
  BY LenProperties
<1>2. SubSeq(q, 1, i - 1) \in Seq(Listener)
  <2>1. \A j \in 1..(i - 1) : q[j] \in Listener
    BY <1>1, ElementOfSeq
  <2> QED BY <1>1, <2>1, SubSeqProperties
<1>3. SubSeq(q, i + 1, Len(q)) \in Seq(Listener)
  <2>1. \A j \in (i + 1)..Len(q) : q[j] \in Listener
    BY <1>1, ElementOfSeq
  <2> QED BY <1>1, <2>1, SubSeqProperties
<1> QED BY <1>2, <1>3, ConcatProperties DEF DropAt

LEMMA AppendSame ==
  ASSUME NEW s \in Seq(Listener), NEW l \in Listener
  PROVE  /\ Append(s, l) \in Seq(Listener) /\ Len(Append(s, l)) = Len(s) + 1
         /\ Append(s, l)[Len(s) + 1] = l /\ Len(s) \in Nat
         /\ \A j \in 1..Len(s) : Append(s, l)[j] = s[j]
BY AppendProperties, LenProperties

LEMMA WalkListType == EmitterType => WalkList \in Seq(Listener) /\ Len(WalkList) \in Nat
BY LenProperties DEF EmitterType, WalkList, Walks

LEMMA EmitterInit == CeInit => EmitterInv
<1> SUFFICES ASSUME CeInit PROVE EmitterInv
  OBVIOUS
<1>1. <<>> \in Seq(Listener) /\ Len(<<>>) = 0
  BY EmptySeq
<1>2. EmitterType
  BY <1>1 DEF CeInit, EmitterType, Walks
<1>3. InStep
  BY <1>1 DEF CeInit, InStep, SameUpTo
<1> QED BY <1>2, <1>3 DEF EmitterInv

(* on() and once(): a loop that goes on with the list sees one more at its *)
(* end, which only emitLazy() owes.                                        *)
LEMMA SubscribeKeeps == ASSUME EmitterInv, NEW b \in BOOLEAN, Subscribe(b) PROVE EmitterInv'
<1> DEFINE l == [id |-> registered + 1, once |-> b]
<1>1. /\ EmitterType /\ InStep /\ l \in Listener
      /\ listeners' = Append(listeners, l) /\ registered' = registered + 1
      /\ owed' = IF walk.lazy /\ Loops(walk) THEN Append(owed, l) ELSE owed
      /\ UNCHANGED <<walk, called, disturbed, threw>>
  BY DEF Subscribe, EmitterInv, EmitterType, Listener, Walks
<1> HIDE DEF l
<1>2. /\ listeners' \in Seq(Listener) /\ Len(listeners') = Len(listeners) + 1
      /\ listeners'[Len(listeners) + 1] = l
      /\ \A j \in 1..Len(listeners) : listeners'[j] = listeners[j]
      /\ Len(listeners) \in Nat
  BY <1>1, AppendSame DEF EmitterType, Walks
<1>3. owed' \in Seq(Listener) /\ Len(owed) \in Nat /\ Len(called) \in Nat /\ Len(WalkList) \in Nat
  BY <1>1, AppendSame, WalkListType, LenProperties DEF EmitterType, Walks
<1>4. EmitterType'
  BY <1>1, <1>2, <1>3 DEF EmitterType, Walks
<1>5. CASE walk.lazy /\ Loops(walk)
  <2>1. /\ Len(owed') = Len(owed) + 1 /\ owed'[Len(owed) + 1] = l
        /\ \A j \in 1..Len(owed) : owed'[j] = owed[j]
    <3>1. l \in Listener /\ owed \in Seq(Listener) /\ owed' = Append(owed, l)
      BY <1>1, <1>5 DEF EmitterType
    <3> QED BY <3>1, AppendSame
  <2>2. WalkList = listeners /\ WalkList' = listeners' /\ walk.stage # "over"
    BY <1>1, <1>5 DEF WalkList, Loops
  <2>3. CASE disturbed
    BY <1>1, <1>4, <2>3 DEF InStep, EmitterInv
  <2>4. CASE ~disturbed
    <3>1. /\ ~threw /\ walk.i = Len(called) /\ SameUpTo(Len(called), called, owed)
          /\ Len(owed) = Len(listeners) /\ SameUpTo(Len(owed), owed, listeners)
      BY <1>1, <1>5, <2>2, <2>4 DEF InStep
    <3>2. SameUpTo(Len(called), called, owed')
      BY <1>3, <2>1, <3>1 DEF SameUpTo
    <3>3. Len(owed') = Len(listeners') /\ SameUpTo(Len(owed'), owed', listeners')
      BY <1>2, <1>3, <2>1, <3>1 DEF SameUpTo
    <3>4. InStep'
      BY <1>1, <1>5, <2>2, <3>1, <3>2, <3>3 DEF InStep
    <3> QED BY <1>4, <3>4 DEF EmitterInv
  <2> QED BY <2>3, <2>4
<1>6. CASE ~(walk.lazy /\ Loops(walk))
  <2>1. owed' = owed
    BY <1>1, <1>6
  <2>2. CASE walk.dropped \/ walk.stage = "over"
    <3>1. walk.dropped => WalkList' = WalkList
      BY <1>1 DEF WalkList
    <3> QED BY <1>1, <1>3, <1>4, <2>1, <2>2, <3>1 DEF InStep, SameUpTo, EmitterInv
  <2>3. CASE ~walk.lazy /\ Loops(walk)
    <3>1. WalkList = listeners /\ WalkList' = listeners' /\ walk.len \in Nat
      BY <1>1, <2>3 DEF WalkList, Loops, EmitterType, Walks
    <3> QED BY <1>1, <1>2, <1>3, <1>4, <2>1, <2>3, <3>1 DEF InStep, SameUpTo, EmitterInv
  <2> QED BY <1>6, <2>2, <2>3 DEF Loops
<1> QED BY <1>5, <1>6

(* A splice of the registry's list: the loop has nothing to do with the    *)
(* list any more, or nothing more to do, or is disturbed.                  *)
LEMMA SpliceEffect ==
  ASSUME EmitterType, NEW i \in DOMAIN listeners, NEW w, Splice(i, w),
         w \in Walks
  PROVE  /\ listeners' \in Seq(Listener)
         /\ walk' \in Walks
         /\ walk'.stage = w.stage /\ walk'.lazy = w.lazy /\ walk'.i = w.i /\ walk'.len = w.len
         /\ disturbed' \in BOOLEAN /\ (disturbed => disturbed')
         /\ ~disturbed' => \/ ~Loops(w) /\ walk' = w
                           \/ ~w.lazy /\ w.i >= w.len
<1>1. listeners' \in Seq(Listener)
  BY DropAtType DEF Splice, EmitterType, Walks
<1>2. <<>> \in Seq(Listener)
  BY EmptySeq
<1>3. [w EXCEPT !.dropped = TRUE, !.list = <<>>] \in Walks
  BY <1>2 DEF Walks
<1>4. walk' \in Walks
  BY <1>3 DEF Splice
<1>5. walk'.stage = w.stage /\ walk'.lazy = w.lazy /\ walk'.i = w.i /\ walk'.len = w.len
  BY DEF Splice, Walks
<1>6. disturbed' = (disturbed \/ (Loops(w) /\ (w.lazy \/ w.i < w.len)))
  BY DEF Splice
<1>7. w.i \in Nat /\ w.len \in Nat /\ w.lazy \in BOOLEAN /\ (~Loops(w) => walk' = w)
  BY DEF Walks, Splice
<1>8. disturbed' \in BOOLEAN /\ (disturbed => disturbed')
  BY <1>6 DEF EmitterType
<1>9. ~disturbed' => ~(Loops(w) /\ (w.lazy \/ w.i < w.len))
  BY <1>6
<1>10. ~disturbed' => \/ ~Loops(w) /\ walk' = w
                      \/ ~w.lazy /\ w.i >= w.len
  <2>1. ~(w.i < w.len) => w.i >= w.len
    BY <1>7
  <2> QED BY <1>7, <1>9, <2>1
<1> QED BY <1>1, <1>4, <1>5, <1>8, <1>10

LEMMA UnsubscribeKeeps ==
  ASSUME EmitterInv, NEW i \in DOMAIN listeners, Unsubscribe(i) PROVE EmitterInv'
<1>1. EmitterType /\ InStep /\ UNCHANGED <<registered, owed, called, threw>> /\ Splice(i, walk)
  BY DEF Unsubscribe, EmitterInv
<1>2. /\ EmitterType'
      /\ walk'.stage = walk.stage /\ walk'.lazy = walk.lazy /\ walk'.i = walk.i /\ walk'.len = walk.len
      /\ ~disturbed' => /\ ~disturbed
                        /\ \/ ~Loops(walk) /\ walk' = walk
                           \/ ~walk.lazy /\ walk.i >= walk.len
  BY <1>1, SpliceEffect DEF EmitterType, Walks
<1>3. walk.dropped /\ walk' = walk => WalkList' = WalkList
  BY DEF WalkList
<1>4. walk.i \in Nat /\ walk.len \in Nat
  BY <1>1 DEF EmitterType, Walks
<1>5. InStep'
  BY <1>1, <1>2, <1>3, <1>4 DEF InStep, Loops
<1> QED BY <1>2, <1>5 DEF EmitterInv

(* removeAllListeners(): the loop goes on with the list it has.            *)
LEMMA RemoveAllKeeps == ASSUME EmitterInv, RemoveAllListeners PROVE EmitterInv'
<1>1. /\ EmitterType /\ InStep /\ listeners' = <<>>
      /\ UNCHANGED <<registered, owed, called, disturbed, threw>>
      /\ walk' = IF Loops(walk) THEN [walk EXCEPT !.dropped = TRUE, !.list = listeners] ELSE walk
  BY DEF RemoveAllListeners, EmitterInv
<1>2. <<>> \in Seq(Listener)
  BY EmptySeq
<1>3. EmitterType'
  BY <1>1, <1>2 DEF EmitterType, Walks
<1>4. /\ walk'.stage = walk.stage /\ walk'.lazy = walk.lazy /\ walk'.i = walk.i /\ walk'.len = walk.len
      /\ walk.stage # "over" => WalkList' = WalkList
  BY <1>1 DEF EmitterType, WalkList, Loops, Walks
<1>5. InStep'
  BY <1>1, <1>4 DEF InStep
<1> QED BY <1>3, <1>5 DEF EmitterInv
-----------------------------------------------------------------------------
LEMMA EmitKeeps == ASSUME EmitterInv, NEW b \in BOOLEAN, Emit(b) PROVE EmitterInv'
<1>1. <<>> \in Seq(Listener) /\ Len(<<>>) = 0 /\ listeners \in Seq(Listener) /\ Len(listeners) \in Nat
  BY EmptySeq, LenProperties DEF EmitterInv, EmitterType, Walks
<1>2. EmitterType'
  BY <1>1 DEF Emit, EmitterInv, EmitterType, Walks
<1>3. InStep'
  BY <1>1 DEF Emit, InStep, SameUpTo, WalkList
<1> QED BY <1>2, <1>3 DEF EmitterInv

LEMMA SteppedWalk ==
  ASSUME NEW v \in Walks
  PROVE  LET w == [v EXCEPT !.i = v.i + 1, !.stage = "inside"]
         IN /\ w \in Walks
            /\ w.stage = "inside" /\ w.i = v.i + 1 /\ w.len = v.len /\ w.lazy = v.lazy
            /\ w.dropped = v.dropped /\ w.list = v.list
<1>1. v.i + 1 \in Nat
  BY DEF Walks
<1> QED BY <1>1 DEF Walks

(* The loop calls the listener at its index, which is the next it owes.    *)
LEMMA CallNextKeeps == ASSUME EmitterInv, CallNext PROVE EmitterInv'
<1> DEFINE l == WalkList[walk.i + 1]
           w == [walk EXCEPT !.i = walk.i + 1, !.stage = "inside"]
<1>1. /\ EmitterType /\ InStep /\ walk.stage = "next" /\ More /\ walk.i < Len(WalkList)
      /\ called' = Append(called, l) /\ UNCHANGED <<registered, owed, threw>>
      /\ \/ \E p \in DOMAIN listeners : Splice(p, w)
         \/ walk' = w /\ UNCHANGED <<listeners, disturbed>>
  BY DEF CallNext, EmitterInv
<1>2. /\ walk.i \in Nat /\ walk.len \in Nat /\ Len(WalkList) \in Nat /\ l \in Listener
      /\ Len(called) \in Nat /\ Len(owed) \in Nat
  BY <1>1, WalkListType, ElementOfSeq, LenProperties DEF EmitterType, Walks
<1>3. /\ w \in Walks
      /\ w.stage = "inside" /\ w.i = walk.i + 1 /\ w.len = walk.len /\ w.lazy = walk.lazy
      /\ w.dropped = walk.dropped /\ w.list = walk.list
  BY <1>1, SteppedWalk DEF EmitterType
<1> HIDE DEF l, w
<1>4. /\ called' \in Seq(Listener) /\ Len(called') = Len(called) + 1
      /\ called'[Len(called) + 1] = l /\ \A j \in 1..Len(called) : called'[j] = called[j]
  BY <1>1, <1>2, AppendSame DEF EmitterType, Walks
<1>5. /\ listeners' \in Seq(Listener) /\ disturbed' \in BOOLEAN /\ (disturbed => disturbed')
      /\ walk' \in Walks
      /\ walk'.stage = "inside" /\ walk'.i = walk.i + 1 /\ walk'.len = walk.len /\ walk'.lazy = walk.lazy
      /\ ~disturbed' => \/ ~walk.lazy /\ walk.i + 1 >= walk.len
                        \/ WalkList' = WalkList
  <2>1. ASSUME NEW p \in DOMAIN listeners, Splice(p, w)
        PROVE  /\ listeners' \in Seq(Listener) /\ disturbed' \in BOOLEAN /\ (disturbed => disturbed')
               /\ walk' \in Walks
               /\ walk'.stage = w.stage /\ walk'.lazy = w.lazy /\ walk'.i = w.i /\ walk'.len = w.len
               /\ ~disturbed' => \/ ~Loops(w) /\ walk' = w
                                 \/ ~w.lazy /\ w.i >= w.len
    BY <1>1, <1>3, <2>1, SpliceEffect
  <2>2. ~Loops(w) /\ walk' = w => WalkList' = WalkList
    BY <1>3 DEF Loops, WalkList
  <2>3. walk' = w /\ UNCHANGED listeners => WalkList' = WalkList
    BY <1>3 DEF WalkList
  <2>4. listeners \in Seq(Listener) /\ disturbed \in BOOLEAN
    BY <1>1 DEF EmitterType, Walks
  <2> QED BY <1>1, <1>3, <2>1, <2>2, <2>3, <2>4
<1>6. EmitterType'
  BY <1>1, <1>4, <1>5 DEF EmitterType, Walks
<1>7. ASSUME ~disturbed' PROVE InStep'
  <2>1. ~disturbed /\ ~threw' /\ walk.i = Len(called)
    BY <1>1, <1>5, <1>7 DEF InStep
  <2>2. Len(called) + 1 <= Len(owed) /\ owed[Len(called) + 1] = l
    BY <1>1, <1>2, <2>1 DEF InStep, SameUpTo, More, l
  <2>3. SameUpTo(Len(called'), called', owed')
    BY <1>1, <1>2, <1>4, <2>1, <2>2 DEF InStep, SameUpTo
  <2>4. walk.lazy => /\ Len(owed') = Len(WalkList') /\ SameUpTo(Len(owed'), owed', WalkList')
    BY <1>1, <1>5, <1>7, <2>1 DEF InStep
  <2>5. ~walk.lazy => /\ walk'.len = Len(owed')
                      /\ walk'.i < walk'.len => SameUpTo(walk'.len, owed', WalkList')
    BY <1>1, <1>2, <1>5, <1>7, <2>1 DEF InStep
  <2> QED BY <1>4, <1>5, <2>1, <2>3, <2>4, <2>5 DEF InStep
<1> QED BY <1>6, <1>7 DEF EmitterInv, InStep

LEMMA ReturnKeeps == ASSUME EmitterInv, Return PROVE EmitterInv'
<1>1. /\ EmitterType' /\ walk.stage # "over" /\ walk'.stage # "over" /\ WalkList' = WalkList
      /\ walk'.lazy = walk.lazy /\ walk'.i = walk.i /\ walk'.len = walk.len
      /\ UNCHANGED <<owed, called, disturbed, threw>>
  BY DEF Return, EmitterInv, EmitterType, WalkList, Walks
<1>2. InStep'
  BY <1>1 DEF EmitterInv, InStep
<1> QED BY <1>1, <1>2 DEF EmitterInv

(* Nothing is missing from the list under an undisturbed loop.             *)
LEMMA CallNothingKeeps == ASSUME EmitterInv, CallNothing PROVE EmitterInv'
<1>1. /\ EmitterType' /\ walk.stage = "next" /\ More /\ walk.i >= Len(WalkList)
      /\ UNCHANGED <<owed, disturbed>> /\ walk.i \in Nat /\ walk.len \in Nat
  BY DEF CallNothing, EmitterInv, EmitterType, Walks
<1>2. Len(WalkList) \in Nat
  BY WalkListType DEF EmitterInv
<1>3. disturbed
  BY <1>1, <1>2 DEF EmitterInv, InStep, SameUpTo, More
<1> QED BY <1>1, <1>3 DEF EmitterInv, InStep

LEMMA EmitEndsKeeps == ASSUME EmitterInv, EmitEnds PROVE EmitterInv'
<1>1. /\ EmitterType' /\ walk.stage = "next" /\ ~More /\ walk'.stage = "over"
      /\ UNCHANGED <<owed, called, disturbed, threw>> /\ walk.i \in Nat /\ walk.len \in Nat
  BY DEF EmitEnds, EmitterInv, EmitterType, Walks
<1>2. Len(WalkList) \in Nat /\ Len(owed) \in Nat /\ Len(called) \in Nat
  BY WalkListType, LenProperties DEF EmitterInv, EmitterType, Walks
<1>3. ~disturbed => Len(called) = Len(owed)
  BY <1>1, <1>2 DEF EmitterInv, InStep, SameUpTo, More
<1> QED BY <1>1, <1>2, <1>3 DEF EmitterInv, InStep, SameUpTo

LEMMA EmitterNext == EmitterInv /\ [CeNext]_ceVars => EmitterInv'
<1> SUFFICES ASSUME EmitterInv, [CeNext]_ceVars PROVE EmitterInv'
  OBVIOUS
<1>1. CASE UNCHANGED ceVars
  BY <1>1 DEF ceVars, EmitterInv, EmitterType, InStep, SameUpTo, WalkList, Walks
<1> QED
  BY <1>1, SubscribeKeeps, UnsubscribeKeeps, RemoveAllKeeps, EmitKeeps, CallNextKeeps,
     ReturnKeeps, CallNothingKeeps, EmitEndsKeeps DEF CeNext

(* Whatever listeners subscribe, drop or emit while they are called, every *)
(* listener that an emission owes is called once and in order, unless one  *)
(* is removed under the loop.                                              *)
THEOREM EmitterServes == CeSpec => []ListenersServed
<1>1. EmitterInv => ListenersServed
  <2> SUFFICES ASSUME EmitterInv, ~disturbed
               PROVE  /\ ~threw /\ called = SubSeq(owed, 1, Len(called))
                      /\ walk.stage = "over" => called = owed
    BY DEF ListenersServed
  <2>1. /\ called \in Seq(Listener) /\ owed \in Seq(Listener)
        /\ Len(called) \in Nat /\ Len(owed) \in Nat
    BY LenProperties DEF EmitterInv, EmitterType, Walks
  <2>2. Len(called) <= Len(owed) /\ \A j \in 1..Len(called) : called[j] = owed[j]
    BY DEF EmitterInv, InStep, SameUpTo
  <2>3. /\ SubSeq(owed, 1, Len(called)) \in Seq(Listener)
        /\ Len(SubSeq(owed, 1, Len(called))) = Len(called)
        /\ \A j \in 1..Len(called) : SubSeq(owed, 1, Len(called))[j] = owed[j]
    <3>1. \A j \in 1..Len(called) : owed[j] \in Listener
      BY <2>1, <2>2, ElementOfSeq
    <3> QED BY <2>1, <3>1, SubSeqProperties
  <2>4. called = SubSeq(owed, 1, Len(called))
    BY <2>1, <2>2, <2>3, SeqEqual
  <2>5. walk.stage = "over" => called = owed
    BY <2>1, <2>2, SeqEqual DEF EmitterInv, InStep
  <2> QED BY <2>4, <2>5 DEF EmitterInv, InStep
<1> QED BY <1>1, EmitterInit, EmitterNext, PTL DEF CeSpec
-----------------------------------------------------------------------------
(* TimerHeap.                                                              *)

(* A set of natural numbers that is not empty has a least member.          *)
LEMMA LeastNatural ==
  ASSUME NEW T, T \subseteq Nat, T # {}
  PROVE  \E n \in T : \A m \in T : n <= m
<1>1. PICK R : R = OpToRel(<, Nat)
  OBVIOUS
<1>2. IsWellFoundedOn(R, Nat)
  BY <1>1, NatLessThanWellFounded
<1>3. PICK n \in T : \A m \in T : ~(<<m, n>> \in R)
  BY <1>2, WFMin
<1>4. ASSUME NEW m \in T, m < n PROVE FALSE
  <2>1. <<m, n>> \in R
    BY <1>1, <1>4 DEF OpToRel
  <2> QED BY <2>1, <1>3
<1> QED BY <1>3, <1>4
-----------------------------------------------------------------------------
(* The recursive functions of the two sifts are defined: for each bound    *)
(* there is a function that satisfies the equation.                        *)
LEMMA HalfSmaller ==
  ASSUME NEW j \in Nat, j # 0, j # 1
  PROVE  j \div 2 \in 1..(j - 1)
OBVIOUS

UpEquation(g, h, e, n) ==
  g = [j \in 1..n |-> IF j = 1 \/ Before(h[j \div 2], e) THEN {j} ELSE {j} \cup g[j \div 2]]

IsUpDefined(h, e, n) == \E g : UpEquation(g, h, e, n)

LEMMA UpDefined ==
  ASSUME NEW h, NEW e, NEW n \in Nat
  PROVE  IsUpDefined(h, e, n)
<1> DEFINE T == {k \in Nat : ~IsUpDefined(h, e, k)}
<1>1. SUFFICES ASSUME T # {} PROVE FALSE
  OBVIOUS
<1>2. PICK k \in T : \A m \in T : k <= m
  <2>1. T \subseteq Nat
    OBVIOUS
  <2> HIDE DEF T
  <2> QED BY <1>1, <2>1, LeastNatural
<1>3. k # 0
  <2>1. UpEquation([j \in 1..0 |-> {}], h, e, 0)
    BY DEF UpEquation
  <2> QED BY <2>1, <1>2 DEF IsUpDefined
<1>4. k - 1 \in Nat /\ k - 1 \notin T
  <2>1. k \in Nat
    BY <1>2
  <2>2. k - 1 \in Nat /\ ~(k <= k - 1)
    BY <2>1, <1>3
  <2> HIDE DEF T
  <2> QED BY <2>2, <1>2
<1>5. PICK f : UpEquation(f, h, e, k - 1)
  BY <1>4 DEF IsUpDefined
<1> DEFINE g == [j \in 1..k |-> IF j = 1 \/ Before(h[j \div 2], e) THEN {j} ELSE {j} \cup f[j \div 2]]
<1>6. \A j \in 1..(k - 1) : g[j] = f[j]
  <2>1. k \in Nat
    BY <1>2
  <2> HIDE DEF T
  <2> SUFFICES ASSUME NEW j \in 1..(k - 1) PROVE g[j] = f[j]
    OBVIOUS
  <2>2. j \in 1..k
    BY <2>1
  <2> QED BY <2>2, <1>5 DEF UpEquation
<1>7. \A j \in 1..k : j # 1 => g[j \div 2] = f[j \div 2]
  <2> SUFFICES ASSUME NEW j \in 1..k, j # 1 PROVE g[j \div 2] = f[j \div 2]
    OBVIOUS
  <2>1. j \div 2 \in 1..(j - 1)
    BY HalfSmaller
  <2>2. j \div 2 \in 1..(k - 1)
    BY <2>1, <1>4
  <2> HIDE DEF g
  <2> QED BY <2>2, <1>6
<1>8. g = [j \in 1..k |-> IF j = 1 \/ Before(h[j \div 2], e) THEN {j} ELSE {j} \cup g[j \div 2]]
  <2> HIDE DEF g
  <2>1. \A j \in 1..k : (IF j = 1 \/ Before(h[j \div 2], e) THEN {j} ELSE {j} \cup f[j \div 2])
                        = (IF j = 1 \/ Before(h[j \div 2], e) THEN {j} ELSE {j} \cup g[j \div 2])
    BY <1>7
  <2> QED BY <2>1 DEF g
<1>9. UpEquation(g, h, e, k)
  BY <1>8 DEF UpEquation
<1> QED BY <1>9, <1>2 DEF IsUpDefined

(* A place and those that follow it.                                       *)
And(j, places) == {j} \cup places

UpAt(w, h, e, j) ==
  w[j] = IF j = 1 \/ Before(h[j \div 2], e) THEN {j} ELSE And(j, w[j \div 2])

LEMMA WaysUpEquation ==
  ASSUME NEW h, NEW e, NEW n \in Nat, NEW j \in 1..n
  PROVE  UpAt(WaysUp(h, e, n), h, e, j)
<1>1. WaysUp(h, e, n) = CHOOSE g : UpEquation(g, h, e, n)
  BY DEF WaysUp, UpEquation
<1>2. UpEquation(WaysUp(h, e, n), h, e, n)
  BY <1>1, UpDefined DEF IsUpDefined
<1> QED BY <1>2 DEF UpEquation, UpAt, And

(* The way up from j: of what it passes e comes before all but j, it ends  *)
(* at the root or below what comes before e, and no two of its places have *)
(* their parent in common, nor are two its end.                            *)
IsWayUp(h, e, j, w) ==
  /\ w \subseteq 1..j /\ j \in w /\ (w = {j} \/ j \div 2 \in w)
  /\ \A k \in w : k # j => ~Before(h[k], e)
  /\ \A k \in w : k \div 2 \in w \/ k = 1 \/ Before(h[k \div 2], e)
  /\ \A a, b \in w : a \div 2 \in w /\ a \div 2 = b \div 2 => a = b
  /\ \A a, b \in w : a \div 2 \notin w /\ b \div 2 \notin w => a = b

LEMMA HalfBelow ==
  ASSUME NEW j \in Nat, j # 0
  PROVE  j \div 2 \in Nat /\ j \div 2 < j
OBVIOUS

LEMMA WayUpEnds ==
  ASSUME NEW h, NEW e, NEW j \in Nat, j # 0, j = 1 \/ Before(h[j \div 2], e)
  PROVE  IsWayUp(h, e, j, {j})
<1>1. j \div 2 \notin {j}
  BY HalfBelow
<1> QED BY <1>1 DEF IsWayUp

LEMMA WayUpGoesOn ==
  ASSUME NEW h, NEW e, NEW j \in Nat, NEW p \in Nat, p = j \div 2, NEW v, j # 0, j # 1,
         ~Before(h[p], e), IsWayUp(h, e, p, v)
  PROVE  IsWayUp(h, e, j, {j} \cup v)
<1>1. p < j /\ p \in v
  BY HalfBelow DEF IsWayUp
<1>2. v \subseteq 1..p
  BY DEF IsWayUp
<1> DEFINE w == {j} \cup v
<1>3. w \subseteq 1..j /\ j \in w /\ j \div 2 \in w
  BY <1>1, <1>2
<1>4. \A k \in w : k # j => ~Before(h[k], e)
  BY DEF IsWayUp
<1>5. \A k \in w : k \div 2 \in w \/ k = 1 \/ Before(h[k \div 2], e)
  BY <1>1 DEF IsWayUp
<1>6. \A k \in v : k \in Nat /\ k # 0 /\ k # j /\ k \div 2 # p /\ k \div 2 # j
  <2> SUFFICES ASSUME NEW k \in v PROVE k \in Nat /\ k # 0 /\ k # j /\ k \div 2 # p /\ k \div 2 # j
    OBVIOUS
  <2>1. k \in Nat /\ k # 0 /\ k <= p
    BY <1>2
  <2>2. PICK q \in Nat : q = k \div 2 /\ q < k
    BY <2>1, HalfBelow
  <2> QED BY <2>1, <2>2, <1>1
<1>7. \A a, b \in w : a \div 2 \in w /\ a \div 2 = b \div 2 => a = b
  <2> SUFFICES ASSUME NEW a \in w, NEW b \in w, a \div 2 \in w, a \div 2 = b \div 2 PROVE a = b
    OBVIOUS
  <2>1. CASE a = j
    BY <2>1, <1>6
  <2>2. CASE b = j
    BY <2>2, <1>6
  <2>3. CASE a \in v /\ b \in v
    <3>1. a \div 2 \in v
      BY <2>3, <1>6
    <3> QED BY <2>3, <3>1 DEF IsWayUp
  <2> QED BY <2>1, <2>2, <2>3
<1>8. \A a, b \in w : a \div 2 \notin w /\ b \div 2 \notin w => a = b
  <2> SUFFICES ASSUME NEW a \in w, NEW b \in w, a \div 2 \notin w, b \div 2 \notin w PROVE a = b
    OBVIOUS
  <2>1. a \in v /\ b \in v
    BY <1>1
  <2> QED BY <2>1 DEF IsWayUp
<1> HIDE DEF w
<1>9. IsWayUp(h, e, j, w)
  BY <1>3, <1>4, <1>5, <1>7, <1>8 DEF IsWayUp
<1> QED BY <1>9 DEF w

LEMMA WayUpShape ==
  ASSUME NEW h, NEW e, NEW n \in Nat, NEW i \in 1..n
  PROVE  IsWayUp(h, e, i, WaysUp(h, e, n)[i])
<1> DEFINE T == {k \in 1..n : ~IsWayUp(h, e, k, WaysUp(h, e, n)[k])}
<1>1. SUFFICES ASSUME T # {} PROVE FALSE
  OBVIOUS
<1>2. PICK j \in T : \A m \in T : j <= m
  <2>1. T \subseteq Nat
    OBVIOUS
  <2> HIDE DEF T
  <2> QED BY <1>1, <2>1, LeastNatural
<1>3. j \in 1..n /\ ~IsWayUp(h, e, j, WaysUp(h, e, n)[j])
  BY <1>2
<1>4. WaysUp(h, e, n)[j] = IF j = 1 \/ Before(h[j \div 2], e) THEN {j}
                           ELSE And(j, WaysUp(h, e, n)[j \div 2])
  <2>1. UpAt(WaysUp(h, e, n), h, e, j)
    <3> HIDE DEF T
    <3> QED BY <1>3, WaysUpEquation
  <2> QED BY ONLY <2>1 DEF UpAt
<1>5. j \in Nat /\ j # 0
  BY <1>3
<1>6. CASE j = 1 \/ Before(h[j \div 2], e)
  BY <1>3, <1>4, <1>5, <1>6, WayUpEnds
<1>7. CASE ~(j = 1 \/ Before(h[j \div 2], e))
  <2>1. PICK p \in Nat : p = j \div 2
    BY <1>5, HalfBelow
  <2>2. p \in 1..(j - 1)
    BY <2>1, <1>5, <1>7, HalfSmaller
  <2>3. p \in 1..n /\ ~(j <= p)
    BY <2>2, <1>3
  <2>4. p \notin T
    <3> HIDE DEF T
    <3> QED BY <2>3, <1>2
  <2>5. IsWayUp(h, e, p, WaysUp(h, e, n)[p])
    BY <2>3, <2>4
  <2>6. IsWayUp(h, e, j, {j} \cup WaysUp(h, e, n)[p])
    BY <1>5, <1>7, <2>1, <2>5, WayUpGoesOn
  <2> QED BY <2>6, <2>1, <1>3, <1>4, <1>7 DEF And
<1> QED BY <1>6, <1>7

LEMMA MinChildPlace ==
  ASSUME NEW h, NEW j \in Nat, j # 0
  PROVE  /\ MinChild(h, j) \in Nat /\ MinChild(h, j) > j /\ MinChild(h, j) \div 2 = j
         /\ Len(h) \in Nat /\ 2 * j <= Len(h) => MinChild(h, j) <= Len(h)
<1>1. MinChild(h, j) = 2 * j \/ (MinChild(h, j) = 2 * j + 1 /\ 2 * j + 1 <= Len(h))
  BY DEF MinChild
<1>2. (2 * j) \div 2 = j /\ (2 * j + 1) \div 2 = j
  OBVIOUS
<1> QED BY <1>1, <1>2

DownEquation(g, h, e, i) ==
  g = [j \in i..Len(h) |-> IF 2 * j > Len(h) \/ Before(e, h[MinChild(h, j)]) THEN {j}
                           ELSE {j} \cup g[MinChild(h, j)]]
IsDownDefined(h, e, i) == \E g : DownEquation(g, h, e, i)

LEMMA DownExtended ==
  ASSUME NEW h, NEW e, NEW i \in Nat, i # 0, Len(h) \in Nat, i <= Len(h), IsDownDefined(h, e, i + 1)
  PROVE  IsDownDefined(h, e, i)
<1>1. PICK n \in Nat : n = Len(h)
  OBVIOUS
<1>2. PICK f : DownEquation(f, h, e, i + 1)
  BY DEF IsDownDefined
<1> DEFINE g == [j \in i..n |-> IF 2 * j > n \/ Before(e, h[MinChild(h, j)]) THEN {j}
                                ELSE {j} \cup f[MinChild(h, j)]]
<1>3. \A j \in (i + 1)..n : g[j] = f[j]
  <2> SUFFICES ASSUME NEW j \in (i + 1)..n PROVE g[j] = f[j]
    OBVIOUS
  <2>1. j \in i..n
    OBVIOUS
  <2> QED BY <2>1, <1>1, <1>2 DEF DownEquation
<1>4. \A j \in i..n : ~(2 * j > n) => g[MinChild(h, j)] = f[MinChild(h, j)]
  <2> SUFFICES ASSUME NEW j \in i..n, ~(2 * j > n) PROVE g[MinChild(h, j)] = f[MinChild(h, j)]
    OBVIOUS
  <2>1. PICK c : c = MinChild(h, j)
    OBVIOUS
  <2>2. j \in Nat /\ j # 0 /\ 2 * j <= n
    OBVIOUS
  <2>3. c \in Nat /\ c > j /\ c <= n
    BY <2>1, <2>2, <1>1, MinChildPlace
  <2>4. c \in (i + 1)..n
    BY <2>3
  <2> HIDE DEF g
  <2> QED BY <2>1, <2>4, <1>3
<1>5. g = [j \in i..n |-> IF 2 * j > n \/ Before(e, h[MinChild(h, j)]) THEN {j}
                          ELSE {j} \cup g[MinChild(h, j)]]
  <2> HIDE DEF g
  <2>1. \A j \in i..n : (IF 2 * j > n \/ Before(e, h[MinChild(h, j)]) THEN {j} ELSE {j} \cup f[MinChild(h, j)])
                        = (IF 2 * j > n \/ Before(e, h[MinChild(h, j)]) THEN {j} ELSE {j} \cup g[MinChild(h, j)])
    BY <1>4
  <2> QED BY <2>1 DEF g
<1> HIDE DEF g
<1>6. DownEquation(g, h, e, i)
  BY <1>5, <1>1 DEF DownEquation
<1> QED BY <1>6 DEF IsDownDefined

LEMMA DownDefined ==
  ASSUME NEW h, NEW e, Len(h) \in Nat, NEW i \in 1..(Len(h) + 1)
  PROVE  IsDownDefined(h, e, i)
<1>1. PICK n \in Nat : n = Len(h)
  OBVIOUS
<1> DEFINE T == {k \in 0..n : ~IsDownDefined(h, e, n + 1 - k)}
<1>2. SUFFICES ASSUME T # {} PROVE FALSE
  <2>1. n + 1 - i \in 0..n /\ n + 1 - (n + 1 - i) = i
    BY <1>1
  <2> QED BY <2>1, <1>2
<1>3. PICK k \in T : \A m \in T : k <= m
  <2>1. T \subseteq Nat
    OBVIOUS
  <2> HIDE DEF T
  <2> QED BY <1>2, <2>1, LeastNatural
<1>4. k \in Nat /\ k <= n /\ ~IsDownDefined(h, e, n + 1 - k)
  BY <1>3
<1>5. k # 0
  <2>1. (n + 1)..n = {}
    OBVIOUS
  <2>2. DownEquation([j \in (n + 1)..n |-> {}], h, e, n + 1)
    BY <2>1, <1>1 DEF DownEquation
  <2> QED BY <2>2, <1>4 DEF IsDownDefined
<1>6. k - 1 \notin T
  <2>1. ~(k <= k - 1)
    BY <1>4
  <2> HIDE DEF T
  <2> QED BY <2>1, <1>3
<1>7. k - 1 \in 0..n
  BY <1>4, <1>5
<1>8. IsDownDefined(h, e, n + 1 - (k - 1))
  BY <1>6, <1>7
<1>9. PICK m \in Nat : m = n + 1 - k
  BY <1>4
<1>10. n + 1 - (k - 1) = m + 1 /\ m # 0 /\ m <= n
  BY <1>4, <1>5, <1>9
<1>11. IsDownDefined(h, e, m + 1) /\ ~IsDownDefined(h, e, m)
  BY <1>4, <1>8, <1>9, <1>10
<1> QED BY <1>1, <1>10, <1>11, DownExtended

LEMMA WaysDownEquation ==
  ASSUME NEW h, NEW e, Len(h) \in Nat, NEW i \in Nat, i # 0, NEW j \in i..Len(h)
  PROVE  WaysDown(h, e, i)[j] = IF 2 * j > Len(h) \/ Before(e, h[MinChild(h, j)]) THEN {j}
                                ELSE And(j, WaysDown(h, e, i)[MinChild(h, j)])
<1>1. WaysDown(h, e, i) = CHOOSE g : DownEquation(g, h, e, i)
  BY DEF WaysDown, DownEquation
<1>2. i \in 1..(Len(h) + 1)
  OBVIOUS
<1>3. DownEquation(WaysDown(h, e, i), h, e, i)
  BY <1>1, <1>2, DownDefined DEF IsDownDefined
<1> QED BY <1>3 DEF DownEquation, And

(* The way down from j: e comes before none of what it passes, which is    *)
(* the smaller child each time, and it ends where there is no child, or e  *)
(* comes before the smaller one; that happens at one place.                *)
IsWayDown(h, e, j, w) ==
  /\ w \subseteq j..Len(h) /\ j \in w
  /\ \A k \in w : k # j => ~Before(e, h[k]) /\ k \div 2 \in w /\ MinChild(h, k \div 2) = k
  /\ \A k \in w : MinChild(h, k) \in w \/ 2 * k > Len(h) \/ Before(e, h[MinChild(h, k)])
  /\ \A a, b \in w : MinChild(h, a) \notin w /\ MinChild(h, b) \notin w => a = b

LEMMA WayDownEnds ==
  ASSUME NEW h, NEW e, Len(h) \in Nat, NEW j \in 1..Len(h),
         2 * j > Len(h) \/ Before(e, h[MinChild(h, j)])
  PROVE  IsWayDown(h, e, j, {j})
BY DEF IsWayDown

LEMMA WayDownGoesOn ==
  ASSUME NEW h, NEW e, Len(h) \in Nat, NEW j \in 1..Len(h), NEW c, NEW v, c = MinChild(h, j),
         2 * j <= Len(h), ~Before(e, h[c]), IsWayDown(h, e, c, v)
  PROVE  IsWayDown(h, e, j, {j} \cup v)
<1>1. c \in Nat /\ c > j /\ c \div 2 = j /\ c <= Len(h)
  <2>1. j \in Nat /\ j # 0
    OBVIOUS
  <2> QED BY <2>1, MinChildPlace
<1>2. v \subseteq c..Len(h) /\ c \in v
  BY DEF IsWayDown
<1> DEFINE w == {j} \cup v
<1>3. w \subseteq j..Len(h) /\ j \in w
  BY <1>1, <1>2
<1>4. \A k \in w : k # j => ~Before(e, h[k]) /\ k \div 2 \in w /\ MinChild(h, k \div 2) = k
  <2> SUFFICES ASSUME NEW k \in v PROVE ~Before(e, h[k]) /\ k \div 2 \in w /\ MinChild(h, k \div 2) = k
    OBVIOUS
  <2>1. CASE k = c
    BY <2>1, <1>1
  <2>2. CASE k # c
    BY <2>2 DEF IsWayDown
  <2> QED BY <2>1, <2>2
<1>5. \A k \in w : MinChild(h, k) \in w \/ 2 * k > Len(h) \/ Before(e, h[MinChild(h, k)])
  BY <1>2 DEF IsWayDown
<1>6. \A a, b \in w : MinChild(h, a) \notin w /\ MinChild(h, b) \notin w => a = b
  BY <1>2 DEF IsWayDown
<1> HIDE DEF w
<1>7. IsWayDown(h, e, j, w)
  BY <1>3, <1>4, <1>5, <1>6 DEF IsWayDown
<1> QED BY <1>7 DEF w

LEMMA WayDownShape ==
  ASSUME NEW h, NEW e, Len(h) \in Nat, NEW i \in 1..Len(h)
  PROVE  IsWayDown(h, e, i, WaysDown(h, e, i)[i])
<1>1. PICK n \in Nat : n = Len(h)
  OBVIOUS
<1>2. PICK way : way = WaysDown(h, e, i)
  OBVIOUS
<1> DEFINE T == {k \in 0..(n - i) : ~IsWayDown(h, e, n - k, way[n - k])}
<1>3. SUFFICES ASSUME T # {} PROVE FALSE
  <2>1. n - i \in 0..(n - i) /\ n - (n - i) = i
    BY <1>1
  <2> QED BY <2>1, <1>2, <1>3
<1>4. PICK k \in T : \A m \in T : k <= m
  <2>1. T \subseteq Nat
    OBVIOUS
  <2> HIDE DEF T
  <2> QED BY <1>3, <2>1, LeastNatural
<1>5. k \in Nat /\ k <= n - i /\ ~IsWayDown(h, e, n - k, way[n - k])
  BY <1>4
<1>6. PICK j \in i..n : j = n - k
  BY <1>5, <1>1
<1>7. i \in Nat /\ i # 0 /\ j \in Nat /\ j # 0 /\ j <= n /\ i <= j
  BY <1>1, <1>6
<1>8. way[j] = IF 2 * j > n \/ Before(e, h[MinChild(h, j)]) THEN {j} ELSE And(j, way[MinChild(h, j)])
  <2>1. Len(h) \in Nat /\ j \in i..Len(h)
    BY <1>1, <1>7
  <2>2. WaysDown(h, e, i)[j] = IF 2 * j > Len(h) \/ Before(e, h[MinChild(h, j)]) THEN {j}
                               ELSE And(j, WaysDown(h, e, i)[MinChild(h, j)])
    BY <2>1, <1>7, WaysDownEquation
  <2> HIDE DEF T
  <2> QED BY <2>2, <1>1, <1>2, Zenon
<1>9. ~IsWayDown(h, e, j, way[j])
  BY <1>5, <1>6
<1>10. CASE 2 * j > n \/ Before(e, h[MinChild(h, j)])
  <2>1. IsWayDown(h, e, j, {j})
    BY <1>1, <1>7, <1>10, WayDownEnds
  <2> QED BY <2>1, <1>8, <1>9, <1>10
<1>11. CASE ~(2 * j > n \/ Before(e, h[MinChild(h, j)]))
  <2>1. PICK c : c = MinChild(h, j)
    OBVIOUS
  <2>2. c \in Nat /\ c > j /\ c <= n
    BY <2>1, <1>1, <1>7, <1>11, MinChildPlace
  <2>3. n - c \in 0..(n - i) /\ ~(k <= n - c) /\ n - (n - c) = c
    BY <2>2, <1>5, <1>6, <1>7
  <2>4. n - c \notin T
    <3> HIDE DEF T
    <3> QED BY <2>3, <1>4
  <2>5. IsWayDown(h, e, c, way[c])
    BY <2>3, <2>4
  <2>6. IsWayDown(h, e, j, {j} \cup way[c])
    BY <2>1, <2>5, <1>1, <1>7, <1>11, WayDownGoesOn
  <2>7. way[j] = {j} \cup way[c]
    BY <2>1, <1>8, <1>11 DEF And
  <2> QED BY <2>6, <2>7, <1>9
<1> QED BY <1>10, <1>11
-----------------------------------------------------------------------------
(* The heap.  Its elements differ in what they are ordered by.             *)
Element == [id : Nat, deadline : Nat, seq : Nat]
Tidy(h) ==
  /\ h \in Seq(Element)
  /\ \A a, b \in 1..Len(h) : h[a].seq = h[b].seq => a = b
Ordered(h) == \A j \in 2..Len(h) : Before(h[j \div 2], h[j])

LEMMA BeforeTotal ==
  ASSUME NEW x \in Element, NEW y \in Element, x.seq # y.seq, ~Before(x, y)
  PROVE  Before(y, x)
<1>1. x.deadline \in Nat /\ y.deadline \in Nat /\ x.seq \in Nat /\ y.seq \in Nat
  BY DEF Element
<1> QED BY <1>1 DEF Before

LEMMA BeforeTransitive ==
  ASSUME NEW x \in Element, NEW y \in Element, NEW z \in Element, Before(x, y), Before(y, z)
  PROVE  Before(x, z)
<1>1. /\ x.deadline \in Nat /\ y.deadline \in Nat /\ z.deadline \in Nat
      /\ x.seq \in Nat /\ y.seq \in Nat /\ z.seq \in Nat
  BY DEF Element
<1> QED BY <1>1 DEF Before

LEMMA TidyElements ==
  ASSUME NEW h, Tidy(h), NEW a \in 1..Len(h)
  PROVE  h[a] \in Element
BY DEF Tidy

LEMMA TidyTotal ==
  ASSUME NEW h, Tidy(h), NEW a \in 1..Len(h), NEW b \in 1..Len(h), a # b, ~Before(h[a], h[b])
  PROVE  Before(h[b], h[a])
<1>1. h[a] \in Element /\ h[b] \in Element /\ h[a].seq # h[b].seq
  BY DEF Tidy
<1> QED BY <1>1, BeforeTotal

LEMMA TidyTransitive ==
  ASSUME NEW h, Tidy(h), NEW a \in 1..Len(h), NEW b \in 1..Len(h), NEW c \in 1..Len(h),
         Before(h[a], h[b]), Before(h[b], h[c])
  PROVE  Before(h[a], h[c])
<1>1. h[a] \in Element /\ h[b] \in Element /\ h[c] \in Element
  BY TidyElements
<1> QED BY <1>1, BeforeTransitive

LEMMA ParentPlace ==
  ASSUME NEW n \in Nat, NEW j \in 2..n
  PROVE  j \div 2 \in 1..n /\ j \div 2 < j /\ j \in 1..n
<1>1. j \in Nat /\ j # 0 /\ j # 1
  OBVIOUS
<1>2. j \div 2 \in 1..(j - 1)
  BY <1>1, HalfSmaller
<1> QED BY <1>2

(* The i-th moves up past what it comes before: the heap is ordered if it  *)
(* was but for the i-th, and its parent comes before its children.         *)
LEMMA SiftUpOrders ==
  ASSUME NEW h, Tidy(h), NEW i \in 1..Len(h),
         \A j \in 2..Len(h) : j # i /\ j \div 2 # i => Before(h[j \div 2], h[j]),
         \A j \in 2..Len(h) : j \div 2 = i /\ i # 1 => Before(h[i \div 2], h[j]),
         WayUp(h, i) # {i} \/ \A j \in 2..Len(h) : j \div 2 # i
  PROVE  Ordered(SiftUp(h, i))
<1>1. PICK n \in Nat : n = Len(h)
  BY DEF Tidy
<1>2. PICK w : w = WayUp(h, i)
  OBVIOUS
<1>3. i \in Nat /\ i # 0
  BY <1>1
<1>4. IsWayUp(h, h[i], i, w)
  <2>1. i \in 1..i
    BY <1>3
  <2> QED BY <2>1, <1>2, <1>3, WayUpShape DEF WayUp
<1>5. PICK r : r = SiftUp(h, i)
  OBVIOUS
<1>6. r = [j \in 1..n |-> IF j \notin w THEN h[j] ELSE IF j \div 2 \in w THEN h[j \div 2] ELSE h[i]]
  BY <1>1, <1>2, <1>5 DEF SiftUp
<1>7. w \subseteq 1..n /\ i \in w /\ i \in 1..n /\ \A k \in w : k <= i
  BY <1>1, <1>3, <1>4 DEF IsWayUp
<1>8. \A k \in w : k # i => Before(h[i], h[k])
  <2> SUFFICES ASSUME NEW k \in w, k # i PROVE Before(h[i], h[k])
    OBVIOUS
  <2>1. ~Before(h[k], h[i])
    BY <1>4 DEF IsWayUp
  <2>2. k \in 1..Len(h)
    BY <1>1, <1>7
  <2> QED BY <2>1, <2>2, TidyTotal
<1>9. ASSUME NEW j \in 2..n PROVE Before(r[j \div 2], r[j])
  <2>1. PICK p \in 1..n : p = j \div 2 /\ p < j /\ j \in 1..n
    BY ParentPlace
  <2> SUFFICES Before(r[p], r[j])
    BY <2>1
  <2>2. r[j] = (IF j \notin w THEN h[j] ELSE IF p \in w THEN h[p] ELSE h[i])
    BY <1>6, <2>1
  <2>3. r[p] = (IF p \notin w THEN h[p] ELSE IF p \div 2 \in w THEN h[p \div 2] ELSE h[i])
    BY <1>6, <2>1
  <2>4. j # i /\ p # i => Before(h[p], h[j])
    BY <1>1, <2>1
  <2>5. p \in w /\ p # i => Before(h[i], h[p])
    BY <1>8
  <2>6. p \in w /\ p # i /\ p \div 2 \in w => Before(h[p \div 2], h[p])
    <3> SUFFICES ASSUME p \in w, p # i, p \div 2 \in w PROVE Before(h[p \div 2], h[p])
      OBVIOUS
    <3>1. p # 1
      <4>1. 1 \div 2 = 0 /\ 0 \notin 1..n
        OBVIOUS
      <4> QED BY <4>1, <1>7
    <3>2. p \in 2..Len(h)
      BY <3>1, <1>1
    <3>3. p \div 2 # i
      <4>1. p \in Nat /\ p # 0 /\ p <= i
        BY <1>7
      <4> QED BY <4>1, <1>3, HalfBelow
    <3> QED BY <3>2, <3>3
  <2>7. CASE j \notin w /\ p \notin w
    BY <2>2, <2>3, <2>4, <2>7, <1>7
  <2>8. CASE j \in w /\ p \notin w
    <3>1. Before(h[p], h[i])
      <4>1. j # 1
        OBVIOUS
      <4> QED BY <4>1, <2>1, <2>8, <1>4 DEF IsWayUp
    <3> QED BY <3>1, <2>2, <2>3, <2>8
  <2>9. CASE j \in w /\ p \in w
    <3>1. p # i
      BY <2>1, <2>9, <1>7
    <3> QED BY <3>1, <2>2, <2>3, <2>5, <2>6, <2>9
  <2>10. CASE j \notin w /\ p \in w /\ p # i
    <3>1. j # i
      BY <2>10, <1>7
    <3>2. p \in 1..Len(h) /\ j \in 1..Len(h) /\ i \in 1..Len(h)
      BY <1>1, <1>7, <2>1
    <3>3. CASE p \div 2 \in w
      <4>1. p \div 2 \in 1..Len(h)
        BY <3>3, <1>1, <1>7
      <4>2. Before(h[p \div 2], h[p]) /\ Before(h[p], h[j])
        BY <3>1, <3>3, <2>4, <2>6, <2>10
      <4>3. Before(h[p \div 2], h[j])
        BY <4>1, <4>2, <3>2, TidyTransitive
      <4> QED BY <4>3, <3>3, <2>2, <2>3, <2>10
    <3>4. CASE p \div 2 \notin w
      <4>1. Before(h[i], h[p]) /\ Before(h[p], h[j])
        BY <3>1, <2>4, <2>5, <2>10
      <4>2. Before(h[i], h[j])
        BY <4>1, <3>2, TidyTransitive
      <4> QED BY <4>2, <3>4, <2>2, <2>3, <2>10
    <3> QED BY <3>3, <3>4
  <2>11. CASE j \notin w /\ p = i
    <3>1. j \in 2..Len(h) /\ j \div 2 = i
      BY <1>1, <2>1, <2>11
    <3>2. w # {i}
      BY <3>1, <1>2
    <3>3. i \div 2 \in w
      BY <3>2, <1>4 DEF IsWayUp
    <3>4. i # 1
      <4>1. 1 \div 2 = 0 /\ 0 \notin 1..n
        OBVIOUS
      <4> QED BY <4>1, <3>3, <1>7
    <3>5. Before(h[i \div 2], h[j])
      BY <3>1, <3>4
    <3> QED BY <3>3, <3>5, <2>2, <2>3, <2>11, <1>7
  <2> QED BY <2>7, <2>8, <2>9, <2>10, <2>11
<1>10. Len(r) = n
  BY <1>6
<1> QED BY <1>5, <1>9, <1>10 DEF Ordered

(* The smaller child comes before its sibling.                             *)
LEMMA MinChildFirst ==
  ASSUME NEW h, Tidy(h), NEW p \in 1..Len(h), NEW j \in 2..Len(h), j \div 2 = p, j # MinChild(h, p)
  PROVE  /\ MinChild(h, p) \in 2..Len(h) /\ MinChild(h, p) \div 2 = p
         /\ Before(h[MinChild(h, p)], h[j])
<1>1. PICK n \in Nat : n = Len(h)
  BY DEF Tidy
<1>2. p \in Nat /\ p # 0 /\ p <= n /\ j \in Nat /\ j >= 2 /\ j <= n
  BY <1>1
<1>3. j = 2 * p \/ j = 2 * p + 1
  BY <1>2
<1>4. 2 * p <= n
  BY <1>2, <1>3
<1>5. /\ MinChild(h, p) \in Nat /\ MinChild(h, p) > p /\ MinChild(h, p) \div 2 = p
      /\ MinChild(h, p) <= n
  BY <1>1, <1>2, <1>4, MinChildPlace
<1>6. MinChild(h, p) \in 2..n
  BY <1>2, <1>5
<1>7. Before(h[MinChild(h, p)], h[j])
  <2>1. CASE j = 2 * p
    <3>1. MinChild(h, p) = 2 * p + 1 /\ Before(h[2 * p + 1], h[2 * p])
      BY <2>1 DEF MinChild
    <3> QED BY <2>1, <3>1
  <2>2. CASE j = 2 * p + 1
    <3>1. 2 * p + 1 <= Len(h)
      BY <2>2, <1>1, <1>2
    <3>2. MinChild(h, p) = 2 * p /\ ~Before(h[2 * p + 1], h[2 * p])
      BY <2>2, <3>1 DEF MinChild
    <3>3. 2 * p + 1 \in 1..Len(h) /\ 2 * p \in 1..Len(h) /\ 2 * p + 1 # 2 * p
      BY <3>1, <1>1, <1>2
    <3>4. Before(h[2 * p], h[2 * p + 1])
      BY <3>2, <3>3, TidyTotal
    <3> QED BY <2>2, <3>2, <3>4
  <2> QED BY <1>3, <2>1, <2>2
<1> QED BY <1>1, <1>5, <1>6, <1>7

(* The i-th moves down past what comes before it: the heap is ordered if   *)
(* it was but for the i-th and its children, and the parent of the i-th    *)
(* comes before them all.                                                  *)
LEMMA SiftDownOrders ==
  ASSUME NEW h, Tidy(h), NEW i \in 1..Len(h),
         \A j \in 2..Len(h) : j \div 2 # i => Before(h[j \div 2], h[j]),
         \A j \in 2..Len(h) : j \div 2 = i /\ i # 1 => Before(h[i \div 2], h[j])
  PROVE  Ordered(SiftDown(h, i))
<1>1. PICK n \in Nat : n = Len(h)
  BY DEF Tidy
<1>2. PICK w : w = WayDown(h, i)
  OBVIOUS
<1>3. i \in Nat /\ i # 0 /\ i \in 1..n
  BY <1>1
<1>4. IsWayDown(h, h[i], i, w)
  BY <1>1, <1>2, WayDownShape DEF WayDown
<1>5. PICK r : r = SiftDown(h, i)
  OBVIOUS
<1>6. r = [j \in 1..n |-> IF j \notin w THEN h[j]
                          ELSE IF MinChild(h, j) \in w THEN h[MinChild(h, j)] ELSE h[i]]
  BY <1>1, <1>2, <1>5 DEF SiftDown
<1>7. w \subseteq 1..n /\ i \in w /\ \A k \in w : i <= k
  BY <1>1, <1>3, <1>4 DEF IsWayDown
<1>8. ASSUME NEW j \in 2..n PROVE Before(r[j \div 2], r[j])
  <2>1. PICK p \in 1..n : p = j \div 2 /\ p < j /\ j \in 1..n
    BY ParentPlace
  <2>2. PICK c : c = MinChild(h, j)
    OBVIOUS
  <2>3. PICK d : d = MinChild(h, p)
    OBVIOUS
  <2> SUFFICES Before(r[p], r[j])
    BY <2>1
  <2>4. r[j] = (IF j \notin w THEN h[j] ELSE IF c \in w THEN h[c] ELSE h[i])
    BY <1>6, <2>1, <2>2
  <2>5. r[p] = (IF p \notin w THEN h[p] ELSE IF d \in w THEN h[d] ELSE h[i])
    BY <1>6, <2>1, <2>3
  <2>6. p # i => Before(h[p], h[j])
    BY <1>1, <2>1
  <2>7. p \in 1..Len(h) /\ j \in 1..Len(h) /\ i \in 1..Len(h) /\ j \in 2..Len(h)
    BY <1>1, <2>1
  <2>8. j # d => d \in 2..Len(h) /\ d \div 2 = p /\ Before(h[d], h[j])
    BY <2>1, <2>3, <2>7, MinChildFirst
  <2>9. CASE j \notin w /\ p \notin w
    BY <2>4, <2>5, <2>6, <2>9, <1>7
  <2>10. CASE j \notin w /\ p \in w /\ d \in w
    <3>1. Before(h[d], h[j])
      BY <2>8, <2>10
    <3> QED BY <3>1, <2>4, <2>5, <2>10
  <2>11. CASE j \notin w /\ p \in w /\ d \notin w
    <3>1. 2 * p <= n
      BY <1>1, <2>1
    <3>2. Before(h[i], h[d])
      BY <3>1, <1>1, <2>3, <2>11, <1>4 DEF IsWayDown
    <3>3. Before(h[i], h[j])
      <4>1. CASE j = d
        BY <3>2, <4>1
      <4>2. CASE j # d
        <5>1. d \in 1..Len(h) /\ Before(h[d], h[j])
          BY <4>2, <2>8
        <5> QED BY <5>1, <3>2, <2>7, TidyTransitive
      <4> QED BY <4>1, <4>2
    <3> QED BY <3>3, <2>4, <2>5, <2>11
  <2>12. CASE j \in w /\ j = i
    <3>1. p \notin w
      BY <2>1, <2>12, <1>7
    <3>2. i # 1 /\ p = i \div 2
      BY <2>1, <2>12
    <3>3. Before(h[p], h[i])
      BY <2>1, <2>6, <2>12
    <3>4. c \in w => Before(h[p], h[c])
      <4> SUFFICES ASSUME c \in w PROVE Before(h[p], h[c])
        OBVIOUS
      <4>1. c \in Nat /\ c > j /\ c \div 2 = j
        BY <2>2, <2>1, MinChildPlace
      <4>2. c \in 2..Len(h)
        BY <4>1, <1>1, <1>7, <2>1
      <4> QED BY <4>1, <4>2, <3>2, <2>12
    <3> QED BY <3>1, <3>3, <3>4, <2>4, <2>5, <2>12
  <2>13. CASE j \in w /\ j # i
    <3>1. ~Before(h[i], h[j]) /\ p \in w /\ d = j
      BY <2>1, <2>3, <2>13, <1>4 DEF IsWayDown
    <3>2. Before(h[j], h[i])
      BY <3>1, <2>7, <2>13, TidyTotal
    <3>3. c \in w => Before(h[j], h[c])
      <4> SUFFICES ASSUME c \in w PROVE Before(h[j], h[c])
        OBVIOUS
      <4>1. c \in Nat /\ c > j /\ c \div 2 = j
        BY <2>2, <2>1, MinChildPlace
      <4>2. c \in 2..Len(h)
        BY <4>1, <1>1, <1>7, <2>1
      <4> QED BY <4>1, <4>2, <2>13
    <3> QED BY <3>1, <3>2, <3>3, <2>4, <2>5, <2>13
  <2> QED BY <2>9, <2>10, <2>11, <2>12, <2>13
<1>9. Len(r) = n
  BY <1>6
<1> QED BY <1>5, <1>8, <1>9 DEF Ordered

(* What a sift does to a heap: its elements change places.                 *)
ComesFrom(r, h, from, n) ==
  /\ from \in [1..n -> 1..n] /\ \A a, b \in 1..n : from[a] = from[b] => a = b
  /\ r = [j \in 1..n |-> h[from[j]]]

LEMMA Rearranged ==
  ASSUME NEW h, Tidy(h), NEW n \in Nat, n = Len(h), NEW from, NEW r, ComesFrom(r, h, from, n)
  PROVE  Tidy(r) /\ Len(r) = Len(h) /\ Elements(r) = Elements(h)
<1> USE DEF ComesFrom
<1>1. Len(r) = n /\ DOMAIN r = 1..n
  OBVIOUS
<1>2. DOMAIN h = 1..n /\ \A j \in 1..n : h[j] \in Element
  BY DEF Tidy
<1>3. \A j \in 1..n : r[j] = h[from[j]] /\ from[j] \in 1..n
  OBVIOUS
<1>4. r \in Seq(Element)
  <2>1. r \in [1..n -> Element]
    BY <1>2, <1>3
  <2> QED BY <2>1
<1>5. \A a, b \in 1..n : r[a].seq = r[b].seq => a = b
  <2> SUFFICES ASSUME NEW a \in 1..n, NEW b \in 1..n, r[a].seq = r[b].seq PROVE a = b
    OBVIOUS
  <2>1. from[a] = from[b]
    BY <1>3 DEF Tidy
  <2> QED BY <2>1
<1>6. \A k \in 1..n : \E j \in 1..n : from[j] = k
  <2>1. IsFiniteSet(1..n)
    BY FS_Interval
  <2>2. from \in Injection(1..n, 1..n)
    BY DEF Injection, IsInjective
  <2>3. from \in Surjection(1..n, 1..n)
    BY <2>1, <2>2, FS_Injection
  <2> QED BY <2>3 DEF Surjection
<1>7. Elements(r) = {r[j] : j \in 1..n} /\ Elements(h) = {h[j] : j \in 1..n}
  BY <1>1, <1>2 DEF Elements
<1>8. {r[j] : j \in 1..n} = {h[j] : j \in 1..n}
  BY <1>3, <1>6
<1>9. Tidy(r)
  BY <1>1, <1>4, <1>5 DEF Tidy
<1> QED BY <1>1, <1>7, <1>8, <1>9

LEMMA SiftUpRearranges ==
  ASSUME NEW h, Tidy(h), NEW i \in 1..Len(h)
  PROVE  Tidy(SiftUp(h, i)) /\ Len(SiftUp(h, i)) = Len(h) /\ Elements(SiftUp(h, i)) = Elements(h)
<1>1. PICK n \in Nat : n = Len(h)
  BY DEF Tidy
<1>2. PICK w : w = WayUp(h, i)
  OBVIOUS
<1>3. i \in Nat /\ i # 0 /\ i \in 1..n
  BY <1>1
<1>4. IsWayUp(h, h[i], i, w)
  <2>1. i \in 1..i
    BY <1>3
  <2> QED BY <2>1, <1>2, <1>3, WayUpShape DEF WayUp
<1>5. w \subseteq 1..n /\ \A k \in w : k <= i
  BY <1>1, <1>3, <1>4 DEF IsWayUp
<1> DEFINE from == [j \in 1..n |-> IF j \notin w THEN j ELSE IF j \div 2 \in w THEN j \div 2 ELSE i]
<1>6. from \in [1..n -> 1..n]
  BY <1>3, <1>5
<1>7. \A a, b \in 1..n : from[a] = from[b] => a = b
  <2> SUFFICES ASSUME NEW a \in 1..n, NEW b \in 1..n, from[a] = from[b] PROVE a = b
    OBVIOUS
  <2>1. /\ from[a] = (IF a \notin w THEN a ELSE IF a \div 2 \in w THEN a \div 2 ELSE i)
        /\ from[b] = (IF b \notin w THEN b ELSE IF b \div 2 \in w THEN b \div 2 ELSE i)
    OBVIOUS
  <2> HIDE DEF from
  <2>2. i \in w
    BY <1>4 DEF IsWayUp
  <2>3. (a \in w) <=> (b \in w)
    BY <2>1, <2>2
  <2>4. CASE a \notin w
    BY <2>1, <2>3, <2>4
  <2>5. CASE a \in w
    <3>1. a \in Nat /\ a # 0 /\ a <= i /\ b \in Nat /\ b # 0 /\ b <= i /\ b \in w
      BY <2>3, <2>5, <1>5
    <3>2. a \div 2 # i /\ b \div 2 # i
      <4>1. a \div 2 < a /\ b \div 2 < b /\ a \div 2 \in Nat /\ b \div 2 \in Nat
        BY <3>1, HalfBelow
      <4> QED BY <4>1, <3>1
    <3>3. CASE a \div 2 \in w
      <4>1. a \div 2 = b \div 2
        BY <2>1, <2>5, <3>1, <3>2, <3>3
      <4> QED BY <4>1, <3>1, <3>3, <2>5, <1>4 DEF IsWayUp
    <3>4. CASE a \div 2 \notin w
      <4>1. b \div 2 \notin w
        BY <2>1, <2>5, <3>1, <3>2, <3>4
      <4> QED BY <4>1, <3>1, <3>4, <2>5, <1>4 DEF IsWayUp
    <3> QED BY <3>3, <3>4
  <2> QED BY <2>4, <2>5
<1>8. SiftUp(h, i) = [j \in 1..n |-> h[from[j]]]
  <2>1. SiftUp(h, i) = [j \in 1..n |-> IF j \notin w THEN h[j]
                                       ELSE IF j \div 2 \in w THEN h[j \div 2] ELSE h[i]]
    BY <1>1, <1>2 DEF SiftUp
  <2>2. \A j \in 1..n : h[from[j]] = (IF j \notin w THEN h[j]
                                      ELSE IF j \div 2 \in w THEN h[j \div 2] ELSE h[i])
    OBVIOUS
  <2> HIDE DEF from
  <2> QED BY <2>1, <2>2
<1> HIDE DEF from
<1>9. PICK r : r = SiftUp(h, i)
  OBVIOUS
<1>10. ComesFrom(r, h, from, n)
  BY <1>6, <1>7, <1>8, <1>9 DEF ComesFrom
<1>11. Tidy(r) /\ Len(r) = Len(h) /\ Elements(r) = Elements(h)
  BY <1>1, <1>10, Rearranged
<1> QED BY <1>9, <1>11

LEMMA SiftDownRearranges ==
  ASSUME NEW h, Tidy(h), NEW i \in 1..Len(h)
  PROVE  Tidy(SiftDown(h, i)) /\ Len(SiftDown(h, i)) = Len(h) /\ Elements(SiftDown(h, i)) = Elements(h)
<1>1. PICK n \in Nat : n = Len(h)
  BY DEF Tidy
<1>2. PICK w : w = WayDown(h, i)
  OBVIOUS
<1>3. i \in Nat /\ i # 0 /\ i \in 1..n
  BY <1>1
<1>4. IsWayDown(h, h[i], i, w)
  BY <1>1, <1>2, WayDownShape DEF WayDown
<1>5. w \subseteq 1..n /\ i \in w /\ \A k \in w : i <= k
  BY <1>1, <1>3, <1>4 DEF IsWayDown
<1> DEFINE from == [j \in 1..n |-> IF j \notin w THEN j
                                   ELSE IF MinChild(h, j) \in w THEN MinChild(h, j) ELSE i]
<1>6. from \in [1..n -> 1..n]
  BY <1>3, <1>5
<1>7. \A a, b \in 1..n : from[a] = from[b] => a = b
  <2> SUFFICES ASSUME NEW a \in 1..n, NEW b \in 1..n, from[a] = from[b] PROVE a = b
    OBVIOUS
  <2>1. /\ from[a] = (IF a \notin w THEN a ELSE IF MinChild(h, a) \in w THEN MinChild(h, a) ELSE i)
        /\ from[b] = (IF b \notin w THEN b ELSE IF MinChild(h, b) \in w THEN MinChild(h, b) ELSE i)
    OBVIOUS
  <2> HIDE DEF from
  <2>2. (a \in w) <=> (b \in w)
    BY <2>1, <1>5
  <2>3. CASE a \notin w
    BY <2>1, <2>2, <2>3
  <2>4. CASE a \in w
    <3>1. a \in Nat /\ a # 0 /\ i <= a /\ b \in Nat /\ b # 0 /\ i <= b /\ b \in w
      BY <2>2, <2>4, <1>5
    <3>2. /\ MinChild(h, a) \in Nat /\ MinChild(h, a) > a /\ MinChild(h, a) \div 2 = a
          /\ MinChild(h, b) \in Nat /\ MinChild(h, b) > b /\ MinChild(h, b) \div 2 = b
      BY <3>1, MinChildPlace
    <3>3. MinChild(h, a) # i /\ MinChild(h, b) # i
      BY <3>1, <3>2, <1>3
    <3>4. CASE MinChild(h, a) \in w
      <4>1. MinChild(h, a) = MinChild(h, b)
        BY <2>1, <2>4, <3>1, <3>3, <3>4
      <4> QED BY <4>1, <3>2
    <3>5. CASE MinChild(h, a) \notin w
      <4>1. MinChild(h, b) \notin w
        BY <2>1, <2>4, <3>1, <3>3, <3>5
      <4> QED BY <4>1, <3>1, <3>5, <2>4, <1>4 DEF IsWayDown
    <3> QED BY <3>4, <3>5
  <2> QED BY <2>3, <2>4
<1>8. SiftDown(h, i) = [j \in 1..n |-> h[from[j]]]
  <2>1. SiftDown(h, i) = [j \in 1..n |-> IF j \notin w THEN h[j]
                                         ELSE IF MinChild(h, j) \in w THEN h[MinChild(h, j)] ELSE h[i]]
    BY <1>1, <1>2 DEF SiftDown
  <2>2. \A j \in 1..n : h[from[j]] = (IF j \notin w THEN h[j]
                                      ELSE IF MinChild(h, j) \in w THEN h[MinChild(h, j)] ELSE h[i])
    OBVIOUS
  <2> HIDE DEF from
  <2> QED BY <2>1, <2>2
<1> HIDE DEF from
<1>9. PICK r : r = SiftDown(h, i)
  OBVIOUS
<1>10. ComesFrom(r, h, from, n)
  BY <1>6, <1>7, <1>8, <1>9 DEF ComesFrom
<1>11. Tidy(r) /\ Len(r) = Len(h) /\ Elements(r) = Elements(h)
  BY <1>1, <1>10, Rearranged
<1> QED BY <1>9, <1>11
-----------------------------------------------------------------------------
(* The operations of the heap keep it ordered and lose no element.         *)
LEMMA InsertKeeps ==
  ASSUME NEW h, Tidy(h), Ordered(h), NEW e \in Element, \A a \in 1..Len(h) : h[a].seq # e.seq
  PROVE  /\ Tidy(Insert(h, e)) /\ Ordered(Insert(h, e))
         /\ Elements(Insert(h, e)) = Elements(h) \cup {e}
         /\ Len(Insert(h, e)) = Len(h) + 1
<1>1. PICK n \in Nat : n = Len(h)
  BY DEF Tidy
<1>2. PICK g : g = Append(h, e)
  OBVIOUS
<1>3. PICK i : i = n + 1
  OBVIOUS
<1>4. Len(g) = n + 1 /\ (\A a \in 1..n : g[a] = h[a]) /\ g[i] = e /\ g \in Seq(Element)
  BY <1>1, <1>2, <1>3 DEF Tidy
<1>5. Tidy(g)
  <2> SUFFICES ASSUME NEW a \in 1..(n + 1), NEW b \in 1..(n + 1), g[a].seq = g[b].seq PROVE a = b
    BY <1>4 DEF Tidy
  <2>1. CASE a \in 1..n /\ b \in 1..n
    BY <2>1, <1>1, <1>4 DEF Tidy
  <2>2. CASE a = n + 1 \/ b = n + 1
    BY <2>2, <1>1, <1>3, <1>4
  <2> QED BY <2>1, <2>2, <1>1
<1>6. i \in 1..Len(g)
  BY <1>1, <1>3, <1>4
<1>7. \A j \in 2..Len(g) : j \div 2 # i
  <2> SUFFICES ASSUME NEW j \in 2..(n + 1) PROVE j \div 2 # i
    BY <1>4
  <2>1. j \in Nat /\ j # 0 /\ j <= i
    BY <1>1, <1>3
  <2> QED BY <2>1, <1>1, <1>3, HalfBelow
<1>8. \A j \in 2..Len(g) : j # i => Before(g[j \div 2], g[j])
  <2> SUFFICES ASSUME NEW j \in 2..(n + 1), j # i PROVE Before(g[j \div 2], g[j])
    BY <1>4
  <2>1. j \in 2..n
    BY <1>1, <1>3
  <2>2. PICK p \in 1..n : p = j \div 2 /\ j \in 1..n
    BY <2>1, <1>1, ParentPlace
  <2>3. Before(h[p], h[j])
    BY <2>1, <2>2, <1>1 DEF Ordered
  <2> QED BY <2>2, <2>3, <1>4
<1>9. Ordered(SiftUp(g, i))
  BY <1>5, <1>6, <1>7, <1>8, SiftUpOrders
<1>10. Tidy(SiftUp(g, i)) /\ Len(SiftUp(g, i)) = Len(g) /\ Elements(SiftUp(g, i)) = Elements(g)
  BY <1>5, <1>6, SiftUpRearranges
<1>11. Elements(g) = Elements(h) \cup {e}
  <2>1. Elements(g) = {g[a] : a \in 1..(n + 1)} /\ Elements(h) = {h[a] : a \in 1..n}
    <3>1. DOMAIN g = 1..(n + 1) /\ DOMAIN h = 1..n
      BY <1>1, <1>4 DEF Tidy
    <3> QED BY <3>1 DEF Elements
  <2>2. 1..(n + 1) = 1..n \cup {n + 1}
    BY <1>1
  <2> QED BY <2>1, <2>2, <1>3, <1>4
<1>12. Insert(h, e) = SiftUp(g, i)
  BY <1>1, <1>2, <1>3 DEF Insert
<1> QED BY <1>1, <1>4, <1>9, <1>10, <1>11, <1>12

(* The heap g is h without the i-th, the last in its place.                *)
LEMMA FilledIs ==
  ASSUME NEW h, Tidy(h), NEW i \in 1..Len(h)
  PROVE  /\ Tidy(Filled(h, i)) /\ Len(Filled(h, i)) = Len(h) - 1
         /\ \A j \in 1..(Len(h) - 1) : Filled(h, i)[j] = IF j = i THEN h[Len(h)] ELSE h[j]
         /\ Elements(Filled(h, i)) = Elements(h) \ {h[i]}
<1>1. PICK n \in Nat : n = Len(h)
  BY DEF Tidy
<1>2. PICK f : f = [h EXCEPT ![i] = h[n]]
  OBVIOUS
<1>3. PICK g : g = SubSeq(f, 1, n - 1)
  OBVIOUS
<1>4. n >= 1 /\ n \in 1..n /\ i \in 1..n
  BY <1>1
<1>5. \A j \in 1..n : h[j] \in Element
  BY <1>1, TidyElements
<1>6. f \in Seq(Element) /\ Len(f) = n
  BY <1>1, <1>2, <1>4, <1>5 DEF Tidy
<1>7. \A j \in 1..n : f[j] = IF j = i THEN h[n] ELSE h[j]
  BY <1>1, <1>2 DEF Tidy
<1>8. g \in Seq(Element) /\ Len(g) = n - 1 /\ \A j \in 1..(n - 1) : g[j] = f[j]
  BY <1>3, <1>4, <1>6
<1>9. \A j \in 1..(n - 1) : g[j] = IF j = i THEN h[n] ELSE h[j]
  BY <1>7, <1>8
<1>10. Tidy(g)
  <2> SUFFICES ASSUME NEW a \in 1..(n - 1), NEW b \in 1..(n - 1), g[a].seq = g[b].seq PROVE a = b
    BY <1>8 DEF Tidy
  <2>1. PICK c \in 1..n : g[a] = h[c] /\ c = (IF a = i THEN n ELSE a)
    BY <1>4, <1>9
  <2>2. PICK d \in 1..n : g[b] = h[d] /\ d = (IF b = i THEN n ELSE b)
    BY <1>4, <1>9
  <2>3. c = d
    BY <2>1, <2>2, <1>1 DEF Tidy
  <2> QED BY <2>1, <2>2, <2>3, <1>1
<1>11. Elements(g) = Elements(h) \ {h[i]}
  <2>1. Elements(g) = {g[a] : a \in 1..(n - 1)} /\ Elements(h) = {h[a] : a \in 1..n}
    <3>1. DOMAIN g = 1..(n - 1) /\ DOMAIN h = 1..n
      BY <1>1, <1>8 DEF Tidy
    <3> QED BY <3>1 DEF Elements
  <2>2. \A a \in 1..n : h[a] = h[i] => a = i
    BY <1>1 DEF Tidy
  <2>3. ASSUME NEW a \in 1..(n - 1) PROVE \E b \in 1..n : b # i /\ g[a] = h[b]
    <3>1. CASE a = i
      <4>1. n # i /\ g[a] = h[n]
        BY <3>1, <1>1, <1>9
      <4> QED BY <4>1, <1>4
    <3>2. CASE a # i
      BY <3>2, <1>9
    <3> QED BY <3>1, <3>2
  <2>4. ASSUME NEW b \in 1..n, b # i PROVE \E a \in 1..(n - 1) : g[a] = h[b]
    <3>1. CASE b = n
      <4>1. i \in 1..(n - 1)
        BY <3>1, <2>4, <1>4
      <4>2. g[i] = h[n]
        BY <4>1, <1>9
      <4> QED BY <4>1, <4>2, <3>1
    <3>2. CASE b # n
      <4>1. b \in 1..(n - 1)
        BY <3>2, <1>1
      <4>2. g[b] = h[b]
        BY <4>1, <2>4, <1>9
      <4> QED BY <4>1, <4>2
    <3> QED BY <3>1, <3>2
  <2>5. ASSUME NEW x, x \in Elements(g) PROVE x \in Elements(h) \ {h[i]}
    <3>1. PICK a \in 1..(n - 1) : x = g[a]
      BY <2>1, <2>5
    <3>2. PICK b \in 1..n : b # i /\ g[a] = h[b]
      BY <2>3
    <3>3. h[b] # h[i] /\ h[b] \in Elements(h)
      BY <2>1, <2>2, <3>2
    <3> QED BY <3>1, <3>2, <3>3
  <2>6. ASSUME NEW x, x \in Elements(h) \ {h[i]} PROVE x \in Elements(g)
    <3>1. PICK b \in 1..n : x = h[b] /\ b # i
      BY <2>1, <2>6
    <3>2. PICK a \in 1..(n - 1) : g[a] = h[b]
      BY <2>4, <3>1
    <3> QED BY <2>1, <3>1, <3>2
  <2> QED BY <2>5, <2>6
<1>12. Filled(h, i) = g
  BY <1>1, <1>2, <1>3 DEF Filled
<1> QED BY <1>1, <1>8, <1>9, <1>10, <1>11, <1>12

(* What a sift needs of it.                                                *)
LEMMA FilledAlmostOrdered ==
  ASSUME NEW h, Tidy(h), Ordered(h), NEW i \in 1..Len(h), i # Len(h), NEW g, g = Filled(h, i)
  PROVE  /\ i \in 1..Len(g)
         /\ \A j \in 2..Len(g) : j # i /\ j \div 2 # i => Before(g[j \div 2], g[j])
         /\ \A j \in 2..Len(g) : j \div 2 = i /\ i # 1 => Before(g[i \div 2], g[j])
<1>1. PICK n \in Nat : n = Len(h)
  BY DEF Tidy
<1>2. Len(g) = n - 1 /\ \A j \in 1..(n - 1) : g[j] = IF j = i THEN h[n] ELSE h[j]
  <2>1. /\ Len(Filled(h, i)) = Len(h) - 1
        /\ \A j \in 1..(Len(h) - 1) : Filled(h, i)[j] = IF j = i THEN h[Len(h)] ELSE h[j]
    BY FilledIs
  <2> QED BY <2>1, <1>1, Zenon
<1>3. i \in 1..(n - 1) /\ i \in Nat
  BY <1>1
<1>4. n - 1 \in Nat
  BY <1>3, <1>1
<1>5. ASSUME NEW j \in 2..(n - 1)
      PROVE  \E p \in 1..(n - 1) : p = j \div 2 /\ p < j /\ j \in 1..(n - 1) /\ Before(h[p], h[j])
  <2>1. PICK p \in 1..(n - 1) : p = j \div 2 /\ p < j /\ j \in 1..(n - 1)
    BY <1>4, ParentPlace
  <2>2. j \in 2..Len(h)
    BY <1>1
  <2> QED BY <2>1, <2>2 DEF Ordered
<1>6. ASSUME NEW j \in 2..(n - 1), j # i, j \div 2 # i PROVE Before(g[j \div 2], g[j])
  <2>1. PICK p \in 1..(n - 1) : p = j \div 2 /\ p < j /\ j \in 1..(n - 1) /\ Before(h[p], h[j])
    BY <1>5
  <2> QED BY <2>1, <1>2, <1>6
<1>7. ASSUME NEW j \in 2..(n - 1), j \div 2 = i, i # 1 PROVE Before(g[i \div 2], g[j])
  <2>1. Before(h[i], h[j]) /\ j \in 1..(n - 1) /\ i < j
    BY <1>5, <1>7
  <2>2. i \in 2..(n - 1)
    BY <1>3, <1>7
  <2>3. PICK q \in 1..(n - 1) : q = i \div 2 /\ q < i /\ Before(h[q], h[i])
    BY <2>2, <1>5
  <2>4. Before(h[q], h[j])
    <3>1. q \in 1..Len(h) /\ j \in 1..Len(h)
      BY <2>1, <2>3, <1>1
    <3> QED BY <3>1, <2>1, <2>3, TidyTransitive
  <2>5. g[q] = h[q] /\ g[j] = h[j]
    BY <2>1, <2>3, <1>2
  <2> QED BY <2>3, <2>4, <2>5
<1> QED BY <1>2, <1>3, <1>6, <1>7

LEMMA TakeOutKeeps ==
  ASSUME NEW h, Tidy(h), Ordered(h), NEW i \in 1..Len(h)
  PROVE  /\ Tidy(TakeOut(h, i)) /\ Ordered(TakeOut(h, i))
         /\ Elements(TakeOut(h, i)) = Elements(h) \ {h[i]}
<1>1. PICK g : g = Filled(h, i)
  OBVIOUS
<1>2. /\ Tidy(g) /\ Len(g) = Len(h) - 1 /\ Elements(g) = Elements(h) \ {h[i]}
      /\ \A j \in 1..(Len(h) - 1) : g[j] = IF j = i THEN h[Len(h)] ELSE h[j]
  BY <1>1, FilledIs
<1>3. CASE i = Len(h)
  <2>1. TakeOut(h, i) = g
    BY <1>1, <1>3 DEF TakeOut
  <2>2. Ordered(g)
    <3>1. PICK n \in Nat : n = Len(h)
      BY DEF Tidy
    <3> SUFFICES ASSUME NEW j \in 2..(n - 1) PROVE Before(g[j \div 2], g[j])
      BY <3>1, <1>2 DEF Ordered
    <3>2. n - 1 \in Nat /\ j \in 2..n
      BY <3>1
    <3>3. PICK p \in 1..(n - 1) : p = j \div 2 /\ j \in 1..(n - 1)
      BY <3>2, ParentPlace
    <3>4. g[p] = h[p] /\ g[j] = h[j]
      BY <3>1, <3>3, <1>2, <1>3
    <3> QED BY <3>1, <3>2, <3>3, <3>4 DEF Ordered
  <2> QED BY <2>1, <2>2, <1>2
<1>4. CASE i # Len(h)
  <2>1. /\ i \in 1..Len(g)
        /\ \A j \in 2..Len(g) : j # i /\ j \div 2 # i => Before(g[j \div 2], g[j])
        /\ \A j \in 2..Len(g) : j \div 2 = i /\ i # 1 => Before(g[i \div 2], g[j])
    BY <1>1, <1>4, FilledAlmostOrdered
  <2>2. CASE WayUp(g, i) # {i}
    <3>1. TakeOut(h, i) = SiftUp(g, i)
      BY <1>1, <1>4, <2>2 DEF TakeOut
    <3>2. Ordered(SiftUp(g, i))
      BY <2>1, <2>2, <1>2, SiftUpOrders
    <3>3. Tidy(SiftUp(g, i)) /\ Elements(SiftUp(g, i)) = Elements(g)
      BY <2>1, <1>2, SiftUpRearranges
    <3> QED BY <3>1, <3>2, <3>3, <1>2
  <2>3. CASE WayUp(g, i) = {i}
    <3>1. TakeOut(h, i) = SiftDown(g, i)
      BY <1>1, <1>4, <2>3 DEF TakeOut
    <3>2. i \in Nat /\ i # 0 /\ i \in 1..i
      BY <1>2, <2>1 DEF Tidy
    <3>3. IsWayUp(g, g[i], i, {i})
      BY <3>2, <2>3, WayUpShape DEF WayUp
    <3>4. i = 1 \/ Before(g[i \div 2], g[i])
      <4>1. i \div 2 # i
        BY <3>2, HalfBelow
      <4> QED BY <4>1, <3>3 DEF IsWayUp
    <3>5. \A j \in 2..Len(g) : j \div 2 # i => Before(g[j \div 2], g[j])
      <4> SUFFICES ASSUME NEW j \in 2..Len(g), j \div 2 # i PROVE Before(g[j \div 2], g[j])
        OBVIOUS
      <4>1. CASE j = i
        <5>1. i # 1
          BY <4>1, <1>2 DEF Tidy
        <5> QED BY <5>1, <4>1, <3>4
      <4>2. CASE j # i
        BY <4>2, <2>1
      <4> QED BY <4>1, <4>2
    <3>6. Ordered(SiftDown(g, i))
      BY <2>1, <3>5, <1>2, SiftDownOrders
    <3>7. Tidy(SiftDown(g, i)) /\ Elements(SiftDown(g, i)) = Elements(g)
      BY <2>1, <1>2, SiftDownRearranges
    <3> QED BY <3>1, <3>6, <3>7, <1>2
  <2> QED BY <2>2, <2>3
<1> QED BY <1>3, <1>4

LEMMA PopKeeps ==
  ASSUME NEW h, Tidy(h), Ordered(h), h # <<>>
  PROVE  /\ Tidy(Pop(h)) /\ Ordered(Pop(h))
         /\ Elements(Pop(h)) = Elements(h) \ {h[1]}
<1>1. 1 \in 1..Len(h) /\ Len(h) \in Nat
  BY DEF Tidy
<1>2. PICK g : g = Filled(h, 1)
  OBVIOUS
<1>3. Tidy(g) /\ Len(g) = Len(h) - 1 /\ Elements(g) = Elements(h) \ {h[1]}
  BY <1>1, <1>2, FilledIs
<1>4. CASE Len(h) = 1
  <2>1. Pop(h) = <<>>
    BY <1>4 DEF Pop
  <2>2. g = <<>>
    BY <1>3, <1>4 DEF Tidy
  <2>3. Ordered(g)
    BY <1>3, <1>4 DEF Ordered
  <2> QED BY <2>1, <2>2, <2>3, <1>3
<1>5. CASE Len(h) # 1
  <2>1. Pop(h) = SiftDown(g, 1)
    BY <1>2, <1>5 DEF Pop
  <2>2. /\ 1 \in 1..Len(g)
        /\ \A j \in 2..Len(g) : j # 1 /\ j \div 2 # 1 => Before(g[j \div 2], g[j])
    <3>1. PICK i \in 1..Len(h) : i = 1
      BY <1>1
    <3>2. i # Len(h) /\ g = Filled(h, i)
      BY <3>1, <1>2, <1>5
    <3>3. /\ i \in 1..Len(g)
          /\ \A j \in 2..Len(g) : j # i /\ j \div 2 # i => Before(g[j \div 2], g[j])
      BY <3>2, FilledAlmostOrdered
    <3> QED BY <3>1, <3>3
  <2>3. \A j \in 2..Len(g) : j \div 2 # 1 => Before(g[j \div 2], g[j])
    BY <2>2, <1>3 DEF Tidy
  <2>4. Ordered(SiftDown(g, 1))
    BY <2>2, <2>3, <1>3, SiftDownOrders
  <2>5. Tidy(SiftDown(g, 1)) /\ Elements(SiftDown(g, 1)) = Elements(g)
    BY <2>2, <1>3, SiftDownRearranges
  <2> QED BY <2>1, <2>4, <2>5, <1>3
<1> QED BY <1>4, <1>5

(* The root comes before every other element.                              *)
LEMMA RootFirst ==
  ASSUME NEW h, Tidy(h), Ordered(h), NEW j \in 2..Len(h)
  PROVE  Before(h[1], h[j])
<1>1. PICK n \in Nat : n = Len(h)
  BY DEF Tidy
<1> DEFINE T == {k \in 2..n : ~Before(h[1], h[k])}
<1>2. SUFFICES ASSUME T # {} PROVE FALSE
  BY <1>1
<1>3. PICK k \in T : \A m \in T : k <= m
  <2>1. T \subseteq Nat
    OBVIOUS
  <2> HIDE DEF T
  <2> QED BY <1>2, <2>1, LeastNatural
<1>4. k \in 2..n /\ ~Before(h[1], h[k])
  BY <1>3
<1>5. PICK p \in 1..n : p = k \div 2 /\ p < k /\ k \in 1..n
  BY <1>4, ParentPlace
<1>6. Before(h[p], h[k])
  BY <1>1, <1>4, <1>5 DEF Ordered
<1>7. p # 1
  BY <1>4, <1>6
<1>8. p \in 2..n /\ ~(k <= p)
  BY <1>4, <1>5, <1>7
<1>9. p \notin T
  <2> HIDE DEF T
  <2> QED BY <1>3, <1>8
<1>10. Before(h[1], h[p])
  BY <1>8, <1>9
<1>11. 1 \in 1..Len(h) /\ p \in 1..Len(h) /\ k \in 1..Len(h)
  BY <1>1, <1>5
<1>12. Before(h[1], h[k])
  BY <1>6, <1>10, <1>11, TidyTransitive
<1> QED BY <1>4, <1>12
OwnTimer == [id : Nat, deadline : Nat]
(* The timers with a native timer of their own, each under its own id.     *)
Single(q) ==
  /\ q \in Seq(OwnTimer)
  /\ \A a, b \in 1..Len(q) : q[a].id = q[b].id => a = b

(* No two timers of those with a native timer and those of the heap have   *)
(* the same id, and all have one of the first n.                           *)
Apart(own, queue, n) ==
  /\ \A x \in own \cup queue : x.id \in 1..n
  /\ \A x, y \in queue : x.id = y.id => x = y
  /\ \A x \in own, y \in queue : x.id # y.id

(* What runs, at the time t, after n timers: nothing, a tick, which has    *)
(* read the time, or the migration for a timer that is in neither store yet*)
Runs(j, t, n, own, queue) ==
  \/ j = IdleJob
  \/ j \in [kind : {"tick"}, now : Nat] /\ j.now <= t
  \/ /\ j \in [kind : {"migrate"}, id : 1..n, ms : Delays]
     /\ \A x \in own \cup queue : x.id # j.id

TimersInv ==
  /\ added \in 0..MaxTimers /\ clock \in Nat /\ counter \in Nat
  /\ Single(direct)
  /\ Tidy(heap) /\ Ordered(heap)
  /\ \A x \in Elements(heap) : x.seq < counter
  /\ Apart(Elements(direct), Elements(heap), added)
  /\ Runs(job, clock, added, Elements(direct), Elements(heap))
-----------------------------------------------------------------------------
LEMMA WithoutIs ==
  ASSUME NEW q, Single(q), NEW i \in DOMAIN q
  PROVE  /\ Single(Without(q, i))
         /\ q[i] \in OwnTimer /\ q[i] \in Elements(q)
         /\ Elements(Without(q, i)) = Elements(q) \ {q[i]}
<1>1. PICK n \in Nat : n = Len(q) /\ DOMAIN q = 1..n
  BY DEF Single
<1>2. i \in 1..n /\ n - 1 \in Nat
  BY <1>1
<1>3. PICK w : w = Without(q, i)
  OBVIOUS
<1>4. \A j \in 1..n : q[j] \in OwnTimer
  BY <1>1 DEF Single
<1>5. w = [j \in 1..(n - 1) |-> IF j < i THEN q[j] ELSE q[j + 1]]
  BY <1>1, <1>3 DEF Without
<1>6. \A j \in 1..(n - 1) : \E k \in 1..n : w[j] = q[k] /\ k # i /\ k = IF j < i THEN j ELSE j + 1
  BY <1>2, <1>5
<1>7. w \in Seq(OwnTimer) /\ Len(w) = n - 1 /\ DOMAIN w = 1..(n - 1)
  BY <1>2, <1>4, <1>5, <1>6
<1>8. Single(w)
  <2> SUFFICES ASSUME NEW a \in 1..(n - 1), NEW b \in 1..(n - 1), w[a].id = w[b].id PROVE a = b
    BY <1>7 DEF Single
  <2>1. PICK c \in 1..n : w[a] = q[c] /\ c = IF a < i THEN a ELSE a + 1
    BY <1>6
  <2>2. PICK d \in 1..n : w[b] = q[d] /\ d = IF b < i THEN b ELSE b + 1
    BY <1>6
  <2>3. c = d
    BY <2>1, <2>2, <1>1 DEF Single
  <2> QED BY <2>1, <2>2, <2>3, <1>2
<1>9. Elements(w) = {w[a] : a \in 1..(n - 1)} /\ Elements(q) = {q[a] : a \in 1..n}
  BY <1>1, <1>7 DEF Elements
<1>10. \A a \in 1..n : q[a] = q[i] => a = i
  BY <1>1, <1>2 DEF Single
<1>11. ASSUME NEW x, x \in Elements(w) PROVE x \in Elements(q) \ {q[i]}
  <2>1. PICK a \in 1..(n - 1) : x = w[a]
    BY <1>9, <1>11
  <2>2. PICK k \in 1..n : k # i /\ w[a] = q[k]
    BY <1>6
  <2> QED BY <2>1, <2>2, <1>9, <1>10
<1>12. ASSUME NEW x, x \in Elements(q) \ {q[i]} PROVE x \in Elements(w)
  <2>1. PICK k \in 1..n : x = q[k] /\ k # i
    BY <1>9, <1>12
  <2>2. CASE k < i
    <3>1. k \in 1..(n - 1) /\ w[k] = q[k]
      BY <2>1, <2>2, <1>2, <1>5
    <3> QED BY <3>1, <2>1, <1>9
  <2>3. CASE ~(k < i)
    <3>1. k - 1 \in 1..(n - 1) /\ ~(k - 1 < i) /\ k - 1 + 1 = k
      BY <2>1, <2>3, <1>2
    <3>2. w[k - 1] = q[k]
      BY <3>1, <1>5
    <3> QED BY <3>1, <3>2, <2>1, <1>9
  <2> QED BY <2>2, <2>3
<1>13. Elements(w) = Elements(q) \ {q[i]}
  BY <1>11, <1>12
<1>14. q[i] \in OwnTimer /\ q[i] \in Elements(q)
  BY <1>2, <1>4, <1>9
<1> QED BY <1>3, <1>8, <1>13, <1>14

LEMMA TailIs ==
  ASSUME NEW q, Single(q), q # <<>>
  PROVE  /\ Single(Tail(q))
         /\ Head(q) \in OwnTimer /\ Head(q) \in Elements(q)
         /\ Elements(Tail(q)) = Elements(q) \ {Head(q)}
<1>1. PICK i : i = 1
  OBVIOUS
<1>2. i \in DOMAIN q /\ Head(q) = q[i]
  BY <1>1 DEF Single
<1>3. Tail(q) = Without(q, i)
  <2>1. PICK n \in Nat : n = Len(q) /\ n # 0 /\ q \in Seq(OwnTimer)
    BY DEF Single
  <2>2. /\ Tail(q) \in Seq(OwnTimer) /\ Len(Tail(q)) = n - 1
        /\ \A j \in 1..(n - 1) : Tail(q)[j] = q[j + 1]
    BY <2>1, HeadTailProperties
  <2>3. Without(q, i) = [j \in 1..(n - 1) |-> q[j + 1]]
    BY <2>1, <1>1 DEF Without
  <2>4. Without(q, i) \in Seq(OwnTimer) /\ Len(Without(q, i)) = n - 1
    BY <2>1, <2>3
  <2> QED BY <2>2, <2>3, <2>4, SeqEqual
<1>4. /\ Single(Without(q, i))
      /\ q[i] \in OwnTimer /\ q[i] \in Elements(q)
      /\ Elements(Without(q, i)) = Elements(q) \ {q[i]}
  BY <1>2, WithoutIs
<1> QED BY <1>2, <1>3, <1>4, Zenon

LEMMA AppendIs ==
  ASSUME NEW q, Single(q), NEW t \in OwnTimer, \A x \in Elements(q) : x.id # t.id
  PROVE  /\ Single(Append(q, t))
         /\ Elements(Append(q, t)) = Elements(q) \cup {t}
<1>1. PICK n \in Nat : n = Len(q) /\ DOMAIN q = 1..n /\ q \in Seq(OwnTimer)
  BY DEF Single
<1>2. PICK w : w = Append(q, t)
  OBVIOUS
<1>3. /\ w \in Seq(OwnTimer) /\ Len(w) = n + 1 /\ DOMAIN w = 1..(n + 1) /\ w[n + 1] = t
      /\ \A j \in 1..n : w[j] = q[j]
  BY <1>1, <1>2
<1>4. Elements(w) = {w[a] : a \in 1..(n + 1)} /\ Elements(q) = {q[a] : a \in 1..n}
  BY <1>1, <1>3 DEF Elements
<1>5. \A j \in 1..n : q[j].id # t.id
  BY <1>4
<1>6. Single(w)
  <2> SUFFICES ASSUME NEW a \in 1..(n + 1), NEW b \in 1..(n + 1), w[a].id = w[b].id PROVE a = b
    BY <1>3 DEF Single
  <2>1. CASE a \in 1..n /\ b \in 1..n
    BY <2>1, <1>1, <1>3 DEF Single
  <2>2. CASE a = n + 1 \/ b = n + 1
    BY <2>2, <1>3, <1>5
  <2> QED BY <2>1, <2>2
<1>7. Elements(w) = Elements(q) \cup {t}
  <2>1. 1..(n + 1) = 1..n \cup {n + 1}
    BY <1>1
  <2> QED BY <2>1, <1>3, <1>4
<1> QED BY <1>2, <1>6, <1>7

LEMMA HeapAddIs ==
  ASSUME TimersInv, NEW id \in Nat, NEW ms \in Nat, HeapAdd(id, ms)
  PROVE  \E e \in Element :
           /\ e.id = id /\ e.deadline = clock + ms
           /\ Tidy(heap') /\ Ordered(heap') /\ Elements(heap') = Elements(heap) \cup {e}
           /\ \A x \in Elements(heap) : x.seq < e.seq
           /\ counter' \in Nat /\ \A x \in Elements(heap') : x.seq < counter'
<1>1. PICK e : e = [id |-> id, deadline |-> clock + ms, seq |-> counter]
  OBVIOUS
<1>2. /\ clock \in Nat /\ counter \in Nat /\ Tidy(heap) /\ Ordered(heap)
      /\ \A x \in Elements(heap) : x.seq < counter
  BY DEF TimersInv
<1>3. e \in Element /\ e.id = id /\ e.deadline = clock + ms /\ e.seq = counter
  BY <1>1, <1>2 DEF Element
<1>4. heap' = Insert(heap, e) /\ counter' = counter + 1
  BY <1>1 DEF HeapAdd
<1>5. \A a \in 1..Len(heap) : heap[a] \in Elements(heap) /\ heap[a] \in Element
  BY <1>2 DEF Tidy, Elements
<1>6. \A a \in 1..Len(heap) : heap[a].seq # e.seq
  <2> SUFFICES ASSUME NEW a \in 1..Len(heap) PROVE heap[a].seq # e.seq
    OBVIOUS
  <2>1. heap[a].seq < counter /\ heap[a].seq \in Nat
    BY <1>2, <1>5 DEF Element
  <2> QED BY <2>1, <1>2, <1>3
<1>7. Tidy(heap') /\ Ordered(heap') /\ Elements(heap') = Elements(heap) \cup {e}
  BY <1>2, <1>3, <1>4, <1>6, InsertKeeps
<1>8. \A x \in Elements(heap) : x \in Element
  BY <1>2 DEF Tidy, Elements
<1>9. counter' \in Nat /\ \A x \in Elements(heap') : x.seq < counter'
  <2> SUFFICES ASSUME NEW x \in Elements(heap') PROVE x.seq < counter + 1
    BY <1>2, <1>4
  <2>1. CASE x = e
    BY <2>1, <1>2, <1>3
  <2>2. CASE x \in Elements(heap)
    BY <2>2, <1>2, <1>8 DEF Element
  <2> QED BY <2>1, <2>2, <1>7
<1> QED BY <1>2, <1>3, <1>7, <1>9
-----------------------------------------------------------------------------
(* Each action keeps the invariant and does for what Timers promises a     *)
(* step or nothing.                                                        *)
Implements == Promised!TNext \/ UNCHANGED Promised!tVars

LEMMA TimersBegin == ThInit => TimersInv /\ Promised!TInit
<1> SUFFICES ASSUME ThInit PROVE TimersInv /\ Promised!TInit
  OBVIOUS
<1>1. Elements(<<>>) = {} /\ Single(<<>>) /\ Tidy(<<>>) /\ Ordered(<<>>)
  BY DEF Elements, Single, Tidy, Ordered
<1>2. direct = <<>> /\ heap = <<>> /\ added = 0 /\ clock = 0 /\ counter = 0 /\ job = IdleJob /\ last = 0
  BY DEF ThInit
<1>3. 0 \in 0..MaxTimers
  BY TimerHeapAssumption
<1>4. TimersInv
  BY <1>1, <1>2, <1>3 DEF TimersInv, Apart, Runs
<1>5. Promised!TInit
  BY <1>1, <1>2 DEF Promised!TInit
<1> QED BY <1>4, <1>5

LEMMA ApartLess ==
  ASSUME NEW D, NEW H, NEW n, Apart(D, H, n), NEW E, E \subseteq D, NEW F, F \subseteq H
  PROVE  Apart(E, F, n)
BY DEF Apart

LEMMA ApartOwn ==
  ASSUME NEW D, NEW H, NEW n, NEW m, Apart(D, H, n), 1..n \subseteq 1..m,
         NEW t, t.id \in 1..m, \A x \in D \cup H : x.id # t.id
  PROVE  Apart(D \cup {t}, H, m)
<1>1. \A x \in (D \cup {t}) \cup H : x.id \in 1..m
  BY DEF Apart
<1>2. \A x \in D \cup {t}, y \in H : x.id # y.id
  BY DEF Apart
<1> QED BY <1>1, <1>2 DEF Apart

LEMMA ApartQueued ==
  ASSUME NEW D, NEW H, NEW n, NEW m, Apart(D, H, n), 1..n \subseteq 1..m,
         NEW t, t.id \in 1..m, \A x \in D \cup H : x.id # t.id
  PROVE  Apart(D, H \cup {t}, m)
<1>1. \A x \in D \cup (H \cup {t}) : x.id \in 1..m
  BY DEF Apart
<1>2. \A x \in D, y \in H \cup {t} : x.id # y.id
  BY DEF Apart
<1>3. \A x, y \in H \cup {t} : x.id = y.id => x = y
  BY DEF Apart
<1> QED BY <1>1, <1>2, <1>3 DEF Apart

LEMMA RunsLess ==
  ASSUME NEW j, NEW t \in Nat, NEW n, NEW D, NEW H, Runs(j, t, n, D, H),
         NEW u \in Nat, t <= u, NEW E, NEW F, E \cup F \subseteq D \cup H
  PROVE  Runs(j, u, n, E, F)
<1>1. CASE j \in [kind : {"tick"}, now : Nat] /\ j.now <= t
  <2>1. j.now \in Nat
    BY <1>1
  <2> QED BY <1>1, <2>1 DEF Runs
<1>2. CASE j = IdleJob
  BY <1>2 DEF Runs
<1>3. CASE /\ j \in [kind : {"migrate"}, id : 1..n, ms : Delays]
           /\ \A x \in D \cup H : x.id # j.id
  <2>1. \A x \in E \cup F : x.id # j.id
    BY <1>3
  <2> QED BY <1>3, <2>1 DEF Runs
<1> QED BY <1>1, <1>2, <1>3 DEF Runs

(* A timer with a new id has come to one of the stores.                    *)
LEMMA RunsMore ==
  ASSUME NEW j, NEW t, NEW n \in Nat, NEW D, NEW H, Runs(j, t, n, D, H), NEW E, NEW F,
         \A x \in E \cup F : x \in D \cup H \/ x.id = n + 1
  PROVE  Runs(j, t, n + 1, E, F)
<1>1. CASE j \in [kind : {"tick"}, now : Nat] /\ j.now <= t
  BY <1>1 DEF Runs
<1>2. CASE j = IdleJob
  BY <1>2 DEF Runs
<1>3. CASE /\ j \in [kind : {"migrate"}, id : 1..n, ms : Delays]
           /\ \A x \in D \cup H : x.id # j.id
  <2>1. j.id \in 1..n /\ j \in [kind : {"migrate"}, id : 1..(n + 1), ms : Delays]
    BY <1>3
  <2>2. j.id # n + 1
    BY <2>1
  <2>3. \A x \in E \cup F : x.id # j.id
    BY <1>3, <2>2
  <2> QED BY <2>1, <2>3 DEF Runs
<1> QED BY <1>1, <1>2, <1>3 DEF Runs

(* The two stores after a step that adds no timer to either.               *)
LEMMA FewerKeeps ==
  ASSUME TimersInv, Single(direct'), Tidy(heap'), Ordered(heap'), counter' \in Nat,
         Elements(direct') \subseteq Elements(direct), Elements(heap') \subseteq Elements(heap),
         \A x \in Elements(heap') : x.seq < counter',
         clock' \in Nat, clock <= clock', added' = added,
         job' = job \/ job' = IdleJob
  PROVE  TimersInv'
<1>1. Apart(Elements(direct'), Elements(heap'), added)
  <2>1. Apart(Elements(direct), Elements(heap), added)
    BY DEF TimersInv
  <2> QED BY <2>1, ApartLess
<1>2. Runs(job', clock', added, Elements(direct'), Elements(heap'))
  <2>1. CASE job' = IdleJob
    BY <2>1 DEF Runs
  <2>2. CASE job' = job
    <3>1. /\ Runs(job, clock, added, Elements(direct), Elements(heap)) /\ clock \in Nat
          /\ Elements(direct') \cup Elements(heap') \subseteq Elements(direct) \cup Elements(heap)
      BY DEF TimersInv
    <3>2. Runs(job, clock', added, Elements(direct'), Elements(heap'))
      BY <3>1, RunsLess
    <3> QED BY <3>2, <2>2
  <2> QED BY <2>1, <2>2
<1> QED BY <1>1, <1>2 DEF TimersInv

LEMMA AddKeeps ==
  ASSUME TimersInv, NEW ms \in Delays, Add(ms)
  PROVE  TimersInv' /\ Implements
<1>1. PICK id : id = added + 1
  OBVIOUS
<1>2. /\ id \in Nat /\ id \in TimerIds /\ added' = id /\ added' \in 0..MaxTimers
      /\ ms \in Nat /\ clock + ms \in Nat /\ clock \in Nat
      /\ added \in Nat /\ 1..added \subseteq 1..id /\ id \in 1..id
  BY <1>1, TimerHeapAssumption DEF Add, TimersInv, TimerIds
<1>3. \A x \in Elements(direct) \cup Elements(heap) : x.id # id
  <2>1. \A x \in Elements(direct) \cup Elements(heap) : x.id \in 1..added
    BY DEF TimersInv, Apart
  <2> QED BY <2>1, <1>1, <1>2
<1>4. /\ Single(direct) /\ Tidy(heap) /\ Ordered(heap) /\ counter \in Nat
      /\ \A x \in Elements(heap) : x.seq < counter
      /\ Apart(Elements(direct), Elements(heap), added)
      /\ Runs(job, clock, added, Elements(direct), Elements(heap))
  BY DEF TimersInv
<1>5. clock' = clock /\ last' = last
  BY DEF Add
<1>6. Len(direct) \in Nat
  BY <1>4 DEF Single
<1>7. CASE thMode = "direct" /\ Len(direct) + 1 <= Threshold
  <2>1. PICK t \in OwnTimer : t = [id |-> id, deadline |-> clock + ms]
    BY <1>2 DEF OwnTimer
  <2>2. direct' = Append(direct, t) /\ UNCHANGED <<heap, counter, job>>
    BY <1>2, <1>6, <1>7, <2>1, TimerHeapAssumption DEF Add
  <2>3. Single(direct') /\ Elements(direct') = Elements(direct) \cup {t}
    BY <1>3, <1>4, <2>1, <2>2, AppendIs
  <2>4. Apart(Elements(direct'), Elements(heap), id)
    BY <1>2, <1>3, <1>4, <2>1, <2>3, ApartOwn
  <2>5. Runs(job, clock, id, Elements(direct'), Elements(heap))
    <3>1. \A x \in Elements(direct') \cup Elements(heap) :
             x \in Elements(direct) \cup Elements(heap) \/ x.id = added + 1
      BY <1>1, <2>1, <2>3
    <3>2. Runs(job, clock, added + 1, Elements(direct'), Elements(heap))
      BY <3>1, <1>2, <1>4, RunsMore
    <3> QED BY <3>2, <1>1
  <2>6. TimersInv'
    BY <1>2, <1>4, <1>5, <2>2, <2>3, <2>4, <2>5 DEF TimersInv
  <2>7. Promised!AddOwn(id, ms)
    BY <1>3, <1>5, <2>1, <2>2, <2>3 DEF Promised!AddOwn, Promised!Idle
  <2> QED BY <1>2, <2>6, <2>7 DEF Implements, Promised!TNext
<1>8. CASE thMode = "direct" /\ Len(direct) + 1 > Threshold
  <2>1. /\ UNCHANGED <<direct, heap, counter>> /\ job' = [kind |-> "migrate", id |-> id, ms |-> ms]
    BY <1>2, <1>6, <1>8, TimerHeapAssumption DEF Add
  <2>2. Runs(job', clock, id, Elements(direct), Elements(heap))
    <3>1. job' \in [kind : {"migrate"}, id : 1..id, ms : Delays] /\ job'.id = id
      BY <2>1, <1>2
    <3> QED BY <3>1, <1>3 DEF Runs
  <2>3. Apart(Elements(direct), Elements(heap), id)
    BY <1>2, <1>4 DEF Apart
  <2>4. TimersInv'
    BY <1>2, <1>4, <1>5, <2>1, <2>2, <2>3 DEF TimersInv
  <2>5. UNCHANGED Promised!tVars
    BY <2>1, <1>5 DEF Promised!tVars
  <2> QED BY <2>4, <2>5 DEF Implements
<1>9. CASE thMode = "heap"
  <2>1. HeapAdd(id, ms) /\ UNCHANGED <<direct, job>>
    BY <1>2, <1>9 DEF Add
  <2>2. PICK e \in Element :
           /\ e.id = id /\ e.deadline = clock + ms
           /\ Tidy(heap') /\ Ordered(heap') /\ Elements(heap') = Elements(heap) \cup {e}
           /\ \A x \in Elements(heap) : x.seq < e.seq
           /\ counter' \in Nat /\ \A x \in Elements(heap') : x.seq < counter'
    BY <2>1, <1>2, HeapAddIs
  <2>3. Apart(Elements(direct), Elements(heap'), id)
    <3>1. e.id \in 1..id /\ \A x \in Elements(direct) \cup Elements(heap) : x.id # e.id
      BY <1>2, <1>3, <2>2
    <3>2. Apart(Elements(direct), Elements(heap) \cup {e}, id)
      BY <1>2, <1>4, <3>1, ApartQueued
    <3> QED BY <2>2, <3>2
  <2>4. Runs(job, clock, id, Elements(direct), Elements(heap'))
    <3>1. \A x \in Elements(direct) \cup Elements(heap') :
             x \in Elements(direct) \cup Elements(heap) \/ x.id = added + 1
      BY <1>1, <2>2
    <3>2. Runs(job, clock, added + 1, Elements(direct), Elements(heap'))
      BY <3>1, <1>2, <1>4, RunsMore
    <3> QED BY <3>2, <1>1
  <2>5. TimersInv'
    BY <1>2, <1>4, <1>5, <2>1, <2>2, <2>3, <2>4 DEF TimersInv
  <2>6. Promised!AddQueued(id, ms)
    <3>1. e \in Elements(heap') \ Elements(heap)
      BY <1>3, <2>2
    <3>2. Promised!Join(e)
      BY <2>2 DEF Promised!Join
    <3> QED BY <1>3, <1>5, <2>1, <2>2, <3>1, <3>2 DEF Promised!AddQueued, Promised!Idle
  <2> QED BY <1>2, <2>5, <2>6 DEF Implements, Promised!TNext
<1> QED BY <1>6, <1>7, <1>8, <1>9, TimerHeapAssumption DEF Add

(* A timer leaves the native ones.                                         *)
LEMMA OwnLeaves ==
  ASSUME TimersInv, NEW i \in DOMAIN direct, direct' = Without(direct, i),
         UNCHANGED <<heap, counter, clock, added, job>>
  PROVE  /\ TimersInv'
         /\ direct[i] \in Elements(direct) /\ direct[i] \in OwnTimer
         /\ Elements(direct') = Elements(direct) \ {direct[i]}
         /\ \A x \in Elements(direct) : x.id = direct[i].id => x = direct[i]
         /\ \A x \in Elements(heap) : x.id # direct[i].id
<1>1. /\ Single(direct) /\ Tidy(heap) /\ Ordered(heap) /\ counter \in Nat /\ clock \in Nat
      /\ \A x \in Elements(heap) : x.seq < counter
  BY DEF TimersInv
<1>2. /\ Single(Without(direct, i))
      /\ direct[i] \in OwnTimer /\ direct[i] \in Elements(direct)
      /\ Elements(Without(direct, i)) = Elements(direct) \ {direct[i]}
  BY <1>1, WithoutIs
<1>3. TimersInv'
  BY <1>1, <1>2, FewerKeeps
<1>4. \A x \in Elements(direct) : x.id = direct[i].id => x = direct[i]
  BY <1>1 DEF Single, Elements
<1>5. \A x \in Elements(heap) : x.id # direct[i].id
  BY <1>2 DEF TimersInv, Apart
<1> QED BY <1>2, <1>3, <1>4, <1>5

LEMMA DirectFiresKeeps ==
  ASSUME TimersInv, NEW i \in DOMAIN direct, DirectFires(i)
  PROVE  TimersInv' /\ Implements
<1>1. /\ direct' = Without(direct, i) /\ UNCHANGED <<heap, counter, clock, added, job>>
      /\ direct[i].deadline <= clock /\ last' = direct[i].id
  BY DEF DirectFires
<1>2. /\ TimersInv' /\ direct[i] \in Elements(direct)
      /\ Elements(direct') = Elements(direct) \ {direct[i]}
  BY <1>1, OwnLeaves
<1>3. Promised!FireOwn(direct[i])
  BY <1>1, <1>2 DEF Promised!FireOwn
<1> QED BY <1>2, <1>3 DEF Implements, Promised!TNext

LEMMA TakeKeeps ==
  ASSUME TimersInv, NEW id \in TimerIds, Take(id)
  PROVE  TimersInv' /\ Implements
<1>1. UNCHANGED <<counter, clock, job, added, last>>
  BY DEF Take
<1>2. CASE \E i \in DOMAIN direct :
             direct[i].id = id /\ direct' = Without(direct, i) /\ heap' = heap
  <2>1. PICK i \in DOMAIN direct : direct[i].id = id /\ direct' = Without(direct, i) /\ heap' = heap
    BY <1>2
  <2>2. /\ TimersInv'
        /\ Elements(direct') = Elements(direct) \ {direct[i]}
        /\ \A x \in Elements(direct) : x.id = direct[i].id => x = direct[i]
        /\ \A x \in Elements(heap) : x.id # direct[i].id
    BY <1>1, <2>1, OwnLeaves
  <2>3. Promised!Remove(id)
    <3>1. Elements(direct') = {t \in Elements(direct) : t.id # id}
      BY <2>1, <2>2
    <3>2. Elements(heap') = {e \in Elements(heap) : e.id # id}
      BY <2>1, <2>2
    <3> QED BY <1>1, <3>1, <3>2 DEF Promised!Remove
  <2> QED BY <2>2, <2>3 DEF Implements, Promised!TNext
<1>3. CASE \E i \in DOMAIN heap :
             heap[i].id = id /\ heap' = TakeOut(heap, i) /\ direct' = direct
  <2>1. PICK i \in DOMAIN heap : heap[i].id = id /\ heap' = TakeOut(heap, i) /\ direct' = direct
    BY <1>3
  <2>2. /\ Single(direct) /\ Tidy(heap) /\ Ordered(heap) /\ counter \in Nat /\ clock \in Nat
        /\ \A x \in Elements(heap) : x.seq < counter
    BY DEF TimersInv
  <2>3. i \in 1..Len(heap) /\ heap[i] \in Elements(heap)
    BY <2>2 DEF Tidy, Elements
  <2>4. Tidy(heap') /\ Ordered(heap') /\ Elements(heap') = Elements(heap) \ {heap[i]}
    BY <2>1, <2>2, <2>3, TakeOutKeeps
  <2>5. TimersInv'
    BY <1>1, <2>1, <2>2, <2>4, FewerKeeps
  <2>6. Promised!Remove(id)
    <3>1. Elements(direct') = {t \in Elements(direct) : t.id # id}
      BY <2>1, <2>3 DEF TimersInv, Apart
    <3>2. Elements(heap') = {e \in Elements(heap) : e.id # id}
      BY <2>1, <2>3, <2>4 DEF TimersInv, Apart
    <3> QED BY <1>1, <3>1, <3>2 DEF Promised!Remove
  <2> QED BY <2>5, <2>6 DEF Implements, Promised!TNext
<1> QED BY <1>2, <1>3 DEF Take

LEMMA ClearKeeps ==
  ASSUME TimersInv, Clear
  PROVE  TimersInv' /\ Implements
<1>1. direct' = <<>> /\ heap' = <<>> /\ counter' = 0 /\ UNCHANGED <<clock, job, added, last>>
  BY DEF Clear
<1>2. Elements(<<>>) = {} /\ Single(<<>>) /\ Tidy(<<>>) /\ Ordered(<<>>)
  BY DEF Elements, Single, Tidy, Ordered
<1>3. clock \in Nat
  BY DEF TimersInv
<1>4. TimersInv'
  BY <1>1, <1>2, <1>3, FewerKeeps
<1>5. Promised!Clear
  BY <1>1, <1>2 DEF Promised!Clear
<1> QED BY <1>4, <1>5 DEF Implements, Promised!TNext

LEMMA MigrateKeeps ==
  ASSUME TimersInv, Migrate
  PROVE  TimersInv' /\ Implements
<1>1. /\ Single(direct) /\ Tidy(heap) /\ Ordered(heap) /\ counter \in Nat /\ clock \in Nat
      /\ \A x \in Elements(heap) : x.seq < counter
      /\ Apart(Elements(direct), Elements(heap), added)
      /\ added \in 0..MaxTimers /\ added \in Nat
  BY TimerHeapAssumption DEF TimersInv
<1>2. job.kind = "migrate" /\ UNCHANGED <<clock, added>>
  BY DEF Migrate
<1>3. /\ job \in [kind : {"migrate"}, id : 1..added, ms : Delays]
      /\ \A x \in Elements(direct) \cup Elements(heap) : x.id # job.id
  BY <1>2 DEF TimersInv, Runs, IdleJob
<1>4. CASE direct = <<>>
  <2>1. HeapAdd(job.id, job.ms) /\ job' = IdleJob /\ UNCHANGED <<direct, last>>
    BY <1>4 DEF Migrate
  <2>2. job.id \in 1..added /\ job.id \in Nat /\ job.id \in TimerIds /\ job.ms \in Nat /\ job.ms \in Delays
    <3>1. job.id \in 1..added /\ job.ms \in Delays
      BY <1>3
    <3>2. added \in Nat /\ 1..added \subseteq TimerIds /\ 1..added \subseteq Nat
      BY <1>1, TimerHeapAssumption DEF TimerIds
    <3>3. job.id \in Nat /\ job.id \in TimerIds
      BY <3>1, <3>2
    <3>4. job.ms \in Nat
      BY <3>1, TimerHeapAssumption
    <3> QED BY <3>1, <3>3, <3>4
  <2>3. PICK e \in Element :
           /\ e.id = job.id /\ e.deadline = clock + job.ms
           /\ Tidy(heap') /\ Ordered(heap') /\ Elements(heap') = Elements(heap) \cup {e}
           /\ \A x \in Elements(heap) : x.seq < e.seq
           /\ counter' \in Nat /\ \A x \in Elements(heap') : x.seq < counter'
    BY <2>1, <2>2, HeapAddIs
  <2>4. Apart(Elements(direct), Elements(heap'), added)
    <3>1. Apart(Elements(direct), Elements(heap) \cup {e}, added)
      BY <1>1, <1>3, <2>2, <2>3, ApartQueued
    <3> QED BY <2>3, <3>1
  <2>5. Runs(job', clock, added, Elements(direct), Elements(heap'))
    BY <2>1 DEF Runs
  <2>6. TimersInv'
    BY <1>1, <1>2, <2>1, <2>3, <2>4, <2>5 DEF TimersInv
  <2>7. Promised!AddQueued(job.id, job.ms)
    <3>1. e \in Elements(heap') \ Elements(heap)
      BY <1>3, <2>3
    <3>2. Promised!Join(e)
      BY <2>3 DEF Promised!Join
    <3> QED BY <1>2, <1>3, <2>1, <2>3, <3>1, <3>2 DEF Promised!AddQueued, Promised!Idle
  <2> QED BY <2>2, <2>6, <2>7 DEF Implements, Promised!TNext
<1>5. CASE direct # <<>>
  <2>1. PICK t : t = Head(direct)
    OBVIOUS
  <2>2. /\ direct' = Tail(direct) /\ job' = job
        /\ t.deadline > clock => HeapAdd(t.id, t.deadline - clock) /\ last' = last
        /\ ~(t.deadline > clock) => last' = t.id /\ UNCHANGED <<heap, counter>>
    BY <1>5, <2>1 DEF Migrate
  <2>3. /\ Single(direct') /\ t \in OwnTimer /\ t \in Elements(direct)
        /\ Elements(direct') = Elements(direct) \ {t}
    BY <1>1, <1>5, <2>1, <2>2, TailIs
  <2>4. t.id \in Nat /\ t.deadline \in Nat
    BY <2>3 DEF OwnTimer
  <2>5. CASE t.deadline > clock
    <3>1. t.deadline - clock \in Nat /\ clock + (t.deadline - clock) = t.deadline
      BY <2>4, <2>5, <1>1
    <3>2. PICK e \in Element :
             /\ e.id = t.id /\ e.deadline = t.deadline
             /\ Tidy(heap') /\ Ordered(heap') /\ Elements(heap') = Elements(heap) \cup {e}
             /\ \A x \in Elements(heap) : x.seq < e.seq
             /\ counter' \in Nat /\ \A x \in Elements(heap') : x.seq < counter'
      BY <2>2, <2>4, <2>5, <3>1, HeapAddIs
    <3>3. \A x \in Elements(direct') \cup Elements(heap) : x.id # t.id
      <4>1. \A x \in Elements(direct) : x.id = t.id => x = t
        BY <1>1, <2>3 DEF Single, Elements
      <4>2. \A x \in Elements(heap) : x.id # t.id
        BY <1>1, <2>3 DEF Apart
      <4> QED BY <2>3, <4>1, <4>2
    <3>4. Apart(Elements(direct'), Elements(heap'), added)
      <4>1. Apart(Elements(direct'), Elements(heap), added)
        BY <1>1, <2>3, ApartLess
      <4>2. e.id \in 1..added
        BY <1>1, <2>3, <3>2 DEF Apart
      <4>3. Apart(Elements(direct'), Elements(heap) \cup {e}, added)
        BY <3>2, <3>3, <4>1, <4>2, ApartQueued
      <4> QED BY <3>2, <4>3
    <3>5. Runs(job', clock, added, Elements(direct'), Elements(heap'))
      <4>1. \A x \in Elements(direct') \cup Elements(heap') : x.id # job.id
        BY <1>3, <2>3, <3>2
      <4> QED BY <1>3, <2>2, <4>1 DEF Runs
    <3>6. TimersInv'
      BY <1>1, <1>2, <2>2, <2>3, <3>2, <3>4, <3>5 DEF TimersInv
    <3>7. Promised!Share(t)
      <4>1. e \in Elements(heap') \ Elements(heap)
        BY <3>2, <3>3
      <4>2. Promised!Join(e)
        BY <3>2 DEF Promised!Join
      <4> QED BY <1>2, <2>2, <2>3, <2>5, <3>2, <4>1, <4>2 DEF Promised!Share
    <3> QED BY <2>3, <3>6, <3>7 DEF Implements, Promised!TNext
  <2>6. CASE ~(t.deadline > clock)
    <3>1. t.deadline <= clock /\ last' = t.id /\ UNCHANGED <<heap, counter>>
      BY <1>1, <2>2, <2>4, <2>6
    <3>2. TimersInv'
      BY <1>1, <1>2, <2>2, <2>3, <3>1, FewerKeeps
    <3>3. Promised!FireOwn(t)
      BY <1>2, <2>3, <3>1 DEF Promised!FireOwn
    <3> QED BY <2>3, <3>2, <3>3 DEF Implements, Promised!TNext
  <2> QED BY <2>5, <2>6
<1> QED BY <1>4, <1>5

LEMMA TickFiresKeeps ==
  ASSUME TimersInv, TickFires
  PROVE  TimersInv' /\ Implements
<1>1. /\ Single(direct) /\ Tidy(heap) /\ Ordered(heap) /\ counter \in Nat /\ clock \in Nat
      /\ \A x \in Elements(heap) : x.seq < counter
  BY DEF TimersInv
<1>2. /\ job.kind = "tick" /\ heap # <<>> /\ heap[1].deadline <= job.now
      /\ heap' = Pop(heap) /\ last' = heap[1].id
      /\ UNCHANGED <<direct, counter, clock, job, added>>
  BY DEF TickFires, Due
<1>3. job.now \in Nat /\ job.now <= clock
  BY <1>2 DEF TimersInv, Runs, IdleJob
<1>4. PICK e : e = heap[1]
  OBVIOUS
<1>5. /\ DOMAIN heap = 1..Len(heap) /\ Len(heap) \in Nat /\ 1 \in 1..Len(heap)
      /\ e \in Element /\ e \in Elements(heap)
  BY <1>1, <1>2, <1>4 DEF Tidy, Elements
<1>6. Tidy(heap') /\ Ordered(heap') /\ Elements(heap') = Elements(heap) \ {e}
  BY <1>1, <1>2, <1>4, PopKeeps
<1>7. TimersInv'
  BY <1>1, <1>2, <1>6, FewerKeeps
<1>8. e.deadline <= clock
  BY <1>1, <1>2, <1>3, <1>4, <1>5 DEF Element
<1>9. ASSUME NEW x \in Elements(heap) \ {e} PROVE Promised!Earlier(e, x)
  <2>1. PICK j \in 1..Len(heap) : x = heap[j]
    BY <1>5 DEF Elements
  <2>2. j \in 2..Len(heap)
    BY <1>4, <1>5, <1>9, <2>1
  <2>3. Before(e, x)
    BY <1>1, <1>4, <2>1, <2>2, RootFirst
  <2> QED BY <2>3 DEF Before, Promised!Earlier
<1>10. Promised!FireNext(e)
  BY <1>2, <1>4, <1>5, <1>6, <1>8, <1>9 DEF Promised!FireNext
<1> QED BY <1>5, <1>7, <1>10 DEF Implements, Promised!TNext

LEMMA OthersKeep ==
  ASSUME TimersInv, SharedFires \/ TickEnds \/ CallbackReturns \/ TimePasses \/ UNCHANGED thVars
  PROVE  TimersInv' /\ Implements
<1>1. /\ Single(direct) /\ Tidy(heap) /\ Ordered(heap) /\ counter \in Nat /\ clock \in Nat
      /\ \A x \in Elements(heap) : x.seq < counter
  BY DEF TimersInv
<1>2. UNCHANGED <<direct, heap, counter, added, last>>
  BY DEF SharedFires, TickEnds, CallbackReturns, TimePasses, thVars, store
<1>3. CASE SharedFires
  <2>1. clock' = clock /\ job' \in [kind : {"tick"}, now : Nat] /\ job'.now <= clock
    BY <1>1, <1>3 DEF SharedFires
  <2>2. Runs(job', clock', added', Elements(direct'), Elements(heap'))
    BY <2>1 DEF Runs
  <2>3. TimersInv'
    BY <1>1, <1>2, <2>1, <2>2 DEF TimersInv
  <2> QED BY <1>2, <2>1, <2>3 DEF Implements, Promised!tVars
<1>4. CASE TickEnds \/ CallbackReturns \/ UNCHANGED thVars
  <2>1. clock' = clock /\ (job' = job \/ job' = IdleJob)
    BY <1>4 DEF TickEnds, CallbackReturns, thVars, store
  <2>2. TimersInv'
    BY <1>1, <1>2, <2>1, FewerKeeps
  <2> QED BY <1>2, <2>1, <2>2 DEF Implements, Promised!tVars
<1>5. CASE TimePasses
  <2>1. clock' = clock + 1 /\ job' = job
    BY <1>5 DEF TimePasses
  <2>2. TimersInv'
    BY <1>1, <1>2, <2>1, FewerKeeps
  <2>3. Promised!Pass
    BY <1>2, <2>1 DEF Promised!Pass
  <2> QED BY <2>2, <2>3 DEF Implements, Promised!TNext
<1> QED BY <1>3, <1>4, <1>5

LEMMA TimersNext == TimersInv /\ [ThNext]_thVars => TimersInv' /\ Implements
<1> SUFFICES ASSUME TimersInv, [ThNext]_thVars PROVE TimersInv' /\ Implements
  OBVIOUS
<1>1. ASSUME NEW ms \in Delays, Add(ms) PROVE TimersInv' /\ Implements
  BY <1>1, AddKeeps
<1>2. CASE Migrate
  BY <1>2, MigrateKeeps
<1>3. ASSUME NEW id \in TimerIds, Take(id) PROVE TimersInv' /\ Implements
  BY <1>3, TakeKeeps
<1>4. CASE Clear
  BY <1>4, ClearKeeps
<1>5. ASSUME NEW i \in DOMAIN direct, DirectFires(i) PROVE TimersInv' /\ Implements
  BY <1>5, DirectFiresKeeps
<1>6. CASE TickFires
  BY <1>6, TickFiresKeeps
<1>7. CASE SharedFires \/ TickEnds \/ CallbackReturns \/ TimePasses \/ UNCHANGED thVars
  BY <1>7, OthersKeep
<1> QED BY <1>1, <1>2, <1>3, <1>4, <1>5, <1>6, <1>7 DEF ThNext

(* Every variable of the timer heap that is not a history variable holds a *)
(* value of its type, and no timer is in two places.                       *)
THEOREM TimersSound == ThSpec => []TimersInv
BY TimersBegin, TimersNext, PTL DEF ThSpec

(* Whatever timers are added, removed and fire in whatever order, and      *)
(* whatever callbacks do to the heap under a tick or a migration, every    *)
(* element of the heap comes after its parent.                             *)
THEOREM TimersOrdered == ThSpec => []HeapOrdered
<1>1. TimersInv => HeapOrdered
  BY DEF TimersInv, Ordered, HeapOrdered
<1> QED BY <1>1, TimersSound, PTL

(* The binary heap, the native timers and the migration between them       *)
(* implement what Timers promises: no timer fires early or after its       *)
(* removal, and those of the heap fire by deadline, then in the order of   *)
(* their registration.                                                     *)
THEOREM TimersImplemented == ThSpec => ImplementsTimers
<1>1. ThSpec => Promised!TInit
  BY TimersBegin DEF ThSpec
<1>2. TimersInv /\ [ThNext]_thVars => [Promised!TNext]_(Promised!tVars)
  BY TimersNext DEF Implements
<1> QED BY <1>1, <1>2, TimersSound, PTL DEF ThSpec, ImplementsTimers, Promised!TSpec
=============================================================================
