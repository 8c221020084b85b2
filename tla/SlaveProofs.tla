----------------------------- MODULE SlaveProofs -----------------------------
(***************************************************************************)
(* Proofs about ModbusSlave: for any frames, units, strategies and handlers*)
(* the slave works on one frame at a time where it has a queue, serves the *)
(* queue whenever it has to, and loses or repeats no frame.                *)
(***************************************************************************)
EXTENDS ModbusSlave, TLAPS, FiniteSetTheorems

(* The units whose handler or checkRuntime has yet to answer for a frame,  *)
(* those a broadcast has still to visit, and both.                         *)
Out(f) == {u \in Units : <<f, u>> \in handling \cup runtime}
Left(f) == IF fan = f THEN visiting ELSE {}
Owing(f) == Out(f) \cup Left(f)

(* A unit owes one answer to a frame.  The counter of a broadcast covers   *)
(* the units that owe, and is exactly their number while handlers remove   *)
(* none.                                                                   *)
Counted(f) ==
  /\ Out(f) \cap Left(f) = {}
  /\ f \notin Broadcasts => Out(f) \subseteq {UnitOf[f]}
  /\ f \in Broadcasts => Cardinality(Owing(f)) <= remaining[f]
  /\ f \in Broadcasts /\ ~removals => Cardinality(Owing(f)) = remaining[f]

(* Has f been begun, and not yet answered by all?                          *)
Begun(f) == gate[f] = "passed" /\ fate[f] = "none" /\ f \notin queue /\ ~destroyed

(* Before the gates, in the queue, and after: who may owe an answer, and   *)
(* what has been replied.                                                  *)
Placed(f) ==
  /\ gate[f] # "passed" => f \notin queue /\ Owing(f) = {} /\ fan # f /\ fate[f] = "none"
  /\ gate[f] \in {"new", "unit", "address"} => replies[f] = 0
  /\ f \in queue => fate[f] = "none" /\ replies[f] = 0 /\ Owing(f) = {} /\ fan # f
  /\ Owing(f) # {} => fate[f] = "none"
  /\ fate[f] = "dropped" => replies[f] = 0 /\ fan # f
  /\ fan = f => (completed <=> fate[f] = "over")
  /\ f \in Broadcasts => replies[f] = 0
  /\ f \in Broadcasts /\ Begun(f) => remaining[f] >= 1
  /\ f \notin Broadcasts => replies[f] <= 1
  /\ f \notin Broadcasts /\ Out(f) # {} => replies[f] = 0
  /\ f \notin Broadcasts /\ Begun(f) => Out(f) # {}

Sound(f) == Counted(f) /\ Placed(f)

Busy == fan # NoFrame \/ Working # {}

(* Whether next() runs and whether a frame is worked on.                   *)
Driven ==
  /\ looping => Queued
  /\ fan = NoFrame => visiting = {} /\ ~completed
  /\ destroyed => units = {} /\ fan = NoFrame
  /\ Queued /\ ~destroyed /\ looping => ~Busy
  /\ Queued /\ ~destroyed /\ (looping \/ Busy \/ queue # {}) => processing
  /\ Queued /\ ~destroyed /\ processing /\ ~removals => looping \/ Busy

SlaveInv ==
  /\ TypeOK /\ handling \cap runtime = {}
  /\ \A f \in Frames : Sound(f)
  /\ Driven /\ OneAtATime

(* A step that leaves a frame alone.                                       *)
Aside(g) ==
  /\ gate'[g] = gate[g] /\ fate'[g] = fate[g] /\ replies'[g] = replies[g]
  /\ remaining'[g] = remaining[g]
  /\ g \in queue' <=> g \in queue
  /\ Out(g)' = Out(g) /\ Left(g)' = Left(g)
  /\ fan' = g => fan = g /\ completed' = completed
-----------------------------------------------------------------------------
LEMMA OwingFinite == \A f : TypeOK => IsFiniteSet(Owing(f)) /\ Cardinality(Owing(f)) \in Nat
<1> SUFFICES ASSUME NEW f, TypeOK PROVE IsFiniteSet(Owing(f)) /\ Cardinality(Owing(f)) \in Nat
  OBVIOUS
<1>1. Owing(f) \subseteq Units /\ IsFiniteSet(Units)
  BY SlaveAssumption DEF Owing, Out, Left, TypeOK
<1> QED BY <1>1, FS_Subset, FS_CardinalityType

LEMMA WorkingOut == \A f \in Frames : f \in Working <=> Out(f) # {}
BY DEF Working, Out

LEMMA BroadcastFrames == Broadcasts \subseteq Frames /\ NoFrame \notin Frames /\ NoFrame \notin Broadcasts
BY SlaveAssumption

(* What is worked on is one frame, said of a frame that is.                *)
LEMMA Alone ==
  ASSUME SlaveInv, Queued, NEW f \in Frames, Out(f) # {} \/ fan = f
  PROVE  /\ \A g \in Frames : g # f => Out(g) = {} /\ fan # g
         /\ fan \in {f, NoFrame} /\ Working \subseteq {f}
<1>1. f \in Working \cup ({fan} \ {NoFrame})
  BY WorkingOut, SlaveAssumption
<1>2. \A g \in Working \cup ({fan} \ {NoFrame}) : g = f
  BY <1>1 DEF SlaveInv, OneAtATime
<1>3. \A g \in Frames : g # f => Out(g) = {} /\ fan # g
  BY <1>2, WorkingOut, SlaveAssumption
<1>4. fan \in {f, NoFrame} /\ Working \subseteq {f}
  BY <1>2
<1> QED BY <1>3, <1>4

(* A frame left alone stays sound, also when the slave is destroyed.       *)
LEMMA AsideSound ==
  ASSUME NEW g \in Frames, Sound(g), Aside(g), removals' = removals, destroyed => destroyed'
  PROVE  Sound(g)'
<1>1. Owing(g)' = Owing(g)
  BY DEF Aside, Owing
<1>2. Counted(g)'
  BY <1>1 DEF Sound, Counted, Aside
<1>3. Begun(g)' => Begun(g)
  BY DEF Begun, Aside
<1>4. Placed(g)'
  BY <1>1, <1>3 DEF Sound, Placed, Aside
<1> QED BY <1>2, <1>4 DEF Sound

(* Working on no more frames than before, it is still on one.              *)
LEMMA OneKept ==
  ASSUME OneAtATime, UNCHANGED options,
         Working' \subseteq Working \cup ({fan} \ {NoFrame}),
         fan' \in {fan, NoFrame}
  PROVE  OneAtATime'
BY DEF OneAtATime, options, Queued

LEMMA SlaveInit == Init => SlaveInv
<1> SUFFICES ASSUME Init PROVE SlaveInv
  OBVIOUS
<1>1. TypeOK
  <2>1. /\ gate \in [Frames -> {"new", "unit", "address", "passed", "refused"}]
        /\ fate \in [Frames -> {"none", "over", "dropped"}]
        /\ remaining \in [Frames -> Int] /\ replies \in [Frames -> Nat]
        /\ arrival \in [Frames -> Nat] /\ ticket \in [Frames -> Nat]
    BY DEF Init
  <2>2. /\ destroyed \in BOOLEAN /\ processing \in BOOLEAN /\ looping \in BOOLEAN
        /\ completed \in BOOLEAN
    BY DEF Init
  <2>3. /\ units \subseteq Units /\ queue \subseteq Frames /\ fan \in Broadcasts \cup {NoFrame}
        /\ visiting \subseteq Units /\ handling \subseteq Frames \X Units
        /\ runtime \subseteq Frames \X Units
    BY DEF Init
  <2>4. queueStrategy \in Strategies /\ removals \in Removals
    BY DEF Init
  <2> QED BY <2>1, <2>2, <2>3, <2>4 DEF TypeOK
<1>2. \A f : Out(f) = {} /\ Left(f) = {} /\ Owing(f) = {}
  BY DEF Init, Out, Left, Owing
<1>3. ASSUME NEW f \in Frames PROVE Sound(f)
  <2>1. /\ gate[f] = "new" /\ fate[f] = "none" /\ replies[f] = 0 /\ remaining[f] = 0
        /\ f \notin queue /\ fan # f
    BY BroadcastFrames DEF Init
  <2>2. Counted(f)
    BY <1>2, <2>1, FS_EmptySet DEF Counted
  <2>3. Placed(f)
    BY <1>2, <2>1 DEF Placed, Begun
  <2> QED BY <2>2, <2>3 DEF Sound
<1>4. Working = {} /\ handling \cap runtime = {}
  BY DEF Init, Working
<1>5. Driven
  BY <1>4 DEF Init, Driven, Busy
<1>6. OneAtATime
  BY <1>4 DEF Init, OneAtATime
<1> QED BY <1>1, <1>3, <1>4, <1>5, <1>6 DEF SlaveInv
-----------------------------------------------------------------------------
(* What _processFrame is called with: a frame that has passed the gates,   *)
(* waits no longer and is worked on by nobody; a queue works on nothing.   *)
Ready(f) ==
  /\ fan = NoFrame /\ fate[f] = "none" /\ replies[f] = 0 /\ Owing(f) = {}
  /\ Queued /\ ~destroyed => ~Busy
  /\ Queued /\ ~destroyed => processing
  /\ gate' \in {gate, [gate EXCEPT ![f] = "passed"]} /\ gate'[f] = "passed"
  /\ queue' = queue \ {f}
  /\ arrival' \in [Frames -> Nat] /\ ticket' \in [Frames -> Nat]
  /\ UNCHANGED <<options, destroyed, units, processing>>

(* The frame is over at once.                                              *)
LEMMA ProcessOver ==
  ASSUME SlaveInv, NEW f \in Frames, Ready(f),
         fate' = [fate EXCEPT ![f] = "over"], looping' = Queued,
         UNCHANGED <<fan, visiting, completed, remaining, handling, runtime>>,
         replies' \in {replies, [replies EXCEPT ![f] = 1]},
         f \in Broadcasts => UNCHANGED replies
  PROVE  SlaveInv'
<1>1. /\ TypeOK /\ Driven /\ OneAtATime /\ fan = NoFrame
      /\ UNCHANGED <<options, queueStrategy, removals, destroyed, units, processing>>
  BY DEF SlaveInv, options, Ready
<1>2. visiting = {} /\ ~completed /\ (Queued' <=> Queued)
  BY <1>1 DEF Driven, Queued
<1>3. \A g : Out(g)' = Out(g) /\ Left(g)' = Left(g) /\ Owing(g)' = Owing(g)
  BY DEF Out, Left, Owing
<1>4. /\ gate' \in [Frames -> {"new", "unit", "address", "passed", "refused"}]
      /\ \A g \in Frames : g # f => gate'[g] = gate[g] /\ (g \in queue' <=> g \in queue)
      /\ gate'[f] = "passed" /\ f \notin queue' /\ queue' \subseteq Frames
  BY <1>1 DEF TypeOK, Ready
<1>5. /\ fate' \in [Frames -> {"none", "over", "dropped"}] /\ replies' \in [Frames -> Nat]
      /\ fate'[f] = "over" /\ replies'[f] <= 1
      /\ f \in Broadcasts => replies'[f] = 0
      /\ \A g \in Frames : g # f => fate'[g] = fate[g] /\ replies'[g] = replies[g]
  BY <1>1 DEF TypeOK, Ready
<1>6. TypeOK'
  <2>1. looping' \in BOOLEAN
    BY DEF Queued
  <2> QED BY <1>1, <1>4, <1>5, <2>1 DEF TypeOK, Ready
<1>7. Sound(f)'
  <2>1. Counted(f)'
    BY <1>1, <1>3 DEF SlaveInv, Sound, Counted
  <2>2. f # NoFrame /\ Owing(f)' = {} /\ Out(f)' = {} /\ fan' # f
    BY <1>1, <1>3, BroadcastFrames DEF Ready, Owing
  <2>3. Placed(f)'
    BY <1>4, <1>5, <2>2 DEF Placed, Begun
  <2> QED BY <2>1, <2>3 DEF Sound
<1>8. ASSUME NEW g \in Frames, g # f PROVE Sound(g)'
  <2>1. Aside(g)
    BY <1>3, <1>4, <1>5, <1>8 DEF Aside
  <2> QED BY <1>1, <2>1, AsideSound DEF SlaveInv
<1>9. Working' = Working /\ (Busy' <=> Busy)
  BY DEF Working, Busy
<1>10. Driven'
  <2>1. /\ looping' => Queued'
        /\ fan' = NoFrame => visiting' = {} /\ ~completed'
        /\ destroyed' => units' = {} /\ fan' = NoFrame
    BY <1>1, <1>2 DEF Driven
  <2>2. Queued' /\ ~destroyed' => ~Busy'
    BY <1>1, <1>2, <1>9 DEF Ready
  <2>3. Queued' /\ ~destroyed' => looping'
    BY <1>2
  <2>4. Queued' /\ ~destroyed' => processing'
    BY <1>1, <1>2 DEF Ready
  <2> QED BY <2>1, <2>2, <2>3, <2>4 DEF Driven
<1>11. OneAtATime'
  BY <1>1, <1>9, OneKept
<1> QED BY <1>6, <1>7, <1>8, <1>10, <1>11 DEF SlaveInv

(* Its handler is called.                                                  *)
LEMMA ProcessHandled ==
  ASSUME SlaveInv, NEW f \in Frames, Ready(f), f \notin Broadcasts, UnitOf[f] \in units,
         handling' = handling \cup {<<f, UnitOf[f]>>}, looping' = FALSE,
         UNCHANGED <<walk, remaining, runtime, fate, replies>>
  PROVE  SlaveInv'
<1>1. /\ TypeOK /\ Driven /\ OneAtATime /\ fan = NoFrame /\ handling \cap runtime = {}
      /\ UNCHANGED <<options, queueStrategy, removals, destroyed, units, processing>>
      /\ UNCHANGED <<fan, visiting, completed>>
  BY DEF SlaveInv, options, walk, Ready
<1>2. ~destroyed /\ visiting = {} /\ ~completed /\ (Queued' <=> Queued)
  BY <1>1 DEF Driven, Queued
<1>3. UnitOf[f] \in Units /\ Out(f) = {} /\ f # NoFrame
  BY SlaveAssumption DEF Ready, Owing
<1>4. /\ Out(f)' = {UnitOf[f]}
      /\ \A g : g # f => Out(g)' = Out(g)
      /\ \A g : Left(g)' = Left(g) /\ Left(g) = {}
  BY <1>1, <1>2, <1>3 DEF Out, Left
<1>5. handling' \cap runtime' = {} /\ handling' \subseteq Frames \X Units
  BY <1>1, <1>3 DEF Out, TypeOK
<1>6. /\ gate' \in [Frames -> {"new", "unit", "address", "passed", "refused"}]
      /\ \A g \in Frames : g # f => gate'[g] = gate[g] /\ (g \in queue' <=> g \in queue)
      /\ gate'[f] = "passed" /\ f \notin queue' /\ queue' \subseteq Frames
  BY <1>1 DEF TypeOK, Ready
<1>7. TypeOK'
  BY <1>1, <1>5, <1>6 DEF TypeOK, Ready
<1>8. Sound(f)'
  <2>1. Counted(f)'
    BY <1>4 DEF Counted
  <2>2. fan' # f /\ fate'[f] = "none" /\ replies'[f] = 0
    BY <1>1, <1>3 DEF Ready
  <2>3. Placed(f)'
    BY <1>4, <1>6, <2>2 DEF Placed
  <2> QED BY <2>1, <2>3 DEF Sound
<1>9. ASSUME NEW g \in Frames, g # f PROVE Sound(g)'
  <2>1. Aside(g)
    BY <1>1, <1>4, <1>6, <1>9 DEF Aside
  <2> QED BY <1>1, <2>1, AsideSound DEF SlaveInv
<1>10. f \in Working' /\ Working' \subseteq Working \cup {f} /\ Busy'
  <2>1. f \in Working'
    BY <1>3 DEF Working
  <2>2. Working' \subseteq Working \cup {f}
    BY DEF Working
  <2> QED BY <2>1, <2>2 DEF Busy
<1>11. Driven'
  <2>1. /\ ~looping'
        /\ fan' = NoFrame => visiting' = {} /\ ~completed'
        /\ destroyed' => units' = {} /\ fan' = NoFrame
    BY <1>1, <1>2 DEF Driven
  <2>2. Queued' /\ ~destroyed' => processing'
    BY <1>1, <1>2 DEF Ready
  <2> QED BY <1>10, <2>1, <2>2 DEF Driven
<1>12. OneAtATime'
  <2>1. Queued' => Working = {}
    BY <1>2 DEF Ready, Busy
  <2>2. Queued' => Working' \cup ({fan'} \ {NoFrame}) \subseteq {f}
    BY <1>1, <1>10, <2>1
  <2> QED BY <2>2 DEF OneAtATime
<1> QED BY <1>5, <1>7, <1>8, <1>9, <1>11, <1>12 DEF SlaveInv

(* A broadcast begins its loop over the units.                             *)
LEMMA ProcessFanned ==
  ASSUME SlaveInv, NEW f \in Frames, Ready(f), f \in Broadcasts, units # {},
         remaining' = [remaining EXCEPT ![f] = Cardinality(units)],
         fan' = f, visiting' = units, completed' = FALSE, looping' = FALSE,
         UNCHANGED <<work, fate, replies>>
  PROVE  SlaveInv'
<1>1. /\ TypeOK /\ Driven /\ OneAtATime /\ fan = NoFrame /\ handling \cap runtime = {}
      /\ UNCHANGED <<options, queueStrategy, removals, destroyed, units, processing>>
      /\ UNCHANGED <<handling, runtime>>
  BY DEF SlaveInv, options, work, Ready
<1>2. ~destroyed /\ (Queued' <=> Queued)
  BY <1>1 DEF Driven, Queued
<1>3. Out(f) = {} /\ f # NoFrame /\ visiting = {}
  BY <1>1, BroadcastFrames DEF Ready, Owing, Driven
<1>4. /\ \A g : Out(g)' = Out(g)
      /\ \A g : g # f => Left(g)' = Left(g)
      /\ Owing(f)' = units /\ Left(f)' = units
  BY <1>1, <1>3 DEF Out, Left, Owing
<1>5. Cardinality(units) \in Nat /\ Cardinality(units) >= 1
  <2>1. IsFiniteSet(units)
    BY <1>1, SlaveAssumption, FS_Subset DEF TypeOK
  <2> QED BY <2>1, FS_CardinalityType, FS_EmptySet
<1>6. /\ gate' \in [Frames -> {"new", "unit", "address", "passed", "refused"}]
      /\ \A g \in Frames : g # f => gate'[g] = gate[g] /\ (g \in queue' <=> g \in queue)
      /\ gate'[f] = "passed" /\ f \notin queue' /\ queue' \subseteq Frames
  BY <1>1 DEF TypeOK, Ready
<1>7. /\ remaining' \in [Frames -> Int] /\ remaining'[f] = Cardinality(units)
      /\ \A g \in Frames : g # f => remaining'[g] = remaining[g]
  BY <1>1, <1>5 DEF TypeOK
<1>8. TypeOK'
  BY <1>1, <1>6, <1>7 DEF TypeOK, Ready
<1>9. Sound(f)'
  <2>1. Counted(f)'
    BY <1>3, <1>4, <1>5, <1>7 DEF Counted
  <2>2. fate'[f] = "none" /\ replies'[f] = 0
    BY DEF Ready
  <2>3. Placed(f)'
    BY <1>5, <1>6, <1>7, <2>2 DEF Placed
  <2> QED BY <2>1, <2>3 DEF Sound
<1>10. ASSUME NEW g \in Frames, g # f PROVE Sound(g)'
  <2>1. Aside(g)
    BY <1>1, <1>4, <1>6, <1>7, <1>10 DEF Aside
  <2> QED BY <1>1, <2>1, AsideSound DEF SlaveInv
<1>11. Working' = Working /\ Busy'
  BY <1>1, <1>3 DEF Working, Busy
<1>12. Driven'
  <2>1. ~looping' /\ fan' # NoFrame /\ ~destroyed'
    BY <1>1, <1>2, <1>3
  <2>2. Queued' /\ ~destroyed' => processing'
    BY <1>1, <1>2 DEF Ready
  <2> QED BY <1>11, <2>1, <2>2 DEF Driven
<1>13. OneAtATime'
  <2>1. Queued' => Working = {}
    BY <1>2 DEF Ready, Busy
  <2>2. Queued' => Working' \cup ({fan'} \ {NoFrame}) \subseteq {f}
    BY <1>11, <2>1
  <2> QED BY <2>2 DEF OneAtATime
<1> QED BY <1>1, <1>8, <1>9, <1>10, <1>12, <1>13 DEF SlaveInv

LEMMA ProcessKeeps ==
  ASSUME SlaveInv, NEW f \in Frames, Ready(f), Process(f)
  PROVE  SlaveInv'
<1>1. /\ replies \in [Frames -> Nat] /\ replies[f] = 0
  BY DEF SlaveInv, TypeOK, Ready
<1>2. CASE /\ f \notin Broadcasts /\ UnitOf[f] \notin units /\ Reply(f)
           /\ fate' = [fate EXCEPT ![f] = "over"] /\ looping' = Queued
           /\ UNCHANGED <<walk, remaining, work>>
  <2>1. replies' = [replies EXCEPT ![f] = 1]
    BY <1>1, <1>2 DEF Reply
  <2> QED BY <1>2, <2>1, ProcessOver DEF walk, work
<1>3. CASE /\ f \notin Broadcasts /\ UnitOf[f] \in units
           /\ handling' = handling \cup {<<f, UnitOf[f]>>} /\ looping' = FALSE
           /\ UNCHANGED <<walk, remaining, runtime, fate, replies>>
  BY <1>3, ProcessHandled
<1>4. CASE /\ f \in Broadcasts /\ units = {}
           /\ fate' = [fate EXCEPT ![f] = "over"] /\ looping' = Queued
           /\ UNCHANGED <<walk, remaining, work, replies>>
  BY <1>4, ProcessOver DEF walk, work
<1>5. CASE /\ f \in Broadcasts /\ units # {}
           /\ remaining' = [remaining EXCEPT ![f] = Cardinality(units)]
           /\ fan' = f /\ visiting' = units /\ completed' = FALSE /\ looping' = FALSE
           /\ UNCHANGED <<work, fate, replies>>
  BY <1>5, ProcessFanned
<1> QED BY <1>2, <1>3, <1>4, <1>5 DEF Process
-----------------------------------------------------------------------------
(* Before the gates nothing of a frame is in the slave.                    *)
LEMMA BeforeGates ==
  ASSUME SlaveInv, NEW f \in Frames, gate[f] \in {"new", "unit", "address"}
  PROVE  /\ f \notin queue /\ Owing(f) = {} /\ Out(f) = {} /\ Left(f) = {}
         /\ fan # f /\ fate[f] = "none" /\ replies[f] = 0
BY DEF SlaveInv, Sound, Placed, Owing

(* A push that drops what the strategy drops.                              *)
LEMMA EnqueueKeeps ==
  ASSUME SlaveInv, NEW f \in Frames, gate[f] \in {"new", "unit", "address"}, ~looping,
         Queued, Enqueue(f), gate' = [gate EXCEPT ![f] = "passed"],
         arrival' \in [Frames -> Nat], ticket' \in [Frames -> Nat],
         UNCHANGED <<options, destroyed, units>>
  PROVE  SlaveInv'
<1> DEFINE stale == {g \in queue : Superseded(f, g)}
<1>1. /\ TypeOK /\ Driven /\ OneAtATime /\ handling \cap runtime = {}
      /\ UNCHANGED <<queueStrategy, removals, fan, visiting, completed, handling, runtime,
                     remaining, replies>>
      /\ queue' = (queue \ stale) \cup {f}
      /\ fate' = [g \in Frames |-> IF g \in stale THEN "dropped" ELSE fate[g]]
      /\ processing' = TRUE /\ looping' = ~processing
      /\ stale \subseteq queue
  BY DEF SlaveInv, options, Enqueue, walk, work
<1> HIDE DEF stale
<1>2. Queued' <=> Queued
  BY <1>1 DEF Queued
<1>3. \A g : Out(g)' = Out(g) /\ Left(g)' = Left(g) /\ Owing(g)' = Owing(g)
  BY <1>1 DEF Out, Left, Owing
<1>4. /\ gate' \in [Frames -> {"new", "unit", "address", "passed", "refused"}]
      /\ gate'[f] = "passed"
      /\ \A g \in Frames : g # f => gate'[g] = gate[g]
  BY <1>1 DEF TypeOK
<1>5. /\ fate' \in [Frames -> {"none", "over", "dropped"}] /\ queue' \subseteq Frames
      /\ looping' \in BOOLEAN
  BY <1>1 DEF TypeOK
<1>6. TypeOK'
  BY <1>1, <1>4, <1>5 DEF TypeOK
<1>7. Sound(f)'
  <2>1. f \notin stale /\ Owing(f)' = {} /\ fan' # f /\ replies'[f] = 0
    BY <1>1, <1>3, BeforeGates
  <2>2. fate'[f] = "none" /\ f \in queue' /\ Out(f)' = {}
    BY <1>1, <1>3, <2>1, BeforeGates
  <2>3. Counted(f)'
    BY <1>1, <1>3 DEF SlaveInv, Sound, Counted
  <2>4. Placed(f)'
    BY <1>4, <2>1, <2>2 DEF Placed, Begun
  <2> QED BY <2>3, <2>4 DEF Sound
<1>8. ASSUME NEW g \in Frames, g # f PROVE Sound(g)'
  <2>1. CASE g \in stale
    <3>1. g \in queue /\ g \notin queue' /\ fate'[g] = "dropped" /\ gate'[g] = gate[g]
      BY <1>1, <1>4, <1>8, <2>1
    <3>2. replies'[g] = 0 /\ Owing(g)' = {} /\ Out(g)' = {} /\ fan' # g /\ gate'[g] = "passed"
      BY <1>1, <1>3, <3>1 DEF SlaveInv, Sound, Placed, Owing
    <3>3. Counted(g)'
      BY <1>1, <1>3 DEF SlaveInv, Sound, Counted
    <3>4. Placed(g)'
      BY <3>1, <3>2 DEF Placed, Begun
    <3> QED BY <3>3, <3>4 DEF Sound
  <2>2. CASE g \notin stale
    <3>1. Aside(g)
      BY <1>1, <1>3, <1>4, <1>8, <2>2 DEF Aside
    <3> QED BY <1>1, <3>1, AsideSound DEF SlaveInv
  <2> QED BY <2>1, <2>2
<1>9. Working' = Working /\ (Busy' <=> Busy)
  BY <1>1 DEF Working, Busy
<1>10. Driven'
  <2>1. /\ looping' => Queued'
        /\ fan' = NoFrame => visiting' = {} /\ ~completed'
        /\ destroyed' => units' = {} /\ fan' = NoFrame
    BY <1>1, <1>2 DEF Driven
  <2>2. processing' /\ (looping' <=> ~processing)
    BY <1>1
  <2>3. ~destroyed => (Busy => processing)
    BY <1>1 DEF Driven
  <2>4. ~destroyed /\ ~removals /\ processing => Busy
    BY <1>1 DEF Driven
  <2>5. ~destroyed' /\ looping' => ~Busy'
    BY <1>9, <2>2, <2>3
  <2>6. ~destroyed' /\ ~removals' => looping' \/ Busy'
    BY <1>1, <1>9, <2>2, <2>4
  <2> QED BY <2>1, <2>2, <2>5, <2>6 DEF Driven
<1>11. OneAtATime'
  BY <1>1, <1>9, OneKept
<1> QED BY <1>1, <1>6, <1>7, <1>8, <1>10, <1>11 DEF SlaveInv

(* A frame that is refused, or waits for a hook.                           *)
LEMMA GateKeeps ==
  ASSUME SlaveInv, NEW f \in Frames, gate[f] \in {"new", "unit", "address"},
         NEW stage \in {"unit", "address", "refused"},
         gate' = [gate EXCEPT ![f] = stage],
         \/ stage = "refused" /\ (Reply(f) \/ UNCHANGED replies)
         \/ UNCHANGED replies,
         arrival' \in [Frames -> Nat],
         UNCHANGED <<options, destroyed, units, queue, processing, looping, walk,
                     remaining, work, fate, ticket>>
  PROVE  SlaveInv'
<1>1. /\ TypeOK /\ Driven /\ OneAtATime /\ handling \cap runtime = {}
      /\ UNCHANGED <<queueStrategy, removals, fan, visiting, completed, handling, runtime>>
  BY DEF SlaveInv, options, walk, work
<1>2. Queued' <=> Queued
  BY <1>1 DEF Queued
<1>3. \A g : Out(g)' = Out(g) /\ Left(g)' = Left(g) /\ Owing(g)' = Owing(g)
  BY <1>1 DEF Out, Left, Owing
<1>4. /\ gate' \in [Frames -> {"new", "unit", "address", "passed", "refused"}]
      /\ gate'[f] = stage /\ stage # "passed"
      /\ \A g \in Frames : g # f => gate'[g] = gate[g]
  BY <1>1 DEF TypeOK
<1>5. replies[f] = 0 /\ replies \in [Frames -> Nat]
  BY <1>1, BeforeGates DEF TypeOK
<1>6. \/ replies' = replies
      \/ stage = "refused" /\ f \notin Broadcasts /\ replies' = [replies EXCEPT ![f] = 1]
  BY <1>5 DEF Reply
<1>7. /\ replies' \in [Frames -> Nat]
      /\ stage # "refused" => replies'[f] = 0
      /\ f \in Broadcasts => replies'[f] = 0
      /\ replies'[f] <= 1
      /\ \A g \in Frames : g # f => replies'[g] = replies[g]
  BY <1>5, <1>6
<1>8. TypeOK'
  BY <1>1, <1>4, <1>7 DEF TypeOK
<1>9. Sound(f)'
  <2>1. f \notin queue' /\ Owing(f)' = {} /\ Out(f)' = {} /\ fan' # f /\ fate'[f] = "none"
    BY <1>1, <1>3, BeforeGates
  <2>2. Counted(f)'
    BY <1>1, <1>3 DEF SlaveInv, Sound, Counted
  <2>3. Placed(f)'
    BY <1>4, <1>7, <2>1 DEF Placed, Begun
  <2> QED BY <2>2, <2>3 DEF Sound
<1>10. ASSUME NEW g \in Frames, g # f PROVE Sound(g)'
  <2>1. Aside(g)
    BY <1>1, <1>3, <1>4, <1>7, <1>10 DEF Aside
  <2> QED BY <1>1, <2>1, AsideSound DEF SlaveInv
<1>11. Working' = Working /\ (Busy' <=> Busy)
  BY <1>1 DEF Working, Busy
<1>12. Driven'
  BY <1>1, <1>2, <1>11 DEF Driven
<1>13. OneAtATime'
  BY <1>1, <1>11, OneKept
<1> QED BY <1>1, <1>8, <1>9, <1>10, <1>12, <1>13 DEF SlaveInv

(* Of infinitely many frames finitely many have come in, so that arrivals  *)
(* and tickets are numbers.                                                *)
CameIn == {g \in Frames : gate[g] # "new"}

LEMMA Numbered ==
  ASSUME IsFiniteSet(CameIn)
  PROVE  /\ Cardinality({g \in Frames : gate[g] # "new"}) + 1 \in Nat
         /\ Cardinality({g \in Frames : gate[g] = "passed"}) + 1 \in Nat
<1>1. {g \in Frames : gate[g] = "passed"} \subseteq CameIn
  BY DEF CameIn
<1>2. IsFiniteSet({g \in Frames : gate[g] = "passed"})
  BY <1>1, FS_Subset
<1> QED BY <1>2, FS_CardinalityType DEF CameIn

(* A frame passes the gates.                                               *)
LEMMA AdmitKeeps ==
  ASSUME SlaveInv, IsFiniteSet(CameIn), NEW f \in Frames,
         gate[f] \in {"new", "unit", "address"}, Idle, Admit(f),
         arrival' \in [Frames -> Nat], UNCHANGED <<options, destroyed, units>>
  PROVE  SlaveInv'
<1>1. TypeOK /\ gate' = [gate EXCEPT ![f] = "passed"] /\ gate'[f] = "passed"
  BY DEF Admit, SlaveInv, TypeOK
<1>2. ticket' \in [Frames -> Nat]
  BY <1>1, Numbered DEF Admit, TypeOK
<1>3. CASE Queued
  BY <1>1, <1>2, <1>3, EnqueueKeeps DEF Admit, Idle
<1>4. CASE ~Queued
  <2>1. Process(f) /\ UNCHANGED <<queue, processing>>
    BY <1>4 DEF Admit
  <2>2. queue' = queue \ {f}
    BY <2>1, BeforeGates
  <2>3. Ready(f)
    BY <1>1, <1>2, <1>4, <2>1, <2>2, BeforeGates DEF Ready, Idle
  <2> QED BY <2>1, <2>3, ProcessKeeps
<1> QED BY <1>3, <1>4

LEMMA CheckAddressKeeps ==
  ASSUME SlaveInv, IsFiniteSet(CameIn), NEW f \in Frames,
         gate[f] \in {"new", "unit", "address"}, Idle, CheckAddress(f),
         arrival' \in [Frames -> Nat], UNCHANGED <<options, destroyed, units>>
  PROVE  SlaveInv'
<1>1. CASE Admit(f)
  BY <1>1, AdmitKeeps
<1>2. CASE Refuse(f)
  BY <1>2, GateKeeps DEF Refuse
<1>3. CASE Defer(f, "address")
  BY <1>3, GateKeeps DEF Defer
<1> QED BY <1>1, <1>2, <1>3 DEF CheckAddress

LEMMA ArriveKeeps ==
  ASSUME SlaveInv, IsFiniteSet(CameIn), NEW f \in Frames, Arrive(f) PROVE SlaveInv'
<1>1. arrival' \in [Frames -> Nat]
  BY Numbered DEF Arrive, SlaveInv, TypeOK
<1>2. gate[f] \in {"new", "unit", "address"} /\ Idle /\ UNCHANGED <<options, destroyed, units>>
  BY DEF Arrive
<1>3. CASE CheckAddress(f)
  BY <1>1, <1>2, <1>3, CheckAddressKeeps
<1>4. CASE Defer(f, "unit")
  BY <1>1, <1>2, <1>4, GateKeeps DEF Defer
<1> QED BY <1>3, <1>4 DEF Arrive

LEMMA GateCheckedKeeps ==
  ASSUME SlaveInv, IsFiniteSet(CameIn), NEW f \in Frames, GateChecked(f) PROVE SlaveInv'
<1>1. arrival' \in [Frames -> Nat]
  BY DEF GateChecked, SlaveInv, TypeOK
<1>2. gate[f] \in {"new", "unit", "address"} /\ Idle /\ UNCHANGED <<options, destroyed, units>>
  BY DEF GateChecked
<1>3. CASE CheckAddress(f)
  BY <1>1, <1>2, <1>3, CheckAddressKeeps
<1>4. CASE Admit(f)
  BY <1>1, <1>2, <1>4, AdmitKeeps
<1>5. CASE Refuse(f)
  BY <1>1, <1>2, <1>5, GateKeeps DEF Refuse
<1> QED BY <1>3, <1>4, <1>5 DEF GateChecked
-----------------------------------------------------------------------------
LEMMA DrainKeeps == ASSUME SlaveInv, DrainNext PROVE SlaveInv'
<1>1. /\ TypeOK /\ Driven /\ OneAtATime /\ looping
      /\ UNCHANGED <<options, destroyed, units, gate, arrival, ticket>>
  BY DEF SlaveInv, DrainNext
<1>2. CASE StopDraining
  <2>1. /\ UNCHANGED <<queueStrategy, removals, fan, visiting, completed, handling, runtime,
                       remaining, fate, replies, queue>>
        /\ queue = {} /\ looping' = FALSE /\ processing' = FALSE
    BY <1>1, <1>2 DEF StopDraining, options, walk, work
  <2>2. (Queued' <=> Queued) /\ Working' = Working /\ (Busy' <=> Busy)
    BY <2>1 DEF Queued, Working, Busy
  <2>3. TypeOK'
    BY <1>1, <2>1 DEF TypeOK
  <2>4. ASSUME NEW g \in Frames PROVE Sound(g)'
    <3>1. Aside(g)
      BY <1>1, <2>1 DEF Aside, Out, Left
    <3> QED BY <1>1, <2>1, <3>1, AsideSound DEF SlaveInv
  <2>5. Driven'
    <3>1. Queued' /\ ~destroyed' => ~Busy'
      BY <1>1, <2>2 DEF Driven
    <3> QED BY <1>1, <2>1, <3>1 DEF Driven
  <2>6. OneAtATime'
    BY <1>1, <2>1, <2>2, OneKept
  <2> QED BY <2>1, <2>3, <2>4, <2>5, <2>6 DEF SlaveInv
<1>3. CASE TakeFirst
  <2>1. PICK f \in queue : queue' = queue \ {f} /\ Process(f) /\ UNCHANGED processing
    BY <1>3 DEF TakeFirst
  <2>2. f \in Frames
    BY <1>1 DEF TypeOK
  <2>3. fate[f] = "none" /\ replies[f] = 0 /\ Owing(f) = {} /\ gate[f] = "passed"
    BY <2>2 DEF SlaveInv, Sound, Placed
  <2>4. fan = NoFrame
    BY <1>1 DEF Driven, Busy
  <2>5. (Queued /\ ~destroyed => ~Busy) /\ (Queued /\ ~destroyed => processing)
    BY <1>1 DEF Driven
  <2>6. arrival' \in [Frames -> Nat] /\ ticket' \in [Frames -> Nat] /\ gate' = gate
    BY <1>1 DEF TypeOK
  <2>7. Ready(f)
    BY <1>1, <2>1, <2>3, <2>4, <2>5, <2>6 DEF Ready
  <2> QED BY <2>1, <2>2, <2>7, ProcessKeeps
<1> QED BY <1>2, <1>3 DEF DrainNext

(* The loop calls the next handler.                                        *)
LEMMA VisitOneKeeps ==
  ASSUME SlaveInv, fan # NoFrame, NEW u \in visiting,
         visiting' = visiting \ {u}, handling' = handling \cup {<<fan, u>>},
         UNCHANGED <<options, destroyed, units, gate, queue, processing, looping, fan,
                     completed, remaining, runtime, fate, replies, arrival, ticket>>
  PROVE  SlaveInv'
<1>1. /\ TypeOK /\ Driven /\ OneAtATime /\ handling \cap runtime = {}
      /\ UNCHANGED <<queueStrategy, removals>>
  BY DEF SlaveInv, options
<1>2. fan \in Frames /\ u \in Units /\ (Queued' <=> Queued)
  BY <1>1, BroadcastFrames DEF TypeOK, Queued
<1>3. u \notin Out(fan) /\ Sound(fan) /\ fan \in Broadcasts
  BY <1>1, <1>2 DEF SlaveInv, Sound, Counted, Left, TypeOK
<1>4. /\ Out(fan)' = Out(fan) \cup {u} /\ Left(fan)' = Left(fan) \ {u} /\ Owing(fan)' = Owing(fan)
      /\ \A g : g # fan => Out(g)' = Out(g) /\ Left(g)' = Left(g)
  BY <1>2 DEF Out, Left, Owing
<1>5. handling' \cap runtime' = {}
  BY <1>1, <1>2, <1>3 DEF Out
<1>6. TypeOK'
  BY <1>1, <1>2 DEF TypeOK
<1>7. Sound(fan)'
  <2>1. Counted(fan)'
    BY <1>1, <1>3, <1>4 DEF Sound, Counted
  <2>2. Begun(fan)' <=> Begun(fan)
    BY DEF Begun
  <2>3. Placed(fan)'
    BY <1>3, <1>4, <2>2 DEF Sound, Placed
  <2> QED BY <2>1, <2>3 DEF Sound
<1>8. ASSUME NEW g \in Frames, g # fan PROVE Sound(g)'
  <2>1. Aside(g)
    BY <1>4, <1>8 DEF Aside
  <2> QED BY <1>1, <2>1, AsideSound DEF SlaveInv
<1>9. Working' \subseteq Working \cup ({fan} \ {NoFrame}) /\ Busy /\ Busy'
  BY DEF Working, Busy
<1>10. Driven'
  BY <1>1, <1>2, <1>9 DEF Driven
<1>11. OneAtATime'
  BY <1>1, <1>9, OneKept
<1>12. ASSUME NEW g \in Frames PROVE Sound(g)'
  BY <1>7, <1>8
<1> QED BY <1>5, <1>6, <1>10, <1>11, <1>12 DEF SlaveInv

(* The loop is over, and next() goes on if the callback has run.           *)
LEMMA VisitEndKeeps ==
  ASSUME SlaveInv, fan # NoFrame, visiting = {}, fan' = NoFrame, completed' = FALSE,
         looping' = (Queued /\ completed),
         UNCHANGED <<options, destroyed, units, gate, queue, processing, visiting, remaining,
                     handling, runtime, fate, replies, arrival, ticket>>
  PROVE  SlaveInv'
<1>1. /\ TypeOK /\ Driven /\ OneAtATime /\ handling \cap runtime = {}
      /\ UNCHANGED <<queueStrategy, removals>>
  BY DEF SlaveInv, options
<1>2. /\ fan \in Frames /\ fan \in Broadcasts /\ Sound(fan)
      /\ Queued' <=> Queued
  BY <1>1, BroadcastFrames DEF SlaveInv, TypeOK, Queued
<1>3. \A g : Out(g)' = Out(g) /\ Left(g)' = Left(g) /\ Owing(g) = Out(g)
  BY DEF Out, Left, Owing
<1>4. TypeOK'
  <2>1. looping' \in BOOLEAN
    BY <1>1 DEF TypeOK, Queued
  <2> QED BY <1>1, <2>1 DEF TypeOK
<1>5. ASSUME NEW g \in Frames PROVE Sound(g)'
  <2>1. Aside(g)
    BY <1>3, BroadcastFrames DEF Aside
  <2> QED BY <1>1, <2>1, AsideSound DEF SlaveInv
<1>6. Working' = Working /\ (Busy' <=> Working # {}) /\ Busy
  BY DEF Working, Busy
<1>7. Queued /\ completed => Working = {}
  <2> SUFFICES ASSUME Queued, completed PROVE Working = {}
    OBVIOUS
  <2>1. fate[fan] = "over"
    BY <1>2 DEF Sound, Placed
  <2>2. Out(fan) = {}
    BY <1>2, <1>3, <2>1 DEF Sound, Placed
  <2>3. Working \subseteq {fan}
    BY <1>2, Alone
  <2> QED BY <1>2, <2>2, <2>3, WorkingOut
<1>8. ~destroyed /\ ~removals /\ ~completed => Working # {}
  <2> SUFFICES ASSUME ~destroyed, ~removals, ~completed PROVE Working # {}
    OBVIOUS
  <2>1. fate[fan] = "none" /\ gate[fan] = "passed" /\ fan \notin queue
    BY <1>1, <1>2 DEF Sound, Placed, TypeOK
  <2>2. remaining[fan] >= 1
    BY <1>2, <2>1 DEF Sound, Placed, Begun
  <2>3. Cardinality(Owing(fan)) # 0
    BY <1>2, <2>2 DEF Sound, Counted
  <2>4. Out(fan) # {}
    BY <1>3, <2>3, FS_EmptySet
  <2> QED BY <1>2, <2>4, WorkingOut
<1>9. Driven'
  <2>1. /\ looping' => Queued'
        /\ fan' = NoFrame => visiting' = {} /\ ~completed'
        /\ destroyed' => units' = {} /\ fan' = NoFrame
    BY <1>1, <1>2 DEF Driven
  <2>2. Queued' /\ ~destroyed' /\ looping' => ~Busy'
    BY <1>2, <1>6, <1>7
  <2>3. Queued' /\ ~destroyed' => processing'
    BY <1>1, <1>2, <1>6 DEF Driven
  <2>4. Queued' /\ ~destroyed' /\ ~removals' => looping' \/ Busy'
    BY <1>1, <1>2, <1>6, <1>8
  <2> QED BY <2>1, <2>2, <2>3, <2>4 DEF Driven
<1>10. OneAtATime'
  BY <1>1, <1>6, OneKept
<1> QED BY <1>1, <1>4, <1>5, <1>9, <1>10 DEF SlaveInv

LEMMA VisitKeeps == ASSUME SlaveInv, VisitNext PROVE SlaveInv'
BY VisitOneKeeps, VisitEndKeeps DEF VisitNext
-----------------------------------------------------------------------------
(* The answer of a unit: <<f, u>> is no longer handled or checked.         *)
Answered(f, u) ==
  /\ u \in Out(f) /\ handling' \subseteq handling /\ runtime' \subseteq runtime
  /\ handling' \cup runtime' = (handling \cup runtime) \ {<<f, u>>}
  /\ ~looping /\ Answer(f)
  /\ UNCHANGED <<options, destroyed, units, gate, queue, processing, fan, visiting,
                 arrival, ticket>>

(* What it leaves of the frame.                                            *)
LEMMA AnswerLeaves ==
  ASSUME SlaveInv, NEW f \in Frames, NEW u \in Units, Answered(f, u)
  PROVE  /\ Out(f)' = Out(f) \ {u} /\ Left(f)' = Left(f) /\ Owing(f)' = Owing(f) \ {u}
         /\ \A g : g # f => Out(g)' = Out(g) /\ Left(g)' = Left(g)
         /\ Cardinality(Owing(f)) \in Nat /\ Cardinality(Owing(f)) >= 1
         /\ Cardinality(Owing(f)') = Cardinality(Owing(f)) - 1
         /\ IsFiniteSet(Owing(f)') /\ u \notin Left(f)
<1>1. TypeOK /\ Sound(f)
  BY DEF SlaveInv
<1>2. /\ Out(f)' = Out(f) \ {u} /\ Left(f)' = Left(f)
      /\ \A g : g # f => Out(g)' = Out(g) /\ Left(g)' = Left(g)
  BY DEF Answered, Out, Left
<1>3. u \in Owing(f) /\ u \notin Left(f) /\ Owing(f)' = Owing(f) \ {u}
  BY <1>1, <1>2 DEF Answered, Sound, Counted, Owing
<1>4. IsFiniteSet(Owing(f)) /\ Cardinality(Owing(f)) \in Nat
  BY <1>1, OwingFinite
<1>5. IsFiniteSet(Owing(f)') /\ Cardinality(Owing(f)') = Cardinality(Owing(f)) - 1
  BY <1>3, <1>4, FS_RemoveElement
<1>6. Cardinality(Owing(f)) >= 1
  BY <1>3, <1>4, FS_EmptySet
<1> QED BY <1>2, <1>3, <1>4, <1>5, <1>6

(* Either the frame is over, or it is a broadcast that others owe.         *)
LEMMA AnswerOutcome ==
  ASSUME SlaveInv, NEW f \in Frames, NEW u \in Units, Answered(f, u)
  PROVE  \/ /\ Complete(f) /\ Owing(f)' = {}
            /\ remaining' \in {remaining, [remaining EXCEPT ![f] = @ - 1]}
            /\ f \in Broadcasts => remaining'[f] = 0
         \/ /\ f \in Broadcasts /\ remaining[f] >= 2
            /\ remaining' = [remaining EXCEPT ![f] = @ - 1]
            /\ UNCHANGED <<fate, completed, looping>>
<1>1. TypeOK /\ Sound(f) /\ remaining \in [Frames -> Int] /\ remaining[f] \in Int
  BY DEF SlaveInv, TypeOK
<1>2. UnitOver(f)
  BY DEF Answered, Answer
<1>3. CASE f \in Broadcasts /\ remaining[f] = 1
  <2>1. Cardinality(Owing(f)') = 0
    BY <1>1, <1>3, AnswerLeaves DEF Sound, Counted
  <2>2. Owing(f)' = {}
    BY <2>1, AnswerLeaves, FS_EmptySet
  <2> QED BY <1>1, <1>2, <1>3, <2>2 DEF UnitOver
<1>4. CASE f \in Broadcasts /\ remaining[f] # 1
  <2>1. remaining[f] >= 1
    BY <1>1, <1>4, AnswerLeaves DEF Sound, Counted
  <2> QED BY <1>1, <1>2, <1>4, <2>1 DEF UnitOver
<1>5. CASE f \notin Broadcasts
  <2>1. Out(f) = {u} /\ Left(f) = {}
    <3>1. Out(f) \subseteq {UnitOf[f]} /\ u \in Out(f)
      BY <1>1, <1>5 DEF Sound, Counted, Answered
    <3>2. fan # f
      BY <1>1, <1>5, BroadcastFrames DEF TypeOK
    <3> QED BY <3>1, <3>2 DEF Left
  <2>2. Owing(f)' = {}
    BY <2>1, AnswerLeaves DEF Owing
  <2> QED BY <1>2, <1>5, <2>2 DEF UnitOver
<1> QED BY <1>3, <1>4, <1>5

LEMMA AnswerKeeps ==
  ASSUME SlaveInv, NEW f \in Frames, NEW u \in Units, Answered(f, u)
  PROVE  SlaveInv'
<1>1. /\ TypeOK /\ Driven /\ OneAtATime /\ handling \cap runtime = {} /\ Sound(f)
      /\ UNCHANGED <<queueStrategy, removals, destroyed, units, gate, queue, processing, fan,
                     visiting, arrival, ticket>>
      /\ UNCHANGED options
      /\ ~looping /\ f # NoFrame
  BY BroadcastFrames DEF SlaveInv, options, Answered
<1>2. /\ Queued' <=> Queued
      /\ Out(f) # {} /\ Owing(f) # {} /\ fate[f] = "none" /\ f \notin queue /\ gate[f] = "passed"
  <2>1. Out(f) # {} /\ Owing(f) # {}
    BY DEF Answered, Owing
  <2> QED BY <1>1, <2>1 DEF Queued, Sound, Placed
<1>3. /\ fate' \in {fate, [fate EXCEPT ![f] = "over"]}
      /\ looping' \in {FALSE, TRUE}
      /\ completed' \in BOOLEAN
      /\ fan # f => completed' = completed
      /\ remaining' \in {remaining, [remaining EXCEPT ![f] = @ - 1]}
  <2>1. completed \in BOOLEAN
    BY <1>1 DEF TypeOK
  <2>2. completed' \in {completed, (completed \/ fan = f)}
    BY AnswerOutcome DEF Complete
  <2>3. completed' \in BOOLEAN /\ (fan # f => completed' = completed)
    BY <2>1, <2>2
  <2>4. looping' \in {FALSE, TRUE}
    <3>1. looping \in {FALSE, TRUE}
      BY <1>1 DEF TypeOK
    <3> QED BY <3>1, AnswerOutcome DEF Complete
  <2>5. /\ fate' \in {fate, [fate EXCEPT ![f] = "over"]}
        /\ remaining' \in {remaining, [remaining EXCEPT ![f] = @ - 1]}
    BY AnswerOutcome DEF Complete
  <2> QED BY <2>3, <2>4, <2>5
<1>4. replies' \in {replies, [replies EXCEPT ![f] = @ + 1]} /\ (f \in Broadcasts => replies' = replies)
  BY DEF Answered, Answer, Reply
<1>5. /\ replies' \in [Frames -> Nat]
      /\ replies'[f] <= 1
      /\ f \in Broadcasts => replies'[f] = 0
      /\ \A g \in Frames : g # f => replies'[g] = replies[g]
  BY <1>1, <1>2, <1>4 DEF Sound, Placed, TypeOK
<1>6. TypeOK' /\ handling' \cap runtime' = {}
  <2>1. /\ fate' \in [Frames -> {"none", "over", "dropped"}] /\ remaining' \in [Frames -> Int]
        /\ handling' \subseteq Frames \X Units /\ runtime' \subseteq Frames \X Units
    BY <1>1, <1>3 DEF TypeOK, Answered
  <2>2. looping' \in BOOLEAN
    BY <1>3
  <2>3. handling' \cap runtime' = {}
    BY <1>1 DEF Answered
  <2> QED BY <1>1, <1>3, <1>5, <2>1, <2>2, <2>3 DEF TypeOK
<1>7. ASSUME NEW g \in Frames, g # f PROVE Sound(g)'
  <2>1. fate'[g] = fate[g] /\ remaining'[g] = remaining[g]
    BY <1>1, <1>3, <1>7 DEF TypeOK
  <2>2. Aside(g)
    BY <1>1, <1>3, <1>5, <1>7, <2>1, AnswerLeaves DEF Aside
  <2> QED BY <1>1, <2>2, AsideSound DEF SlaveInv
<1>8. CASE /\ Complete(f) /\ Owing(f)' = {}
           /\ f \in Broadcasts => remaining'[f] = 0
  <2>1. /\ fate'[f] = "over" /\ Out(f)' = {} /\ Left(f)' = {}
        /\ fan' = f => completed'
    BY <1>1, <1>8 DEF Complete, TypeOK, Owing
  <2>2. Sound(f)'
    <3>1. Counted(f)'
      BY <1>8, <2>1, FS_EmptySet DEF Counted
    <3>2. Placed(f)'
      BY <1>1, <1>2, <1>5, <1>8, <2>1 DEF Placed, Begun
    <3> QED BY <3>1, <3>2 DEF Sound
  <2>3. Busy /\ (Queued => Working' = {} /\ fan' \in {f, NoFrame})
    <3>1. Busy
      BY <1>2, WorkingOut DEF Busy
    <3>2. Queued => Working' = {} /\ fan' \in {f, NoFrame}
      <4> SUFFICES ASSUME Queued PROVE Working' = {} /\ fan' \in {f, NoFrame}
        OBVIOUS
      <4>1. Working' \subseteq Working /\ Working \subseteq {f} /\ fan \in {f, NoFrame}
        BY <1>2, Alone DEF Working, Answered
      <4>2. f \notin Working'
        BY <2>1 DEF Working, Out
      <4> QED BY <1>1, <4>1, <4>2
    <3> QED BY <3>1, <3>2
  <2>4. looping' <=> (Queued /\ fan # f)
    BY <1>1, <1>8 DEF Complete
  <2>5. Driven'
    <3>1. /\ looping' => Queued'
          /\ fan' = NoFrame => visiting' = {} /\ ~completed'
          /\ destroyed' => units' = {} /\ fan' = NoFrame
      BY <1>1, <1>2, <1>3, <2>4 DEF Driven
    <3>2. Queued' /\ ~destroyed' /\ looping' => ~Busy'
      BY <1>1, <1>2, <2>3, <2>4 DEF Busy
    <3>3. Queued' /\ ~destroyed' => processing'
      BY <1>1, <1>2, <2>3 DEF Driven
    <3>4. Queued' => looping' \/ Busy'
      BY <1>1, <1>2, <2>4 DEF Busy
    <3> QED BY <3>1, <3>2, <3>3, <3>4 DEF Driven
  <2>6. ASSUME NEW g \in Frames PROVE Sound(g)'
    BY <1>7, <2>2
  <2>7. OneAtATime'
    <3>1. Working' \subseteq Working
      BY DEF Working, Answered
    <3> QED BY <1>1, <3>1, OneKept
  <2> QED BY <1>6, <2>5, <2>6, <2>7 DEF SlaveInv
<1>9. CASE /\ f \in Broadcasts /\ remaining[f] >= 2
           /\ remaining' = [remaining EXCEPT ![f] = @ - 1]
           /\ UNCHANGED <<fate, completed, looping>>
  <2>1. remaining[f] \in Int /\ remaining'[f] = remaining[f] - 1
    BY <1>1, <1>9 DEF TypeOK
  <2>2. Sound(f)'
    <3>1. Counted(f)'
      <4>1. Out(f)' \cap Left(f)' = {}
        BY <1>1, AnswerLeaves DEF Sound, Counted
      <4> QED BY <1>1, <1>9, <2>1, <4>1, AnswerLeaves DEF Sound, Counted
    <3>2. Placed(f)'
      BY <1>1, <1>2, <1>5, <1>9, <2>1 DEF Sound, Placed, Begun
    <3> QED BY <3>1, <3>2 DEF Sound
  <2>3. Busy
    BY <1>2, WorkingOut DEF Busy
  <2>4. ~removals => Busy'
    <3> SUFFICES ASSUME ~removals, fan = NoFrame PROVE Working' # {}
      BY <1>1 DEF Busy
    <3>1. Cardinality(Owing(f)) >= 2
      BY <1>1, <1>9 DEF Sound, Counted
    <3>2. Owing(f)' # {}
      BY <3>1, AnswerLeaves, FS_EmptySet
    <3>3. Out(f)' # {}
      BY <1>1, <3>2 DEF Owing, Left
    <3> QED BY <3>3 DEF Working, Out
  <2>5. Driven'
    <3>1. /\ ~looping'
          /\ fan' = NoFrame => visiting' = {} /\ ~completed'
          /\ destroyed' => units' = {} /\ fan' = NoFrame
      BY <1>1, <1>9 DEF Driven
    <3>2. Queued' /\ ~destroyed' => processing'
      BY <1>1, <1>2, <2>3 DEF Driven
    <3>3. ~removals' => Busy'
      BY <1>1, <2>4
    <3> QED BY <3>1, <3>2, <3>3 DEF Driven
  <2>6. ASSUME NEW g \in Frames PROVE Sound(g)'
    BY <1>7, <2>2
  <2>7. OneAtATime'
    <3>1. Working' \subseteq Working
      BY DEF Working, Answered
    <3> QED BY <1>1, <3>1, OneKept
  <2> QED BY <1>6, <2>5, <2>6, <2>7 DEF SlaveInv
<1> QED BY <1>8, <1>9, AnswerOutcome

LEMMA HandlerDoneKeeps ==
  ASSUME SlaveInv, NEW f \in Frames, NEW u \in Units, HandlerDone(f, u) PROVE SlaveInv'
<1>1. /\ TypeOK /\ Driven /\ OneAtATime /\ handling \cap runtime = {}
      /\ ~looping /\ <<f, u>> \in handling /\ handling' = handling \ {<<f, u>>}
      /\ UNCHANGED <<options, destroyed, units, gate, queue, processing, fan, visiting,
                     arrival, ticket>>
  BY DEF SlaveInv, HandlerDone
<1>2. CASE Answer(f) /\ UNCHANGED runtime
  <2>1. /\ handling' \cup runtime' = (handling \cup runtime) \ {<<f, u>>}
        /\ handling' \subseteq handling /\ runtime' \subseteq runtime /\ u \in Out(f)
    BY <1>1, <1>2 DEF Out
  <2>2. Answered(f, u)
    BY <1>1, <1>2, <2>1 DEF Answered
  <2> QED BY <2>2, AnswerKeeps
<1>3. CASE /\ runtime' = runtime \cup {<<f, u>>}
           /\ UNCHANGED <<replies, remaining, fate, completed, looping>>
  <2>1. /\ handling' \cup runtime' = handling \cup runtime /\ handling' \cap runtime' = {}
        /\ UNCHANGED <<queueStrategy, removals>>
    BY <1>1, <1>3 DEF options
  <2>2. TypeOK'
    <3>1. handling' \subseteq Frames \X Units /\ runtime' \subseteq Frames \X Units
      BY <1>1, <1>3 DEF TypeOK
    <3> QED BY <1>1, <1>3, <2>1, <3>1 DEF TypeOK
  <2>3. ASSUME NEW g \in Frames PROVE Sound(g)'
    <3>1. Aside(g)
      BY <1>1, <1>3, <2>1 DEF Aside, Out, Left
    <3> QED BY <1>1, <2>1, <3>1, AsideSound DEF SlaveInv
  <2>4. Working' = Working /\ (Busy' <=> Busy) /\ (Queued' <=> Queued)
    BY <1>1, <2>1 DEF Working, Busy, Queued
  <2>5. Driven'
    BY <1>1, <1>3, <2>1, <2>4 DEF Driven
  <2>6. OneAtATime'
    BY <1>1, <2>4, OneKept
  <2> QED BY <2>1, <2>2, <2>3, <2>5, <2>6 DEF SlaveInv
<1> QED BY <1>2, <1>3 DEF HandlerDone

LEMMA RuntimeDoneKeeps ==
  ASSUME SlaveInv, NEW f \in Frames, NEW u \in Units, RuntimeDone(f, u) PROVE SlaveInv'
<1>1. handling \cap runtime = {}
  BY DEF SlaveInv
<1>2. /\ handling' \cup runtime' = (handling \cup runtime) \ {<<f, u>>}
      /\ handling' \subseteq handling /\ runtime' \subseteq runtime /\ u \in Out(f)
  BY <1>1 DEF RuntimeDone, Out
<1>3. Answered(f, u)
  BY <1>2 DEF RuntimeDone, Answered, Idle
<1> QED BY <1>3, AnswerKeeps
-----------------------------------------------------------------------------
LEMMA AddUnitKeeps == ASSUME SlaveInv, NEW u \in Units, AddUnit(u) PROVE SlaveInv'
<1>1. /\ TypeOK /\ Driven /\ OneAtATime /\ handling \cap runtime = {} /\ ~destroyed
      /\ units' = units \cup {u} /\ UNCHANGED options
      /\ UNCHANGED <<queueStrategy, removals, destroyed, gate, queue, processing, looping, fan,
                     visiting, completed, remaining, handling, runtime, fate, replies,
                     arrival, ticket>>
  BY DEF SlaveInv, AddUnit, options, walk, work
<1>2. Working' = Working /\ (Busy' <=> Busy) /\ (Queued' <=> Queued)
  BY <1>1 DEF Working, Busy, Queued
<1>3. TypeOK'
  BY <1>1 DEF TypeOK
<1>4. ASSUME NEW g \in Frames PROVE Sound(g)'
  <2>1. Aside(g)
    BY <1>1 DEF Aside, Out, Left
  <2> QED BY <1>1, <2>1, AsideSound DEF SlaveInv
<1>5. Driven'
  BY <1>1, <1>2 DEF Driven
<1>6. OneAtATime'
  BY <1>1, <1>2, OneKept
<1> QED BY <1>1, <1>3, <1>4, <1>5, <1>6 DEF SlaveInv

(* A unit that is removed while a broadcast has still to visit it owes no  *)
(* more: the counter keeps counting it.                                    *)
LEMMA RemoveUnitKeeps == ASSUME SlaveInv, NEW u \in Units, RemoveUnit(u) PROVE SlaveInv'
<1>1. /\ TypeOK /\ Driven /\ OneAtATime /\ handling \cap runtime = {}
      /\ fan = NoFrame \/ removals
      /\ units' = units \ {u} /\ visiting' = visiting \ {u} /\ UNCHANGED options
      /\ UNCHANGED <<queueStrategy, removals, destroyed, gate, queue, processing, looping, fan,
                     completed, remaining, handling, runtime, fate, replies, arrival, ticket>>
  BY DEF SlaveInv, RemoveUnit, options, work, Idle
<1>2. Working' = Working /\ (Busy' <=> Busy) /\ (Queued' <=> Queued)
  BY <1>1 DEF Working, Busy, Queued
<1>3. TypeOK'
  BY <1>1 DEF TypeOK
<1>4. ASSUME NEW g \in Frames PROVE Sound(g)'
  <2>1. CASE fan # g
    <3>1. Aside(g)
      BY <1>1, <2>1 DEF Aside, Out, Left
    <3> QED BY <1>1, <3>1, AsideSound DEF SlaveInv
  <2>2. CASE fan = g
    <3>1. removals /\ removals' /\ Sound(g) /\ g \in Broadcasts
      BY <1>1, <2>2, BroadcastFrames DEF SlaveInv, TypeOK
    <3>2. Out(g)' = Out(g) /\ Left(g)' \subseteq Left(g) /\ Owing(g)' \subseteq Owing(g)
      BY <1>1, <2>2 DEF Out, Left, Owing
    <3>3. IsFiniteSet(Owing(g)) /\ Cardinality(Owing(g)) \in Nat
      BY <1>1, OwingFinite
    <3>4. Cardinality(Owing(g)') <= Cardinality(Owing(g)) /\ Cardinality(Owing(g)') \in Nat
      BY <3>2, <3>3, FS_Subset, FS_CardinalityType
    <3>5. remaining[g] \in Int /\ remaining'[g] = remaining[g]
      BY <1>1 DEF TypeOK
    <3>6. Counted(g)'
      BY <3>1, <3>2, <3>3, <3>4, <3>5 DEF Sound, Counted
    <3>7. Begun(g)' <=> Begun(g)
      BY <1>1 DEF Begun
    <3>8. Placed(g)'
      BY <1>1, <3>1, <3>2, <3>7 DEF Sound, Placed
    <3> QED BY <3>6, <3>8 DEF Sound
  <2> QED BY <2>1, <2>2
<1>5. Driven'
  BY <1>1, <1>2 DEF Driven
<1>6. OneAtATime'
  BY <1>1, <1>2, OneKept
<1> QED BY <1>1, <1>3, <1>4, <1>5, <1>6 DEF SlaveInv

LEMMA DestroyKeeps == ASSUME SlaveInv, Destroy PROVE SlaveInv'
<1>1. /\ TypeOK /\ Driven /\ OneAtATime /\ handling \cap runtime = {}
      /\ fan = NoFrame /\ ~looping
      /\ destroyed' = TRUE /\ queue' = {} /\ processing' = FALSE /\ units' = {}
      /\ UNCHANGED options
      /\ UNCHANGED <<queueStrategy, removals, gate, looping, fan, visiting, completed, remaining,
                     handling, runtime, fate, replies, arrival, ticket>>
  BY DEF SlaveInv, Destroy, options, walk, work, Idle
<1>2. Working' = Working /\ (Queued' <=> Queued)
  BY <1>1 DEF Working, Queued
<1>3. TypeOK'
  BY <1>1 DEF TypeOK
<1>4. ASSUME NEW g \in Frames PROVE Sound(g)'
  <2>1. Out(g)' = Out(g) /\ Left(g)' = Left(g) /\ Owing(g)' = Owing(g)
    BY <1>1 DEF Out, Left, Owing
  <2>2. ~Begun(g)' /\ Sound(g)
    BY <1>1 DEF Begun, SlaveInv
  <2>3. Counted(g)' /\ Placed(g)'
    BY <1>1, <2>1, <2>2 DEF Sound, Counted, Placed
  <2> QED BY <2>3 DEF Sound
<1>5. Driven'
  BY <1>1, <1>2 DEF Driven
<1>6. OneAtATime'
  BY <1>1, <1>2, OneKept
<1> QED BY <1>1, <1>3, <1>4, <1>5, <1>6 DEF SlaveInv

LEMMA StutterKeeps == ASSUME SlaveInv, UNCHANGED vars PROVE SlaveInv'
<1>1. /\ TypeOK /\ Driven /\ OneAtATime /\ handling \cap runtime = {} /\ UNCHANGED options
      /\ UNCHANGED <<queueStrategy, removals, destroyed, units, gate, queue, processing, looping,
                     fan, visiting, completed, remaining, handling, runtime, fate, replies,
                     arrival, ticket>>
  BY DEF SlaveInv, vars, options, walk, work
<1>2. Working' = Working /\ (Busy' <=> Busy) /\ (Queued' <=> Queued)
  BY <1>1 DEF Working, Busy, Queued
<1>3. TypeOK'
  BY <1>1 DEF TypeOK
<1>4. ASSUME NEW g \in Frames PROVE Sound(g)'
  <2>1. Aside(g)
    BY <1>1 DEF Aside, Out, Left
  <2> QED BY <1>1, <2>1, AsideSound DEF SlaveInv
<1>5. Driven'
  BY <1>1, <1>2 DEF Driven
<1>6. OneAtATime'
  BY <1>1, <1>2, OneKept
<1> QED BY <1>1, <1>3, <1>4, <1>5, <1>6 DEF SlaveInv
-----------------------------------------------------------------------------
(* One more frame at most comes in with a step.                            *)
LEMMA CameInFinite ==
  ASSUME TypeOK, IsFiniteSet(CameIn), [Next]_vars PROVE IsFiniteSet(CameIn')
<1>1. gate \in [Frames -> {"new", "unit", "address", "passed", "refused"}]
  BY DEF TypeOK
<1>2. UNCHANGED gate \/ \E f \in Frames : Arrive(f) \/ GateChecked(f)
  <2>1. DrainNext \/ VisitNext => UNCHANGED gate
    BY DEF DrainNext, VisitNext
  <2>2. \A f \in Frames, u \in Units : HandlerDone(f, u) \/ RuntimeDone(f, u) => UNCHANGED gate
    BY DEF HandlerDone, RuntimeDone
  <2>3. (\E u \in Units : AddUnit(u) \/ RemoveUnit(u)) \/ Destroy => UNCHANGED gate
    BY DEF AddUnit, RemoveUnit, Destroy
  <2> QED BY <2>1, <2>2, <2>3 DEF Next, vars
<1>3. CASE UNCHANGED gate
  BY <1>3 DEF CameIn
<1>4. ASSUME NEW f \in Frames, Arrive(f) \/ GateChecked(f) PROVE IsFiniteSet(CameIn')
  <2>1. \E stage : gate' = [gate EXCEPT ![f] = stage]
    BY <1>4 DEF Arrive, GateChecked, CheckAddress, Admit, Refuse, Defer
  <2>2. CameIn' \subseteq CameIn \cup {f}
    BY <1>1, <2>1 DEF CameIn
  <2>3. IsFiniteSet(CameIn \cup {f})
    BY FS_AddElement
  <2> QED BY <2>2, <2>3, FS_Subset
<1> QED BY <1>2, <1>3, <1>4

LEMMA SlaveStep == ASSUME SlaveInv, IsFiniteSet(CameIn), [Next]_vars PROVE SlaveInv'
<1>1. ASSUME NEW f \in Frames, Arrive(f) \/ GateChecked(f) PROVE SlaveInv'
  BY <1>1, ArriveKeeps, GateCheckedKeeps
<1>2. ASSUME NEW f \in Frames, NEW u \in Units, HandlerDone(f, u) \/ RuntimeDone(f, u)
      PROVE  SlaveInv'
  BY <1>2, HandlerDoneKeeps, RuntimeDoneKeeps
<1>3. ASSUME NEW u \in Units, AddUnit(u) \/ RemoveUnit(u) PROVE SlaveInv'
  BY <1>3, AddUnitKeeps, RemoveUnitKeeps
<1>4. CASE DrainNext
  BY <1>4, DrainKeeps
<1>5. CASE VisitNext
  BY <1>5, VisitKeeps
<1>6. CASE Destroy
  BY <1>6, DestroyKeeps
<1>7. CASE UNCHANGED vars
  BY <1>7, StutterKeeps
<1> QED BY <1>1, <1>2, <1>3, <1>4, <1>5, <1>6, <1>7 DEF Next

LEMMA SlaveHolds == Spec => [](SlaveInv /\ IsFiniteSet(CameIn))
<1>1. Init => SlaveInv /\ IsFiniteSet(CameIn)
  <2>1. Init => CameIn = {}
    BY DEF Init, CameIn
  <2> QED BY <2>1, SlaveInit, FS_EmptySet
<1>2. SlaveInv /\ IsFiniteSet(CameIn) /\ [Next]_vars => (SlaveInv /\ IsFiniteSet(CameIn))'
  <2>1. SlaveInv => TypeOK
    BY DEF SlaveInv
  <2>2. SlaveInv /\ IsFiniteSet(CameIn) /\ [Next]_vars => SlaveInv'
    BY SlaveStep
  <2>3. SlaveInv /\ IsFiniteSet(CameIn) /\ [Next]_vars => IsFiniteSet(CameIn)'
    BY <2>1, CameInFinite
  <2> QED BY <2>2, <2>3
<1> QED BY <1>1, <1>2, PTL DEF Spec

(* Type correctness of the queue and the dispatch of ModbusSlave.          *)
THEOREM SlaveTypeCorrect == Spec => []TypeOK
<1>1. SlaveInv => TypeOK
  BY DEF SlaveInv
<1> QED BY <1>1, SlaveHolds, PTL

(* With a queue the slave works on one frame at a time, whatever the units *)
(* and the handlers: no second loop of next() is ever under way.           *)
THEOREM SlaveOneAtATime == Spec => []OneAtATime
<1>1. SlaveInv => OneAtATime
  BY DEF SlaveInv
<1> QED BY <1>1, SlaveHolds, PTL

(* The flag of the queue is up exactly while it is served.                 *)
THEOREM SlaveQueueServed == Spec => []QueueServed
<1>1. SlaveInv => QueueServed
  <2> SUFFICES ASSUME Driven, Queued, ~removals, ~destroyed
               PROVE  /\ queue # {} => processing
                      /\ processing <=> looping \/ fan # NoFrame \/ Working # {}
                      /\ looping => Working = {} /\ fan = NoFrame
    BY DEF SlaveInv, QueueServed
  <2> QED BY DEF Driven, Busy
<1> QED BY <1>1, SlaveHolds, PTL

(* No frame is lost between the gates and the end of its callback, none is *)
(* at two places, and no reply is written twice.                           *)
THEOREM SlaveFramesAccounted == Spec => []Accounted
<1>1. SlaveInv => Accounted
  <2> SUFFICES ASSUME SlaveInv, NEW f \in Frames
               PROVE  /\ replies[f] <= IF f \in Broadcasts THEN 0 ELSE 1
                      /\ fate[f] = "dropped" => replies[f] = 0
                      /\ f \in queue => fate[f] = "none" /\ replies[f] = 0
                      /\ f \in Working => f \notin queue /\ fate[f] = "none"
                      /\ gate[f] = "passed" /\ fate[f] = "none" /\ f \notin queue /\ f \notin Working
                           => f = fan \/ destroyed \/ removals
    BY DEF Accounted
  <2>1. TypeOK /\ Sound(f) /\ replies[f] \in Nat
    BY DEF SlaveInv, TypeOK
  <2>2. f \in Working => f \notin queue /\ fate[f] = "none"
    BY <2>1, WorkingOut DEF Sound, Placed, Owing
  <2>3. ASSUME Begun(f), f \notin Working, ~removals PROVE f = fan
    <3>1. Out(f) = {}
      BY <2>3, WorkingOut
    <3>2. f \in Broadcasts /\ remaining[f] >= 1
      BY <2>1, <2>3, <3>1 DEF Sound, Placed
    <3>3. Cardinality(Owing(f)) # 0
      BY <2>1, <2>3, <3>2 DEF Sound, Counted
    <3>4. Owing(f) # {}
      BY <3>3, FS_EmptySet
    <3> QED BY <3>1, <3>4 DEF Owing, Left
  <2>4. gate[f] = "passed" /\ fate[f] = "none" /\ f \notin queue /\ f \notin Working
          => f = fan \/ destroyed \/ removals
    BY <2>3 DEF Begun
  <2> QED BY <2>1, <2>2, <2>4 DEF Sound, Placed
<1> QED BY <1>1, SlaveHolds, PTL
-----------------------------------------------------------------------------
(* The frame that the queue is held for, if any: it has been begun and is  *)
(* not over, or the loop over its units is not.  One at most, and none     *)
(* when next() goes on to the next frame.                                  *)
Held == {f \in Frames : Begun(f) \/ fan = f}

OrderInv ==
  /\ \A g \in Frames : ticket[g] > 0 => gate[g] = "passed"
  /\ Queued /\ ~destroyed => \A f, g \in Held : f = g
  /\ Queued /\ ~destroyed /\ (looping \/ ~processing) => Held = {}

(* A step that hands out no ticket and begins no frame.                    *)
LEMMA HeldKept ==
  ASSUME OrderInv, UNCHANGED <<options, ticket, gate>>, destroyed => destroyed',
         Held' \subseteq Held,
         Queued' /\ ~destroyed' /\ (looping' \/ ~processing') => Held' = {}
  PROVE  OrderInv'
BY DEF OrderInv, options, Queued

LEMMA OrderGates ==
  ASSUME SlaveInv, OrderInv, NEW f \in Frames, Idle, gate[f] \in {"new", "unit", "address"},
         UNCHANGED <<options, destroyed, units>>,
         Admit(f) \/ Refuse(f) \/ \E stage \in {"unit", "address"} : Defer(f, stage)
  PROVE  OrderInv'
<1>1. TypeOK /\ ~looping /\ fan = NoFrame /\ f \notin queue /\ (Queued' <=> Queued)
  BY BeforeGates DEF SlaveInv, Idle, options, Queued
<1>2. \A g \in Frames : ticket'[g] > 0 => gate'[g] = "passed"
  BY <1>1 DEF OrderInv, Admit, Refuse, Defer, TypeOK
<1>3. CASE Admit(f) /\ Queued
  <2>1. Enqueue(f) /\ gate' = [gate EXCEPT ![f] = "passed"]
    BY <1>3 DEF Admit
  <2>2. f \in queue' /\ fan' = fan /\ looping' = ~processing /\ processing'
    BY <2>1 DEF Enqueue, walk
  <2>3. ASSUME NEW g \in Frames, g # f PROVE Begun(g)' => Begun(g)
    BY <1>1, <2>1, <2>3 DEF Begun, Enqueue, TypeOK
  <2>4. Held' \subseteq Held
    BY <2>2, <2>3 DEF Held, Begun
  <2> QED BY <1>1, <1>2, <2>2, <2>4 DEF OrderInv
<1>4. CASE Admit(f) /\ ~Queued
  BY <1>1, <1>2, <1>4 DEF OrderInv
<1>5. CASE Refuse(f) \/ \E stage \in {"unit", "address"} : Defer(f, stage)
  <2>1. /\ UNCHANGED <<fate, queue, fan, looping, processing, destroyed>>
        /\ gate'[f] # "passed" /\ \A g \in Frames : g # f => gate'[g] = gate[g]
    BY <1>1, <1>5 DEF Refuse, Defer, walk, TypeOK
  <2>2. Held' \subseteq Held
    BY <2>1 DEF Held, Begun
  <2> QED BY <1>1, <1>2, <2>1, <2>2 DEF OrderInv
<1> QED BY <1>3, <1>4, <1>5

LEMMA OrderDrains == ASSUME SlaveInv, OrderInv, DrainNext PROVE OrderInv'
<1>1. /\ TypeOK /\ Driven /\ looping /\ Queued
      /\ UNCHANGED <<options, destroyed, units, gate, arrival, ticket>>
      /\ Queued' <=> Queued
  BY DEF SlaveInv, Driven, DrainNext, options, Queued
<1>2. ~destroyed => Held = {} /\ processing
  BY <1>1 DEF OrderInv, Driven
<1>3. CASE StopDraining
  <2>1. UNCHANGED <<fate, queue, fan, destroyed, gate>>
    BY <1>1, <1>3 DEF StopDraining, walk
  <2>2. Held' = Held
    BY <2>1 DEF Held, Begun
  <2> QED BY <1>1, <1>2, <2>2, HeldKept
<1>4. CASE TakeFirst
  <2>1. PICK f \in queue : queue' = queue \ {f} /\ Process(f) /\ UNCHANGED processing
    BY <1>4 DEF TakeFirst
  <2>2. ASSUME NEW g \in Frames, g # f, ~destroyed PROVE ~Begun(g)' /\ fan' # g
    <3>1. fate'[g] = fate[g] /\ (g \in queue' <=> g \in queue) /\ (fan' = fan \/ fan' = f)
      BY <1>1, <2>1, <2>2 DEF Process, TypeOK, walk
    <3>2. ~Begun(g) /\ fan # g
      BY <1>2, <2>2 DEF Held
    <3> QED BY <1>1, <2>2, <3>1, <3>2 DEF Begun
  <2>3. Queued' /\ ~destroyed' => \A g, h \in Held' : g = h
    BY <1>1, <2>2 DEF Held
  <2>4. looping' => fate'[f] # "none" /\ fan' = fan
    BY <1>1, <2>1 DEF Process, TypeOK, walk
  <2>5. ~destroyed => fan # f
    BY <1>1, <1>2, <2>1 DEF Held, TypeOK
  <2>6. Queued' /\ ~destroyed' /\ looping' => Held' = {}
    BY <1>1, <2>2, <2>4, <2>5 DEF Held, Begun
  <2> QED BY <1>1, <1>2, <2>1, <2>3, <2>6 DEF OrderInv
<1> QED BY <1>3, <1>4 DEF DrainNext

LEMMA OrderVisits == ASSUME SlaveInv, OrderInv, VisitNext PROVE OrderInv'
<1>1. /\ TypeOK /\ Driven /\ fan # NoFrame /\ fan \in Frames /\ Sound(fan)
      /\ UNCHANGED <<options, destroyed, units, gate, queue, processing, fate, ticket>>
      /\ Queued' <=> Queued
  BY BroadcastFrames DEF SlaveInv, TypeOK, VisitNext, options, Queued
<1>2. fan \in Held /\ (Queued /\ ~destroyed => processing)
  BY <1>1 DEF Held, Driven, Busy
<1>3. CASE fan' = fan /\ looping' = looping
  <2>1. Held' = Held
    BY <1>1, <1>3 DEF Held, Begun
  <2> QED BY <1>1, <1>3, <2>1, HeldKept DEF OrderInv
<1>4. CASE fan' = NoFrame /\ looping' = (Queued /\ completed)
  <2>1. \A g \in Frames : (Begun(g)' <=> Begun(g)) /\ fan' # g
    BY <1>1, <1>4, BroadcastFrames DEF Begun
  <2>2. Held' \subseteq Held
    BY <2>1 DEF Held
  <2>3. Queued /\ ~destroyed /\ looping' => Held' = {}
    <3>1. looping' => ~Begun(fan)
      BY <1>1, <1>4 DEF Sound, Placed, Begun
    <3> QED BY <1>1, <1>2, <2>1, <2>2, <3>1 DEF OrderInv, Held
  <2> QED BY <1>1, <1>2, <2>2, <2>3, HeldKept
<1> QED BY <1>3, <1>4 DEF VisitNext

LEMMA OrderAnswers ==
  ASSUME SlaveInv, OrderInv, NEW f \in Frames, NEW u \in Units, Answered(f, u)
  PROVE  OrderInv'
<1>1. /\ TypeOK /\ Driven /\ Sound(f) /\ ~looping
      /\ UNCHANGED <<options, destroyed, units, gate, queue, processing, fan, ticket>>
      /\ Queued' <=> Queued
  BY DEF SlaveInv, Answered, options, Queued
<1>2. Out(f) # {} /\ Owing(f) # {}
  BY DEF Answered, Owing
<1>3. Begun(f) \/ destroyed
  BY <1>1, <1>2 DEF Sound, Placed, Begun
<1>4. Queued /\ ~destroyed => processing
  BY <1>1, <1>2, WorkingOut DEF Driven, Busy
<1>5. Complete(f) \/ UNCHANGED <<fate, looping>>
  BY AnswerOutcome
<1>6. \A g \in Frames : Begun(g)' => Begun(g)
  BY <1>1, <1>5 DEF Begun, Complete, TypeOK
<1>7. Held' \subseteq Held
  BY <1>1, <1>6 DEF Held
<1>8. Queued /\ ~destroyed /\ looping' => Held' = {}
  <2> SUFFICES ASSUME Queued, ~destroyed, looping' PROVE Held' = {}
    OBVIOUS
  <2>1. fan # f /\ fate'[f] = "over"
    BY <1>1, <1>5 DEF Complete, TypeOK
  <2>2. f \notin Held'
    BY <1>1, <2>1 DEF Held, Begun
  <2>3. Held \subseteq {f}
    BY <1>3 DEF OrderInv, Held
  <2> QED BY <1>7, <2>2, <2>3
<1> QED BY <1>1, <1>4, <1>7, <1>8, HeldKept

LEMMA OrderStep == ASSUME SlaveInv, OrderInv, [Next]_vars PROVE OrderInv'
<1>1. ASSUME NEW f \in Frames, Arrive(f) \/ GateChecked(f) PROVE OrderInv'
  BY <1>1, OrderGates DEF Arrive, GateChecked, CheckAddress
<1>2. ASSUME NEW f \in Frames, NEW u \in Units, HandlerDone(f, u) \/ RuntimeDone(f, u)
      PROVE  OrderInv'
  <2>1. CASE Answered(f, u)
    BY <2>1, OrderAnswers
  <2>2. CASE UNCHANGED <<options, ticket, gate, destroyed, fan, fate, queue, looping, processing>>
    <3>1. Held' = Held /\ (Queued' <=> Queued)
      BY <2>2 DEF Held, Begun, options, Queued
    <3> QED BY <2>2, <3>1, HeldKept DEF OrderInv
  <2>3. CASE HandlerDone(f, u) /\ UNCHANGED runtime
    <3>1. u \in Out(f) /\ handling' \cup runtime' = (handling \cup runtime) \ {<<f, u>>}
      BY <2>3 DEF HandlerDone, Out, SlaveInv
    <3>2. Answer(f) => Answered(f, u)
      BY <2>3, <3>1 DEF HandlerDone, Answered
    <3> QED BY <2>1, <2>2, <2>3, <3>2 DEF HandlerDone
  <2>4. CASE HandlerDone(f, u) /\ runtime' # runtime
    BY <2>2, <2>4 DEF HandlerDone
  <2>5. CASE RuntimeDone(f, u)
    <3>1. u \in Out(f) /\ handling' \cup runtime' = (handling \cup runtime) \ {<<f, u>>}
      BY <2>5 DEF RuntimeDone, Out, SlaveInv
    <3> QED BY <2>1, <2>5, <3>1 DEF RuntimeDone, Answered, Idle
  <2> QED BY <1>2, <2>3, <2>4, <2>5
<1>3. CASE \E u \in Units : AddUnit(u) \/ RemoveUnit(u)
  <2>1. UNCHANGED <<options, ticket, gate, destroyed, fan, fate, queue, looping, processing>>
    BY <1>3 DEF AddUnit, RemoveUnit, walk
  <2>2. Held' = Held /\ (Queued' <=> Queued)
    BY <2>1 DEF Held, Begun, options, Queued
  <2> QED BY <2>1, <2>2, HeldKept DEF OrderInv
<1>4. CASE DrainNext
  BY <1>4, OrderDrains
<1>5. CASE VisitNext
  BY <1>5, OrderVisits
<1>6. CASE Destroy
  BY <1>6 DEF Destroy, OrderInv
<1>7. CASE UNCHANGED vars
  <2>1. UNCHANGED <<options, ticket, gate, destroyed, fan, fate, queue, looping, processing>>
    BY <1>7 DEF vars, walk
  <2>2. Held' = Held /\ (Queued' <=> Queued)
    BY <2>1 DEF Held, Begun, options, Queued
  <2> QED BY <2>1, <2>2, HeldKept DEF OrderInv
<1> QED BY <1>1, <1>2, <1>3, <1>4, <1>5, <1>6, <1>7 DEF Next

(* Replies leave in the order of the queue: a frame is begun when those    *)
(* that were queued before it and not dropped are over.                    *)
THEOREM SlaveServedInOrder == Spec => ServedInOrder
<1>1. Init => OrderInv
  <2> SUFFICES ASSUME Init PROVE OrderInv
    OBVIOUS
  <2>1. Held = {}
    BY BroadcastFrames DEF Init, Held, Begun
  <2> QED BY <2>1 DEF OrderInv, Init
<1>2. SlaveInv /\ OrderInv /\ [Next]_vars => OrderInv'
  BY OrderStep
<1>3. SlaveInv /\ OrderInv /\ [Next]_vars
        => [Queued /\ ~destroyed =>
              \A f, g \in Frames :
                f \in queue /\ f \notin queue' /\ fate'[f] # "dropped" /\ ~destroyed'
                  /\ 0 < ticket[g] /\ ticket[g] < ticket[f]
                => fate[g] # "none"]_vars
  <2> SUFFICES ASSUME SlaveInv, OrderInv, [Next]_vars, Queued, ~destroyed, ~destroyed',
                      NEW f \in Frames, NEW g \in Frames,
                      f \in queue, f \notin queue', fate'[f] # "dropped",
                      0 < ticket[g], ticket[g] < ticket[f]
               PROVE  fate[g] # "none"
    OBVIOUS
  <2>1. TypeOK /\ gate[g] = "passed"
    BY DEF SlaveInv, OrderInv, TypeOK
  <2>2. looping /\ TakeFirst
    <3>1. \A h \in Frames : Arrive(h) \/ GateChecked(h) => f \in queue' \/ fate'[f] = "dropped"
      BY DEF Arrive, GateChecked, CheckAddress, Admit, Enqueue, Refuse, Defer
    <3>2. VisitNext => UNCHANGED queue
      BY DEF VisitNext
    <3>3. \A h \in Frames, u \in Units : HandlerDone(h, u) \/ RuntimeDone(h, u) => UNCHANGED queue
      BY DEF HandlerDone, RuntimeDone
    <3>4. (\E u \in Units : AddUnit(u) \/ RemoveUnit(u)) => UNCHANGED queue
      BY DEF AddUnit, RemoveUnit
    <3>5. ~Destroy
      BY DEF Destroy
    <3>6. DrainNext
      BY <3>1, <3>2, <3>3, <3>4, <3>5 DEF Next, vars
    <3> QED BY <3>6 DEF DrainNext, StopDraining
  <2>3. PICK h \in queue : (\A k \in queue : ticket[h] <= ticket[k]) /\ queue' = queue \ {h}
    BY <2>2 DEF TakeFirst
  <2>4. g \notin queue
    BY <2>1, <2>3 DEF TypeOK
  <2>5. ~Begun(g)
    BY <2>2 DEF OrderInv, Held
  <2> QED BY <2>1, <2>4, <2>5 DEF Begun
<1> QED BY <1>1, <1>2, <1>3, SlaveHolds, PTL DEF Spec, ServedInOrder
=============================================================================
