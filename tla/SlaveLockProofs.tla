--------------------------- MODULE SlaveLockProofs ---------------------------
(* Theorems about SlaveWriteLock, for any writes, units and address ranges *)
(* and whether or not handlers complete writes of other units, and their   *)
(* proofs.                                                                 *)
EXTENDS SlaveWriteLock, TLAPS

(* destroy() leaves nothing in the lists.                                  *)
Emptied == destroyed => \A u \in Units : inFlight[u] = <<>> /\ pending[u] = <<>>

Held == {"running", "authorizing"}

LockInv == TypeOK /\ InFlightSound /\ PendingSound /\ Exclusive /\ Emptied

(* A write other than c holds the lock on an address of j.                 *)
HeldOff(j, c) ==
  \E k \in Jobs : k # c /\ Holding(k) /\ UnitOf[k] = UnitOf[j] /\ Overlap(j, k)

(* The running pass of the flush has looked at j and kept it.              *)
Passed(j) ==
  \E i \in 1..kept : /\ flushUnit # NoUnit
                     /\ i <= Len(pending[flushUnit]) /\ pending[flushUnit][i] = j

(* What a write waits for, in the middle of a flush too: one the pass has  *)
(* kept is held off by another than the one on the stack, or the pass will *)
(* be made again.                                                          *)
Served ==
  /\ calling # NoJob => flushUnit = UnitOf[calling]
  /\ \A j \in Jobs : status[j] = "pending" =>
       /\ reach # "any" /\ UnitOf[j] # flushUnit => HeldOff(j, NoJob)
       /\ reach = "own" /\ Passed(j) => HeldOff(j, calling)
       /\ reach = "unit" /\ Passed(j) => again \/ HeldOff(j, NoJob)

(* The lists of the waiting writes are in the order of arrival.            *)
InTurn ==
  /\ \A j \in Jobs : ticket[j] <= arrived
  /\ \A u \in Units : \A i, k \in 1..Len(pending[u]) :
       i < k => ticket[pending[u][i]] < ticket[pending[u][k]]

-----------------------------------------------------------------------------
(* rangesOverlap misses no pair of writes with an address in common.       *)
LEMMA OverlapFindsShared ==
  ASSUME NEW j \in Jobs, NEW k \in Jobs, Shares(j, k)
  PROVE  UnitOf[j] = UnitOf[k] /\ Overlap(j, k) /\ Overlap(k, j)
<1>1. PICK s \in Spans[j], t \in Spans[k] :
        \E a \in s[1]..s[2] : a < s[2] /\ t[1] <= a /\ a < t[2]
  BY DEF Shares
<1>2. s \in Nat \X Nat /\ t \in Nat \X Nat
  BY LockAssumption
<1>3. s[1] \in Nat /\ s[2] \in Nat /\ t[1] \in Nat /\ t[2] \in Nat
  BY <1>2
<1>4. PICK a \in s[1]..s[2] : a < s[2] /\ t[1] <= a /\ a < t[2]
  BY <1>1
<1>5. s[1] < t[2] /\ t[1] < s[2]
  BY <1>3, <1>4
<1> QED
  BY <1>5 DEF Overlap, Shares

(* Removing by swapping the last element into the freed slot.              *)
LEMMA SwapRemove ==
  ASSUME NEW s \in Seq(Jobs), NEW i \in 1..Len(s),
         NEW t, t = SubSeq([s EXCEPT ![i] = s[Len(s)]], 1, Len(s) - 1)
  PROVE  /\ t \in Seq(Jobs) /\ Len(t) = Len(s) - 1
         /\ \A m \in 1..Len(t) : t[m] = IF m = i THEN s[Len(s)] ELSE s[m]
<1> DEFINE x == [s EXCEPT ![i] = s[Len(s)]]
<1>1. x \in Seq(Jobs) /\ Len(x) = Len(s)
  OBVIOUS
<1>2. \A m \in 1..Len(s) : x[m] = IF m = i THEN s[Len(s)] ELSE s[m]
  OBVIOUS
<1> HIDE DEF x
<1>3. t = SubSeq(x, 1, Len(x) - 1)
  BY <1>1 DEF x
<1> QED
  BY <1>1, <1>2, <1>3

(* Taking one element out of a sequence.                                   *)
LEMMA WithoutOne ==
  ASSUME NEW s \in Seq(Jobs), NEW n \in 1..Len(s)
  PROVE  /\ Without(s, n) \in Seq(Jobs)
         /\ Len(Without(s, n)) = Len(s) - 1
         /\ \A m \in 1..(Len(s) - 1) :
              Without(s, n)[m] = IF m < n THEN s[m] ELSE s[m + 1]
<1>1. \A m \in 1..(Len(s) - 1) : (IF m < n THEN s[m] ELSE s[m + 1]) \in Jobs
  OBVIOUS
<1>2. Len(s) - 1 \in Nat
  OBVIOUS
<1>3. Without(s, n) \in [1..(Len(s) - 1) -> Jobs]
  BY <1>1 DEF Without
<1> QED
  BY <1>2, <1>3 DEF Without
-----------------------------------------------------------------------------
(* A write that is not blocked starts: the lists and the exclusion hold.   *)
LEMMA StartSafe ==
  ASSUME LockInv, NEW j \in Jobs, ~destroyed, destroyed' = destroyed,
         status[j] \in {"new", "pending"}, ~Blocked(j), Start(j)
  PROVE  /\ inFlight' \in [Units -> Seq(Jobs)] /\ index' \in [Jobs -> Nat]
         /\ status' \in [Jobs -> Statuses]
         /\ InFlightSound' /\ Exclusive'
<1> DEFINE u == UnitOf[j]
<1>0. u \in Units
  BY LockAssumption
<1>1. /\ inFlight' \in [Units -> Seq(Jobs)] /\ index' \in [Jobs -> Nat]
      /\ status' \in [Jobs -> Statuses]
  BY <1>0 DEF LockInv, TypeOK, Start, Statuses
<1>2. \A k \in Jobs : k # j => (status'[k] \in Held <=> Holding(k)) /\ index'[k] = index[k]
  BY DEF LockInv, TypeOK, Start, Holding, Held
<1>3. status'[j] \in Held /\ ~Holding(j) /\ index'[j] = Len(inFlight[u]) + 1
  BY DEF LockInv, TypeOK, Start, Holding, Held
<1>4. /\ \A v \in Units : v # u => inFlight'[v] = inFlight[v]
      /\ inFlight'[u] = Append(inFlight[u], j)
  BY <1>0 DEF LockInv, TypeOK, Start
<1>5. inFlight[u] \in Seq(Jobs)
  BY <1>0 DEF LockInv, TypeOK
<1>6. /\ Len(inFlight'[u]) = Len(inFlight[u]) + 1
      /\ inFlight'[u][Len(inFlight[u]) + 1] = j
      /\ \A i \in 1..Len(inFlight[u]) : inFlight'[u][i] = inFlight[u][i]
  BY <1>4, <1>5
<1>7. InFlightSound'
  <2>1. ASSUME NEW k \in Jobs, status'[k] \in Held
        PROVE  /\ index'[k] \in 1..Len(inFlight'[UnitOf[k]])
               /\ inFlight'[UnitOf[k]][index'[k]] = k
    <3>1. CASE k = j
      BY <1>3, <1>5, <1>6, <3>1
    <3>2. CASE k # j
      <4>1. Holding(k) /\ index'[k] = index[k] /\ UnitOf[k] \in Units
        BY <1>2, <2>1, <3>2, LockAssumption
      <4>2. /\ index[k] \in 1..Len(inFlight[UnitOf[k]])
            /\ inFlight[UnitOf[k]][index[k]] = k
        BY <4>1 DEF LockInv, InFlightSound
      <4>3. CASE UnitOf[k] = u
        BY <1>5, <1>6, <4>1, <4>2, <4>3
      <4>4. CASE UnitOf[k] # u
        BY <1>4, <4>1, <4>2, <4>4
      <4> QED
        BY <4>3, <4>4
    <3> QED
      BY <3>1, <3>2
  <2>2. ASSUME NEW v \in Units, NEW i \in 1..Len(inFlight'[v])
        PROVE  /\ UnitOf[inFlight'[v][i]] = v
               /\ status'[inFlight'[v][i]] \in Held /\ index'[inFlight'[v][i]] = i
    <3>1. CASE v = u /\ i = Len(inFlight[u]) + 1
      BY <1>3, <1>6, <3>1
    <3>2. CASE ~(v = u /\ i = Len(inFlight[u]) + 1)
      <4>1. i \in 1..Len(inFlight[v]) /\ inFlight'[v][i] = inFlight[v][i]
        BY <1>4, <1>5, <1>6, <2>2, <3>2
      <4>2. inFlight[v][i] \in Jobs
        BY <4>1 DEF LockInv, TypeOK
      <4>3. /\ UnitOf[inFlight[v][i]] = v
            /\ Holding(inFlight[v][i]) /\ index[inFlight[v][i]] = i
        BY <4>1 DEF LockInv, InFlightSound
      <4> QED
        BY <1>2, <1>3, <4>1, <4>2, <4>3
    <3> QED
      BY <3>1, <3>2
  <2> QED
    BY <2>1, <2>2 DEF InFlightSound, Holding, Held
<1>8. ASSUME NEW k \in Jobs, k # j, Holding(k)
      PROVE  <<j, k>> \notin Conflict /\ <<k, j>> \notin Conflict
  <2>1. ~Shares(j, k) /\ ~Shares(k, j)
    <3> SUFFICES ASSUME Shares(j, k) \/ Shares(k, j) PROVE FALSE
      OBVIOUS
    <3>1. UnitOf[k] = u /\ Overlap(j, k)
      BY OverlapFindsShared
    <3>2. index[k] \in 1..Len(inFlight[u]) /\ inFlight[u][index[k]] = k
      BY <1>8, <3>1 DEF LockInv, InFlightSound
    <3> QED
      BY <3>1, <3>2 DEF Blocked
  <2> QED
    BY <2>1 DEF Conflict
<1>9. Exclusive'
  <2> SUFFICES ASSUME NEW a \in Jobs, NEW b \in Jobs, a # b, status'[a] \in Held, status'[b] \in Held
               PROVE  <<a, b>> \notin Conflict
    BY DEF Exclusive, Conflict, Shares, Holding, Held
  <2>1. CASE a = j
    BY <1>2, <1>8, <2>1
  <2>2. CASE b = j
    BY <1>2, <1>8, <2>2
  <2>3. CASE a # j /\ b # j
    BY <1>2, <2>3 DEF LockInv, Exclusive
  <2> QED
    BY <2>1, <2>2, <2>3
<1> QED
  BY <1>1, <1>7, <1>9

(* The slot of a write that ends is filled with the last one.              *)
LEMMA FinishSafe ==
  ASSUME LockInv, NEW j \in Jobs, Holding(j), Remove(j), destroyed' = destroyed,
         status' = [status EXCEPT ![j] = "done"]
  PROVE  /\ inFlight' \in [Units -> Seq(Jobs)] /\ index' \in [Jobs -> Nat]
         /\ status' \in [Jobs -> Statuses]
         /\ InFlightSound' /\ Exclusive' /\ (destroyed => inFlight' = inFlight)
<1> DEFINE u == UnitOf[j]
           n == Len(inFlight[u])
<1>a. u \in Units
  BY LockAssumption
<1>b. inFlight[u] \in Seq(Jobs) /\ index[j] \in Nat
  BY <1>a DEF LockInv, TypeOK
<1>0. u \in Units /\ inFlight[u] \in Seq(Jobs) /\ n \in Nat /\ index[j] \in Nat
  BY <1>a, <1>b
<1>1. status' \in [Jobs -> Statuses]
  BY DEF LockInv, TypeOK, Statuses
<1>2. /\ status'[j] \notin Held
      /\ \A k \in Jobs : k # j => (status'[k] \in Held <=> Holding(k))
  BY DEF LockInv, TypeOK, Holding, Held
<1>3. Exclusive'
  BY <1>2 DEF LockInv, Exclusive, Conflict, Shares, Holding, Held
<1>4. CASE destroyed
  <2>1. n = 0
    BY <1>0, <1>4 DEF LockInv, Emptied
  <2>2. UNCHANGED <<inFlight, index>>
    BY <1>0, <2>1 DEF Remove
  <2> QED
    BY <1>1, <1>3, <1>4, <2>2 DEF LockInv, TypeOK, InFlightSound
<1>5. CASE ~destroyed
  <2>1. index[j] \in 1..n /\ inFlight[u][index[j]] = j
    BY <1>5 DEF LockInv, InFlightSound
  <2> DEFINE last == inFlight[u][n]
             t == SubSeq([inFlight[u] EXCEPT ![index[j]] = last], 1, n - 1)
  <2>2. /\ inFlight' = [inFlight EXCEPT ![u] = t]
        /\ index' = IF last = j THEN index ELSE [index EXCEPT ![last] = index[j]]
    BY <2>1 DEF Remove
  <2>3. /\ t \in Seq(Jobs) /\ Len(t) = n - 1
        /\ \A m \in 1..Len(t) : t[m] = IF m = index[j] THEN last ELSE inFlight[u][m]
    BY <1>0, <2>1, SwapRemove
  <2> HIDE DEF t
  <2>4. last \in Jobs /\ index[last] = n /\ UnitOf[last] = u /\ Holding(last)
    BY <1>0, <1>5, <2>1 DEF LockInv, InFlightSound
  <2>5. inFlight' \in [Units -> Seq(Jobs)] /\ index' \in [Jobs -> Nat]
    BY <1>0, <2>2, <2>3 DEF LockInv, TypeOK
  <2>6. /\ \A k \in Jobs : k # last \/ last = j => index'[k] = index[k]
        /\ last # j => index'[last] = index[j]
    BY <2>2, <2>4 DEF LockInv, TypeOK
  <2>7. /\ inFlight'[u] = t
        /\ \A v \in Units : v # u => inFlight'[v] = inFlight[v]
    BY <1>0, <2>2 DEF LockInv, TypeOK
  <2>8. ASSUME NEW k \in Jobs, status'[k] \in Held
        PROVE  /\ index'[k] \in 1..Len(inFlight'[UnitOf[k]])
               /\ inFlight'[UnitOf[k]][index'[k]] = k
    <3>1. k # j /\ Holding(k) /\ UnitOf[k] \in Units
      BY <1>2, <2>8, LockAssumption
    <3>2. /\ index[k] \in 1..Len(inFlight[UnitOf[k]])
          /\ inFlight[UnitOf[k]][index[k]] = k
      BY <1>5, <3>1 DEF LockInv, InFlightSound
    <3>3. CASE UnitOf[k] # u
      <4>1. index'[k] = index[k] /\ inFlight'[UnitOf[k]] = inFlight[UnitOf[k]]
        BY <2>4, <2>6, <2>7, <3>1, <3>3
      <4> QED
        BY <3>2, <4>1
    <3>4. CASE k = last
      <4>1. index'[k] = index[j] /\ index[j] # n
        BY <2>1, <2>6, <3>1, <3>4
      <4>2. index[j] \in 1..(n - 1) /\ n - 1 = Len(t)
        BY <1>0, <2>1, <2>3, <4>1
      <4>3. t[index[j]] = last
        BY <2>3, <4>2
      <4> QED
        BY <2>3, <2>4, <2>7, <3>4, <4>1, <4>2, <4>3
    <3>5. CASE UnitOf[k] = u /\ k # last
      <4>1. index'[k] = index[k] /\ index[k] # n /\ index[k] # index[j]
        BY <2>1, <2>6, <3>1, <3>2, <3>5
      <4>2. index[k] \in 1..(n - 1) /\ n - 1 = Len(t) /\ inFlight[u][index[k]] = k
        BY <1>0, <2>3, <3>2, <3>5, <4>1
      <4>3. t[index[k]] = k
        BY <2>3, <4>1, <4>2
      <4> QED
        BY <2>7, <3>5, <4>1, <4>2, <4>3
    <3> QED
      BY <3>3, <3>4, <3>5
  <2>9. ASSUME NEW v \in Units, NEW i \in 1..Len(inFlight'[v])
        PROVE  /\ UnitOf[inFlight'[v][i]] = v
               /\ status'[inFlight'[v][i]] \in Held /\ index'[inFlight'[v][i]] = i
    <3>1. CASE v # u
      <4>1. /\ inFlight'[v] = inFlight[v] /\ inFlight[v][i] \in Jobs
            /\ UnitOf[inFlight[v][i]] = v /\ Holding(inFlight[v][i])
            /\ index[inFlight[v][i]] = i
        <5>1. inFlight'[v] = inFlight[v] /\ i \in 1..Len(inFlight[v])
          BY <2>7, <2>9, <3>1
        <5>2. inFlight[v] \in Seq(Jobs)
          BY DEF LockInv, TypeOK
        <5>3. inFlight[v][i] \in Jobs
          BY <5>1, <5>2
        <5> QED
          BY <1>5, <5>1, <5>3 DEF LockInv, InFlightSound
      <4>2. inFlight[v][i] # j /\ inFlight[v][i] # last
        BY <2>4, <3>1, <4>1
      <4> QED
        BY <1>2, <2>6, <4>1, <4>2
    <3>2. CASE v = u /\ i = index[j]
      <4>1. inFlight'[v][i] = last /\ index[j] < n
        BY <1>0, <2>3, <2>7, <2>9, <3>2
      <4>2. last # j
        BY <1>0, <2>4, <4>1
      <4> QED
        BY <1>2, <2>4, <2>6, <3>2, <4>1, <4>2
    <3>3. CASE v = u /\ i # index[j]
      <4>1. i \in 1..(n - 1) /\ inFlight'[v][i] = inFlight[u][i]
        BY <1>0, <2>3, <2>7, <2>9, <3>3
      <4>2. /\ inFlight[u][i] \in Jobs /\ UnitOf[inFlight[u][i]] = u
            /\ Holding(inFlight[u][i]) /\ index[inFlight[u][i]] = i
        BY <1>0, <1>5, <4>1 DEF LockInv, InFlightSound
      <4>3. inFlight[u][i] # last /\ inFlight[u][i] # j
        BY <1>0, <2>4, <3>3, <4>1, <4>2
      <4> QED
        BY <1>2, <2>6, <3>3, <4>1, <4>2, <4>3
    <3> QED
      BY <3>1, <3>2, <3>3
  <2> QED
    BY <1>1, <1>3, <1>5, <2>5, <2>8, <2>9 DEF InFlightSound, Holding, Held
<1> QED
  BY <1>4, <1>5
-----------------------------------------------------------------------------
(* A step that leaves the lists of the waiting writes and who waits alone. *)
LEMMA PendingKept ==
  ASSUME PendingSound, pending' = pending,
         \A k \in Jobs : status'[k] = "pending" <=> status[k] = "pending",
         \A u \in Units : pending[u] \in Seq(Jobs)
  PROVE  PendingSound'
<1>1. ASSUME NEW u \in Units, NEW i \in 1..Len(pending[u])
      PROVE  pending[u][i] \in Jobs
  BY <1>1
<1> QED
  BY <1>1 DEF PendingSound

LEMMA PendingAppended ==
  ASSUME LockInv, NEW j \in Jobs, status[j] = "new", Wait(j)
  PROVE  PendingSound' /\ pending' \in [Units -> Seq(Jobs)]
<1> DEFINE u == UnitOf[j]
           p == pending[u]
<1>1. u \in Units
  BY LockAssumption
<1>2. p \in Seq(Jobs)
  BY <1>1 DEF LockInv, TypeOK
<1>3. /\ pending' \in [Units -> Seq(Jobs)]
      /\ pending'[u] = Append(p, j)
      /\ \A v \in Units : v # u => pending'[v] = pending[v]
  BY <1>1 DEF LockInv, TypeOK, Wait
<1>4. /\ status'[j] = "pending"
      /\ \A k \in Jobs : k # j => status'[k] = status[k]
  BY DEF LockInv, TypeOK, Wait
<1>5. /\ Len(pending'[u]) = Len(p) + 1 /\ pending'[u][Len(p) + 1] = j
      /\ \A i \in 1..Len(p) : pending'[u][i] = p[i]
  BY <1>2, <1>3
<1>6. ASSUME NEW v \in Units, NEW i \in 1..Len(pending[v])
      PROVE  /\ pending[v][i] \in Jobs /\ pending[v][i] # j
             /\ UnitOf[pending[v][i]] = v /\ status[pending[v][i]] = "pending"
             /\ \A k \in 1..Len(pending[v]) : pending[v][i] = pending[v][k] => i = k
  <2>1. pending[v][i] \in Jobs
    BY <1>6 DEF LockInv, TypeOK
  <2>2. /\ UnitOf[pending[v][i]] = v /\ status[pending[v][i]] = "pending"
        /\ \A k \in 1..Len(pending[v]) : pending[v][i] = pending[v][k] => i = k
    BY <1>6 DEF LockInv, PendingSound
  <2> QED
    BY <2>1, <2>2
<1>7. ASSUME NEW v \in Units, NEW i \in 1..Len(pending'[v])
      PROVE  /\ UnitOf[pending'[v][i]] = v /\ status'[pending'[v][i]] = "pending"
             /\ \A k \in 1..Len(pending'[v]) : pending'[v][i] = pending'[v][k] => i = k
  <2>1. CASE v # u
    <3>1. pending'[v] = pending[v] /\ i \in 1..Len(pending[v])
      BY <1>3, <1>7, <2>1
    <3>2. /\ pending[v][i] \in Jobs /\ pending[v][i] # j
          /\ UnitOf[pending[v][i]] = v /\ status[pending[v][i]] = "pending"
          /\ \A k \in 1..Len(pending[v]) : pending[v][i] = pending[v][k] => i = k
      BY <1>6, <3>1
    <3> QED
      BY <1>4, <3>1, <3>2
  <2>2. CASE v = u /\ i = Len(p) + 1
    <3>1. pending'[v][i] = j /\ UnitOf[j] = v
      BY <1>5, <2>2
    <3>2. ASSUME NEW k \in 1..Len(p) PROVE pending'[v][k] # j
      BY <1>5, <1>6, <2>2
    <3>3. Len(p) \in Nat /\ Len(pending'[v]) = Len(p) + 1
      BY <1>2, <1>5, <2>2
    <3> QED
      BY <1>4, <2>2, <3>1, <3>2, <3>3
  <2>3. CASE v = u /\ i \in 1..Len(p)
    <3>1. /\ pending'[v][i] = p[i] /\ p[i] \in Jobs /\ p[i] # j
          /\ UnitOf[p[i]] = v /\ status[p[i]] = "pending"
      BY <1>5, <1>6, <2>3
    <3>2. ASSUME NEW k \in 1..Len(pending'[v]), pending'[v][i] = pending'[v][k] PROVE i = k
      <4>1. k # Len(p) + 1
        BY <1>5, <2>3, <3>1, <3>2
      <4>2. k \in 1..Len(p) /\ p[k] = p[i]
        BY <1>2, <1>5, <2>3, <3>1, <3>2, <4>1
      <4> QED
        BY <1>6, <2>3, <4>2
    <3> QED
      BY <1>4, <3>1, <3>2
  <2> QED
    BY <1>2, <1>5, <1>7, <2>1, <2>2, <2>3
<1>8. ASSUME NEW k \in Jobs, status'[k] = "pending"
      PROVE  \E i \in 1..Len(pending'[UnitOf[k]]) : pending'[UnitOf[k]][i] = k
  <2>1. CASE k = j
    <3>1. Len(p) + 1 \in 1..Len(pending'[u])
      BY <1>2, <1>5
    <3> QED
      BY <1>5, <2>1, <3>1
  <2>2. CASE k # j
    <3>1. PICK i \in 1..Len(pending[UnitOf[k]]) : pending[UnitOf[k]][i] = k
      BY <1>4, <1>8, <2>2 DEF LockInv, PendingSound
    <3>2. UnitOf[k] \in Units
      BY LockAssumption
    <3>3. CASE UnitOf[k] = u
      <4>1. i \in 1..Len(pending'[u]) /\ pending'[u][i] = k
        BY <1>2, <1>5, <3>1, <3>3
      <4> QED
        BY <3>3, <4>1
    <3>4. CASE UnitOf[k] # u
      BY <1>3, <3>1, <3>2, <3>4
    <3> QED
      BY <3>3, <3>4
  <2> QED
    BY <2>1, <2>2
<1> QED
  BY <1>3, <1>7, <1>8 DEF PendingSound

LEMMA PendingTaken ==
  ASSUME LockInv, NEW u \in Units, NEW n \in 1..Len(pending[u]), NEW j,
         j = pending[u][n],
         pending' = [pending EXCEPT ![u] = Without(@, n)],
         status' = [status EXCEPT ![j] = "running"]
  PROVE  PendingSound' /\ pending' \in [Units -> Seq(Jobs)]
<1> DEFINE p == pending[u]
           q == Without(p, n)
<1>1. p \in Seq(Jobs)
  BY DEF LockInv, TypeOK
<1>2. /\ q \in Seq(Jobs) /\ Len(q) = Len(p) - 1
      /\ \A m \in 1..(Len(p) - 1) : q[m] = IF m < n THEN p[m] ELSE p[m + 1]
  BY <1>1, WithoutOne
<1>3. pending' = [pending EXCEPT ![u] = q]
  OBVIOUS
<1> HIDE DEF q
<1>4. /\ pending' \in [Units -> Seq(Jobs)] /\ pending'[u] = q
      /\ \A v \in Units : v # u => pending'[v] = pending[v]
  BY <1>2, <1>3 DEF LockInv, TypeOK
<1>5. j \in Jobs /\ UnitOf[j] = u /\ status[j] = "pending"
  BY <1>1 DEF LockInv, PendingSound
<1>6. /\ status'[j] = "running"
      /\ \A k \in Jobs : k # j => status'[k] = status[k]
  BY <1>5 DEF LockInv, TypeOK
<1>7. ASSUME NEW v \in Units, NEW i \in 1..Len(pending[v])
      PROVE  /\ pending[v][i] \in Jobs
             /\ UnitOf[pending[v][i]] = v /\ status[pending[v][i]] = "pending"
             /\ \A k \in 1..Len(pending[v]) : pending[v][i] = pending[v][k] => i = k
  <2>1. pending[v][i] \in Jobs
    BY <1>7 DEF LockInv, TypeOK
  <2>2. /\ UnitOf[pending[v][i]] = v /\ status[pending[v][i]] = "pending"
        /\ \A k \in 1..Len(pending[v]) : pending[v][i] = pending[v][k] => i = k
    BY <1>7 DEF LockInv, PendingSound
  <2> QED
    BY <2>1, <2>2
<1>8. ASSUME NEW v \in Units, NEW i \in 1..Len(pending'[v])
      PROVE  /\ UnitOf[pending'[v][i]] = v /\ status'[pending'[v][i]] = "pending"
             /\ \A k \in 1..Len(pending'[v]) : pending'[v][i] = pending'[v][k] => i = k
  <2>1. CASE v # u
    BY <1>4, <1>5, <1>6, <1>7, <1>8, <2>1
  <2>2. CASE v = u
    <3>1. i \in 1..(Len(p) - 1)
      BY <1>1, <1>2, <1>4, <1>8, <2>2
    <3>2. PICK m \in 1..Len(p) : m = IF i < n THEN i ELSE i + 1
      BY <1>1, <3>1
    <3>3. m # n /\ pending'[v][i] = p[m]
      BY <1>1, <1>2, <1>4, <2>2, <3>1, <3>2
    <3>4. p[m] \in Jobs /\ p[m] # j /\ UnitOf[p[m]] = v /\ status[p[m]] = "pending"
      BY <1>7, <2>2, <3>3
    <3>5. ASSUME NEW k \in 1..Len(pending'[v]), pending'[v][i] = pending'[v][k]
          PROVE  i = k
      <4>1. k \in 1..(Len(p) - 1)
        BY <1>1, <1>2, <1>4, <2>2, <3>5
      <4>2. PICK l \in 1..Len(p) : l = IF k < n THEN k ELSE k + 1
        BY <1>1, <4>1
      <4>3. pending'[v][k] = p[l]
        BY <1>1, <1>2, <1>4, <2>2, <4>1, <4>2
      <4>4. pending[u][m] = pending[u][l]
        BY <3>3, <3>5, <4>3
      <4>5. m = l
        BY <1>7, <4>4
      <4> QED
        BY <3>1, <3>2, <4>1, <4>2, <4>5
    <3> QED
      BY <1>6, <3>3, <3>4, <3>5
  <2> QED
    BY <2>1, <2>2
<1>9. ASSUME NEW k \in Jobs, status'[k] = "pending"
      PROVE  \E i \in 1..Len(pending'[UnitOf[k]]) : pending'[UnitOf[k]][i] = k
  <2>1. k # j /\ status[k] = "pending" /\ UnitOf[k] \in Units
    BY <1>6, <1>9, LockAssumption
  <2>2. PICK m \in 1..Len(pending[UnitOf[k]]) : pending[UnitOf[k]][m] = k
    BY <2>1 DEF LockInv, PendingSound
  <2>3. CASE UnitOf[k] # u
    BY <1>4, <2>1, <2>2, <2>3
  <2>4. CASE UnitOf[k] = u
    <3>1. m \in 1..Len(p) /\ m # n
      BY <2>1, <2>2, <2>4
    <3>2. PICK i \in 1..(Len(p) - 1) : m = IF i < n THEN i ELSE i + 1
      <4>1. CASE m < n
        BY <1>1, <3>1, <4>1
      <4>2. CASE m > n
        <5>1. m - 1 \in 1..(Len(p) - 1) /\ ~(m - 1 < n) /\ m = (m - 1) + 1
          BY <1>1, <3>1, <4>2
        <5> QED
          BY <5>1
      <4> QED
        BY <1>1, <3>1, <4>1, <4>2
    <3>3. i \in 1..Len(pending'[u]) /\ pending'[u][i] = k
      BY <1>1, <1>2, <1>4, <2>2, <2>4, <3>2
    <3> QED
      BY <2>4, <3>3
  <2> QED
    BY <2>3, <2>4
<1> QED
  BY <1>4, <1>8, <1>9 DEF PendingSound
-----------------------------------------------------------------------------
(* Initially nothing is listed and nothing waits.                          *)
LEMMA LockInit == Init => LockInv
<1> SUFFICES ASSUME Init PROVE LockInv
  OBVIOUS
<1>a. again \in BOOLEAN /\ destroyed \in BOOLEAN
  BY DEF Init
<1>1. TypeOK
  BY <1>a, LockAssumption DEF Init, TypeOK, Statuses
<1>2. InFlightSound /\ PendingSound /\ Exclusive /\ Emptied
  BY DEF Init, InFlightSound, PendingSound, Exclusive, Emptied, Holding
<1> QED
  BY <1>1, <1>2 DEF LockInv

(* The variables of the loop keep their types in every step.               *)
LEMMA FlagTypes ==
  ASSUME LockInv, [Next]_vars
  PROVE  again' \in BOOLEAN /\ destroyed' \in BOOLEAN
<1>0. again \in BOOLEAN /\ destroyed \in BOOLEAN
  BY DEF LockInv, TypeOK
<1>1. ASSUME NEW j \in Jobs, Arrive(j) \/ HandlerDone(j) \/ RuntimeDone(j)
      PROVE  again' \in BOOLEAN /\ destroyed' \in BOOLEAN
  BY <1>0, <1>1 DEF Arrive, HandlerDone, RuntimeDone, Finish, Flush, NoFlush, flush
<1>2. ASSUME FlushStart \/ FlushKeep \/ HandlerReturns \/ FlushEnd
      PROVE  again' \in BOOLEAN /\ destroyed' \in BOOLEAN
  BY <1>0, <1>2 DEF FlushStart, FlushKeep, HandlerReturns, FlushEnd
<1>3. ASSUME Destroy \/ Rest \/ UNCHANGED vars
      PROVE  again' \in BOOLEAN /\ destroyed' \in BOOLEAN
  BY <1>0, <1>3 DEF Destroy, NoFlush, Rest, vars, flush
<1> QED
  BY <1>1, <1>2, <1>3 DEF Next

LEMMA LoopTypes ==
  ASSUME LockInv, [Next]_vars
  PROVE  /\ flushUnit' \in Units \cup {NoUnit} /\ kept' \in Nat
         /\ calling' \in Jobs \cup {NoJob}
         /\ ticket' \in [Jobs -> Nat] /\ arrived' \in Nat
<1>1. ASSUME NEW j \in Jobs, Arrive(j)
      PROVE  /\ flushUnit' \in Units \cup {NoUnit} /\ kept' \in Nat
             /\ calling' \in Jobs \cup {NoJob}
             /\ ticket' \in [Jobs -> Nat] /\ arrived' \in Nat
  BY <1>1 DEF LockInv, TypeOK, Arrive, NoFlush, flush
<1>2. ASSUME NEW j \in Jobs, HandlerDone(j) \/ RuntimeDone(j)
      PROVE  /\ flushUnit' \in Units \cup {NoUnit} /\ kept' \in Nat
             /\ calling' \in Jobs \cup {NoJob}
             /\ ticket' \in [Jobs -> Nat] /\ arrived' \in Nat
  <2>1. UnitOf[j] \in Units
    BY LockAssumption
  <2>2. CASE Finish(j)
    BY <2>1, <2>2 DEF LockInv, TypeOK, Finish, Flush, history
  <2>3. CASE NoFlush /\ UNCHANGED history
    BY <2>3 DEF LockInv, TypeOK, NoFlush, flush, history
  <2> QED
    BY <1>2, <2>2, <2>3 DEF HandlerDone, RuntimeDone
<1>3. CASE FlushStart
  <2>1. flushUnit \in Units /\ kept + 1 \in 1..Len(pending[flushUnit])
    BY <1>3 DEF LockInv, TypeOK, FlushStart, Scanning, Idle
  <2>2. pending[flushUnit][kept + 1] \in Jobs
    BY <2>1 DEF LockInv, TypeOK
  <2> QED
    BY <1>3, <2>2 DEF LockInv, TypeOK, FlushStart, history
<1>4. CASE FlushKeep \/ HandlerReturns
  BY <1>4 DEF LockInv, TypeOK, FlushKeep, HandlerReturns, history
<1>5. CASE FlushEnd
  BY <1>5, Zenon DEF LockInv, TypeOK, FlushEnd, history
<1>6. CASE Destroy
  BY <1>6 DEF LockInv, TypeOK, Destroy, NoFlush, flush, history
<1>7. CASE Rest \/ UNCHANGED vars
  BY <1>7 DEF LockInv, TypeOK, Rest, vars, flush, history
<1> QED
  BY <1>1, <1>2, <1>3, <1>4, <1>5, <1>6, <1>7 DEF Next

(* The way handlers call back is fixed.                                    *)
LEMMA ReachFixed == [Next]_vars => reach' = reach
BY DEF Next, vars, Arrive, HandlerDone, RuntimeDone, Finish, FlushStart, FlushKeep,
       HandlerReturns, FlushEnd, Destroy, Rest

(* What a step must keep besides the types of the loop.                    *)
Lists ==
  /\ inFlight \in [Units -> Seq(Jobs)] /\ pending \in [Units -> Seq(Jobs)]
  /\ index \in [Jobs -> Nat] /\ status \in [Jobs -> Statuses]
  /\ InFlightSound /\ PendingSound /\ Exclusive /\ Emptied

LEMMA ArriveSafe ==
  ASSUME LockInv, NEW j \in Jobs, Arrive(j)
  PROVE  Lists'
<1>1. ~destroyed /\ destroyed' = destroyed /\ status[j] = "new"
  BY DEF Arrive
<1>2. Emptied'
  BY <1>1 DEF Emptied
<1>3. CASE Blocked(j)
  <2>1. Wait(j)
    BY <1>3 DEF Arrive
  <2>2. PendingSound' /\ pending' \in [Units -> Seq(Jobs)]
    BY <1>1, <2>1, PendingAppended
  <2>3. /\ status'[j] = "pending" /\ status' \in [Jobs -> Statuses]
        /\ \A k \in Jobs : k # j => status'[k] = status[k]
    BY <2>1 DEF LockInv, TypeOK, Wait, Statuses
  <2>4. \A k \in Jobs : status'[k] \in Held <=> status[k] \in Held
    BY <1>1, <2>3 DEF Held
  <2>5. UNCHANGED <<inFlight, index>>
    BY <2>1 DEF Wait
  <2>6. \A u \in Units : \A i \in 1..Len(inFlight[u]) : inFlight[u][i] \in Jobs
    BY DEF LockInv, TypeOK
  <2>7. InFlightSound' /\ Exclusive'
    BY <1>1, <2>4, <2>5, <2>6
       DEF LockInv, InFlightSound, Exclusive, Holding, Held, Conflict, Shares
  <2> QED
    BY <1>2, <2>2, <2>3, <2>5, <2>7 DEF Lists, LockInv, TypeOK
<1>4. CASE ~Blocked(j)
  <2>1. Start(j) /\ pending' = pending
    BY <1>4 DEF Arrive
  <2>2. /\ inFlight' \in [Units -> Seq(Jobs)] /\ index' \in [Jobs -> Nat]
        /\ status' \in [Jobs -> Statuses]
        /\ InFlightSound' /\ Exclusive'
    BY <1>1, <1>4, <2>1, StartSafe
  <2>3. \A k \in Jobs : status'[k] = "pending" <=> status[k] = "pending"
    BY <1>1, <2>1 DEF LockInv, TypeOK, Start
  <2>4. PendingSound'
    BY <2>1, <2>3, PendingKept DEF LockInv, TypeOK
  <2> QED
    BY <1>2, <2>1, <2>2, <2>4 DEF Lists, LockInv, TypeOK
<1> QED
  BY <1>3, <1>4

LEMMA FinishKeepsLists ==
  ASSUME LockInv, NEW j \in Jobs, Holding(j), Finish(j)
  PROVE  Lists'
<1>1. /\ Remove(j) /\ destroyed' = destroyed /\ pending' = pending
      /\ status' = [status EXCEPT ![j] = "done"]
  BY DEF Finish
<1>2. /\ inFlight' \in [Units -> Seq(Jobs)] /\ index' \in [Jobs -> Nat]
      /\ status' \in [Jobs -> Statuses]
      /\ InFlightSound' /\ Exclusive' /\ (destroyed => inFlight' = inFlight)
  BY <1>1, FinishSafe
<1>3. \A k \in Jobs : status'[k] = "pending" <=> status[k] = "pending"
  BY <1>1 DEF LockInv, TypeOK, Holding
<1>4. PendingSound'
  BY <1>1, <1>3, PendingKept DEF LockInv, TypeOK
<1>5. Emptied'
  BY <1>1, <1>2 DEF LockInv, Emptied
<1> QED
  BY <1>1, <1>2, <1>4, <1>5 DEF Lists, LockInv, TypeOK

LEMMA HandlerDoneSafe ==
  ASSUME LockInv, NEW j \in Jobs, HandlerDone(j)
  PROVE  Lists'
<1>1. Holding(j) /\ status[j] = "running"
  BY DEF HandlerDone, Holding
<1>2. CASE Finish(j)
  BY <1>1, <1>2, FinishKeepsLists
<1>3. CASE /\ status' = [status EXCEPT ![j] = "authorizing"]
           /\ UNCHANGED <<queues, destroyed>>
  <2>1. /\ status' \in [Jobs -> Statuses]
        /\ \A k \in Jobs : /\ status'[k] \in Held <=> status[k] \in Held
                           /\ status'[k] = "pending" <=> status[k] = "pending"
    BY <1>1, <1>3 DEF LockInv, TypeOK, Statuses, Held
  <2>2. UNCHANGED <<inFlight, index, pending, destroyed>>
    BY <1>3 DEF queues
  <2>3. \A u \in Units : \A i \in 1..Len(inFlight[u]) : inFlight[u][i] \in Jobs
    BY DEF LockInv, TypeOK
  <2>4. InFlightSound' /\ Exclusive' /\ Emptied'
    BY <2>1, <2>2, <2>3
       DEF LockInv, InFlightSound, Exclusive, Emptied, Holding, Held, Conflict, Shares
  <2>5. PendingSound'
    BY <2>1, <2>2, PendingKept DEF LockInv, TypeOK
  <2> QED
    BY <2>1, <2>2, <2>4, <2>5 DEF Lists, LockInv, TypeOK
<1> QED
  BY <1>2, <1>3 DEF HandlerDone

LEMMA FlushStartSafe ==
  ASSUME LockInv, FlushStart
  PROVE  Lists'
<1> DEFINE u == flushUnit
           j == pending[u][kept + 1]
<1>1. u \in Units /\ kept + 1 \in 1..Len(pending[u])
  <2>1. u # NoUnit /\ kept < Len(pending[u])
    BY DEF FlushStart, Scanning, Idle
  <2>2. u \in Units /\ kept \in Nat /\ pending[u] \in Seq(Jobs)
    BY <2>1 DEF LockInv, TypeOK
  <2>3. Len(pending[u]) \in Nat
    BY <2>2
  <2> QED
    BY <2>1, <2>2, <2>3
<1>2. j \in Jobs /\ status[j] = "pending" /\ UnitOf[j] = u
  BY <1>1 DEF LockInv, TypeOK, PendingSound
<1>3. ~destroyed
  BY <1>1 DEF LockInv, Emptied
<1>4. /\ ~Blocked(j) /\ Start(j) /\ destroyed' = destroyed
      /\ pending' = [pending EXCEPT ![u] = Without(@, kept + 1)]
  BY DEF FlushStart
<1>5. /\ inFlight' \in [Units -> Seq(Jobs)] /\ index' \in [Jobs -> Nat]
      /\ status' \in [Jobs -> Statuses]
      /\ InFlightSound' /\ Exclusive'
  BY <1>2, <1>3, <1>4, StartSafe
<1>6. status' = [status EXCEPT ![j] = "running"]
  BY <1>4 DEF Start
<1>7. PendingSound' /\ pending' \in [Units -> Seq(Jobs)]
  BY <1>1, <1>4, <1>6, PendingTaken
<1>8. Emptied'
  BY <1>3, <1>4 DEF Emptied
<1> QED
  BY <1>5, <1>7, <1>8 DEF Lists

LEMMA DestroySafe ==
  ASSUME LockInv, Destroy
  PROVE  Lists'
<1>1. /\ \A u \in Units : inFlight'[u] = <<>> /\ pending'[u] = <<>>
      /\ index' = index /\ destroyed'
      /\ inFlight' \in [Units -> Seq(Jobs)] /\ pending' \in [Units -> Seq(Jobs)]
  BY DEF Destroy, history
<1>2. /\ status' \in [Jobs -> Statuses]
      /\ \A k \in Jobs : /\ status'[k] # "pending"
                         /\ status'[k] \in Held <=> status[k] \in Held
  BY DEF LockInv, TypeOK, Destroy, Statuses, Held
<1>3. InFlightSound' /\ Emptied'
  BY <1>1 DEF InFlightSound, Emptied
<1>4. PendingSound'
  BY <1>1, <1>2 DEF PendingSound
<1>5. Exclusive'
  BY <1>2 DEF LockInv, Exclusive, Conflict, Shares, Holding, Held
<1> QED
  BY <1>1, <1>2, <1>3, <1>4, <1>5 DEF Lists, LockInv, TypeOK

LEMMA OthersSafe ==
  ASSUME LockInv, UNCHANGED <<queues, status, destroyed>>
  PROVE  Lists'
<1>1. UNCHANGED <<inFlight, index, pending, status, destroyed>>
  BY DEF queues
<1>2. InFlightSound'
  BY <1>1 DEF LockInv, InFlightSound, Holding
<1>3. PendingSound'
  BY <1>1 DEF LockInv, PendingSound
<1>4. Exclusive' /\ Emptied'
  BY <1>1 DEF LockInv, Exclusive, Emptied, Holding, Conflict, Shares
<1> QED
  BY <1>1, <1>2, <1>3, <1>4 DEF LockInv, Lists, TypeOK

LEMMA LockStep == LockInv /\ [Next]_vars => LockInv'
<1> SUFFICES ASSUME LockInv, [Next]_vars PROVE LockInv'
  OBVIOUS
<1>1. ASSUME NEW j \in Jobs, RuntimeDone(j) PROVE Lists'
  BY <1>1, FinishKeepsLists DEF RuntimeDone, Holding
<1>2. ASSUME FlushKeep \/ HandlerReturns \/ FlushEnd \/ Rest \/ UNCHANGED vars
      PROVE  Lists'
  BY <1>2, OthersSafe DEF FlushKeep, HandlerReturns, FlushEnd, Rest, vars, queues
<1>3. Lists'
  BY <1>1, <1>2, ArriveSafe, HandlerDoneSafe, FlushStartSafe, DestroySafe DEF Next
<1> QED
  BY <1>3, LoopTypes, FlagTypes, ReachFixed DEF LockInv, Lists, TypeOK

LEMMA LockInvariant == Spec => []LockInv
BY LockInit, LockStep, PTL DEF Spec
-----------------------------------------------------------------------------
(* The lists, the loop and the history always have their types.            *)
THEOREM LockTypeCorrect == Spec => []TypeOK
BY LockInvariant, PTL DEF LockInv

(* Writes to an address of a unit exclude each other from the call of the  *)
(* handler to the verdict of checkRuntime, for any handlers and any ranges.*)
THEOREM WritesExclude == Spec => []Exclusive
BY LockInvariant, PTL DEF LockInv

(* The swap-removal from the list in flight loses and repeats no write.    *)
THEOREM InFlightListSound == Spec => []InFlightSound
BY LockInvariant, PTL DEF LockInv

(* The compaction of the list of those that wait loses and repeats none.   *)
THEOREM PendingListSound == Spec => []PendingSound
BY LockInvariant, PTL DEF LockInv
-----------------------------------------------------------------------------
-----------------------------------------------------------------------------
LEMMA BlockedMeansHeld ==
  ASSUME LockInv, ~destroyed, NEW j \in Jobs
  PROVE  Blocked(j) <=> HeldOff(j, NoJob)
<1> DEFINE u == UnitOf[j]
<1>0. u \in Units
  BY LockAssumption
<1>1. ASSUME Blocked(j) PROVE HeldOff(j, NoJob)
  <2>1. PICK i \in 1..Len(inFlight[u]) : Overlap(j, inFlight[u][i])
    BY <1>1 DEF Blocked
  <2>2. inFlight[u][i] \in Jobs
    BY <1>0, <2>1 DEF LockInv, TypeOK
  <2>3. Holding(inFlight[u][i]) /\ UnitOf[inFlight[u][i]] = u
    BY <1>0, <2>1 DEF LockInv, InFlightSound
  <2> QED
    BY <2>1, <2>2, <2>3, LockAssumption DEF HeldOff
<1>2. ASSUME HeldOff(j, NoJob) PROVE Blocked(j)
  <2>1. PICK k \in Jobs : Holding(k) /\ UnitOf[k] = u /\ Overlap(j, k)
    BY <1>2 DEF HeldOff
  <2>2. index[k] \in 1..Len(inFlight[u]) /\ inFlight[u][index[k]] = k
    BY <2>1 DEF LockInv, InFlightSound
  <2> QED
    BY <2>1, <2>2 DEF Blocked
<1> QED
  BY <1>1, <1>2

LEMMA NoneWaitsDestroyed ==
  ASSUME LockInv, NEW j \in Jobs, status[j] = "pending"
  PROVE  ~destroyed
<1>1. UnitOf[j] \in Units
  BY LockAssumption
<1>2. PICK i \in 1..Len(pending[UnitOf[j]]) : pending[UnitOf[j]][i] = j
  BY DEF LockInv, PendingSound
<1> QED
  BY <1>1, <1>2 DEF LockInv, Emptied

(* Steps that change neither the flush nor who waits and who holds.        *)
LEMMA ServedQuiet ==
  ASSUME Served, UNCHANGED <<reach, pending, flushUnit, kept, again, calling>>,
         \A k \in Jobs : /\ status'[k] \in Held <=> status[k] \in Held
                         /\ status'[k] = "pending" <=> status[k] = "pending"
  PROVE  Served'
<1>1. \A x \in Jobs : /\ HeldOff(x, NoJob)' <=> HeldOff(x, NoJob)
                      /\ HeldOff(x, calling)' <=> HeldOff(x, calling)
  BY DEF HeldOff, Holding, Held
<1>2. \A x \in Jobs : Passed(x)' <=> Passed(x)
  BY DEF Passed
<1> QED
  BY <1>1, <1>2 DEF Served

LEMMA ServedArrive ==
  ASSUME LockInv, Served, NEW j \in Jobs, Arrive(j)
  PROVE  Served'
<1>1. /\ flushUnit = NoUnit /\ flushUnit' = NoUnit /\ calling' = calling
      /\ reach' = reach /\ ~destroyed /\ status[j] = "new"
  BY DEF Arrive, Idle, NoFlush, flush
<1>2. ASSUME NEW x \in Jobs, status'[x] = "pending", reach # "any"
      PROVE  HeldOff(x, NoJob)
  <2>1. UnitOf[x] \in Units /\ UnitOf[x] # flushUnit
    BY <1>1, LockAssumption
  <2>2. CASE status[x] = "pending"
    BY <1>2, <2>1, <2>2 DEF Served
  <2>3. CASE status[x] # "pending"
    <3>1. x = j /\ Blocked(j)
      BY <1>2, <2>3 DEF Arrive, Wait, Start, LockInv, TypeOK
    <3> QED
      BY <1>1, <3>1, BlockedMeansHeld
  <2> QED
    BY <2>2, <2>3
<1>3. \A k \in Jobs : status[k] \in Held => status'[k] \in Held
  BY <1>1 DEF Arrive, Wait, Start, LockInv, TypeOK, Held
<1>4. ASSUME NEW x \in Jobs, status'[x] = "pending", reach' # "any"
      PROVE  HeldOff(x, NoJob)'
  BY <1>1, <1>2, <1>3, <1>4 DEF HeldOff, Holding, Held
<1>5. \A x \in Jobs : ~Passed(x)'
  BY <1>1 DEF Passed
<1> QED
  BY <1>1, <1>4, <1>5 DEF Served

(* The end of a write between two turns begins a flush of its unit.        *)
LEMMA ServedFinishIdle ==
  ASSUME LockInv, Served, NEW j \in Jobs, Holding(j), Finish(j), Idle, reach' = reach
  PROVE  Served'
<1>1. /\ flushUnit = NoUnit /\ flushUnit' = UnitOf[j] /\ kept' = 0 /\ calling' = calling
      /\ status' = [status EXCEPT ![j] = "done"]
  BY DEF Idle, Finish, Flush
<1>2. calling = NoJob
  <2>1. \A k \in Jobs : UnitOf[k] # flushUnit
    BY <1>1, LockAssumption
  <2> QED
    BY <2>1 DEF Served, LockInv, TypeOK
<1>3. ASSUME NEW x \in Jobs, status'[x] = "pending", reach' # "any",
             UnitOf[x] # flushUnit'
      PROVE  HeldOff(x, NoJob)'
  <2>1. UnitOf[x] # flushUnit /\ status[x] = "pending"
    <3>1. UnitOf[x] \in Units
      BY LockAssumption
    <3>2. status[x] = "pending"
      BY <1>1, <1>3 DEF LockInv, TypeOK
    <3> QED
      BY <1>1, <3>1, <3>2, LockAssumption
  <2>2. PICK k \in Jobs : /\ k # NoJob /\ status[k] \in Held
                          /\ UnitOf[k] = UnitOf[x] /\ Overlap(x, k)
    BY <1>3, <2>1 DEF Served, HeldOff, Holding, Held
  <2>3. status'[k] \in Held
    BY <1>1, <1>3, <2>2 DEF LockInv, TypeOK
  <2> QED
    BY <2>2, <2>3 DEF HeldOff, Holding, Held
<1>4. \A x \in Jobs : ~Passed(x)'
  BY <1>1 DEF Passed
<1> QED
  BY <1>1, <1>2, <1>3, <1>4 DEF Served

(* The end of a write inside the flush asks for another pass.              *)
LEMMA ServedFinishInside ==
  ASSUME LockInv, Served, NEW j \in Jobs, Holding(j), Finish(j), ~Idle,
         WithinReach(j), reach' = reach
  PROVE  Served'
<1>1. /\ again' = TRUE
      /\ UNCHANGED <<flushUnit, kept, calling, pending>>
      /\ status' = [status EXCEPT ![j] = "done"]
  BY DEF Finish, Flush
<1>2. calling # NoJob /\ flushUnit = UnitOf[calling]
  BY DEF Served, WithinReach
<1>3. reach # "any" => UnitOf[j] = flushUnit /\ (reach = "unit" \/ j = calling)
  BY <1>2 DEF WithinReach
<1>4. \A k \in Jobs : /\ k # j /\ status[k] \in Held => status'[k] \in Held
                      /\ status'[k] = "pending" => status[k] = "pending"
  BY <1>1 DEF LockInv, TypeOK
<1>5. \A x \in Jobs : Passed(x)' <=> Passed(x)
  BY <1>1 DEF Passed
<1>6. ASSUME NEW x \in Jobs, status'[x] = "pending", reach # "any", UnitOf[x] # flushUnit
      PROVE  HeldOff(x, NoJob)'
  <2>1. PICK k \in Jobs : /\ k # NoJob /\ status[k] \in Held
                          /\ UnitOf[k] = UnitOf[x] /\ Overlap(x, k)
    BY <1>4, <1>6 DEF Served, HeldOff, Holding, Held
  <2>2. status'[k] \in Held
    BY <1>3, <1>4, <1>6, <2>1
  <2> QED
    BY <2>1, <2>2 DEF HeldOff, Holding, Held
<1>7. ASSUME NEW x \in Jobs, status'[x] = "pending", reach = "own", Passed(x)
      PROVE  HeldOff(x, calling)'
  <2>1. PICK k \in Jobs : /\ k # calling /\ status[k] \in Held
                          /\ UnitOf[k] = UnitOf[x] /\ Overlap(x, k)
    BY <1>4, <1>7 DEF Served, HeldOff, Holding, Held
  <2>2. status'[k] \in Held
    BY <1>3, <1>4, <1>7, <2>1
  <2> QED
    BY <1>1, <2>1, <2>2 DEF HeldOff, Holding, Held
<1> QED
  BY <1>1, <1>2, <1>5, <1>6, <1>7 DEF Served

LEMMA ServedFlushStart ==
  ASSUME LockInv, Served, FlushStart
  PROVE  Served'
<1> DEFINE u == flushUnit
           j == pending[u][kept + 1]
<1>1. u \in Units /\ kept + 1 \in 1..Len(pending[u]) /\ kept \in Nat
  BY DEF LockInv, TypeOK, FlushStart, Scanning, Idle
<1>2. j \in Jobs
  BY <1>1 DEF LockInv, TypeOK
<1>3. status[j] = "pending" /\ UnitOf[j] = u
  BY <1>1 DEF LockInv, PendingSound
<1>4. /\ calling = NoJob /\ calling' = j
      /\ UNCHANGED <<reach, flushUnit, kept, again>>
      /\ pending' = [pending EXCEPT ![u] = Without(@, kept + 1)]
      /\ status' = [status EXCEPT ![j] = "running"]
  BY DEF FlushStart, Scanning, Start
<1>5. \A k \in Jobs : /\ status[k] \in Held => status'[k] \in Held /\ k # j
                      /\ status'[k] = "pending" => status[k] = "pending"
  BY <1>2, <1>3, <1>4 DEF LockInv, TypeOK, Held
<1>6. pending[u] \in Seq(Jobs)
  BY <1>1 DEF LockInv, TypeOK
<1>7. \A x \in Jobs : Passed(x)' => Passed(x)
  <2>1. /\ Len(Without(pending[u], kept + 1)) = Len(pending[u]) - 1
        /\ \A m \in 1..(Len(pending[u]) - 1) :
             Without(pending[u], kept + 1)[m]
               = IF m < kept + 1 THEN pending[u][m] ELSE pending[u][m + 1]
    BY <1>1, <1>6, WithoutOne
  <2>2. pending'[u] = Without(pending[u], kept + 1)
    BY <1>1, <1>4 DEF LockInv, TypeOK
  <2>3. \A m \in 1..kept : m <= Len(pending'[u]) =>
          m <= Len(pending[u]) /\ pending'[u][m] = pending[u][m]
    BY <1>1, <1>6, <2>1, <2>2
  <2> QED
    BY <1>4, <2>3 DEF Passed
<1>8. ASSUME NEW x \in Jobs, status'[x] = "pending", HeldOff(x, NoJob)
      PROVE  HeldOff(x, NoJob)' /\ HeldOff(x, calling)'
  BY <1>4, <1>5, <1>8 DEF HeldOff, Holding, Held
<1> QED
  BY <1>3, <1>4, <1>5, <1>7, <1>8 DEF Served

LEMMA ServedFlushKeep ==
  ASSUME LockInv, Served, FlushKeep
  PROVE  Served'
<1> DEFINE u == flushUnit
           j == pending[u][kept + 1]
<1>1. u \in Units /\ kept + 1 \in 1..Len(pending[u]) /\ kept \in Nat
  BY DEF LockInv, TypeOK, FlushKeep, Scanning, Idle
<1>2. j \in Jobs
  BY <1>1 DEF LockInv, TypeOK
<1>3. status[j] = "pending" /\ UnitOf[j] = u
  BY <1>1 DEF LockInv, PendingSound
<1>4. /\ calling = NoJob /\ kept' = kept + 1
      /\ UNCHANGED <<reach, flushUnit, again, calling, pending, status>>
  BY DEF FlushKeep, Scanning, queues
<1>5. HeldOff(j, NoJob)
  BY <1>2, <1>3, NoneWaitsDestroyed, BlockedMeansHeld DEF FlushKeep
<1>6. \A x \in Jobs : Passed(x)' => Passed(x) \/ x = j
  BY <1>1, <1>4 DEF Passed
<1>7. \A x \in Jobs : /\ HeldOff(x, NoJob)' <=> HeldOff(x, NoJob)
                      /\ HeldOff(x, calling)' <=> HeldOff(x, NoJob)
  BY <1>4 DEF HeldOff, Holding
<1> QED
  BY <1>4, <1>5, <1>6, <1>7 DEF Served

LEMMA ServedReturns ==
  ASSUME LockInv, Served, HandlerReturns
  PROVE  Served'
<1>1. /\ calling # NoJob /\ calling' = NoJob
      /\ UNCHANGED <<reach, flushUnit, kept, again, pending, status>>
  BY DEF HandlerReturns, queues
<1>2. \A x \in Jobs : Passed(x)' <=> Passed(x)
  BY <1>1 DEF Passed
<1>3. \A x \in Jobs : /\ HeldOff(x, NoJob)' <=> HeldOff(x, NoJob)
                      /\ HeldOff(x, calling) => HeldOff(x, calling)'
  BY <1>1, LockAssumption DEF HeldOff, Holding
<1> QED
  BY <1>1, <1>2, <1>3 DEF Served

LEMMA ServedFlushEnd ==
  ASSUME LockInv, Served, FlushEnd
  PROVE  Served'
<1> DEFINE u == flushUnit
<1>1. /\ calling = NoJob /\ calling' = NoJob /\ kept' = 0
      /\ UNCHANGED <<reach, pending, status>>
      /\ u \in Units /\ kept = Len(pending[u])
  BY DEF FlushEnd, Scanning, Idle, queues, LockInv, TypeOK
<1>2. flushUnit' = u \/ ~again
  BY DEF FlushEnd
<1>3. \A x \in Jobs : ~Passed(x)'
  BY <1>1 DEF Passed
<1>4. \A x \in Jobs : HeldOff(x, NoJob)' <=> HeldOff(x, NoJob)
  BY <1>1 DEF HeldOff, Holding
<1>5. ASSUME NEW x \in Jobs, status[x] = "pending", reach # "any", UnitOf[x] # flushUnit'
      PROVE  HeldOff(x, NoJob)
  <2>1. CASE UnitOf[x] # u
    BY <1>5, <2>1 DEF Served
  <2>2. CASE UnitOf[x] = u
    <3>1. ~again
      BY <1>2, <1>5, <2>2
    <3>2. PICK i \in 1..Len(pending[u]) : pending[u][i] = x
      BY <1>5, <2>2 DEF LockInv, PendingSound
    <3>3. Passed(x)
      BY <1>1, <3>2, LockAssumption DEF Passed
    <3>4. reach \in {"own", "unit"}
      BY <1>5 DEF LockInv, TypeOK
    <3> QED
      BY <1>1, <1>5, <3>1, <3>3, <3>4 DEF Served
  <2> QED
    BY <2>1, <2>2
<1> QED
  BY <1>1, <1>3, <1>4, <1>5 DEF Served

LEMMA ServedDestroy ==
  ASSUME Served, Destroy
  PROVE  Served'
<1>1. \A x \in Jobs : status'[x] # "pending"
  BY DEF Destroy
<1>2. UNCHANGED <<flushUnit, calling>>
  BY DEF Destroy, NoFlush, flush
<1> QED
  BY <1>1, <1>2 DEF Served

LEMMA ServedStep == LockInv /\ Served /\ [Next]_vars => Served'
<1> SUFFICES ASSUME LockInv, Served, [Next]_vars PROVE Served'
  OBVIOUS
<1>1. ASSUME NEW j \in Jobs, HandlerDone(j) PROVE Served'
  <2>1. Holding(j) /\ reach' = reach
    BY <1>1, ReachFixed DEF HandlerDone, Holding
  <2>2. CASE Finish(j) /\ Idle
    BY <2>1, <2>2, ServedFinishIdle
  <2>3. CASE Finish(j) /\ ~Idle
    BY <1>1, <2>1, <2>3, ServedFinishInside DEF HandlerDone
  <2>4. CASE /\ status' = [status EXCEPT ![j] = "authorizing"]
             /\ NoFlush /\ UNCHANGED queues
    <3>1. \A k \in Jobs : /\ status'[k] \in Held <=> status[k] \in Held
                          /\ status'[k] = "pending" <=> status[k] = "pending"
      BY <1>1, <2>4 DEF HandlerDone, LockInv, TypeOK, Held
    <3> QED
      BY <2>1, <2>4, <3>1, ServedQuiet DEF NoFlush, flush, queues
  <2> QED
    BY <1>1, <2>2, <2>3, <2>4 DEF HandlerDone
<1>2. ASSUME NEW j \in Jobs, RuntimeDone(j) PROVE Served'
  BY <1>2, ReachFixed, ServedFinishIdle DEF RuntimeDone, Holding
<1>3. ASSUME Rest \/ UNCHANGED vars PROVE Served'
  BY <1>3, ServedQuiet DEF Rest, vars, flush, queues
<1> QED
  BY <1>1, <1>2, <1>3, ServedArrive, ServedFlushStart, ServedFlushKeep, ServedReturns,
     ServedFlushEnd, ServedDestroy DEF Next

LEMMA ServedInvariant == Spec => []Served
<1>1. Init => Served
  BY DEF Init, Served
<1> QED
  BY <1>1, ServedStep, LockInvariant, PTL DEF Spec

(* Between two turns every write that waits is held off by one in flight   *)
(* on its unit, as long as the handlers the flush loop calls complete at   *)
(* once no write of another unit.                                          *)
THEOREM NoWriteStranded == Spec => []PendingIsBlocked
<1>1. LockInv /\ Served => PendingIsBlocked
  <2> SUFFICES ASSUME LockInv, Served, reach # "any", Idle,
                      NEW j \in Jobs, status[j] = "pending"
               PROVE  Blocked(j)
    BY DEF PendingIsBlocked, NoStrandedWrite
  <2>1. UnitOf[j] # flushUnit
    BY LockAssumption DEF Idle
  <2>2. HeldOff(j, NoJob)
    BY <2>1 DEF Served
  <2> QED
    BY <2>2, BlockedMeansHeld, NoneWaitsDestroyed
<1> QED
  BY <1>1, LockInvariant, ServedInvariant, PTL
-----------------------------------------------------------------------------
LEMMA InTurnArrive ==
  ASSUME LockInv, InTurn, NEW j \in Jobs, Arrive(j)
  PROVE  InTurn'
<1>1. /\ status[j] = "new" /\ arrived' = arrived + 1 /\ arrived \in Nat
      /\ ticket' = [ticket EXCEPT ![j] = arrived + 1] /\ ticket \in [Jobs -> Nat]
  BY DEF Arrive, LockInv, TypeOK
<1>2. ticket'[j] = arrived + 1 /\ \A k \in Jobs : k # j => ticket'[k] = ticket[k]
  BY <1>1
<1>3. \A k \in Jobs : ticket'[k] <= arrived'
  BY <1>1, <1>2 DEF InTurn
<1>4. ASSUME NEW v \in Units, NEW i \in 1..Len(pending[v])
      PROVE  /\ pending[v][i] \in Jobs /\ pending[v][i] # j
             /\ ticket'[pending[v][i]] = ticket[pending[v][i]]
             /\ ticket'[pending[v][i]] < arrived + 1
  <2>1. pending[v][i] \in Jobs
    BY <1>4 DEF LockInv, TypeOK
  <2>2. pending[v][i] # j
    BY <1>1, <1>4 DEF LockInv, PendingSound
  <2> QED
    BY <1>1, <1>2, <2>1, <2>2 DEF InTurn
<1>5. ASSUME NEW v \in Units, NEW i \in 1..Len(pending'[v]), NEW k \in 1..Len(pending'[v]),
             i < k
      PROVE  ticket'[pending'[v][i]] < ticket'[pending'[v][k]]
  <2>1. CASE pending'[v] = pending[v]
    BY <1>4, <1>5, <2>1 DEF InTurn
  <2>2. CASE pending'[v] # pending[v]
    <3>1. pending[v] \in Seq(Jobs) /\ pending'[v] = Append(pending[v], j)
      BY <2>2, LockAssumption DEF Arrive, Wait, LockInv, TypeOK
    <3>2. i \in 1..Len(pending[v]) /\ pending'[v][i] = pending[v][i]
      BY <1>5, <3>1
    <3>3. CASE k \in 1..Len(pending[v])
      <4>1. pending'[v][k] = pending[v][k]
        BY <3>1, <3>3
      <4> QED
        BY <1>4, <1>5, <3>2, <3>3, <4>1 DEF InTurn
    <3>4. CASE k = Len(pending[v]) + 1
      <4>1. pending'[v][k] = j
        BY <3>1, <3>4
      <4> QED
        BY <1>2, <1>4, <3>2, <4>1
    <3> QED
      BY <1>5, <3>1, <3>3, <3>4
  <2> QED
    BY <2>1, <2>2
<1> QED
  BY <1>3, <1>5 DEF InTurn

LEMMA InTurnFlushStart ==
  ASSUME LockInv, InTurn, FlushStart
  PROVE  InTurn'
<1> DEFINE u == flushUnit
           p == pending[u]
           n == kept + 1
<1>1. u \in Units /\ n \in 1..Len(p)
  BY DEF LockInv, TypeOK, FlushStart, Scanning, Idle
<1>2. p \in Seq(Jobs)
  BY <1>1 DEF LockInv, TypeOK
<1>3. /\ pending' = [pending EXCEPT ![u] = Without(p, n)]
      /\ UNCHANGED <<ticket, arrived>>
  BY DEF FlushStart, history
<1>4. /\ Len(Without(p, n)) = Len(p) - 1
      /\ \A m \in 1..(Len(p) - 1) : Without(p, n)[m] = IF m < n THEN p[m] ELSE p[m + 1]
  BY <1>1, <1>2, WithoutOne
<1>5. /\ pending'[u] = Without(p, n)
      /\ \A v \in Units : v # u => pending'[v] = pending[v]
  BY <1>1, <1>3 DEF LockInv, TypeOK
<1>6. ASSUME NEW v \in Units, NEW i \in 1..Len(pending'[v]), NEW k \in 1..Len(pending'[v]),
             i < k
      PROVE  ticket[pending'[v][i]] < ticket[pending'[v][k]]
  <2>1. CASE v # u
    BY <1>5, <1>6, <2>1 DEF InTurn
  <2>2. CASE v = u
    <3>1. i \in 1..(Len(p) - 1) /\ k \in 1..(Len(p) - 1)
      BY <1>2, <1>4, <1>5, <1>6, <2>2
    <3>2. PICK a \in 1..Len(p) : a = IF i < n THEN i ELSE i + 1
      BY <1>2, <3>1
    <3>3. PICK b \in 1..Len(p) : b = IF k < n THEN k ELSE k + 1
      BY <1>2, <3>1
    <3>4. a < b /\ pending'[v][i] = p[a] /\ pending'[v][k] = p[b]
      BY <1>1, <1>2, <1>4, <1>5, <1>6, <2>2, <3>1, <3>2, <3>3
    <3>5. ticket[p[a]] < ticket[p[b]]
      BY <1>1, <3>4 DEF InTurn
    <3> QED
      BY <3>4, <3>5
  <2> QED
    BY <2>1, <2>2
<1> QED
  BY <1>3, <1>6 DEF InTurn

LEMMA InTurnStep == LockInv /\ InTurn /\ [Next]_vars => InTurn'
<1> SUFFICES ASSUME LockInv, InTurn, [Next]_vars PROVE InTurn'
  OBVIOUS
<1>1. ASSUME UNCHANGED <<pending, history>> PROVE InTurn'
  BY <1>1 DEF InTurn, history
<1>2. ASSUME NEW j \in Jobs, HandlerDone(j) \/ RuntimeDone(j) PROVE InTurn'
  BY <1>1, <1>2 DEF HandlerDone, RuntimeDone, Finish, queues
<1>3. ASSUME FlushKeep \/ HandlerReturns \/ FlushEnd \/ Rest \/ UNCHANGED vars PROVE InTurn'
  BY <1>1, <1>3 DEF FlushKeep, HandlerReturns, FlushEnd, Rest, vars, queues
<1>4. ASSUME Destroy PROVE InTurn'
  <2>1. /\ \A u \in Units : pending'[u] = <<>>
        /\ UNCHANGED <<ticket, arrived>>
    BY <1>4 DEF Destroy, history
  <2> QED
    BY <2>1 DEF InTurn
<1> QED
  BY <1>2, <1>3, <1>4, InTurnArrive, InTurnFlushStart DEF Next

LEMMA InTurnInvariant == Spec => []InTurn
<1>1. Init => InTurn
  BY DEF Init, InTurn
<1> QED
  BY <1>1, InTurnStep, LockInvariant, PTL DEF Spec

(* Writes of a unit to the same addresses are carried out in the order of  *)
(* their arrival, as long as a handler the flush loop calls completes at   *)
(* once no write but its own.                                              *)
THEOREM SameRangeOrdered == Spec => SameRangeInOrder
<1> DEFINE Overtakes(j, k) ==
       /\ reach = "own"
       /\ UnitOf[j] = UnitOf[k] /\ Spans[j] = Spans[k]
       /\ 0 < ticket[j] /\ ticket[j] < ticket'[k]
       /\ status[k] # "running" /\ status'[k] = "running"
       /\ status[j] = "pending"
<1>1. LockInv /\ Served /\ InTurn /\ [Next]_vars => \A j, k \in Jobs : ~Overtakes(j, k)
  <2> SUFFICES ASSUME LockInv, Served, InTurn, [Next]_vars, NEW j \in Jobs, NEW k \in Jobs,
                      Overtakes(j, k)
               PROVE  FALSE
    OBVIOUS
  <2>0. Arrive(k) \/ (FlushStart /\ k = pending[flushUnit][kept + 1])
    <3>1. ASSUME NEW i \in Jobs, Arrive(i) PROVE i = k
      BY <3>1 DEF Arrive, Wait, Start, LockInv, TypeOK
    <3>2. ASSUME FlushStart PROVE k = pending[flushUnit][kept + 1]
      BY <3>2 DEF FlushStart, Start, LockInv, TypeOK
    <3>3. ASSUME NEW i \in Jobs, HandlerDone(i) \/ RuntimeDone(i) PROVE FALSE
      BY <3>3 DEF HandlerDone, RuntimeDone, Finish, LockInv, TypeOK
    <3>4. ASSUME FlushKeep \/ HandlerReturns \/ FlushEnd \/ Destroy \/ Rest \/ UNCHANGED vars
          PROVE FALSE
      BY <3>4 DEF FlushKeep, HandlerReturns, FlushEnd, Destroy, Rest, vars
    <3> QED
      BY <3>1, <3>2, <3>3, <3>4 DEF Next
  <2>1. j # k /\ ~destroyed
    <3>1. j # k
      BY <2>0 DEF Arrive, FlushStart, history, LockInv, TypeOK
    <3> QED
      BY <3>1, NoneWaitsDestroyed
  <2>2. HeldOff(j, NoJob) => Blocked(k)
    <3>1. HeldOff(j, NoJob) => HeldOff(k, NoJob)
      BY DEF HeldOff, Overlap
    <3> QED
      BY <2>1, <3>1, BlockedMeansHeld
  <2>3. CASE Arrive(k)
    <3>1. UnitOf[j] # flushUnit
      BY <2>3, LockAssumption DEF Arrive, Idle
    <3>2. Blocked(k)
      BY <2>2, <3>1 DEF Served
    <3> QED
      BY <2>3, <3>2 DEF Arrive, Wait, LockInv, TypeOK
  <2>4. CASE FlushStart /\ k = pending[flushUnit][kept + 1]
    <3> DEFINE u == flushUnit
    <3>1. u \in Units /\ kept + 1 \in 1..Len(pending[u]) /\ kept \in Nat
      BY <2>4 DEF LockInv, TypeOK, FlushStart, Scanning, Idle
    <3>2. UnitOf[k] = u
      BY <2>4, <3>1 DEF LockInv, PendingSound
    <3>3. PICK m \in 1..Len(pending[u]) : pending[u][m] = j
      BY <3>2 DEF LockInv, PendingSound
    <3>4. ticket[j] < ticket[k] /\ ticket[j] \in Nat /\ ticket[k] \in Nat
      BY <2>4 DEF FlushStart, history, LockInv, TypeOK
    <3>5. ~(kept + 1 < m)
      BY <2>4, <3>1, <3>3, <3>4 DEF InTurn
    <3>6. m # kept + 1
      BY <2>1, <2>4, <3>3
    <3>7. Passed(j)
      BY <3>1, <3>3, <3>5, <3>6, LockAssumption DEF Passed
    <3>8. HeldOff(j, NoJob)
      BY <2>4, <3>7 DEF Served, FlushStart, Scanning
    <3> QED
      BY <2>2, <2>4, <3>8 DEF FlushStart
  <2> QED
    BY <2>0, <2>3, <2>4
<1>2. LockInv /\ Served /\ InTurn /\ [Next]_vars =>
        [\A j, k \in Jobs :
           /\ reach = "own"
           /\ UnitOf[j] = UnitOf[k] /\ Spans[j] = Spans[k]
           /\ 0 < ticket[j] /\ ticket[j] < ticket'[k]
           /\ status[k] # "running" /\ status'[k] = "running"
           => status[j] # "pending"]_vars
  BY <1>1
<1> QED
  BY <1>2, LockInvariant, ServedInvariant, InTurnInvariant, PTL DEF Spec, SameRangeInOrder
-----------------------------------------------------------------------------
(* A change of one status seen by the abstract lock.                       *)
LEMMA PhaseChanges ==
  ASSUME LockInv, NEW j \in Jobs, NEW s \in Statuses, status' = [status EXCEPT ![j] = s]
  PROVE  /\ \A k \in Jobs : k # j => Phase(k)' = Phase(k)
         /\ s = "pending" => Phase(j)' = "waiting"
         /\ s = "running" \/ s = "authorizing" => Phase(j)' = "holding"
         /\ s = "done" => Phase(j)' = "over"
<1>1. status'[j] = s /\ \A k \in Jobs : k # j => status'[k] = status[k]
  BY DEF LockInv, TypeOK
<1> QED
  BY <1>1 DEF Phase, Holding

LEMMA PhaseHolding ==
  \A j \in Jobs : Phase(j) = "holding" <=> Holding(j)
BY DEF Phase, Holding

LEMMA Acquires ==
  ASSUME LockInv, LockInv', NEW j \in Jobs, status[j] \in {"new", "pending"},
         status' = [status EXCEPT ![j] = "running"]
  PROVE  Lock!Acquire(j)
<1> DEFINE ph == [k \in Jobs |-> Phase(k)]
<1>1. "running" \in Statuses
  BY DEF Statuses
<1>2. Phase(j)' = "holding" /\ \A k \in Jobs : k # j => Phase(k)' = Phase(k)
  BY <1>1, PhaseChanges
<1>3. Phase(j) \in {"new", "waiting"}
  BY DEF Phase, Holding
<1>4. ASSUME NEW k \in Jobs \ {j}, Phase(k) = "holding"
      PROVE  <<j, k>> \notin Conflict
  <2>1. status[k] \in Held
    BY <1>4, PhaseHolding DEF Holding, Held
  <2>2. status'[k] \in Held /\ status'[j] \in Held
    BY <2>1 DEF LockInv, TypeOK, Held
  <2> QED
    BY <2>2 DEF LockInv, Exclusive, Holding, Held, Conflict, Shares
<1>5. [k \in Jobs |-> Phase(k)]' = [ph EXCEPT ![j] = "holding"]
  BY <1>2
<1> QED
  BY <1>3, <1>4, <1>5 DEF Lock!Acquire

LEMMA AbstractFinish ==
  ASSUME LockInv, NEW j \in Jobs, Holding(j), Finish(j)
  PROVE  Lock!Release(j)
<1> DEFINE ph == [k \in Jobs |-> Phase(k)]
<1>1. "done" \in Statuses /\ status' = [status EXCEPT ![j] = "done"]
  BY DEF Statuses, Finish
<1>2. Phase(j)' = "over" /\ \A k \in Jobs : k # j => Phase(k)' = Phase(k)
  BY <1>1, PhaseChanges
<1>3. [k \in Jobs |-> Phase(k)]' = [ph EXCEPT ![j] = "over"]
  BY <1>2
<1> QED
  BY <1>3, PhaseHolding DEF Lock!Release

LEMMA SamePhases ==
  ASSUME status' = status
  PROVE  [k \in Jobs |-> Phase(k)]' = [k \in Jobs |-> Phase(k)]
BY DEF Phase, Holding

LEMMA AbstractStep ==
  ASSUME LockInv, LockInv', [Next]_vars
  PROVE  Lock!Next \/ [k \in Jobs |-> Phase(k)]' = [k \in Jobs |-> Phase(k)]
<1> DEFINE ph == [k \in Jobs |-> Phase(k)]
<1>1. ASSUME NEW j \in Jobs, Arrive(j)
      PROVE  Lock!Ask(j) \/ Lock!Acquire(j)
  <2>1. status[j] = "new"
    BY <1>1 DEF Arrive
  <2>2. CASE Wait(j)
    <3>1. Phase(j) = "new"
      BY <2>1 DEF Phase, Holding
    <3>2. "pending" \in Statuses /\ status' = [status EXCEPT ![j] = "pending"]
      BY <2>2 DEF Statuses, Wait
    <3>3. Phase(j)' = "waiting" /\ \A k \in Jobs : k # j => Phase(k)' = Phase(k)
      BY <3>2, PhaseChanges
    <3>4. ph' = [ph EXCEPT ![j] = "waiting"]
      BY <3>3
    <3> QED
      BY <3>1, <3>4 DEF Lock!Ask
  <2>3. CASE Start(j)
    BY <2>1, <2>3, Acquires DEF Start
  <2> QED
    BY <1>1, <2>2, <2>3 DEF Arrive
<1>2. ASSUME NEW j \in Jobs, HandlerDone(j)
      PROVE  Lock!Release(j) \/ ph' = ph
  <2>1. Holding(j)
    BY <1>2 DEF HandlerDone, Holding
  <2>2. CASE status' = [status EXCEPT ![j] = "authorizing"]
    <3>1. "authorizing" \in Statuses
      BY DEF Statuses
    <3>2. Phase(j)' = "holding" /\ \A k \in Jobs : k # j => Phase(k)' = Phase(k)
      BY <2>2, <3>1, PhaseChanges
    <3>3. Phase(j) = "holding"
      BY <2>1, PhaseHolding
    <3> QED
      BY <3>2, <3>3
  <2> QED
    BY <1>2, <2>1, <2>2, AbstractFinish DEF HandlerDone
<1>3. ASSUME NEW j \in Jobs, RuntimeDone(j)
      PROVE  Lock!Release(j)
  BY <1>3, AbstractFinish DEF RuntimeDone, Holding
<1>4. ASSUME FlushStart
      PROVE  \E j \in Jobs : Lock!Acquire(j)
  <2> DEFINE j == pending[flushUnit][kept + 1]
  <2>1. flushUnit \in Units /\ kept + 1 \in 1..Len(pending[flushUnit])
    BY <1>4 DEF LockInv, TypeOK, FlushStart, Scanning, Idle
  <2>a. j \in Jobs
    BY <2>1 DEF LockInv, TypeOK
  <2>2. j \in Jobs /\ status[j] = "pending"
    BY <2>1, <2>a DEF LockInv, PendingSound
  <2>3. status' = [status EXCEPT ![j] = "running"]
    BY <1>4 DEF FlushStart, Start
  <2> QED
    BY <2>2, <2>3, Acquires
<1>5. ASSUME Destroy
      PROVE  Lock!WithdrawAll
  <2>1. \A k \in Jobs : status'[k] = IF status[k] = "pending" THEN "dropped" ELSE status[k]
    BY <1>5 DEF Destroy
  <2>2. \A k \in Jobs : Phase(k)' = IF Phase(k) = "waiting" THEN "over" ELSE Phase(k)
    BY <2>1 DEF Phase, Holding, LockInv, TypeOK, Statuses
  <2> QED
    BY <2>2 DEF Lock!WithdrawAll
<1>6. ASSUME FlushKeep \/ HandlerReturns \/ FlushEnd \/ Rest \/ UNCHANGED vars
      PROVE  ph' = ph
  BY <1>6, SamePhases DEF FlushKeep, HandlerReturns, FlushEnd, Rest, vars
<1> QED
  BY <1>1, <1>2, <1>3, <1>4, <1>5, <1>6 DEF Next, Lock!Next

(* The write lock, with its lists, its re-entrant flush, late completions  *)
(* and destroy(), is a behaviour of RangeLock.                             *)
THEOREM LockImplemented == Spec => ImplementsLock
<1>1. Init => Lock!Init
  BY DEF Init, Lock!Init, Phase, Holding
<1>2. LockInv /\ LockInv' /\ [Next]_vars => [Lock!Next]_([j \in Jobs |-> Phase(j)])
  BY AbstractStep
<1> QED
  BY <1>1, <1>2, LockInvariant, PTL DEF Spec, ImplementsLock, Lock!Spec
=============================================================================
