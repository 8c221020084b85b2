---------------------------- MODULE FramingProofs ----------------------------
(***************************************************************************)
(* Theorems about Framing, for any lines as FramingAssumption asks for,    *)
(* and their proofs.  A line is tiled by its frames and its noise; each    *)
(* layer is in step with it: a scan stands where the next frame due begins *)
(* or past all that it has to find (Track), and what has been passed was   *)
(* emitted.  A loop of decode() is followed round by round, its state      *)
(* after each round among those reached.                                   *)
(***************************************************************************)
EXTENDS Framing, FiniteSetTheorems, SequenceTheorems, TLAPS

(* Induction up to n, by the least number that is not in T.                *)
LEMMA Least ==
  ASSUME NEW T, T \subseteq Nat, T # {}
  PROVE  \E n \in T : \A m \in T : n <= m
<1>1. PICK R : R = OpToRel(<, Nat)
  OBVIOUS
<1>2. IsWellFoundedOn(R, Nat)
  BY <1>1, NatLessThanWellFounded
<1>3. PICK n \in T : \A m \in T : ~(<<m, n>> \in R)
  BY <1>2, WFMin
<1>4. ASSUME NEW m \in T, m < n PROVE FALSE
  <2>1. <<m, n>> \in R
    BY <1>1, <1>4 DEF OpToRel
  <2> QED BY <2>1, <1>3
<1> QED BY <1>3, <1>4

(* ... and what holds at 0 and is passed on holds up to n.                 *)
LEMMA Inducted ==
  ASSUME NEW n \in Nat, NEW T, 0 \in T, \A k \in 1..n : k - 1 \in T => k \in T
  PROVE  \A k \in 0..n : k \in T
<1> SUFFICES ASSUME NEW j \in 0..n, j \notin T PROVE FALSE
  OBVIOUS
<1>1. PICK U : U = {k \in 0..n : k \notin T}
  OBVIOUS
<1>2. U \subseteq Nat /\ U # {}
  BY <1>1
<1>3. PICK k \in U : \A m \in U : k <= m
  BY <1>2, Least
<1>4. k \in 1..n
  BY <1>1, <1>3
<1>5. k - 1 \in 0..n /\ k - 1 \notin U
  BY <1>3, <1>4
<1>6. k - 1 \in T
  BY <1>1, <1>5
<1> QED BY <1>1, <1>3, <1>4, <1>6

(* What a loop of n rounds goes through, from a: round k leads from S[k-1] *)
(* to S[k].                                                                *)
Rounds(S, F, a, n, g) ==
  /\ g = [k \in 0..n |-> g[k]] /\ g[0] = a
  /\ \A k \in 0..n : g[k] \in S[k]
  /\ \A k \in 1..n : g[k] = F[k][g[k - 1]]

(* A function over rounds that is defined from round to round exists.      *)
LEMMA RoundsExist ==
  ASSUME NEW S, NEW n \in Nat, NEW F, \A k \in 1..n : F[k] \in [S[k - 1] -> S[k]], NEW a \in S[0]
  PROVE  \E g : Rounds(S, F, a, n, g)
<1>1. PICK T : T = {m \in 0..n : \E g : Rounds(S, F, a, m, g)}
  OBVIOUS
<1>2. 0 \in T
  <2>1. PICK g : g = [k \in 0..0 |-> a]
    OBVIOUS
  <2>2. Rounds(S, F, a, 0, g)
    BY <2>1 DEF Rounds
  <2> QED BY <1>1, <2>2
<1>3. ASSUME NEW k \in 1..n, k - 1 \in T PROVE k \in T
  <2>1. PICK g : Rounds(S, F, a, k - 1, g)
    BY <1>1, <1>3
  <2>2. PICK j \in 0..n : j = k - 1 /\ k = j + 1
    OBVIOUS
  <2>3. /\ g[0] = a
        /\ \A i \in 0..j : g[i] \in S[i]
        /\ \A i \in 1..j : g[i] = F[i][g[i - 1]]
    BY <2>1, <2>2 DEF Rounds
  <2>4. PICK h : h = [i \in 0..k |-> IF i = k THEN F[k][g[j]] ELSE g[i]]
    OBVIOUS
  <2>5. F[k][g[j]] \in S[k]
    <3>1. F[k] \in [S[j] -> S[k]] /\ g[j] \in S[j]
      BY <2>2, <2>3
    <3> QED BY <3>1
  <2>10. h = [i \in 0..k |-> h[i]]
    BY <2>4
  <2>6. h[0] = a
    BY <2>2, <2>3, <2>4
  <2>7. \A i \in 0..k : h[i] \in S[i]
    BY <2>2, <2>3, <2>4, <2>5
  <2>8. \A i \in 1..k : h[i] = F[i][h[i - 1]]
    <3> TAKE i \in 1..k
    <3>1. CASE i = k
      <4>2. k \in 0..k /\ j \in 0..k /\ j # k
        BY <2>2
      <4>3. h[k] = F[k][g[j]]
        BY <4>2, <2>4
      <4>4. h[j] = g[j]
        BY <4>2, <2>4
      <4>1. h[k] = F[k][g[j]] /\ h[j] = g[j]
        BY <4>3, <4>4
      <4> QED BY <3>1, <4>1, <2>2
    <3>2. CASE i # k
      <4>1. i \in 1..j /\ i - 1 \in 0..j
        BY <3>2, <2>2
      <4>2. h[i] = g[i] /\ h[i - 1] = g[i - 1]
        BY <4>1, <2>2, <2>4
      <4> QED BY <4>1, <4>2, <2>3
    <3> QED BY <3>1, <3>2
  <2>9. Rounds(S, F, a, k, h)
    BY <2>6, <2>7, <2>8, <2>10 DEF Rounds
  <2> QED BY <2>9, <1>1
<1>4. \A k \in 0..n : k \in T
  BY <1>2, <1>3, Inducted
<1> QED BY <1>1, <1>4
-----------------------------------------------------------------------------
(* A line laid out: its parts lie side by side and leave nothing out.      *)
Pieces(line) == line.frames \cup line.noise
Tiled(line) ==
  /\ line.bytes \in Seq(Nat)
  /\ \A e \in Pieces(line) :
       e \in Nat \X Nat /\ 1 <= e[1] /\ e[1] <= e[2] /\ e[2] <= Len(line.bytes)
  /\ \A e, f \in Pieces(line) : e = f \/ e[2] < f[1] \/ f[2] < e[1]
  /\ \A p \in 1..Len(line.bytes) : \E e \in Pieces(line) : e[1] <= p /\ p <= e[2]

UpToEquation(g, line, n) ==
  g = [k \in 0..n |-> IF k = 0 THEN <<>> ELSE g[k - 1] \o Encoded(line.proto, line.parts[k])]

(* What a line is after each of its parts: longer every time.              *)
LEMMA UpToIs ==
  ASSUME NEW l \in Lines
  PROVE  \E n, w :
           /\ n \in Nat
           /\ n = Len(l.parts) /\ DOMAIN l.parts = 1..n
           /\ UpTo(l) = w /\ w[0] = <<>>
           /\ \A k \in 0..n : w[k] \in Seq(Nat)
           /\ \A k \in 1..n : Len(w[k - 1]) < Len(w[k])
<1>1. PICK n \in Nat : n = Len(l.parts) /\ DOMAIN l.parts = 1..n
  BY FramingAssumption
<1>2. PICK e : e = [k \in 1..n |-> Encoded(l.proto, l.parts[k])]
  OBVIOUS
<1>3. \A k \in 1..n : e[k] \in Seq(Nat) /\ e[k] # <<>>
  <2> TAKE k \in 1..n
  <2>1. Encoded(l.proto, l.parts[k]) \in Seq(Nat) \ {<<>>}
    BY <1>1, FramingAssumption
  <2>2. e[k] = Encoded(l.proto, l.parts[k])
    BY <1>2
  <2> QED BY <2>1, <2>2
<1>4. PICK S : S = [k \in 0..n |-> Seq(Nat)]
  OBVIOUS
<1>5. PICK F : F = [k \in 1..n |-> [s \in Seq(Nat) |-> s \o e[k]]]
  OBVIOUS
<1>6. \A k \in 1..n : F[k] \in [S[k - 1] -> S[k]]
  <2> TAKE k \in 1..n
  <2>1. k \in 0..n /\ k - 1 \in 0..n
    OBVIOUS
  <2>2. S[k] = Seq(Nat) /\ S[k - 1] = Seq(Nat)
    BY <2>1, <1>4
  <2>3. ASSUME NEW s \in Seq(Nat) PROVE s \o e[k] \in Seq(Nat)
    <3>1. PICK t \in Seq(Nat) : t = e[k]
      BY <1>3
    <3>2. s \o t \in Seq(Nat)
      OBVIOUS
    <3> QED BY <3>1, <3>2
  <2>4. F[k] = [s \in Seq(Nat) |-> s \o e[k]]
    BY <1>5
  <2> QED BY <2>2, <2>3, <2>4
<1>7. <<>> \in S[0]
  BY <1>4
<1>8. PICK g : Rounds(S, F, <<>>, n, g)
  BY <1>6, <1>7, RoundsExist
<1>9. UpToEquation(g, l, n)
  <2>1. \A k \in 0..n : g[k] = IF k = 0 THEN <<>> ELSE g[k - 1] \o Encoded(l.proto, l.parts[k])
    <3> TAKE k \in 0..n
    <3>1. CASE k = 0
      BY <3>1, <1>8 DEF Rounds
    <3>2. CASE k # 0
      <4>1. k \in 1..n /\ k - 1 \in 0..n
        BY <3>2
      <4>2. g[k - 1] \in Seq(Nat)
        BY <4>1, <1>4, <1>8 DEF Rounds
      <4>3. g[k] = F[k][g[k - 1]]
        BY <4>1, <1>8 DEF Rounds
      <4>4. F[k] = [s \in Seq(Nat) |-> s \o e[k]] /\ e[k] = Encoded(l.proto, l.parts[k])
        BY <4>1, <1>2, <1>5
      <4>5. g[k] = g[k - 1] \o e[k]
        BY <4>2, <4>3, <4>4
      <4> QED BY <3>2, <4>4, <4>5
    <3> QED BY <3>1, <3>2
  <2>2. g = [k \in 0..n |-> g[k]]
    BY <1>8 DEF Rounds
  <2> QED BY <2>1, <2>2, Zenon DEF UpToEquation
<1>10. PICK w : w = CHOOSE f : UpToEquation(f, l, n)
  OBVIOUS
<1>11. UpTo(l) = w
  BY <1>1, <1>10 DEF UpTo, UpToEquation
<1>12. UpToEquation(w, l, n)
  BY <1>9, <1>10
<1>13. \A k \in 0..n : w[k] = IF k = 0 THEN <<>> ELSE w[k - 1] \o Encoded(l.proto, l.parts[k])
  BY <1>12 DEF UpToEquation
<1>14. w[0] = <<>>
  BY <1>13
<1>15. ASSUME NEW k \in 1..n, w[k - 1] \in Seq(Nat)
       PROVE  w[k] \in Seq(Nat) /\ Len(w[k - 1]) < Len(w[k])
  <2>1. PICK s \in Seq(Nat), t \in Seq(Nat) : s = w[k - 1] /\ t = e[k] /\ t # <<>>
    BY <1>3, <1>15
  <2>2. w[k] = w[k - 1] \o e[k]
    <3>1. k \in 0..n /\ k # 0 /\ e[k] = Encoded(l.proto, l.parts[k])
      BY <1>2
    <3> QED BY <3>1, <1>13
  <2>3. s \o t \in Seq(Nat) /\ Len(s \o t) = Len(s) + Len(t) /\ Len(t) >= 1
    BY <2>1
  <2>4. w[k] = s \o t
    BY <2>1, <2>2
  <2>5. w[k] \in Seq(Nat) /\ Len(w[k]) = Len(s) + Len(t)
    BY <2>3, <2>4, Zenon
  <2>6. Len(s) \in Nat /\ Len(t) \in Nat /\ Len(w[k - 1]) = Len(s)
    BY <2>1
  <2>7. Len(s) < Len(w[k])
    BY <2>3, <2>5, <2>6
  <2> QED BY <2>5, <2>6, <2>7, Zenon
<1>16. \A k \in 0..n : w[k] \in Seq(Nat)
  <2>1. PICK T : T = {k \in 0..n : w[k] \in Seq(Nat)}
    OBVIOUS
  <2>2. w[0] \in Seq(Nat)
    <3>1. <<>> \in Seq(Nat)
      OBVIOUS
    <3> QED BY <3>1, <1>14, Zenon
  <2>3. 0 \in T
    BY <2>1, <2>2
  <2>4. ASSUME NEW k \in 1..n, k - 1 \in T PROVE k \in T
    <3>1. w[k - 1] \in Seq(Nat)
      BY <2>1, <2>4
    <3>2. w[k] \in Seq(Nat)
      BY <3>1, <1>15
    <3> QED BY <3>2, <2>1
  <2>5. \A k \in 0..n : k \in T
    BY <2>3, <2>4, Inducted
  <2> QED BY <2>1, <2>5
<1>17. \A k \in 1..n : Len(w[k - 1]) < Len(w[k])
  <2> TAKE k \in 1..n
  <2>1. k - 1 \in 0..n
    OBVIOUS
  <2> QED BY <2>1, <1>15, <1>16
<1> QED BY <1>1, <1>11, <1>14, <1>16, <1>17

(* A line that Laid lays out is tiled by its frames and its noise.         *)
LEMMA LaidTiled ==
  ASSUME NEW l \in Lines
  PROVE  Tiled(Laid(l))
<1>0. PICK n \in Nat : \E w :
           /\ n = Len(l.parts) /\ DOMAIN l.parts = 1..n
           /\ UpTo(l) = w /\ w[0] = <<>>
           /\ \A k \in 0..n : w[k] \in Seq(Nat)
           /\ \A k \in 1..n : Len(w[k - 1]) < Len(w[k])
  BY UpToIs
<1>1. PICK w :
           /\ n = Len(l.parts) /\ DOMAIN l.parts = 1..n
           /\ UpTo(l) = w /\ w[0] = <<>>
           /\ \A k \in 0..n : w[k] \in Seq(Nat)
           /\ \A k \in 1..n : Len(w[k - 1]) < Len(w[k])
  BY <1>0
<1>2. PICK end : end = [k \in 0..n |-> Len(w[k])]
  OBVIOUS
<1>3. end \in [0..n -> Nat] /\ end[0] = 0 /\ \A k \in 1..n : end[k - 1] < end[k]
  <2>1. \A k \in 0..n : Len(w[k]) \in Nat
    BY <1>1
  <2>2. \A k \in 1..n : k \in 0..n /\ k - 1 \in 0..n
    OBVIOUS
  <2>3. Len(w[0]) = 0
    BY <1>1
  <2> QED BY <1>1, <1>2, <2>1, <2>2, <2>3
<1>4. PICK line : line = Laid(l)
  OBVIOUS
<1>5. line.bytes \in Seq(Nat) /\ Len(line.bytes) = end[n]
  BY <1>1, <1>2, <1>4 DEF Laid
<1>6. \A e : e \in Pieces(line) <=> \E k \in 1..n : e = <<end[k - 1] + 1, end[k]>>
  <2>1. \A k \in 1..n : Place(l, k) = <<end[k - 1] + 1, end[k]>>
    BY <1>1, <1>2 DEF Place
  <2>2. line.frames = {Place(l, k) : k \in {j \in 1..n : l.parts[j].frame}}
    BY <1>1, <1>4 DEF Laid
  <2>3. line.noise = {Place(l, k) : k \in {j \in 1..n : ~l.parts[j].frame}}
    BY <1>1, <1>4 DEF Laid
  <2> QED BY <2>1, <2>2, <2>3 DEF Pieces
<1>7. ASSUME NEW k \in 0..n PROVE \A j \in 0..k : end[j] <= end[k]
  <2>1. PICK T : T = {i \in 0..n : \A j \in 0..i : end[j] <= end[i]}
    OBVIOUS
  <2>2. 0 \in T
    BY <2>1, <1>3
  <2>3. ASSUME NEW i \in 1..n, i - 1 \in T PROVE i \in T
    <3>1. ASSUME NEW j \in 0..i PROVE end[j] <= end[i]
      <4>1. CASE j = i
        BY <4>1, <1>3
      <4>2. CASE j # i
        <5>1. j \in 0..(i - 1) /\ i - 1 \in 0..n
          BY <4>2
        <5>2. end[j] <= end[i - 1]
          BY <5>1, <2>1, <2>3
        <5>3. end[j] \in Nat /\ end[i - 1] \in Nat /\ end[i] \in Nat /\ end[i - 1] < end[i]
          BY <5>1, <1>3
        <5> QED BY <5>2, <5>3
      <4> QED BY <4>1, <4>2
    <3> QED BY <3>1, <2>1
  <2>4. \A i \in 0..n : i \in T
    BY <2>2, <2>3, Inducted
  <2> QED BY <2>1, <2>4
<1>8. ASSUME NEW k \in 1..n
      PROVE  /\ end[k - 1] + 1 \in Nat /\ end[k] \in Nat /\ end[k - 1] + 1 >= 1
             /\ end[k - 1] + 1 <= end[k] /\ end[k] <= end[n]
  <2>1. k - 1 \in 0..n /\ k \in 0..n /\ n \in 0..n
    OBVIOUS
  <2>2. end[k] <= end[n]
    BY <2>1, <1>7
  <2>3. end[k - 1] \in Nat /\ end[k] \in Nat /\ end[k - 1] < end[k]
    BY <2>1, <1>3
  <2> QED BY <2>2, <2>3
<1>9. ASSUME NEW j \in 1..n, NEW k \in 1..n, j < k PROVE end[j] < end[k - 1] + 1
  <2>1. j \in 0..(k - 1) /\ k - 1 \in 0..n /\ j \in 0..n
    BY <1>9
  <2>2. end[j] <= end[k - 1]
    BY <2>1, <1>7
  <2>3. end[j] \in Nat /\ end[k - 1] \in Nat
    BY <2>1, <1>3
  <2> QED BY <2>2, <2>3
<1>10. ASSUME NEW p \in 1..end[n] PROVE \E k \in 1..n : end[k - 1] + 1 <= p /\ p <= end[k]
  <2>1. PICK T : T = {i \in 0..n : p <= end[i]}
    OBVIOUS
  <2>2. T \subseteq Nat /\ n \in T
    BY <2>1
  <2>3. PICK k \in T : \A m \in T : k <= m
    BY <2>2, Least
  <2>4. k \in 1..n
    BY <2>1, <2>3, <1>3
  <2>5. k - 1 \notin T /\ k - 1 \in 0..n
    BY <2>3, <2>4
  <2>6. ~(p <= end[k - 1]) /\ end[k - 1] \in Nat
    BY <2>1, <2>5, <1>3
  <2> QED BY <2>1, <2>3, <2>4, <2>6
<1>11. \A e \in Pieces(line) :
         e \in Nat \X Nat /\ 1 <= e[1] /\ e[1] <= e[2] /\ e[2] <= Len(line.bytes)
  <2> TAKE e \in Pieces(line)
  <2>1. PICK k \in 1..n : e = <<end[k - 1] + 1, end[k]>>
    BY <1>6
  <2> QED BY <2>1, <1>5, <1>8
<1>12. ASSUME NEW e \in Pieces(line), NEW f \in Pieces(line) PROVE e = f \/ e[2] < f[1] \/ f[2] < e[1]
  <2>1. PICK j \in 1..n : e = <<end[j - 1] + 1, end[j]>>
    BY <1>6
  <2>2. PICK k \in 1..n : f = <<end[k - 1] + 1, end[k]>>
    BY <1>6
  <2>3. CASE j = k
    BY <2>1, <2>2, <2>3
  <2>4. CASE j < k
    BY <2>1, <2>2, <2>4, <1>9
  <2>5. CASE k < j
    BY <2>1, <2>2, <2>5, <1>9
  <2> QED BY <2>3, <2>4, <2>5
<1>13. ASSUME NEW p \in 1..Len(line.bytes) PROVE \E e \in Pieces(line) : e[1] <= p /\ p <= e[2]
  <2>1. PICK k \in 1..n : end[k - 1] + 1 <= p /\ p <= end[k]
    BY <1>5, <1>10
  <2>2. PICK e : e = <<end[k - 1] + 1, end[k]>>
    OBVIOUS
  <2>3. e \in Pieces(line) /\ e[1] <= p /\ p <= e[2]
    BY <2>1, <2>2, <1>6
  <2> QED BY <2>3
<1> QED BY <1>4, <1>5, <1>11, <1>12, <1>13 DEF Tiled
-----------------------------------------------------------------------------
(* The frames that follow position p: After(p), received or not.           *)
Ahead(line, p) ==
  {f \in line.frames :
     /\ p < f[1]
     /\ ~\E e \in line.noise : p < e[2] /\ e[2] < f[1]
     /\ ~\E e \in line.frames : e[1] <= p /\ p < e[2]}

(* A scan at position S, of the frames ahead of p, is where one starts or  *)
(* past all of them.                                                       *)
Track(line, p, S) ==
  \/ \E f \in Ahead(line, p) : f[1] = S + 1
  \/ \A f \in Ahead(line, p) : f[2] <= S

(* What After names is what lies ahead and was received.                   *)
LEMMA AfterAhead ==
  \A p : After(p) = {f \in Ahead(frLine, p) : f[2] <= frFed}
BY DEF After, Ahead

(* At the end of a frame ahead, or where all began, the next is tracked.   *)
LEMMA NextPiece ==
  ASSUME NEW line, Tiled(line), NEW p \in Nat, NEW S \in Nat,
         S = p \/ \E g \in Ahead(line, p) : g[2] = S
  PROVE  Track(line, p, S)
<1> SUFFICES ASSUME NEW f \in Ahead(line, p), ~(f[2] <= S)
             PROVE  \E e \in Ahead(line, p) : e[1] = S + 1
  BY DEF Track
<1>0. /\ \A e \in Pieces(line) :
            e[1] \in Nat /\ e[2] \in Nat /\ 1 <= e[1] /\ e[1] <= e[2] /\ e[2] <= Len(line.bytes)
      /\ \A e, x \in Pieces(line) : e = x \/ e[2] < x[1] \/ x[2] < e[1]
      /\ \A q \in 1..Len(line.bytes) : \E e \in Pieces(line) : e[1] <= q /\ q <= e[2]
      /\ Len(line.bytes) \in Nat
  BY DEF Tiled
<1>1. /\ f \in Pieces(line) /\ p < f[1]
      /\ \A e \in line.noise : ~(p < e[2] /\ e[2] < f[1])
      /\ \A e \in line.frames : ~(e[1] <= p /\ p < e[2])
  BY DEF Ahead, Pieces
<1>2. p <= S /\ S < f[1]
  <2>1. CASE S = p
    BY <2>1, <1>1
  <2>2. CASE \E g \in Ahead(line, p) : g[2] = S
    <3>1. PICK g \in Ahead(line, p) : g[2] = S
      BY <2>2
    <3>2. g \in Pieces(line) /\ p < g[1]
      BY DEF Ahead, Pieces
    <3>3. f = g \/ f[2] < g[1] \/ g[2] < f[1]
      BY <1>0, <1>1, <3>2
    <3> QED BY <1>0, <1>1, <3>1, <3>2, <3>3
  <2> QED BY <2>1, <2>2
<1>3. S + 1 \in 1..Len(line.bytes)
  BY <1>0, <1>1, <1>2
<1>4. PICK e \in Pieces(line) : e[1] <= S + 1 /\ S + 1 <= e[2]
  BY <1>0, <1>3
<1>5. e[1] \in Nat /\ e[2] \in Nat /\ f[1] \in Nat /\ f[2] \in Nat
  BY <1>0, <1>1
<1>6. e = f \/ e[2] < f[1] \/ f[2] < e[1]
  BY <1>0, <1>1
<1>7. e = f \/ e[2] < f[1]
  BY <1>4, <1>5, <1>6
<1>8. CASE e \in line.noise
  <2>1. ~(e[2] < f[1])
    BY <1>8, <1>1, <1>2, <1>4, <1>5
  <2>2. e = f
    BY <2>1, <1>7
  <2> QED BY <2>2, <1>2, <1>4, <1>5
<1>9. CASE e \in line.frames
  <2>1. e[1] = S + 1
    <3> SUFFICES ASSUME e[1] <= S PROVE FALSE
      BY <1>4, <1>5
    <3>1. CASE S = p
      BY <3>1, <1>1, <1>4, <1>5, <1>9
    <3>2. CASE \E g \in Ahead(line, p) : g[2] = S
      <4>1. PICK g \in Ahead(line, p) : g[2] = S
        BY <3>2
      <4>2. g \in Pieces(line)
        BY DEF Ahead, Pieces
      <4>3. e = g \/ e[2] < g[1] \/ g[2] < e[1]
        BY <1>0, <4>2
      <4>4. g[1] \in Nat /\ g[1] <= g[2]
        BY <1>0, <4>2
      <4> QED BY <4>1, <4>3, <4>4, <1>4, <1>5
    <3> QED BY <3>1, <3>2
  <2>2. \A x \in line.noise : ~(p < x[2] /\ x[2] < e[1])
    <3> TAKE x \in line.noise
    <3>1. x[2] \in Nat
      BY <1>0 DEF Pieces
    <3>2. e[1] <= f[1]
      BY <2>1, <1>2, <1>5
    <3> QED BY <3>1, <3>2, <1>1, <1>5
  <2>3. e \in Ahead(line, p)
    <3>1. p < e[1]
      BY <2>1, <1>2
    <3> QED BY <3>1, <2>2, <1>1, <1>9 DEF Ahead
  <2> QED BY <2>1, <2>3
<1> QED BY <1>8, <1>9 DEF Pieces

(* A scan goes past a frame it tracks, and past nothing else of interest.  *)
LEMMA TrackOn ==
  ASSUME NEW line, Tiled(line), NEW p \in Nat, NEW S \in Nat, NEW T \in Nat, S <= T,
         Track(line, p, S),
         \A f \in Ahead(line, p) : f[1] = S + 1 => T = S \/ T = f[2]
  PROVE  Track(line, p, T)
<1>0. \A f \in Ahead(line, p) : f[2] \in Nat
  BY DEF Ahead, Tiled, Pieces
<1>1. CASE \A f \in Ahead(line, p) : f[2] <= S
  BY <1>0, <1>1 DEF Track
<1>2. CASE \E f \in Ahead(line, p) : f[1] = S + 1
  BY <1>2, NextPiece
<1> QED BY <1>1, <1>2 DEF Track

(* Of the frames ahead, those not past the tracked one are past the scan.  *)
LEMMA Tracked ==
  ASSUME NEW line, Tiled(line), NEW p \in Nat, NEW S \in Nat, NEW g \in line.frames, g[1] = S + 1,
         NEW f \in line.frames
  PROVE  f = g \/ f[2] <= S \/ g[2] < f[1]
BY DEF Tiled, Pieces

(* Nothing received lies past a scan whose next frame is not whole.        *)
LEMMA Received ==
  ASSUME NEW line, Tiled(line), NEW p \in Nat, NEW S \in Nat, NEW m \in Nat, S <= m, Track(line, p, S),
         \A f \in Ahead(line, p) : f[1] = S + 1 => m < f[2],
         NEW f \in Ahead(line, p), f[2] <= m
  PROVE  f[2] <= S
<1>0. f \in line.frames /\ f[1] \in Nat /\ f[2] \in Nat /\ f[1] <= f[2]
  BY DEF Ahead, Tiled, Pieces
<1>1. CASE \A e \in Ahead(line, p) : e[2] <= S
  BY <1>1
<1>2. CASE \E g \in Ahead(line, p) : g[1] = S + 1
  <2>1. PICK g \in Ahead(line, p) : g[1] = S + 1
    BY <1>2
  <2>2. g \in line.frames /\ g[2] \in Nat /\ m < g[2]
    BY <2>1 DEF Ahead, Tiled, Pieces
  <2>3. f = g \/ f[2] <= S \/ g[2] < f[1]
    BY <2>1, <2>2, <1>0, Tracked
  <2> QED BY <2>2, <2>3, <1>0
<1> QED BY <1>1, <1>2 DEF Track
-----------------------------------------------------------------------------
(* What has been emitted before position S, in order.                      *)
InOrder(out, S) ==
  /\ out \in Seq(Nat \X Nat)
  /\ \A i \in 1..Len(out) : out[i][2] <= S
  /\ \A i, j \in 1..Len(out) : i < j => out[i][2] < out[j][1]
Emissions(out) == {out[i] : i \in 1..Len(out)}

(* A list of frames in order, entry by entry.                              *)
LEMMA Entries ==
  ASSUME NEW out, NEW S \in Nat, InOrder(out, S)
  PROVE  \E n \in Nat :
           /\ n = Len(out) /\ DOMAIN out = 1..n
           /\ \A i \in 1..n : out[i] \in Nat \X Nat /\ out[i][1] \in Nat /\ out[i][2] \in Nat /\ out[i][2] <= S
           /\ \A i, j \in 1..n : i < j => out[i][2] < out[j][1]
<1>1. PICK n \in Nat : n = Len(out)
  BY DEF InOrder
<1>2. \A i \in 1..n : out[i] \in Nat \X Nat
  BY <1>1 DEF InOrder
<1>3. DOMAIN out = 1..n
  BY <1>1 DEF InOrder
<1> QED BY <1>1, <1>2, <1>3 DEF InOrder

(* One more frame behind those there are keeps the order.                  *)
LEMMA Emits ==
  ASSUME NEW out, NEW S \in Nat, InOrder(out, S), NEW a \in Nat, NEW b \in Nat, NEW T \in Nat,
         b <= T, S <= T, \A e \in Emissions(out) : e[2] < a
  PROVE  /\ InOrder(Append(out, <<a, b>>), T)
         /\ Emissions(Append(out, <<a, b>>)) = Emissions(out) \cup {<<a, b>>}
<1>1. PICK x : x = Append(out, <<a, b>>)
  OBVIOUS
<1>2. PICK n \in Nat :
        /\ n = Len(out)
        /\ \A i \in 1..n : out[i] \in Nat \X Nat /\ out[i][1] \in Nat /\ out[i][2] \in Nat /\ out[i][2] <= S
        /\ \A i, j \in 1..n : i < j => out[i][2] < out[j][1]
  BY Entries
<1>3. x \in Seq(Nat \X Nat) /\ Len(x) = n + 1 /\ \A i \in 1..(n + 1) : x[i] = IF i = n + 1 THEN <<a, b>> ELSE out[i]
  BY <1>1, <1>2 DEF InOrder
<1>4. \A i \in 1..n : out[i][2] < a
  BY <1>2 DEF Emissions
<1>9. Len(x) = n + 1 /\ x[n + 1] = <<a, b>> /\ \A i \in 1..n : x[i] = out[i]
  BY <1>3
<1>5. \A i \in 1..(n + 1) : x[i][2] <= T
  <2> TAKE i \in 1..(n + 1)
  <2>1. CASE i = n + 1
    BY <2>1, <1>3
  <2>2. CASE i # n + 1
    <3>1. i \in 1..n /\ x[i] = out[i]
      BY <2>2, <1>3
    <3>2. out[i][2] \in Nat /\ out[i][2] <= S
      BY <3>1, <1>2
    <3> QED BY <3>1, <3>2
  <2> QED BY <2>1, <2>2
<1>6. \A i, j \in 1..(n + 1) : i < j => x[i][2] < x[j][1]
  <2> SUFFICES ASSUME NEW i \in 1..(n + 1), NEW j \in 1..(n + 1), i < j PROVE x[i][2] < x[j][1]
    OBVIOUS
  <2>1. i \in 1..n /\ x[i] = out[i]
    BY <1>3
  <2>2. CASE j = n + 1
    <3>1. x[j][1] = a
      BY <2>2, <1>3
    <3> QED BY <2>1, <3>1, <1>4
  <2>3. CASE j # n + 1
    <3>1. j \in 1..n
      BY <2>3
    <3>2. x[j] = out[j]
      BY <3>1, <1>9
    <3> QED BY <2>1, <3>1, <3>2, <1>2
  <2> QED BY <2>2, <2>3
<1>7. Emissions(x) = Emissions(out) \cup {<<a, b>>}
  <2>1. ASSUME NEW e \in Emissions(x) PROVE e \in Emissions(out) \cup {<<a, b>>}
    <3>1. PICK i \in 1..(n + 1) : e = x[i]
      BY <2>1, <1>9 DEF Emissions
    <3>2. CASE i = n + 1
      BY <3>1, <3>2, <1>9
    <3>3. CASE i # n + 1
      <4>1. i \in 1..n
        BY <3>3
      <4>2. e = out[i]
        BY <3>1, <4>1, <1>9
      <4> QED BY <4>1, <4>2, <1>2 DEF Emissions
    <3> QED BY <3>2, <3>3
  <2>2. ASSUME NEW i \in 1..n PROVE out[i] \in Emissions(x)
    <3>1. i \in 1..(n + 1) /\ x[i] = out[i]
      BY <1>3
    <3> QED BY <3>1, <1>3 DEF Emissions
  <2>3. <<a, b>> \in Emissions(x)
    <3>1. n + 1 \in 1..(n + 1) /\ x[n + 1] = <<a, b>>
      BY <1>3
    <3> QED BY <3>1, <1>3 DEF Emissions
  <2> QED BY <2>1, <2>2, <2>3, <1>2 DEF Emissions
<1>8. InOrder(x, T)
  BY <1>3, <1>5, <1>6 DEF InOrder
<1> QED BY <1>1, <1>7, <1>8

(* A list in order up to a position is so up to a later one.               *)
LEMMA Later ==
  ASSUME NEW out, NEW S \in Nat, NEW T \in Nat, S <= T, InOrder(out, S)
  PROVE  InOrder(out, T)
<1>1. PICK n \in Nat : n = Len(out) /\ \A i \in 1..n : out[i][2] \in Nat /\ out[i][2] <= S
  BY Entries
<1>2. \A i \in 1..n : out[i][2] <= T
  BY <1>1
<1> QED BY <1>1, <1>2 DEF InOrder

(* What was emitted ends before the scan.                                  *)
LEMMA Before ==
  ASSUME NEW out, NEW S \in Nat, InOrder(out, S), NEW e \in Emissions(out)
  PROVE  e[2] \in Nat /\ e[2] <= S
<1>1. PICK n \in Nat : n = Len(out) /\ \A i \in 1..n : out[i][2] \in Nat /\ out[i][2] <= S
  BY Entries
<1> QED BY <1>1 DEF Emissions
-----------------------------------------------------------------------------
(* ASCII: one character.                                                   *)

(* Colon, carriage return and line feed are no digits and differ.          *)
LEMMA Marks ==
  ASSUME NEW line
  PROVE  /\ ~IsHex(line, COLON) /\ ~IsHex(line, CR) /\ ~IsHex(line, LF)
         /\ COLON # CR /\ COLON # LF /\ CR # LF
BY DEF IsHex, Digit, COLON, CR, LF

(* What the frames of an ASCII line look like, and only they.              *)
LEMMA AsciiFrames ==
  ASSUME NEW line, Tiled(line), AsciiSent(line)
  PROVE  /\ \A f \in line.frames :
              /\ f = <<f[1], f[2]>> /\ f[1] \in Nat /\ f[2] \in Nat /\ 1 <= f[1] /\ f[2] <= Len(line.bytes)
              /\ AsciiFrame(line, f[1], f[2])
         /\ \A a, b \in 1..Len(line.bytes) : AsciiFrame(line, a, b) => <<a, b>> \in line.frames
<1>1. DOMAIN line.bytes = 1..Len(line.bytes) /\ Len(line.bytes) \in Nat
  BY DEF Tiled
<1>2. ASSUME NEW f \in line.frames
      PROVE  /\ f = <<f[1], f[2]>> /\ f[1] \in Nat /\ f[2] \in Nat /\ 1 <= f[1] /\ f[2] <= Len(line.bytes)
             /\ AsciiFrame(line, f[1], f[2])
  <2>1. /\ f \in Nat \X Nat /\ f = <<f[1], f[2]>> /\ f[1] \in Nat /\ f[2] \in Nat
        /\ 1 <= f[1] /\ f[1] <= f[2] /\ f[2] <= Len(line.bytes)
    BY DEF Tiled, Pieces
  <2>2. f[1] \in DOMAIN line.bytes /\ f[2] \in DOMAIN line.bytes
    BY <1>1, <2>1
  <2>3. <<f[1], f[2]>> \in line.frames
    BY <2>1
  <2>4. AsciiFrame(line, f[1], f[2])
    BY <2>2, <2>3 DEF AsciiSent
  <2> QED BY <2>1, <2>4
<1>3. ASSUME NEW a \in 1..Len(line.bytes), NEW b \in 1..Len(line.bytes), AsciiFrame(line, a, b)
      PROVE  <<a, b>> \in line.frames
  BY <1>1, <1>3 DEF AsciiSent
<1> QED BY <1>2, <1>3

(* The characters of a frame behind its colon.                             *)
LEMMA Inside ==
  ASSUME NEW line, Tiled(line), AsciiSent(line), NEW f \in line.frames, NEW q \in Nat, f[1] < q, q <= f[2]
  PROVE  /\ line.bytes[q] # COLON
         /\ q <= f[2] - 2 => IsHex(line, line.bytes[q]) /\ line.bytes[q] # CR /\ line.bytes[q] # LF
         /\ q = f[2] - 1 => line.bytes[q] = CR
         /\ q = f[2] => line.bytes[q] = LF
<1>1. f[1] \in Nat /\ f[2] \in Nat /\ AsciiFrame(line, f[1], f[2])
  BY AsciiFrames
<1>2. CASE q <= f[2] - 2
  <2>1. q \in (f[1] + 1)..(f[2] - 2)
    BY <1>1, <1>2
  <2>2. IsHex(line, line.bytes[q])
    BY <1>1, <2>1 DEF AsciiFrame
  <2>3. q # f[2] - 1 /\ q # f[2]
    BY <1>1, <1>2
  <2> QED BY <2>2, <2>3, Marks
<1>3. CASE q = f[2] - 1
  <2>1. line.bytes[f[2] - 1] = CR
    BY <1>1 DEF AsciiFrame
  <2>2. ~(q <= f[2] - 2) /\ q # f[2]
    BY <1>1, <1>3
  <2> QED BY <1>3, <2>1, <2>2, Marks
<1>4. CASE q = f[2]
  <2>1. line.bytes[f[2]] = LF
    BY <1>1 DEF AsciiFrame
  <2>2. ~(q <= f[2] - 2) /\ q # f[2] - 1
    BY <1>1, <1>4
  <2> QED BY <1>4, <2>1, <2>2, Marks
<1> QED BY <1>1, <1>2, <1>3, <1>4

(* A frame as far as position p: its colon at a and hex digits since.      *)
Body(line, a, p) ==
  /\ 1 <= a /\ a <= p /\ line.bytes[a] = COLON
  /\ \A q \in (a + 1)..p : IsHex(line, line.bytes[q])

(* The state after position p: it has read a frame as far, the only one    *)
(* that goes on, and emitted those that are over.                          *)
AsciiStatuses == {"idle", "reception", "waiting end"}
AsciiState(c, n, o) == [status |-> c, len |-> n, out |-> o]
ReadSoFar(line, p, c, n) ==
  /\ c = "reception" => Body(line, p - n, p)
  /\ c = "waiting end" => Body(line, p - 1 - n, p - 1) /\ line.bytes[p] = CR
GoesOn(line, p, c, n) ==
  \A f \in line.frames :
    f[1] <= p /\ p < f[2] =>
      /\ p = f[2] - 1 => c = "waiting end" /\ f[1] + n + 1 = p
      /\ p # f[2] - 1 => c = "reception" /\ f[1] + n = p
OverEmitted(line, p, o) ==
  InOrder(o, p) /\ Emissions(o) = {f \in line.frames : f[2] <= p}
AsciiAt(line, p, c, n, o) ==
  ReadSoFar(line, p, c, n) /\ GoesOn(line, p, c, n) /\ OverEmitted(line, p, o)

(* A record of three fields with two of them changed.                      *)
LEMMA TwoUpdated ==
  ASSUME NEW C, NEW N, NEW O, NEW s \in [status : C, len : N, out : O], NEW c, NEW n, NEW o, NEW t
  PROVE  /\ t = [s EXCEPT !.status = c, !.len = n] => t = [status |-> c, len |-> n, out |-> s.out]
         /\ t = [s EXCEPT !.status = c, !.out = o] => t = [status |-> c, len |-> s.len, out |-> o]
<1>1. ASSUME t = [s EXCEPT !.status = c, !.len = n] PROVE t = [status |-> c, len |-> n, out |-> s.out]
  BY <1>1
<1>2. ASSUME t = [s EXCEPT !.status = c, !.out = o] PROVE t = [status |-> c, len |-> s.len, out |-> o]
  BY <1>2
<1> QED BY <1>1, <1>2

(* A colon begins a frame whatever the state.                              *)
LEMMA StepColon ==
  ASSUME NEW c, NEW n \in Nat, NEW o, NEW q,
         frLine.bytes[q] = COLON
  PROVE  AsciiStep(AsciiState(c, n, o), q) = AsciiState("reception", 0, o)
<1>1. PICK s : s = AsciiState(c, n, o)
  OBVIOUS
<1>2. s = [status |-> c, len |-> n, out |-> o] /\ s.status = c /\ s.len = n /\ s.out = o
  BY <1>1 DEF AsciiState
<1>3. PICK t : t = AsciiStep(s, q)
  OBVIOUS
<1>4. t = [s EXCEPT !.status = "reception", !.len = 0]
  BY <1>2, <1>3 DEF AsciiStep
<1>5. s \in [status : {c}, len : {n}, out : {o}]
  BY <1>2
<1>6. t = [status |-> "reception", len |-> 0, out |-> s.out]
  BY <1>4, <1>5, TwoUpdated
<1> QED BY <1>1, <1>2, <1>3, <1>6 DEF AsciiState

(* Without a frame every other character is skipped.                       *)
LEMMA StepIdle ==
  ASSUME NEW n \in Nat, NEW o, NEW q,
         frLine.bytes[q] # COLON
  PROVE  AsciiStep(AsciiState("idle", n, o), q) = AsciiState("idle", n, o)
<1>1. PICK s : s = AsciiState("idle", n, o)
  OBVIOUS
<1>2. s.status = "idle"
  BY <1>1 DEF AsciiState
<1>3. AsciiStep(s, q) = s
  BY <1>2 DEF AsciiStep
<1> QED BY <1>1, <1>3

(* A carriage return ends the body.                                        *)
LEMMA StepEnding ==
  ASSUME NEW n \in Nat, NEW o, NEW q,
         frLine.bytes[q] # COLON, frLine.bytes[q] = CR
  PROVE  AsciiStep(AsciiState("reception", n, o), q) = AsciiState("waiting end", n, o)
<1>1. PICK s : s = AsciiState("reception", n, o)
  OBVIOUS
<1>2. s = [status |-> "reception", len |-> n, out |-> o] /\ s.status = "reception" /\ s.len = n /\ s.out = o
  BY <1>1 DEF AsciiState
<1>3. PICK t : t = AsciiStep(s, q)
  OBVIOUS
<1>4. t = [s EXCEPT !.status = "waiting end"]
  BY <1>2, <1>3 DEF AsciiStep
<1> QED BY <1>1, <1>2, <1>3, <1>4 DEF AsciiState

(* A character that is no digit, or one too many, breaks a frame off.      *)
LEMMA StepBroken ==
  ASSUME NEW n \in Nat, NEW o, NEW q,
         frLine.bytes[q] # COLON, frLine.bytes[q] # CR,
         n >= MaxAscii \/ ~IsHex(frLine, frLine.bytes[q])
  PROVE  AsciiStep(AsciiState("reception", n, o), q) = AsciiState("idle", 0, o)
<1>1. PICK s : s = AsciiState("reception", n, o)
  OBVIOUS
<1>2. s = [status |-> "reception", len |-> n, out |-> o] /\ s.status = "reception" /\ s.len = n /\ s.out = o
  BY <1>1 DEF AsciiState
<1>3. PICK t : t = AsciiStep(s, q)
  OBVIOUS
<1>4. t = [s EXCEPT !.status = "idle", !.len = 0]
  BY <1>2, <1>3 DEF AsciiStep
<1>5. s \in [status : {"reception"}, len : {n}, out : {o}]
  BY <1>2
<1>6. t = [status |-> "idle", len |-> 0, out |-> s.out]
  BY <1>4, <1>5, TwoUpdated
<1> QED BY <1>1, <1>2, <1>3, <1>6 DEF AsciiState

(* A digit is taken into the body.                                         *)
LEMMA StepDigit ==
  ASSUME NEW n \in Nat, NEW o, NEW q,
         frLine.bytes[q] # COLON, frLine.bytes[q] # CR,
         ~(n >= MaxAscii), IsHex(frLine, frLine.bytes[q])
  PROVE  AsciiStep(AsciiState("reception", n, o), q) = AsciiState("reception", n + 1, o)
<1>1. PICK s : s = AsciiState("reception", n, o)
  OBVIOUS
<1>2. s = [status |-> "reception", len |-> n, out |-> o] /\ s.status = "reception" /\ s.len = n /\ s.out = o
  BY <1>1 DEF AsciiState
<1>3. PICK t : t = AsciiStep(s, q)
  OBVIOUS
<1>4. t = [s EXCEPT !.len = n + 1]
  BY <1>2, <1>3 DEF AsciiStep
<1> QED BY <1>1, <1>2, <1>3, <1>4 DEF AsciiState

(* A line feed behind a body that is intact gives a frame.                 *)
LEMMA StepWhole ==
  ASSUME NEW n \in Nat, NEW o, NEW q,
         frLine.bytes[q] # COLON,
         /\ frLine.bytes[q] = LF /\ n >= 6 /\ n % 2 = 0
         /\ Intact(frLine, SubSeq(frLine.bytes, q - n - 1, q - 2))
  PROVE  AsciiStep(AsciiState("waiting end", n, o), q) = AsciiState("idle", n, Append(o, <<q - n - 2, q>>))
<1>1. PICK s : s = AsciiState("waiting end", n, o)
  OBVIOUS
<1>2. s = [status |-> "waiting end", len |-> n, out |-> o] /\ s.status = "waiting end" /\ s.len = n /\ s.out = o
  BY <1>1 DEF AsciiState
<1>3. PICK t : t = AsciiStep(s, q)
  OBVIOUS
<1>4. t = [s EXCEPT !.status = "idle", !.out = Append(o, <<q - n - 2, q>>)]
  BY <1>2, <1>3 DEF AsciiStep
<1>5. s \in [status : {"waiting end"}, len : {n}, out : {o}]
  BY <1>2
<1>6. t = [status |-> "idle", len |-> s.len, out |-> Append(o, <<q - n - 2, q>>)]
  BY <1>4, <1>5, TwoUpdated
<1> QED BY <1>1, <1>2, <1>3, <1>6 DEF AsciiState

(* Anything else behind a carriage return gives none.                      *)
LEMMA StepOver ==
  ASSUME NEW n \in Nat, NEW o, NEW q,
         frLine.bytes[q] # COLON,
         ~(/\ frLine.bytes[q] = LF /\ n >= 6 /\ n % 2 = 0
            /\ Intact(frLine, SubSeq(frLine.bytes, q - n - 1, q - 2)))
  PROVE  AsciiStep(AsciiState("waiting end", n, o), q) = AsciiState("idle", n, o)
<1>1. PICK s : s = AsciiState("waiting end", n, o)
  OBVIOUS
<1>2. s = [status |-> "waiting end", len |-> n, out |-> o] /\ s.status = "waiting end" /\ s.len = n /\ s.out = o
  BY <1>1 DEF AsciiState
<1>3. PICK t : t = AsciiStep(s, q)
  OBVIOUS
<1>4. t = [s EXCEPT !.status = "idle"]
  BY <1>2, <1>3 DEF AsciiStep
<1> QED BY <1>1, <1>2, <1>3, <1>4 DEF AsciiState

(* Where no frame ends, all that are over are still emitted.               *)
LEMMA AsciiOut ==
  ASSUME Tiled(frLine), AsciiSent(frLine), NEW p \in Nat, NEW q \in Nat, q = p + 1,
         NEW o, OverEmitted(frLine, p, o), \A f \in frLine.frames : f[2] # q
  PROVE  OverEmitted(frLine, q, o)
<1>1. InOrder(o, p) /\ Emissions(o) = {f \in frLine.frames : f[2] <= p}
  BY DEF OverEmitted
<1>2. InOrder(o, q)
  BY <1>1, Later
<1>3. \A f \in frLine.frames : f[2] <= p <=> f[2] <= q
  <2> TAKE f \in frLine.frames
  <2>1. f[2] \in Nat
    BY AsciiFrames
  <2> QED BY <2>1
<1> QED BY <1>1, <1>2, <1>3 DEF OverEmitted

(* A frame that is over is a whole one, and the next after those before.   *)
LEMMA AsciiFound ==
  ASSUME Tiled(frLine), AsciiSent(frLine), NEW p \in Nat, NEW q \in Nat, p < q, NEW o, OverEmitted(frLine, p, o),
         NEW a \in Nat, <<a, q>> \in frLine.frames,
         \A f \in frLine.frames : p < f[2] /\ f[2] <= q => f = <<a, q>>
  PROVE  OverEmitted(frLine, q, Append(o, <<a, q>>))
<1>1. InOrder(o, p) /\ Emissions(o) = {f \in frLine.frames : f[2] <= p}
  BY DEF OverEmitted
<1>2. \A f \in frLine.frames : f[1] \in Nat /\ f[2] \in Nat /\ f[1] <= f[2]
  BY DEF Tiled, Pieces
<1>3. \A e \in Emissions(o) : e[2] < a
  <2> SUFFICES ASSUME NEW e \in frLine.frames, e[2] <= p PROVE e[2] < a
    BY <1>1
  <2>1. PICK g \in Pieces(frLine) : g = <<a, q>> /\ g[1] = a /\ g[2] = q
    BY DEF Pieces
  <2>2. e = g \/ e[2] < a \/ q < e[1]
    <3>1. e \in Pieces(frLine)
      BY DEF Pieces
    <3> QED BY <2>1, <3>1 DEF Tiled
  <2> QED BY <2>1, <2>2, <1>2
<1>4. /\ InOrder(Append(o, <<a, q>>), q)
      /\ Emissions(Append(o, <<a, q>>)) = Emissions(o) \cup {<<a, q>>}
  <2>1. q <= q /\ p <= q
    OBVIOUS
  <2> QED BY <2>1, <1>1, <1>3, Emits
<1>5. ASSUME NEW f \in frLine.frames PROVE f[2] <= q <=> f[2] <= p \/ f = <<a, q>>
  <2>1. CASE f = <<a, q>>
    BY <2>1
  <2>2. CASE f # <<a, q>>
    <3>1. ~(p < f[2] /\ f[2] <= q)
      BY <2>2
    <3> QED BY <3>1, <2>2, <1>2
  <2> QED BY <2>1, <2>2
<1> QED BY <1>1, <1>4, <1>5 DEF OverEmitted

(* One more character.                                                     *)
LEMMA AsciiOne ==
  ASSUME Tiled(frLine), AsciiSent(frLine), NEW p \in Nat, p + 1 <= Len(frLine.bytes),
         NEW c \in AsciiStatuses, NEW n \in Nat, n <= MaxAscii, NEW o, AsciiAt(frLine, p, c, n, o)
  PROVE  \E d, m, x :
           /\ d \in AsciiStatuses /\ m \in Nat
           /\ m <= MaxAscii /\ AsciiAt(frLine, p + 1, d, m, x)
           /\ AsciiStep(AsciiState(c, n, o), p + 1) = AsciiState(d, m, x)
<1>0. MaxAscii \in Nat
  BY FramingAssumption
<1>1. PICK q \in Nat : p + 1 = q
  OBVIOUS
<1>2. PICK v : v = frLine.bytes[q]
  OBVIOUS
<1> DEFINE Next(d, m, x) ==
      /\ d \in AsciiStatuses /\ m \in Nat /\ m <= MaxAscii
      /\ AsciiStep(AsciiState(c, n, o), q) = AsciiState(d, m, x)
      /\ ReadSoFar(frLine, q, d, m) /\ GoesOn(frLine, q, d, m) /\ OverEmitted(frLine, q, x)
<1> SUFFICES \E d, m, x : Next(d, m, x)
  BY <1>1 DEF AsciiAt
<1>3. ReadSoFar(frLine, p, c, n) /\ GoesOn(frLine, p, c, n) /\ OverEmitted(frLine, p, o)
  BY DEF AsciiAt
<1>4. \A f \in frLine.frames :
        f[1] \in Nat /\ f[2] \in Nat /\ f[2] - f[1] >= 8 /\ f[2] - f[1] <= MaxAscii + 2
  BY AsciiFrames DEF AsciiFrame
<1>5. \A f \in frLine.frames : frLine.bytes[f[1]] = COLON
  BY AsciiFrames DEF AsciiFrame
<1>6. \A f \in frLine.frames :
        f[1] <= p /\ q <= f[2] =>
          /\ v # COLON
          /\ q <= f[2] - 2 => IsHex(frLine, v) /\ v # CR /\ v # LF
          /\ q = f[2] - 1 => v = CR
          /\ q = f[2] => v = LF
  <2> SUFFICES ASSUME NEW f \in frLine.frames, f[1] <= p, q <= f[2]
               PROVE  /\ v # COLON
                      /\ q <= f[2] - 2 => IsHex(frLine, v) /\ v # CR /\ v # LF
                      /\ q = f[2] - 1 => v = CR
                      /\ q = f[2] => v = LF
    OBVIOUS
  <2>1. f[1] < q
    BY <1>1, <1>4
  <2> QED BY <2>1, <1>2, Inside
<1>7. CASE v = COLON
  <2>0. frLine.bytes[q] = COLON
    BY <1>2, <1>7
  <2>1. AsciiStep(AsciiState(c, n, o), q) = AsciiState("reception", 0, o)
    BY <2>0, StepColon
  <2>2. Body(frLine, q - 0, q)
    <3>1. q - 0 = q /\ 1 <= q
      BY <1>1
    <3>2. \A i \in (q + 1)..q : IsHex(frLine, frLine.bytes[i])
      OBVIOUS
    <3>3. Body(frLine, q, q)
      BY <3>1, <3>2, <1>2, <1>7 DEF Body
    <3> QED BY <3>1, <3>3
  <2>3. ReadSoFar(frLine, q, "reception", 0)
    BY <2>2 DEF ReadSoFar
  <2>4. ASSUME NEW f \in frLine.frames, f[1] <= q, q <= f[2]
        PROVE  f[1] = q
    <3>1. ~(f[1] <= p)
      BY <2>4, <1>6, <1>7
    <3> QED BY <3>1, <2>4, <1>1, <1>4
  <2>5. GoesOn(frLine, q, "reception", 0)
    <3> SUFFICES ASSUME NEW f \in frLine.frames, f[1] <= q, q < f[2]
                 PROVE  q # f[2] - 1 /\ f[1] + 0 = q
      BY DEF GoesOn
    <3>1. f[1] = q
      BY <2>4, <1>4
    <3> QED BY <3>1, <1>4
  <2>6. \A f \in frLine.frames : f[2] # q
    <3> SUFFICES ASSUME NEW f \in frLine.frames, f[2] = q PROVE FALSE
      OBVIOUS
    <3>1. f[1] = q
      BY <2>4, <1>4
    <3> QED BY <3>1, <1>4
  <2>7. OverEmitted(frLine, q, o)
    BY <2>6, <1>1, <1>3, AsciiOut
  <2>8. Next("reception", 0, o)
    <3>1. "reception" \in AsciiStatuses
      BY DEF AsciiStatuses
    <3>2. 0 \in Nat /\ 0 <= MaxAscii
      BY <1>0
    <3> QED BY <3>1, <3>2, <2>1, <2>3, <2>5, <2>7
  <2> QED BY <2>8
<1>8. ASSUME v # COLON, NEW f \in frLine.frames, f[1] <= q, q <= f[2]
      PROVE  /\ f[1] <= p
             /\ q = f[2] => c = "waiting end" /\ f[1] + n + 2 = q
             /\ q # f[2] => c = "reception" /\ f[1] + n = p
  <2>1. f[1] # q
    BY <1>2, <1>5, <1>8
  <2>2. f[1] <= p /\ p < f[2]
    BY <2>1, <1>1, <1>4, <1>8
  <2>3. /\ p = f[2] - 1 => c = "waiting end" /\ f[1] + n + 1 = p
        /\ p # f[2] - 1 => c = "reception" /\ f[1] + n = p
    BY <2>2, <1>3 DEF GoesOn
  <2>4. f[1] \in Nat /\ f[2] \in Nat
    BY <1>4
  <2>5. CASE q = f[2]
    <3>1. p = f[2] - 1
      BY <2>5, <1>1
    <3>2. c = "waiting end"
      BY <3>1, <2>3
    <3>4. f[1] + n + 1 = p
      BY <3>1, <2>3
    <3>3. f[1] + n + 2 = q
      BY <2>4, <3>4, <1>1
    <3> QED BY <2>2, <2>5, <3>2, <3>3
  <2>6. CASE q # f[2]
    <3>1. p # f[2] - 1
      BY <2>4, <2>6, <1>1
    <3> QED BY <3>1, <2>2, <2>3, <2>6
  <2> QED BY <2>5, <2>6
<1>9. CASE v # COLON /\ c = "idle"
  <2>1. AsciiStep(AsciiState(c, n, o), q) = AsciiState(c, n, o)
    <3>1. frLine.bytes[q] # COLON
      BY <1>2, <1>9
    <3> QED BY <3>1, <1>9, StepIdle
  <2>2. \A f \in frLine.frames : ~(f[1] <= q /\ q <= f[2])
    BY <1>8, <1>9
  <2>3. \A f \in frLine.frames : f[2] # q
    BY <2>2, <1>4
  <2>4. OverEmitted(frLine, q, o)
    BY <2>3, <1>1, <1>3, AsciiOut
  <2>5. GoesOn(frLine, q, c, n)
    <3> SUFFICES ASSUME NEW f \in frLine.frames, f[1] <= q, q < f[2] PROVE FALSE
      BY DEF GoesOn
    <3>1. q <= f[2]
      BY <1>4
    <3> QED BY <3>1, <2>2
  <2>6. ReadSoFar(frLine, q, c, n)
    BY <1>9 DEF ReadSoFar
  <2>7. Next(c, n, o)
    BY <2>1, <2>4, <2>5, <2>6
  <2> QED BY <2>7
<1>10. CASE v # COLON /\ c = "reception"
  <2>1. AsciiStep(AsciiState(c, n, o), q) =
          IF v = CR THEN AsciiState("waiting end", n, o)
          ELSE IF n >= MaxAscii \/ ~IsHex(frLine, v) THEN AsciiState("idle", 0, o)
          ELSE AsciiState("reception", n + 1, o)
    <3>1. frLine.bytes[q] # COLON
      BY <1>2, <1>10
    <3>2. CASE v = CR
      <4>1. frLine.bytes[q] = CR
        BY <3>2, <1>2
      <4> QED BY <3>1, <3>2, <4>1, <1>10, StepEnding
    <3>3. CASE v # CR /\ (n >= MaxAscii \/ ~IsHex(frLine, v))
      <4>1. frLine.bytes[q] # CR /\ (n >= MaxAscii \/ ~IsHex(frLine, frLine.bytes[q]))
        BY <3>3, <1>2
      <4> QED BY <3>1, <3>3, <4>1, <1>10, StepBroken
    <3>4. CASE v # CR /\ ~(n >= MaxAscii \/ ~IsHex(frLine, v))
      <4>1. frLine.bytes[q] # CR /\ ~(n >= MaxAscii) /\ IsHex(frLine, frLine.bytes[q])
        BY <3>4, <1>2
      <4> QED BY <3>1, <3>4, <4>1, <1>10, StepDigit
    <3> QED BY <3>2, <3>3, <3>4
  <2>2. ASSUME NEW f \in frLine.frames, f[1] <= q, q <= f[2]
        PROVE  f[1] <= p /\ q # f[2] /\ f[1] + n = p
    BY <2>2, <1>8, <1>10
  <2>3. \A f \in frLine.frames : f[2] # q
    BY <2>2, <1>4
  <2>4. OverEmitted(frLine, q, o)
    BY <2>3, <1>1, <1>3, AsciiOut
  <2>5. Body(frLine, p - n, p)
    BY <1>3, <1>10 DEF ReadSoFar
  <2>6. CASE v = CR
    <3>1. q - 1 - n = p - n /\ q - 1 = p
      BY <1>1
    <3>2. ReadSoFar(frLine, q, "waiting end", n)
      BY <3>1, <2>5, <2>6, <1>2 DEF ReadSoFar
    <3>3. GoesOn(frLine, q, "waiting end", n)
      <4> SUFFICES ASSUME NEW f \in frLine.frames, f[1] <= q, q < f[2]
                   PROVE  q = f[2] - 1 /\ f[1] + n + 1 = q
        BY DEF GoesOn
      <4>0. q <= f[2]
        BY <1>4
      <4>1. f[1] <= p /\ f[1] + n = p
        BY <4>0, <2>2
      <4>2. ~(q <= f[2] - 2)
        BY <4>0, <4>1, <2>6, <1>6
      <4> QED BY <4>1, <4>2, <1>1, <1>4
    <3>4. Next("waiting end", n, o)
      BY <2>1, <2>4, <2>6, <3>2, <3>3 DEF AsciiStatuses
    <3> QED BY <3>4
  <2>7. CASE v # CR /\ (n >= MaxAscii \/ ~IsHex(frLine, v))
    <3>1. ReadSoFar(frLine, q, "idle", 0)
      BY DEF ReadSoFar
    <3>2. GoesOn(frLine, q, "idle", 0)
      <4> SUFFICES ASSUME NEW f \in frLine.frames, f[1] <= q, q < f[2] PROVE FALSE
        BY DEF GoesOn
      <4>0. q <= f[2]
        BY <1>4
      <4>1. f[1] <= p /\ f[1] + n = p
        BY <4>0, <2>2
      <4>2. q # f[2] - 1
        BY <4>0, <4>1, <2>7, <1>6
      <4>3. q <= f[2] - 2
        BY <4>2, <1>4
      <4>4. IsHex(frLine, v)
        BY <4>0, <4>1, <4>3, <1>6
      <4>5. n < MaxAscii
        BY <4>1, <4>3, <1>0, <1>1, <1>4
      <4> QED BY <4>4, <4>5, <2>7, <1>0
    <3>3. AsciiStep(AsciiState(c, n, o), q) = AsciiState("idle", 0, o)
      BY <2>1, <2>7
    <3>4. Next("idle", 0, o)
      <4>1. "idle" \in AsciiStatuses
        BY DEF AsciiStatuses
      <4>2. 0 \in Nat /\ 0 <= MaxAscii
        BY <1>0
      <4> QED BY <4>1, <4>2, <2>4, <3>1, <3>2, <3>3
    <3> QED BY <3>4
  <2>8. CASE v # CR /\ ~(n >= MaxAscii) /\ IsHex(frLine, v)
    <3>1. q - (n + 1) = p - n
      BY <1>1
    <3>2. Body(frLine, p - n, q)
      <4>1. \A i \in (p - n + 1)..q : i \in (p - n + 1)..p \/ i = q
        BY <1>1
      <4>2. p - n <= q
        BY <1>1
      <4> QED BY <4>1, <4>2, <2>5, <2>8, <1>2 DEF Body
    <3>3. ReadSoFar(frLine, q, "reception", n + 1)
      BY <3>1, <3>2 DEF ReadSoFar
    <3>4. GoesOn(frLine, q, "reception", n + 1)
      <4> SUFFICES ASSUME NEW f \in frLine.frames, f[1] <= q, q < f[2]
                   PROVE  q # f[2] - 1 /\ f[1] + (n + 1) = q
        BY DEF GoesOn
      <4>0. q <= f[2]
        BY <1>4
      <4>1. f[1] <= p /\ f[1] + n = p
        BY <4>0, <2>2
      <4>2. q # f[2] - 1
        BY <4>0, <4>1, <2>8, <1>6
      <4>3. f[1] \in Nat
        BY <1>4
      <4>4. f[1] + (n + 1) = q
        BY <4>1, <4>3, <1>1
      <4> QED BY <4>2, <4>4
    <3>5. n + 1 \in Nat /\ n + 1 <= MaxAscii
      BY <2>8, <1>0
    <3>6. AsciiStep(AsciiState(c, n, o), q) = AsciiState("reception", n + 1, o)
      BY <2>1, <2>8
    <3>7. Next("reception", n + 1, o)
      BY <2>4, <3>3, <3>4, <3>5, <3>6 DEF AsciiStatuses
    <3> QED BY <3>7
  <2> QED BY <2>6, <2>7, <2>8
<1>11. CASE v # COLON /\ c = "waiting end"
  <2> DEFINE whole == /\ v = LF /\ n >= 6 /\ n % 2 = 0
                      /\ Intact(frLine, SubSeq(frLine.bytes, q - n - 1, q - 2))
  <2>1. AsciiStep(AsciiState(c, n, o), q) =
          IF whole THEN AsciiState("idle", n, Append(o, <<q - n - 2, q>>)) ELSE AsciiState("idle", n, o)
    <3>1. frLine.bytes[q] # COLON
      BY <1>2, <1>11
    <3>2. CASE whole
      BY <3>1, <3>2, <1>2, <1>11, StepWhole
    <3>3. CASE ~whole
      BY <3>1, <3>3, <1>2, <1>11, StepOver
    <3> QED BY <3>2, <3>3
  <2>2. \A f \in frLine.frames : f[1] <= q /\ q <= f[2] => q = f[2] /\ f[1] + n + 2 = q
    BY <1>8, <1>11
  <2>3. Body(frLine, p - 1 - n, p - 1) /\ frLine.bytes[p] = CR
    BY <1>3, <1>11 DEF ReadSoFar
  <2>4. PICK a \in Nat : q - n - 2 = a /\ p - 1 - n = a /\ 1 <= a /\ a <= p - 1
    <3>1. 1 <= p - 1 - n /\ p - 1 - n <= p - 1
      BY <2>3 DEF Body
    <3> QED BY <3>1, <1>1
  <2>5. ReadSoFar(frLine, q, "idle", n)
    BY DEF ReadSoFar
  <2>6. GoesOn(frLine, q, "idle", n)
    <3> SUFFICES ASSUME NEW f \in frLine.frames, f[1] <= q, q < f[2] PROVE FALSE
      BY DEF GoesOn
    <3>1. q <= f[2] /\ q # f[2]
      BY <1>4
    <3> QED BY <3>1, <2>2
  <2>7. whole <=> AsciiFrame(frLine, a, q)
    <3>1. q - a = n + 2 /\ a + 1 = q - n - 1 /\ q - 1 = p /\ q - 2 = p - 1
      BY <2>4, <1>1
    <3>2. q - a >= 8 <=> n >= 6
      BY <3>1
    <3>3. q - a <= MaxAscii + 2
      BY <3>1, <1>0
    <3>4. (q - a) % 2 = 0 <=> n % 2 = 0
      BY <3>1
    <3>5. /\ frLine.bytes[a] = COLON /\ frLine.bytes[q - 1] = CR
          /\ \A i \in (a + 1)..(q - 2) : IsHex(frLine, frLine.bytes[i])
      BY <2>3, <2>4, <3>1 DEF Body
    <3>6. SubSeq(frLine.bytes, a + 1, q - 2) = SubSeq(frLine.bytes, q - n - 1, q - 2)
      BY <3>1
    <3> QED BY <3>2, <3>3, <3>4, <3>5, <3>6, <1>2 DEF AsciiFrame
  <2>8. a \in 1..Len(frLine.bytes) /\ q \in 1..Len(frLine.bytes)
    <3>1. Len(frLine.bytes) \in Nat
      BY DEF Tiled
    <3> QED BY <3>1, <2>4, <1>1
  <2>9. ASSUME NEW f \in frLine.frames, f[2] = q PROVE f = <<a, q>>
    <3>1. f[1] <= q /\ q <= f[2]
      BY <2>9, <1>4
    <3>2. f[1] + n + 2 = q
      BY <3>1, <2>2
    <3>3. f[1] \in Nat
      BY <1>4
    <3>5. f[1] = a
      BY <3>2, <3>3, <2>4
    <3>4. f = <<f[1], f[2]>>
      BY AsciiFrames
    <3> QED BY <2>9, <3>4, <3>5
  <2>10. CASE whole
    <3>1. <<a, q>> \in frLine.frames
      BY <2>7, <2>8, <2>10, AsciiFrames
    <3>2. \A f \in frLine.frames : p < f[2] /\ f[2] <= q => f = <<a, q>>
      BY <2>9, <1>1, <1>4
    <3>3. OverEmitted(frLine, q, Append(o, <<a, q>>))
      BY <3>1, <3>2, <1>1, <1>3, AsciiFound
    <3>4. AsciiStep(AsciiState(c, n, o), q) = AsciiState("idle", n, Append(o, <<a, q>>))
      BY <2>1, <2>4, <2>10
    <3>5. Next("idle", n, Append(o, <<a, q>>))
      BY <2>5, <2>6, <3>3, <3>4 DEF AsciiStatuses
    <3> QED BY <3>5
  <2>11. CASE ~whole
    <3>1. ASSUME NEW f \in frLine.frames PROVE f[2] # q
      <4> SUFFICES ASSUME f[2] = q PROVE FALSE
        OBVIOUS
      <4>1. f = <<a, q>>
        BY <2>9
      <4>2. AsciiFrame(frLine, f[1], f[2])
        BY AsciiFrames
      <4>3. AsciiFrame(frLine, a, q)
        BY <4>1, <4>2
      <4> QED BY <4>3, <2>7, <2>11
    <3>2. OverEmitted(frLine, q, o)
      BY <3>1, <1>1, <1>3, AsciiOut
    <3>3. AsciiStep(AsciiState(c, n, o), q) = AsciiState("idle", n, o)
      BY <2>1, <2>11
    <3>4. Next("idle", n, o)
      BY <2>5, <2>6, <3>2, <3>3 DEF AsciiStatuses
    <3> QED BY <3>4
  <2> QED BY <2>10, <2>11
<1> QED BY <1>7, <1>9, <1>10, <1>11 DEF AsciiStatuses
-----------------------------------------------------------------------------
(* ASCII: a chunk.                                                         *)

AsciiStates == [status : AsciiStatuses, len : Nat, out : Seq(Nat \X Nat)]
AsciiReached(p) ==
  {s \in AsciiStates :
     \E c, n, o : c \in AsciiStatuses /\ n \in Nat /\ s = AsciiState(c, n, o) /\ n <= MaxAscii /\ AsciiAt(frLine, p, c, n, o)}

(* What is kept between characters is one of the states reached.           *)
LEMMA AsciiReaches ==
  ASSUME NEW p, NEW c \in AsciiStatuses, NEW n \in Nat, NEW o, n <= MaxAscii, AsciiAt(frLine, p, c, n, o)
  PROVE  AsciiState(c, n, o) \in AsciiReached(p)
<1>1. o \in Seq(Nat \X Nat)
  BY DEF AsciiAt, OverEmitted, InOrder
<1>2. AsciiState(c, n, o) \in AsciiStates
  BY <1>1 DEF AsciiState, AsciiStates
<1> QED BY <1>2 DEF AsciiReached

AsciiEquation(g, n) ==
  g = [i \in 0..n |-> IF i = 0 THEN [status |-> frStatus, len |-> frKeep, out |-> frOut]
                      ELSE AsciiStep(g[i - 1], frFed + i)]

(* A chunk read character by character.                                    *)
LEMMA AsciiScanned ==
  ASSUME Tiled(frLine), AsciiSent(frLine), frFed \in Nat, NEW n \in Nat, frFed + n <= Len(frLine.bytes),
         frStatus \in AsciiStatuses, frKeep \in Nat, frKeep <= MaxAscii,
         AsciiAt(frLine, frFed, frStatus, frKeep, frOut)
  PROVE  AsciiScan(n) \in AsciiReached(frFed + n)
<1>1. PICK a : a = AsciiState(frStatus, frKeep, frOut)
  OBVIOUS
<1>2. a \in AsciiReached(frFed + 0)
  <2>1. frFed + 0 = frFed
    OBVIOUS
  <2>2. a \in AsciiReached(frFed)
    BY <1>1, AsciiReaches
  <2> QED BY <2>1, <2>2
<1>3. ASSUME NEW k \in 1..n, NEW s \in AsciiReached(frFed + (k - 1))
      PROVE  AsciiStep(s, frFed + k) \in AsciiReached(frFed + k)
  <2>1. PICK p \in Nat : p = frFed + (k - 1) /\ p + 1 = frFed + k /\ p + 1 <= Len(frLine.bytes)
    <3>1. Len(frLine.bytes) \in Nat
      BY DEF Tiled
    <3> QED BY <3>1
  <2>2. PICK c, m, o :
          c \in AsciiStatuses /\ m \in Nat /\ s = AsciiState(c, m, o) /\ m <= MaxAscii /\ AsciiAt(frLine, p, c, m, o)
    BY <1>3, <2>1 DEF AsciiReached
  <2>3. PICK d, i, x :
          /\ d \in AsciiStatuses /\ i \in Nat
          /\ i <= MaxAscii /\ AsciiAt(frLine, p + 1, d, i, x)
          /\ AsciiStep(AsciiState(c, m, o), p + 1) = AsciiState(d, i, x)
    BY <2>1, <2>2, AsciiOne
  <2>4. AsciiState(d, i, x) \in AsciiReached(p + 1)
    BY <2>3, AsciiReaches
  <2>5. AsciiStep(s, p + 1) \in AsciiReached(p + 1)
    BY <2>2, <2>3, <2>4
  <2> QED BY <2>1, <2>5
<1>4. PICK S : S = [k \in 0..n |-> AsciiReached(frFed + k)]
  OBVIOUS
<1>5. PICK F : F = [k \in 1..n |-> [s \in S[k - 1] |-> AsciiStep(s, frFed + k)]]
  OBVIOUS
<1>6. ASSUME NEW k \in 1..n
      PROVE  /\ k \in 0..n /\ k - 1 \in 0..n
             /\ S[k] = AsciiReached(frFed + k) /\ S[k - 1] = AsciiReached(frFed + (k - 1))
             /\ F[k] = [s \in S[k - 1] |-> AsciiStep(s, frFed + k)]
  <2>1. k \in 0..n /\ k - 1 \in 0..n
    OBVIOUS
  <2> QED BY <2>1, <1>4, <1>5
<1>7. \A k \in 1..n : F[k] \in [S[k - 1] -> S[k]]
  <2> TAKE k \in 1..n
  <2>1. \A s \in S[k - 1] : AsciiStep(s, frFed + k) \in S[k]
    BY <1>3, <1>6
  <2>2. F[k] = [s \in S[k - 1] |-> AsciiStep(s, frFed + k)]
    BY <1>6
  <2> QED BY <2>1, <2>2
<1>8. a \in S[0]
  BY <1>2, <1>4
<1>9. PICK g : Rounds(S, F, a, n, g)
  BY <1>7, <1>8, RoundsExist
<1>10. AsciiEquation(g, n)
  <2>1. \A k \in 0..n : g[k] = IF k = 0 THEN [status |-> frStatus, len |-> frKeep, out |-> frOut]
                               ELSE AsciiStep(g[k - 1], frFed + k)
    <3> TAKE k \in 0..n
    <3>1. CASE k = 0
      BY <3>1, <1>1, <1>9 DEF Rounds, AsciiState
    <3>2. CASE k # 0
      <4>1. k \in 1..n
        BY <3>2
      <4>2. g[k] = F[k][g[k - 1]] /\ g[k - 1] \in S[k - 1]
        BY <4>1, <1>6, <1>9 DEF Rounds
      <4>3. g[k] = AsciiStep(g[k - 1], frFed + k)
        BY <4>1, <4>2, <1>6
      <4> QED BY <3>2, <4>3
    <3> QED BY <3>1, <3>2
  <2>2. g = [k \in 0..n |-> g[k]]
    BY <1>9 DEF Rounds
  <2> QED BY <2>1, <2>2, Zenon DEF AsciiEquation
<1>11. PICK w : w = CHOOSE f : AsciiEquation(f, n)
  OBVIOUS
<1>12. AsciiScan(n) = w[n]
  BY <1>11 DEF AsciiScan, AsciiEquation
<1>13. AsciiEquation(w, n)
  BY <1>10, <1>11
<1>14. /\ w[0] = a
       /\ \A k \in 1..n : w[k] = AsciiStep(w[k - 1], frFed + k)
  BY <1>1, <1>13 DEF AsciiEquation, AsciiState
<1>15. PICK T : T = {k \in 0..n : w[k] \in AsciiReached(frFed + k)}
  OBVIOUS
<1>16. 0 \in T
  BY <1>2, <1>14, <1>15
<1>17. ASSUME NEW k \in 1..n, k - 1 \in T PROVE k \in T
  <2>1. w[k - 1] \in AsciiReached(frFed + (k - 1))
    BY <1>15, <1>17
  <2>2. w[k] \in AsciiReached(frFed + k)
    BY <2>1, <1>3, <1>14
  <2> QED BY <2>2, <1>15
<1>18. \A k \in 0..n : k \in T
  BY <1>16, <1>17, Inducted
<1> QED BY <1>12, <1>15, <1>18

(* The bytes of a part of a line.                                          *)
LEMMA Slice ==
  ASSUME NEW bytes \in Seq(Nat), NEW p \in Nat, NEW n \in Nat, p + n <= Len(bytes), NEW s,
         s = SubSeq(bytes, p + 1, p + n)
  PROVE  \A i \in 1..n : s[i] = bytes[p + i]
<1>1. \A i \in 1..n : p + 1 + i - 1 = p + i
  OBVIOUS
<1> QED BY <1>1

(* One less than an odd number is even.                                    *)
LEMMA Odd ==
  ASSUME NEW n \in Nat, n % 2 = 1
  PROVE  (n - 1) % 2 = 0
<1>1. PICK h \in Int : h = n \div 2 /\ n = 2 * h + 1
  OBVIOUS
<1>2. n - 1 = 2 * h
  BY <1>1
<1> QED BY <1>2

(* A chunk that is one frame.                                              *)
LEMMA AsciiFastRead ==
  ASSUME Tiled(frLine), AsciiSent(frLine), frFed \in Nat, NEW n \in Nat, frFed + n <= Len(frLine.bytes),
         frStatus \in AsciiStatuses, frKeep \in Nat,
         AsciiAt(frLine, frFed, frStatus, frKeep, frOut), AsciiFast(n),
         NEW o, o = IF Intact(frLine, SubSeq(frLine.bytes, frFed + 2, frFed + n - 2))
                    THEN Append(frOut, <<frFed + 1, frFed + n>>) ELSE frOut
  PROVE  AsciiAt(frLine, frFed + n, frStatus, frKeep, o)
<1>0. MaxAscii \in Nat
  BY FramingAssumption
<1>1. PICK p \in Nat, a \in Nat, q \in Nat : frFed = p /\ p + 1 = a /\ p + n = q
  OBVIOUS
<1>2. frStatus = "idle" /\ n >= 9 /\ n <= MaxAscii + 3 /\ n % 2 = 1
  BY DEF AsciiFast
<1>3. /\ frLine.bytes[a] = COLON /\ frLine.bytes[q - 1] = CR /\ frLine.bytes[q] = LF
      /\ \A i \in (a + 1)..(q - 2) : IsHex(frLine, frLine.bytes[i])
  <2>1. PICK s : s = SubSeq(frLine.bytes, p + 1, p + n)
    OBVIOUS
  <2>2. \A i \in 1..n : s[i] = frLine.bytes[p + i]
    <3>1. frLine.bytes \in Seq(Nat) /\ Len(frLine.bytes) \in Nat
      BY DEF Tiled
    <3>2. p + n <= Len(frLine.bytes)
      BY <1>1
    <3> QED BY <2>1, <3>1, <3>2, Slice
  <2>3. /\ s[1] = COLON /\ s[n - 1] = CR /\ s[n] = LF
        /\ \A i \in 2..(n - 2) : IsHex(frLine, s[i])
    BY <1>1, <2>1 DEF AsciiFast
  <2>4. ASSUME NEW i \in (a + 1)..(q - 2) PROVE IsHex(frLine, frLine.bytes[i])
    <3>1. PICK j \in 2..(n - 2) : p + j = i
      <4>1. i - p \in 2..(n - 2) /\ p + (i - p) = i
        BY <1>1
      <4> QED BY <4>1
    <3>3. j \in 1..n
      OBVIOUS
    <3>4. s[j] = frLine.bytes[p + j]
      BY <3>3, <2>2
    <3>2. s[j] = frLine.bytes[i]
      BY <3>1, <3>4
    <3> QED BY <3>1, <3>2, <2>3
  <2>5. 1 \in 1..n /\ n - 1 \in 1..n /\ n \in 1..n /\ p + 1 = a /\ p + (n - 1) = q - 1 /\ p + n = q
    BY <1>1, <1>2
  <2>6. s[1] = frLine.bytes[a] /\ s[n - 1] = frLine.bytes[q - 1] /\ s[n] = frLine.bytes[q]
    BY <2>2, <2>5
  <2> QED BY <2>3, <2>4, <2>6
<1>4. ReadSoFar(frLine, p, "idle", frKeep) /\ GoesOn(frLine, p, "idle", frKeep) /\ OverEmitted(frLine, p, frOut)
  BY <1>1, <1>2 DEF AsciiAt
<1>5. \A f \in frLine.frames :
        /\ f[1] \in Nat /\ f[2] \in Nat /\ 1 <= f[1] /\ f[2] - f[1] >= 8 /\ f[2] <= Len(frLine.bytes)
        /\ f = <<f[1], f[2]>>
  BY AsciiFrames DEF AsciiFrame
<1>6. ASSUME NEW f \in frLine.frames, f[1] <= q, p < f[2] PROVE f = <<a, q>>
  <2>1. f[1] \in Nat /\ f[2] \in Nat /\ f[2] - f[1] >= 8
    BY <1>5
  <2>9. f = <<f[1], f[2]>>
    BY <1>5
  <2>2. ~(f[1] <= p)
    BY <2>1, <1>4, <1>6 DEF GoesOn
  <2>3. frLine.bytes[f[1]] = COLON
    BY AsciiFrames DEF AsciiFrame
  <2>4. \A i \in (a + 1)..q : frLine.bytes[i] # COLON
    <3> TAKE i \in (a + 1)..q
    <3>1. i \in (a + 1)..(q - 2) \/ i = q - 1 \/ i = q
      BY <1>1
    <3> QED BY <3>1, <1>3, Marks
  <2>5. f[1] = a
    <3>1. ~(f[1] \in (a + 1)..q)
      BY <2>3, <2>4
    <3> QED BY <3>1, <2>1, <2>2, <1>1, <1>6
  <2>10. f[2] \in Nat /\ a + 8 <= f[2]
    BY <2>1, <2>5
  <2>6. ~(f[2] < q)
    <3> SUFFICES ASSUME f[2] < q PROVE FALSE
      OBVIOUS
    <3>0. AsciiFrame(frLine, f[1], f[2])
      BY AsciiFrames
    <3>1. frLine.bytes[f[2]] = LF
      BY <3>0 DEF AsciiFrame
    <3>2. f[2] \in (a + 1)..(q - 2) \/ f[2] = q - 1
      <4>1. PICK b \in Nat : b = f[2] /\ a + 8 <= b /\ b < q
        BY <2>10
      <4>2. b \in (a + 1)..(q - 2) \/ b = q - 1
        <5>1. a + 1 <= b /\ b + 1 <= q
          BY <4>1
        <5>2. b + 1 = q \/ b + 2 <= q
          BY <5>1
        <5>3. a + 1 \in Int /\ q - 2 \in Int
          OBVIOUS
        <5> QED BY <5>1, <5>2, <5>3
      <4> QED BY <4>1, <4>2
    <3> QED BY <3>1, <3>2, <1>3, Marks
  <2>7. ~(q < f[2])
    <3> SUFFICES ASSUME q < f[2] PROVE FALSE
      OBVIOUS
    <3>3. a + 8 <= q
      BY <1>1, <1>2
    <3>4. q - 1 \in Nat /\ a < q - 1 /\ q - 1 <= f[2] /\ q - 1 <= f[2] - 2
      BY <2>10, <3>3
    <3>1. q - 1 \in Nat /\ f[1] < q - 1 /\ q - 1 <= f[2] /\ q - 1 <= f[2] - 2
      BY <2>5, <3>4
    <3>2. frLine.bytes[q - 1] # CR
      BY <3>1, Inside
    <3> QED BY <3>2, <1>3
  <2>8. f[2] = q
    BY <2>1, <2>6, <2>7
  <2> QED BY <2>5, <2>8, <2>9
<1>7. GoesOn(frLine, q, "idle", frKeep)
  <2> SUFFICES ASSUME NEW f \in frLine.frames, f[1] <= q, q < f[2] PROVE FALSE
    BY DEF GoesOn
  <2>1. p < f[2]
    BY <1>1, <1>5
  <2>2. f = <<a, q>>
    BY <2>1, <1>6
  <2> QED BY <2>2
<1>8. ReadSoFar(frLine, q, "idle", frKeep)
  BY DEF ReadSoFar
<1>9. a \in 1..Len(frLine.bytes) /\ q \in 1..Len(frLine.bytes)
  <2>1. Len(frLine.bytes) \in Nat
    BY DEF Tiled
  <2> QED BY <2>1, <1>1, <1>2
<1>10. Intact(frLine, SubSeq(frLine.bytes, p + 2, p + n - 2)) <=> AsciiFrame(frLine, a, q)
  <2>0. p + 1 = a /\ p + n = q
    BY <1>1
  <2>1. q - a = n - 1 /\ a + 1 = p + 2 /\ q - 2 = p + n - 2
    BY <2>0
  <2>2. q - a >= 8 /\ q - a <= MaxAscii + 2 /\ (q - a) % 2 = 0
    <3>1. n >= 9 /\ n <= MaxAscii + 3 /\ n % 2 = 1
      BY <1>2
    <3>2. (n - 1) % 2 = 0
      BY <3>1, Odd
    <3> QED BY <2>1, <3>1, <3>2, <1>0
  <2>3. SubSeq(frLine.bytes, a + 1, q - 2) = SubSeq(frLine.bytes, p + 2, p + n - 2)
    BY <2>1
  <2> QED BY <2>2, <2>3, <1>3 DEF AsciiFrame
<1>11. p < q
  BY <1>1, <1>2
<1>12. OverEmitted(frLine, q, o)
  <2>1. CASE AsciiFrame(frLine, a, q)
    <3>1. <<a, q>> \in frLine.frames
      BY <2>1, <1>9, AsciiFrames
    <3>2. o = Append(frOut, <<a, q>>)
      BY <2>1, <1>1, <1>10
    <3>3. ASSUME NEW f \in frLine.frames, p < f[2], f[2] <= q PROVE f = <<a, q>>
      <4>1. f[1] <= q
        BY <3>3, <1>5
      <4> QED BY <3>3, <4>1, <1>6
    <3>4. OverEmitted(frLine, q, Append(frOut, <<a, q>>))
      BY <3>1, <3>3, <1>4, <1>11, AsciiFound
    <3> QED BY <3>2, <3>4
  <2>2. CASE ~AsciiFrame(frLine, a, q)
    <3>1. o = frOut
      BY <2>2, <1>1, <1>10
    <3>2. ASSUME NEW f \in frLine.frames PROVE f[2] <= p <=> f[2] <= q
      <4>1. ASSUME f[2] <= q, p < f[2] PROVE FALSE
        <5>3. f[1] <= q
          BY <4>1, <1>5
        <5>1. f = <<a, q>>
          BY <4>1, <5>3, <1>6
        <5>2. AsciiFrame(frLine, f[1], f[2])
          BY AsciiFrames
        <5> QED BY <5>1, <5>2, <2>2
      <4> QED BY <4>1, <1>5, <1>11
    <3>3. InOrder(frOut, q)
      BY <1>4, <1>11, Later DEF OverEmitted
    <3> QED BY <3>1, <3>2, <3>3, <1>4 DEF OverEmitted
  <2> QED BY <2>1, <2>2
<1> QED BY <1>1, <1>2, <1>7, <1>8, <1>12 DEF AsciiAt
-----------------------------------------------------------------------------
(* TCP.                                                                    *)

(* A frame has its two ends within the line.                               *)
LEMMA FrameEnds ==
  ASSUME NEW line, Tiled(line)
  PROVE  /\ \A f \in line.frames : f[1] \in Nat /\ f[2] \in Nat /\ 1 <= f[1] /\ f[1] <= f[2] /\ f[2] <= Len(line.bytes)
         /\ \A f \in line.frames : f = <<f[1], f[2]>>
BY DEF Tiled, Pieces

(* A scan goes past the frame it tracks ...                                *)
LEMMA Advanced ==
  ASSUME NEW line, Tiled(line), NEW p \in Nat, NEW S \in Nat, NEW T \in Nat, S < T, Track(line, p, S),
         \A f \in Ahead(line, p) : f[1] = S + 1 => f[2] = T
  PROVE  /\ Track(line, p, T)
         /\ \A f \in Ahead(line, p) : f[2] <= T => f[2] <= S \/ f = <<S + 1, T>>
<1>1. \A f \in Ahead(line, p) : f \in line.frames /\ f[1] \in Nat /\ f[2] \in Nat /\ f[1] <= f[2]
  BY FrameEnds DEF Ahead
<1>2. Track(line, p, T)
  BY TrackOn
<1>3. ASSUME NEW f \in Ahead(line, p), f[2] <= T, ~(f[2] <= S) PROVE f = <<S + 1, T>>
  <2>1. PICK g \in Ahead(line, p) : g[1] = S + 1
    BY <1>3 DEF Track
  <2>2. g[2] = T
    BY <2>1
  <2>3. f = g \/ f[2] <= S \/ g[2] < f[1]
    BY <2>1, <1>1, Tracked
  <2>4. f = g
    BY <2>2, <2>3, <1>1, <1>3
  <2>5. g = <<g[1], g[2]>>
    BY <1>1, FrameEnds
  <2> QED BY <2>1, <2>2, <2>4, <2>5
<1> QED BY <1>2, <1>3

(* ... and drops what it does not track.                                   *)
LEMMA Settled ==
  ASSUME NEW line, Tiled(line), NEW p \in Nat, NEW S \in Nat, NEW T \in Nat, NEW m \in Nat, S <= T, T <= m,
         Track(line, p, S), \A f \in Ahead(line, p) : f[1] = S + 1 => m < f[2] /\ T = S
  PROVE  /\ Track(line, p, T)
         /\ \A f \in Ahead(line, p) : f[1] = T + 1 => m < f[2] /\ T = S
         /\ \A f \in Ahead(line, p) : f[2] <= T => f[2] <= S
<1>1. \A f \in Ahead(line, p) : f \in line.frames /\ f[1] \in Nat /\ f[2] \in Nat /\ f[1] <= f[2]
  BY FrameEnds DEF Ahead
<1>2. Track(line, p, T)
  BY TrackOn
<1>3. ASSUME NEW f \in Ahead(line, p), f[1] = T + 1 PROVE m < f[2] /\ T = S
  <2>1. ~(f[2] <= S)
    BY <1>1, <1>3
  <2>2. PICK g \in Ahead(line, p) : g[1] = S + 1
    BY <2>1 DEF Track
  <2>3. T = S
    BY <2>2
  <2> QED BY <2>3, <1>3
<1>4. ASSUME NEW f \in Ahead(line, p), f[2] <= T PROVE f[2] <= S
  <2>1. f[2] <= m /\ S <= m
    BY <1>1, <1>4
  <2>2. \A e \in Ahead(line, p) : e[1] = S + 1 => m < e[2]
    OBVIOUS
  <2> QED BY <2>1, <2>2, Received
<1> QED BY <1>2, <1>3, <1>4

(* On a line without noise a frame begins at every end of one.             *)
LEMMA NoNoise ==
  ASSUME NEW line, Tiled(line), line.noise = {}, NEW S \in Nat, S < Len(line.bytes), Track(line, 0, S)
  PROVE  \E f \in Ahead(line, 0) : f[1] = S + 1
<1>1. \A f \in line.frames : f[1] \in Nat /\ f[2] \in Nat /\ 1 <= f[1] /\ f[1] <= f[2]
  BY FrameEnds
<1>2. line.frames \subseteq Ahead(line, 0)
  <2> SUFFICES ASSUME NEW f \in line.frames PROVE f \in Ahead(line, 0)
    OBVIOUS
  <2>1. 0 < f[1] /\ \A e \in line.frames : ~(e[1] <= 0)
    BY <1>1
  <2> QED BY <2>1 DEF Ahead
<1>3. Len(line.bytes) \in Nat
  BY DEF Tiled
<1>4. S + 1 \in 1..Len(line.bytes)
  BY <1>3
<1>5. PICK e \in line.frames : e[1] <= S + 1 /\ S + 1 <= e[2]
  BY <1>4 DEF Tiled, Pieces
<1>6. ~(e[2] <= S)
  BY <1>1, <1>5
<1> QED BY <1>2, <1>6 DEF Track

-----------------------------------------------------------------------------
(* TCP at position S, in step since p.                                     *)
TcpAt(line, p, S, out) ==
  /\ Track(line, p, S) /\ InOrder(out, S)
  /\ \A f \in Ahead(line, p) : f[2] <= S => f \in Emissions(out)
  /\ line.noise = {} => p = 0 /\ Emissions(out) \subseteq line.frames

(* The length in a header is a number.                                     *)
LEMMA TcpHeader ==
  ASSUME NEW line, Tiled(line), NEW at \in Nat, at + 6 <= Len(line.bytes)
  PROVE  TcpLength(line, at) \in Nat
<1>1. \A i \in 1..Len(line.bytes) : line.bytes[i] \in Nat
  <2>1. line.bytes \in Seq(Nat)
    BY DEF Tiled
  <2> QED BY <2>1
<1>2. Len(line.bytes) \in Nat
  BY DEF Tiled
<1>3. at + 1 + 4 \in 1..Len(line.bytes) /\ at + 1 + 5 \in 1..Len(line.bytes)
  BY <1>2
<1>4. Byte(line, at, 4) \in Nat /\ Byte(line, at, 5) \in Nat
  BY <1>1, <1>3 DEF Byte
<1> QED BY <1>4 DEF TcpLength

(* What a tracked frame says of itself.                                    *)
LEMMA TcpTracked ==
  ASSUME NEW line, Tiled(line), TcpSent(line), NEW p \in Nat, NEW S \in Nat, NEW f \in Ahead(line, p), f[1] = S + 1
  PROVE  /\ ~BadHeader(line, S) /\ f[2] \in Nat /\ f[2] <= Len(line.bytes)
         /\ TcpLength(line, S) \in Nat /\ TcpLength(line, S) >= 8 /\ TcpLength(line, S) <= MaxTcp
         /\ f[2] = S + TcpLength(line, S)
<1>0. MaxTcp \in Nat
  BY FramingAssumption
<1>1. f \in line.frames /\ f[1] \in Nat /\ f[2] \in Nat /\ f[1] <= f[2] /\ f[2] <= Len(line.bytes)
  BY FrameEnds DEF Ahead
<1>2. f[1] - 1 = S
  BY <1>1
<1>3. ~BadHeader(line, S) /\ TcpLength(line, S) = f[2] - f[1] + 1
  BY <1>1, <1>2 DEF TcpSent
<1>4. TcpLength(line, S) \in Int
  BY <1>1, <1>3
<1>5. ~(TcpLength(line, S) > MaxTcp) /\ ~(TcpLength(line, S) < 8)
  BY <1>3 DEF BadHeader
<1>6. f[2] = S + TcpLength(line, S)
  BY <1>1, <1>3
<1> QED BY <1>0, <1>1, <1>3, <1>4, <1>5, <1>6

TcpState(i, out) == [index |-> i, out |-> out]
(* No frame is to be taken at i.                                           *)
TcpStops(i, total) ==
  \/ total - i < 6 \/ BadHeader(frLine, Kept + i) \/ total - i < TcpLength(frLine, Kept + i)

(* A round of TCP stays where it is or takes one frame.                    *)
LEMMA TcpStepIs ==
  ASSUME NEW i, NEW out, NEW total
  PROVE  /\ TcpStops(i, total) => TcpStep(TcpState(i, out), total) = TcpState(i, out)
         /\ ~TcpStops(i, total) =>
              TcpStep(TcpState(i, out), total)
                = TcpState(i + TcpLength(frLine, Kept + i), Append(out, Interval(i, TcpLength(frLine, Kept + i))))
BY DEF TcpStep, TcpStops, TcpState

(* One round that finds a frame keeps what is known of the scan.           *)
LEMMA TcpOne ==
  ASSUME Tiled(frLine), TcpSent(frLine), NEW p \in Nat, NEW base \in Nat, Kept = base,
         NEW total \in Nat, base + total <= Len(frLine.bytes),
         NEW i \in 0..total, NEW out, TcpAt(frLine, p, base + i, out), ~TcpStops(i, total)
  PROVE  \E j, x :
           /\ j \in 0..total
           /\ TcpStep(TcpState(i, out), total) = TcpState(j, x)
           /\ TcpAt(frLine, p, base + j, x) /\ i < j
<1>0. MaxTcp \in Nat
  BY FramingAssumption
<1>1. PICK S \in Nat : S = base + i
  OBVIOUS
<1>2. Len(frLine.bytes) \in Nat
  BY DEF Tiled
<1>3. ~(total - i < 6) /\ ~BadHeader(frLine, S) /\ ~(total - i < TcpLength(frLine, S))
  BY <1>1 DEF TcpStops
<1>4. S + 6 <= Len(frLine.bytes)
  BY <1>1, <1>2, <1>3
<1>5. PICK n \in Nat : n = TcpLength(frLine, S)
  BY <1>4, TcpHeader
<1>6. n >= 8
  <2>1. ~(TcpLength(frLine, S) < 8)
    BY <1>3 DEF BadHeader
  <2> QED BY <2>1, <1>5
<1>7. PICK T \in Nat : T = S + n /\ S < T
  BY <1>6
<1>8. PICK j \in 0..total : j = i + n /\ i < j /\ base + j = T
  <2>1. i + n \in 0..total
    BY <1>3, <1>5
  <2> QED BY <2>1, <1>1, <1>6, <1>7
<1>9. PICK x : x = Append(out, <<S + 1, T>>)
  OBVIOUS
<1>10. TcpStep(TcpState(i, out), total) = TcpState(j, x)
  <2>1. Interval(i, n) = <<S + 1, T>>
    <3>1. base + 1 + i = S + 1 /\ base + i + n = T
      BY <1>1, <1>7
    <3> QED BY <3>1 DEF Interval
  <2>2. TcpStep(TcpState(i, out), total)
          = TcpState(i + TcpLength(frLine, Kept + i), Append(out, Interval(i, TcpLength(frLine, Kept + i))))
    BY TcpStepIs
  <2>3. TcpLength(frLine, Kept + i) = n
    BY <1>1, <1>5
  <2>4. i + n = j
    BY <1>8
  <2> QED BY <2>1, <2>2, <2>3, <2>4, <1>9
<1>11. /\ Track(frLine, p, S) /\ InOrder(out, S)
       /\ \A f \in Ahead(frLine, p) : f[2] <= S => f \in Emissions(out)
       /\ frLine.noise = {} => p = 0 /\ Emissions(out) \subseteq frLine.frames
  BY <1>1 DEF TcpAt
<1>12. \A f \in Ahead(frLine, p) : f[1] = S + 1 => f[2] = T
  BY <1>5, <1>7, TcpTracked
<1>13. /\ Track(frLine, p, T)
       /\ \A f \in Ahead(frLine, p) : f[2] <= T => f[2] <= S \/ f = <<S + 1, T>>
  BY <1>7, <1>11, <1>12, Advanced
<1>14. \A e \in Emissions(out) : e[2] < S + 1
  BY <1>11, Before
<1>15. InOrder(x, T) /\ Emissions(x) = Emissions(out) \cup {<<S + 1, T>>}
  <2>1. S + 1 \in Nat /\ T <= T /\ S <= T
    BY <1>7
  <2> QED BY <2>1, <1>9, <1>11, <1>14, Emits
<1>16. \A f \in Ahead(frLine, p) : f[2] <= T => f \in Emissions(x)
  BY <1>11, <1>13, <1>15
<1>17. ASSUME frLine.noise = {} PROVE p = 0 /\ Emissions(x) \subseteq frLine.frames
  <2>1. S < Len(frLine.bytes)
    BY <1>2, <1>4
  <2>2. Track(frLine, 0, S) /\ p = 0
    BY <1>11, <1>17
  <2>3. PICK g \in Ahead(frLine, p) : g[1] = S + 1
    BY <2>1, <2>2, <1>17, NoNoise
  <2>4. g \in frLine.frames /\ g[2] = T
    BY <2>3, <1>12 DEF Ahead
  <2>5. g = <<g[1], g[2]>>
    BY <2>4, FrameEnds
  <2>6. <<S + 1, T>> \in frLine.frames
    BY <2>3, <2>4, <2>5
  <2> QED BY <2>2, <2>6, <1>11, <1>15, <1>17
<1>18. TcpAt(frLine, p, T, x)
  BY <1>13, <1>15, <1>16, <1>17 DEF TcpAt
<1> QED BY <1>8, <1>10, <1>18

(* The loop runs until it stops.                                           *)
TcpStates(total) == [index : 0..total, out : Seq(Nat \X Nat)]
TcpReached(p, base, total, k) ==
  {s \in TcpStates(total) :
     \E i, out :
       /\ i \in 0..total
       /\ s = TcpState(i, out) /\ TcpAt(frLine, p, base + i, out)
       /\ TcpStops(i, total) \/ k <= i}

(* What is kept between rounds is one of the states reached.               *)
LEMMA TcpReaches ==
  ASSUME NEW p, NEW base, NEW total, NEW k, NEW i \in 0..total, NEW out, TcpAt(frLine, p, base + i, out),
         TcpStops(i, total) \/ k <= i
  PROVE  TcpState(i, out) \in TcpReached(p, base, total, k)
<1>1. out \in Seq(Nat \X Nat)
  BY DEF TcpAt, InOrder
<1>2. TcpState(i, out) \in TcpStates(total)
  BY <1>1 DEF TcpState, TcpStates
<1> QED BY <1>2 DEF TcpReached

TcpEquation(g, total) ==
  g = [k \in 0..total |-> IF k = 0 THEN [index |-> 0, out |-> frOut] ELSE TcpStep(g[k - 1], total)]

(* The whole loop of TCP: it ends where the next frame is not whole.       *)
LEMMA TcpScanned ==
  ASSUME Tiled(frLine), TcpSent(frLine), NEW p \in Nat, NEW base \in Nat, Kept = base,
         NEW total \in Nat, base + total <= Len(frLine.bytes), TcpAt(frLine, p, base, frOut)
  PROVE  \E i \in 0..total : \E out :
           TcpScan(total) = TcpState(i, out) /\ TcpAt(frLine, p, base + i, out) /\ TcpStops(i, total)
<1>1. PICK a : a = TcpState(0, frOut)
  OBVIOUS
<1>2. a \in TcpReached(p, base, total, 0)
  <2>1. base + 0 = base /\ 0 \in 0..total /\ 0 <= 0
    OBVIOUS
  <2> QED BY <2>1, <1>1, TcpReaches
<1>3. ASSUME NEW k \in 1..total, NEW s \in TcpReached(p, base, total, k - 1)
      PROVE  TcpStep(s, total) \in TcpReached(p, base, total, k)
  <2>1. PICK i, out :
          /\ i \in 0..total
          /\ s = TcpState(i, out) /\ TcpAt(frLine, p, base + i, out)
          /\ TcpStops(i, total) \/ k - 1 <= i
    BY <1>3 DEF TcpReached
  <2>2. CASE TcpStops(i, total)
    <3>1. TcpStep(s, total) = TcpState(i, out)
      BY <2>1, <2>2, TcpStepIs
    <3>2. TcpState(i, out) \in TcpReached(p, base, total, k)
      BY <2>1, <2>2, TcpReaches
    <3> QED BY <3>1, <3>2
  <2>3. CASE ~TcpStops(i, total)
    <3>1. PICK j, x :
            /\ j \in 0..total
            /\ TcpStep(TcpState(i, out), total) = TcpState(j, x)
            /\ TcpAt(frLine, p, base + j, x) /\ i < j
      BY <2>1, <2>3, TcpOne
    <3>2. k <= j
      BY <2>1, <2>3, <3>1
    <3>3. TcpState(j, x) \in TcpReached(p, base, total, k)
      BY <3>1, <3>2, TcpReaches
    <3> QED BY <2>1, <3>1, <3>3
  <2> QED BY <2>2, <2>3
<1>4. PICK S : S = [k \in 0..total |-> TcpReached(p, base, total, k)]
  OBVIOUS
<1>5. PICK F : F = [k \in 1..total |-> [s \in S[k - 1] |-> TcpStep(s, total)]]
  OBVIOUS
<1>6. ASSUME NEW k \in 1..total
      PROVE  /\ k \in 0..total /\ k - 1 \in 0..total
             /\ S[k] = TcpReached(p, base, total, k) /\ S[k - 1] = TcpReached(p, base, total, k - 1)
             /\ F[k] = [s \in S[k - 1] |-> TcpStep(s, total)]
  <2>1. k \in 0..total /\ k - 1 \in 0..total
    OBVIOUS
  <2> QED BY <2>1, <1>4, <1>5
<1>7. \A k \in 1..total : F[k] \in [S[k - 1] -> S[k]]
  <2> TAKE k \in 1..total
  <2>1. \A s \in S[k - 1] : TcpStep(s, total) \in S[k]
    BY <1>3, <1>6
  <2>2. F[k] = [s \in S[k - 1] |-> TcpStep(s, total)]
    BY <1>6
  <2> QED BY <2>1, <2>2
<1>8. a \in S[0]
  BY <1>2, <1>4
<1>9. PICK g : Rounds(S, F, a, total, g)
  BY <1>7, <1>8, RoundsExist
<1>10. TcpEquation(g, total)
  <2>1. \A k \in 0..total : g[k] = IF k = 0 THEN [index |-> 0, out |-> frOut] ELSE TcpStep(g[k - 1], total)
    <3> TAKE k \in 0..total
    <3>1. CASE k = 0
      BY <3>1, <1>1, <1>9 DEF Rounds, TcpState
    <3>2. CASE k # 0
      <4>1. k \in 1..total
        BY <3>2
      <4>2. g[k] = F[k][g[k - 1]] /\ g[k - 1] \in S[k - 1]
        BY <4>1, <1>6, <1>9 DEF Rounds
      <4>3. g[k] = TcpStep(g[k - 1], total)
        BY <4>1, <4>2, <1>6
      <4> QED BY <3>2, <4>3
    <3> QED BY <3>1, <3>2
  <2>2. g = [k \in 0..total |-> g[k]]
    BY <1>9 DEF Rounds
  <2> QED BY <2>1, <2>2, Zenon DEF TcpEquation
<1>11. PICK w : w = CHOOSE f : TcpEquation(f, total)
  OBVIOUS
<1>12. TcpScan(total) = w[total]
  BY <1>11 DEF TcpScan, TcpEquation
<1>13. TcpEquation(w, total)
  BY <1>10, <1>11
<1>14. /\ w[0] = a
       /\ \A k \in 1..total : w[k] = TcpStep(w[k - 1], total)
  BY <1>1, <1>13 DEF TcpEquation, TcpState
<1>15. PICK T : T = {k \in 0..total : w[k] \in TcpReached(p, base, total, k)}
  OBVIOUS
<1>16. 0 \in T
  BY <1>2, <1>14, <1>15
<1>17. ASSUME NEW k \in 1..total, k - 1 \in T PROVE k \in T
  <2>1. w[k - 1] \in TcpReached(p, base, total, k - 1)
    BY <1>15, <1>17
  <2>2. w[k] \in TcpReached(p, base, total, k)
    BY <2>1, <1>3, <1>14
  <2> QED BY <2>2, <1>15
<1>18. \A k \in 0..total : k \in T
  BY <1>16, <1>17, Inducted
<1>19. TcpScan(total) \in TcpReached(p, base, total, total)
  BY <1>12, <1>15, <1>18
<1>20. PICK i, out :
         /\ i \in 0..total
         /\ TcpScan(total) = TcpState(i, out) /\ TcpAt(frLine, p, base + i, out)
         /\ TcpStops(i, total) \/ total <= i
  BY <1>19 DEF TcpReached
<1>21. TcpStops(i, total)
  BY <1>20 DEF TcpStops
<1> QED BY <1>20, <1>21

(* TCP in step with its line since the last bad header.                    *)
TcpInv ==
  /\ frFed \in Nat /\ frKeep \in Nat /\ frKeep <= frFed /\ frFed <= Len(frLine.bytes) /\ frSync \in Nat
  /\ TcpAt(frLine, frSync, Kept, frOut)
  /\ \A f \in Ahead(frLine, frSync) : f[1] = Kept + 1 => frFed < f[2]

(* A chunk.                                                                *)
LEMMA TcpKept ==
  ASSUME Tiled(frLine), TcpSent(frLine), TcpInv, NEW n \in Nat, frFed + n <= Len(frLine.bytes),
         frLine' = frLine, frFed' = frFed + n, decodeTcp(n)
  PROVE  TcpInv'
<1>0. MaxTcp \in Nat /\ Len(frLine.bytes) \in Nat
  BY FramingAssumption DEF Tiled
<1>1. PICK base \in Nat, total \in Nat, m \in Nat :
        /\ Kept = base /\ frKeep + n = total /\ base + total = m /\ frFed + n = m /\ m <= Len(frLine.bytes)
  <2>1. frFed \in Nat /\ frKeep \in Nat /\ frKeep <= frFed
    BY DEF TcpInv
  <2>2. Kept = frFed - frKeep
    BY DEF Kept
  <2>3. frFed - frKeep \in Nat /\ frKeep + n \in Nat /\ frFed + n \in Nat /\ (frFed - frKeep) + (frKeep + n) = frFed + n
    BY <2>1
  <2> QED BY <2>2, <2>3
<1>2. PICK p \in Nat : frSync = p /\ TcpAt(frLine, p, base, frOut)
  BY <1>1 DEF TcpInv
<1>3. PICK i \in 0..total : \E x :
        TcpScan(total) = TcpState(i, x) /\ TcpAt(frLine, p, base + i, x) /\ TcpStops(i, total)
  <2>1. base + total <= Len(frLine.bytes) /\ Kept = base
    BY <1>1
  <2> QED BY <2>1, <1>2, TcpScanned
<1>31. PICK out :
         TcpScan(total) = TcpState(i, out) /\ TcpAt(frLine, p, base + i, out) /\ TcpStops(i, total)
  BY <1>3
<1>4. PICK S \in Nat, rest \in Nat : base + i = S /\ total - i = rest /\ S + rest = m /\ S <= m
  BY <1>1
<1> DEFINE lost == rest >= 6 /\ BadHeader(frLine, S)
           keep == IF lost THEN 0 ELSE IF rest < MaxTcp THEN rest ELSE MaxTcp
<1>5. /\ frOut' = out /\ frKeep' = keep /\ frSync' = IF lost THEN m ELSE p
  <2>1. PICK r : r = TcpScan(total)
    OBVIOUS
  <2>2. r.index = i /\ r.out = out
    BY <2>1, <1>31 DEF TcpState
  <2>3. frKeep + n - r.index = rest /\ Kept + r.index = S
    <3>1. PICK j : j = r.index
      OBVIOUS
    <3>2. j = i
      BY <3>1, <2>2
    <3>3. frKeep + n - i = rest /\ Kept + i = S
      <4>1. total - i = rest /\ base + i = S
        BY <1>4
      <4>2. PICK h \in Nat : h = frKeep
        BY DEF TcpInv
      <4>3. h + n = total /\ Kept = base
        BY <4>2, <1>1
      <4>4. h + n - i = rest
        BY <4>1, <4>3
      <4> QED BY <4>1, <4>2, <4>3, <4>4
    <3> QED BY <3>1, <3>2, <3>3
  <2>4. /\ frOut' = r.out
        /\ frKeep' = IF frKeep + n - r.index >= 6 /\ BadHeader(frLine, Kept + r.index) THEN 0
                     ELSE IF frKeep + n - r.index < MaxTcp THEN frKeep + n - r.index ELSE MaxTcp
        /\ frSync' = IF frKeep + n - r.index >= 6 /\ BadHeader(frLine, Kept + r.index) THEN frFed + n ELSE frSync
    BY <2>1, <1>1 DEF decodeTcp
  <2>5. rest >= 6 /\ BadHeader(frLine, S) <=> frKeep + n - r.index >= 6 /\ BadHeader(frLine, Kept + r.index)
    BY <2>3
  <2> QED BY <2>2, <2>3, <2>4, <2>5, <1>1, <1>2
<1>6. /\ Track(frLine, p, S) /\ InOrder(out, S)
      /\ \A f \in Ahead(frLine, p) : f[2] <= S => f \in Emissions(out)
      /\ frLine.noise = {} => p = 0 /\ Emissions(out) \subseteq frLine.frames
  BY <1>31, <1>4 DEF TcpAt
<1>7. TcpStops(i, total) <=> (rest < 6 \/ BadHeader(frLine, S) \/ rest < TcpLength(frLine, S))
  BY <1>1, <1>4 DEF TcpStops
<1>8. PICK keep1 \in Nat, T \in Nat : keep1 = keep /\ m - keep1 = T /\ keep1 <= rest /\ S <= T /\ T <= m
  <2>1. keep \in Nat /\ keep <= rest
    BY <1>0
  <2>2. m - keep \in Nat /\ S <= m - keep /\ m - keep <= m
    BY <2>1, <1>4
  <2> QED BY <2>1, <2>2
<1>9. /\ Kept' = T /\ frFed' = m /\ frFed' \in Nat /\ frKeep' \in Nat /\ frKeep' <= frFed' /\ frFed' <= Len(frLine'.bytes)
  <2>1. frFed' = m /\ frKeep' = keep1 /\ Kept' = frFed' - frKeep' /\ frLine' = frLine
    BY <1>1, <1>5, <1>8 DEF Kept
  <2>2. m - keep1 = T /\ keep1 <= m
    BY <1>4, <1>8
  <2> QED BY <2>1, <2>2, <1>1, <1>8
<1>10. CASE lost
  <2>1. frSync' = m /\ T = m
    BY <1>5, <1>8, <1>10
  <2>2. Track(frLine, m, m)
    BY NextPiece
  <2>3. \A f \in Ahead(frLine, m) : f[1] \in Nat /\ f[2] \in Nat /\ m < f[1] /\ f[1] <= f[2]
    BY FrameEnds DEF Ahead
  <2>4. \A f \in Ahead(frLine, m) : ~(f[2] <= m) /\ m < f[2]
    BY <2>3
  <2>5. frLine.noise # {}
    <3> SUFFICES ASSUME frLine.noise = {} PROVE FALSE
      OBVIOUS
    <3>1. S < Len(frLine.bytes) /\ p = 0
      BY <1>0, <1>1, <1>4, <1>6, <1>10
    <3>2. Track(frLine, 0, S)
      BY <3>1, <1>6
    <3>3. PICK f \in Ahead(frLine, 0) : f[1] = S + 1
      BY <3>1, <3>2, NoNoise
    <3>4. ~BadHeader(frLine, S)
      BY <3>3, TcpTracked
    <3> QED BY <3>4, <1>10
  <2>6. InOrder(out, m)
    BY <1>4, <1>6, Later
  <2>7. TcpAt(frLine, m, m, out)
    BY <2>2, <2>4, <2>5, <2>6 DEF TcpAt
  <2>8. TcpAt(frLine', frSync', Kept', frOut')
    BY <2>1, <2>7, <1>5, <1>9
  <2>9. \A f \in Ahead(frLine', frSync') : f[1] = Kept' + 1 => frFed' < f[2]
    BY <2>1, <2>4, <1>9
  <2> QED BY <2>1, <2>8, <2>9, <1>9 DEF TcpInv
<1>11. CASE ~lost
  <2>1. frSync' = p
    BY <1>5, <1>11
  <2>2. ASSUME NEW f \in Ahead(frLine, p), f[1] = S + 1 PROVE m < f[2] /\ T = S
    <3>5. /\ TcpLength(frLine, S) \in Nat /\ TcpLength(frLine, S) >= 8 /\ TcpLength(frLine, S) <= MaxTcp
          /\ f[2] = S + TcpLength(frLine, S)
      BY <2>2, TcpTracked
    <3>1. PICK k \in Nat : TcpLength(frLine, S) = k /\ k <= MaxTcp /\ k >= 8 /\ f[2] = S + k
      BY <3>5
    <3>2. ~BadHeader(frLine, S)
      BY <2>2, TcpTracked
    <3>3. rest < k
      BY <3>1, <3>2, <1>31, <1>7
    <3>4. keep = rest
      BY <3>1, <3>3, <1>0, <1>11
    <3> QED BY <3>1, <3>3, <3>4, <1>4, <1>8
  <2>3. /\ Track(frLine, p, T)
        /\ \A f \in Ahead(frLine, p) : f[1] = T + 1 => m < f[2] /\ T = S
        /\ \A f \in Ahead(frLine, p) : f[2] <= T => f[2] <= S
    <3>1. S <= T /\ T <= m /\ Track(frLine, p, S)
      BY <1>6, <1>8
    <3>2. \A f \in Ahead(frLine, p) : f[1] = S + 1 => m < f[2] /\ T = S
      BY <2>2
    <3> QED BY <3>1, <3>2, Settled
  <2>4. InOrder(out, T)
    BY <1>6, <1>8, Later
  <2>5. TcpAt(frLine, p, T, out)
    BY <2>3, <2>4, <1>6 DEF TcpAt
  <2>6. TcpAt(frLine', frSync', Kept', frOut')
    BY <2>1, <2>5, <1>5, <1>9
  <2>7. \A f \in Ahead(frLine', frSync') : f[1] = Kept' + 1 => frFed' < f[2]
    BY <2>1, <2>3, <1>9
  <2> QED BY <2>1, <2>6, <2>7, <1>2, <1>9 DEF TcpInv
<1> QED BY <1>10, <1>11

(* ASCII in step: its status says how much of a frame was read.            *)
AsciiInv ==
  /\ frFed \in Nat /\ frFed <= Len(frLine.bytes) /\ frStatus \in AsciiStatuses /\ frKeep \in Nat /\ frKeep <= MaxAscii
  /\ AsciiAt(frLine, frFed, frStatus, frKeep, frOut)

(* A chunk, read either way.                                               *)
LEMMA AsciiKept ==
  ASSUME Tiled(frLine), AsciiSent(frLine), AsciiInv, NEW n \in Nat, frFed + n <= Len(frLine.bytes),
         frLine' = frLine, frFed' = frFed + n, decodeAscii(n)
  PROVE  AsciiInv'
<1>1. PICK m \in Nat : frFed + n = m /\ m <= Len(frLine.bytes)
  BY DEF AsciiInv
<1>2. frFed' \in Nat /\ frFed' <= Len(frLine'.bytes)
  BY <1>1
<1>3. CASE AsciiFast(n)
  <2>1. /\ frOut' = IF Intact(frLine, SubSeq(frLine.bytes, frFed + 2, frFed + n - 2))
                    THEN Append(frOut, <<frFed + 1, frFed + n>>) ELSE frOut
        /\ frStatus' = frStatus /\ frKeep' = frKeep
    BY <1>3 DEF decodeAscii
  <2>2. AsciiAt(frLine, frFed + n, frStatus, frKeep, frOut')
    BY <1>3, <2>1, AsciiFastRead DEF AsciiInv
  <2>3. AsciiAt(frLine', frFed', frStatus', frKeep', frOut')
    BY <2>1, <2>2
  <2> QED BY <2>1, <2>3, <1>2 DEF AsciiInv
<1>4. CASE ~AsciiFast(n)
  <2>1. PICK r : r = AsciiScan(n)
    OBVIOUS
  <2>2. frStatus' = r.status /\ frKeep' = r.len /\ frOut' = r.out
    BY <1>4, <2>1 DEF decodeAscii
  <2>3. r \in AsciiReached(frFed + n)
    BY <2>1, AsciiScanned DEF AsciiInv
  <2>4. PICK c, k, o :
          c \in AsciiStatuses /\ k \in Nat /\ r = AsciiState(c, k, o) /\ k <= MaxAscii /\ AsciiAt(frLine, frFed + n, c, k, o)
    BY <2>3 DEF AsciiReached
  <2>5. r.status = c /\ r.len = k /\ r.out = o
    BY <2>4 DEF AsciiState
  <2>6. AsciiAt(frLine', frFed', frStatus', frKeep', frOut')
    BY <2>2, <2>4, <2>5
  <2> QED BY <2>2, <2>4, <2>5, <2>6, <1>2 DEF AsciiInv
<1> QED BY <1>3, <1>4
-----------------------------------------------------------------------------
(* RTU: the predicted length.                                              *)

(* A byte of the line is a number.                                         *)
LEMMA Bytes ==
  ASSUME NEW line, Tiled(line), NEW at \in Nat, NEW i \in Nat, at + i < Len(line.bytes)
  PROVE  Byte(line, at, i) \in Nat
<1>1. line.bytes \in Seq(Nat) /\ Len(line.bytes) \in Nat
  BY DEF Tiled
<1>2. at + 1 + i \in 1..Len(line.bytes)
  BY <1>1
<1> QED BY <1>1, <1>2 DEF Byte

(* The objects of an identification response end somewhere, or nowhere yet.*)
Ends == {-1} \cup {e \in Nat : e >= 8}
NextEnd(line, at, len, e) == IF e = -1 \/ len < e + 2 THEN -1 ELSE e + 2 + Byte(line, at, e + 1)
EndEquation(g, line, at, len, n) ==
  g = [k \in 0..n |-> IF k = 0 THEN 8
                      ELSE IF g[k - 1] = -1 \/ len < g[k - 1] + 2 THEN -1
                      ELSE g[k - 1] + 2 + Byte(line, at, g[k - 1] + 1)]

(* The end of one more object of an identification response.               *)
LEMMA NextEnds ==
  ASSUME NEW line, Tiled(line), NEW at \in Nat, NEW len \in Nat, at + len <= Len(line.bytes), NEW e \in Ends
  PROVE  NextEnd(line, at, len, e) \in Ends
<1>1. CASE e = -1 \/ len < e + 2
  BY <1>1 DEF NextEnd, Ends
<1>2. CASE ~(e = -1 \/ len < e + 2)
  <2>1. e \in Nat /\ e >= 8 /\ e + 2 <= len
    BY <1>2 DEF Ends
  <2>2. Len(line.bytes) \in Nat
    BY DEF Tiled
  <2>3. e + 1 \in Nat /\ at + (e + 1) < Len(line.bytes)
    BY <2>1, <2>2
  <2>4. PICK b \in Nat : Byte(line, at, e + 1) = b
    BY <2>3, Bytes
  <2>5. NextEnd(line, at, len, e) = e + 2 + b
    BY <1>2, <2>4 DEF NextEnd
  <2>6. e + 2 + b \in Nat /\ e + 2 + b >= 8
    BY <2>1
  <2> QED BY <2>5, <2>6 DEF Ends
<1> QED BY <1>1, <1>2

(* The end of all of them.                                                 *)
LEMMA ObjectsEnds ==
  ASSUME NEW line, Tiled(line), NEW at \in Nat, NEW len \in Nat, at + len <= Len(line.bytes), NEW n \in Nat
  PROVE  ObjectsEnd(line, at, len, n) \in Ends
<1>1. PICK S : S = [k \in 0..n |-> Ends]
  OBVIOUS
<1>2. PICK F : F = [k \in 1..n |-> [e \in Ends |-> NextEnd(line, at, len, e)]]
  OBVIOUS
<1>3. \A k \in 1..n : k \in 0..n /\ k - 1 \in 0..n
  OBVIOUS
<1>4. \A k \in 1..n : F[k] \in [S[k - 1] -> S[k]]
  <2> TAKE k \in 1..n
  <2>1. S[k - 1] = Ends /\ S[k] = Ends
    BY <1>1, <1>3
  <2>2. F[k] = [e \in Ends |-> NextEnd(line, at, len, e)]
    BY <1>2
  <2>3. \A e \in Ends : NextEnd(line, at, len, e) \in Ends
    BY NextEnds
  <2> QED BY <2>1, <2>2, <2>3
<1>5. 8 \in S[0]
  BY <1>1 DEF Ends
<1>6. PICK g : Rounds(S, F, 8, n, g)
  BY <1>4, <1>5, RoundsExist
<1>7. EndEquation(g, line, at, len, n)
  <2>1. \A k \in 0..n : g[k] = IF k = 0 THEN 8
                                ELSE IF g[k - 1] = -1 \/ len < g[k - 1] + 2 THEN -1
                                ELSE g[k - 1] + 2 + Byte(line, at, g[k - 1] + 1)
    <3> TAKE k \in 0..n
    <3>1. CASE k = 0
      BY <3>1, <1>6 DEF Rounds
    <3>2. CASE k # 0
      <4>1. k \in 1..n
        BY <3>2
      <4>2. g[k] = F[k][g[k - 1]] /\ g[k - 1] \in S[k - 1] /\ S[k - 1] = Ends
        BY <4>1, <1>1, <1>3, <1>6 DEF Rounds
      <4>3. g[k] = NextEnd(line, at, len, g[k - 1])
        BY <4>1, <4>2, <1>2
      <4> QED BY <3>2, <4>3 DEF NextEnd
    <3> QED BY <3>1, <3>2
  <2>2. g = [k \in 0..n |-> g[k]]
    BY <1>6 DEF Rounds
  <2> QED BY <2>1, <2>2, Zenon DEF EndEquation
<1>8. PICK w : w = CHOOSE f : EndEquation(f, line, at, len, n)
  OBVIOUS
<1>9. ObjectsEnd(line, at, len, n) = w[n]
  BY <1>8 DEF ObjectsEnd, EndEquation
<1>10. EndEquation(w, line, at, len, n)
  BY <1>7, <1>8
<1>11. /\ w[0] = 8
       /\ \A k \in 1..n : w[k] = NextEnd(line, at, len, w[k - 1])
  BY <1>10 DEF EndEquation, NextEnd
<1>12. PICK T : T = {k \in 0..n : w[k] \in Ends}
  OBVIOUS
<1>13. 0 \in T
  BY <1>11, <1>12 DEF Ends
<1>14. ASSUME NEW k \in 1..n, k - 1 \in T PROVE k \in T
  <2>1. w[k - 1] \in Ends
    BY <1>12, <1>14
  <2>2. w[k] \in Ends
    BY <2>1, <1>11, NextEnds
  <2> QED BY <2>2, <1>12
<1>15. \A k \in 0..n : k \in T
  BY <1>13, <1>14, Inducted
<1> QED BY <1>9, <1>12, <1>15

(* The entries of the two tables of lengths.                               *)
LEMMA Lengths ==
  ASSUME NEW fc
  PROVE  /\ RequestLength(fc).fixed => RequestLength(fc).base \in Int
         /\ ~RequestLength(fc).fixed => RequestLength(fc).offset \in Nat /\ RequestLength(fc).base \in Nat
         /\ ResponseLength(fc).fixed => ResponseLength(fc).base \in Int
         /\ ~ResponseLength(fc).fixed => ResponseLength(fc).offset \in Nat /\ ResponseLength(fc).base \in Nat
<1>1. UNKNOWN \in Int
  BY DEF UNKNOWN
<1>2. PICK A : A = {Fixed(8), Fixed(4), Fixed(10), Fixed(7), Fixed(5), Fixed(UNKNOWN),
                    CountedFrom(6, 9), CountedFrom(10, 13), CountedFrom(2, 5)}
  OBVIOUS
<1>3. RequestLength(fc) \in A /\ ResponseLength(fc) \in A
  <2>1. RequestLength(fc) \in A
    BY <1>2 DEF RequestLength
  <2>2. ResponseLength(fc) \in A
    BY <1>2 DEF ResponseLength
  <2> QED BY <2>1, <2>2
<1>4. ASSUME NEW r \in A
      PROVE  /\ r.fixed => r.base \in Int
             /\ ~r.fixed => r.offset \in Nat /\ r.base \in Nat
  <2>1. \A n \in Int : r = Fixed(n) => r.fixed /\ r.base \in Int
    BY DEF Fixed
  <2>2. \A o \in Nat, n \in Nat : r = CountedFrom(o, n) => ~r.fixed /\ r.offset \in Nat /\ r.base \in Nat
    BY DEF CountedFrom
  <2>3. \/ r = Fixed(8) \/ r = Fixed(4) \/ r = Fixed(10) \/ r = Fixed(7) \/ r = Fixed(5) \/ r = Fixed(UNKNOWN)
        \/ r = CountedFrom(6, 9) \/ r = CountedFrom(10, 13) \/ r = CountedFrom(2, 5)
    BY <1>2
  <2> QED BY <1>1, <2>1, <2>2, <2>3
<1> QED BY <1>3, <1>4

(* The predicted length is a number.                                       *)
LEMMA FrameLengths ==
  ASSUME NEW line, Tiled(line), NEW at \in Nat, NEW len \in Nat, len >= 4, at + len <= Len(line.bytes)
  PROVE  FrameLength(line, at, len) \in Int
<1>1. Len(line.bytes) \in Nat
  BY DEF Tiled
<1>2. ASSUME NEW i \in Nat, i < len PROVE Byte(line, at, i) \in Nat
  <2>1. at + i < Len(line.bytes)
    BY <1>1, <1>2
  <2> QED BY <2>1, Bytes
<1>3. PICK fc : fc = Byte(line, at, 1)
  OBVIOUS
<1>4. PICK l : l = IF line.master THEN ResponseLength(fc) ELSE RequestLength(fc)
  OBVIOUS
<1>5. /\ l.fixed => l.base \in Int
      /\ ~l.fixed => l.offset \in Nat /\ l.base \in Nat
  BY <1>4, Lengths
<1>6. FrameLength(line, at, len)
        = IF fc = CustomFc THEN determineFrameLength(line, at, len)
          ELSE IF line.master /\ fc = 43 THEN IdentificationLength(line, at, len)
          ELSE IF l.fixed THEN l.base
          ELSE IF len <= l.offset THEN NEED_MORE
          ELSE l.base + Byte(line, at, l.offset)
  BY <1>3, <1>4, Zenon DEF FrameLength
<1>7. determineFrameLength(line, at, len) \in Int
  <2>1. PICK b \in Nat : Byte(line, at, 2) = b
    BY <1>2
  <2>2. 5 + b \in Int
    OBVIOUS
  <2> QED BY <2>1, <2>2 DEF determineFrameLength, NEED_MORE
<1>8. IdentificationLength(line, at, len) \in Int
  <2>1. CASE len < 8
    BY <2>1 DEF IdentificationLength, NEED_MORE
  <2>2. CASE ~(len < 8)
    <3>1. PICK n \in Nat : Byte(line, at, 7) = n
      BY <1>2, <2>2
    <3>2. PICK e \in Ends : ObjectsEnd(line, at, len, n) = e
      BY ObjectsEnds
    <3>3. IdentificationLength(line, at, len)
            = IF Byte(line, at, 2) # 14 THEN UNKNOWN ELSE IF e = -1 THEN NEED_MORE ELSE e + 2
      BY <2>2, <3>1, <3>2, Zenon DEF IdentificationLength
    <3>4. e \in Int /\ e + 2 \in Int
      BY DEF Ends
    <3> QED BY <3>3, <3>4 DEF UNKNOWN, NEED_MORE
  <2> QED BY <2>1, <2>2
<1>9. ~l.fixed /\ ~(len <= l.offset) => l.base + Byte(line, at, l.offset) \in Int
  <2> SUFFICES ASSUME ~l.fixed, ~(len <= l.offset) PROVE l.base + Byte(line, at, l.offset) \in Int
    OBVIOUS
  <2>1. l.offset \in Nat /\ l.base \in Nat
    BY <1>5
  <2>2. Byte(line, at, l.offset) \in Nat
    BY <2>1, <1>2
  <2> QED BY <2>1, <2>2
<1> QED BY <1>5, <1>6, <1>7, <1>8, <1>9 DEF NEED_MORE
-----------------------------------------------------------------------------
(* RTU: one round.                                                         *)

(* What a frame that is due says of itself, byte after byte.               *)
LEMMA RtuTracked ==
  ASSUME NEW line, Tiled(line), RtuSent(line), NEW p \in Nat, NEW S \in Nat, NEW f \in Ahead(line, p), f[1] = S + 1
  PROVE  \E k \in Nat :
           /\ k >= 4 /\ k <= MaxRtu /\ f[2] = S + k /\ f = <<S + 1, S + k>> /\ f \in line.frames
           /\ \A len \in Nat : len >= 4 /\ S + len <= Len(line.bytes) =>
                FrameLength(line, S, len) = k \/ (FrameLength(line, S, len) = NEED_MORE /\ len < k)
<1>0. MaxRtu \in Nat /\ Len(line.bytes) \in Nat
  BY FramingAssumption DEF Tiled
<1>1. f \in line.frames /\ f[1] \in Nat /\ f[2] \in Nat /\ f[1] <= f[2] /\ f[2] <= Len(line.bytes) /\ f = <<f[1], f[2]>>
  BY FrameEnds DEF Ahead
<1>2. f[1] - 1 = S /\ Len(line.bytes) - f[1] + 1 = Len(line.bytes) - S
  BY <1>0, <1>1
<1>3. PICK k \in Int : k = f[2] - f[1] + 1
  BY <1>1
<1>4. /\ k >= 4 /\ k <= MaxRtu
      /\ \A len \in 4..(Len(line.bytes) - S) :
           FrameLength(line, S, len) = k \/ (FrameLength(line, S, len) = NEED_MORE /\ len < k)
  <2>1. LET n == f[2] - f[1] + 1
        IN /\ n >= 4 /\ n <= MaxRtu
           /\ \A len \in 4..(Len(line.bytes) - f[1] + 1) :
                \/ FrameLength(line, f[1] - 1, len) = n
                \/ FrameLength(line, f[1] - 1, len) = NEED_MORE /\ len < n
    BY <1>1, Zenon DEF RtuSent
  <2>2. /\ k >= 4 /\ k <= MaxRtu
        /\ \A len \in 4..(Len(line.bytes) - f[1] + 1) :
             FrameLength(line, f[1] - 1, len) = k \/ (FrameLength(line, f[1] - 1, len) = NEED_MORE /\ len < k)
    BY <2>1, <1>3, Zenon
  <2> QED BY <2>2, <1>2, Zenon
<1>5. k \in Nat /\ f[2] = S + k
  BY <1>1, <1>3, <1>4
<1>6. ASSUME NEW len \in Nat, len >= 4, S + len <= Len(line.bytes) PROVE len \in 4..(Len(line.bytes) - S)
  BY <1>0, <1>6
<1>7. f = <<S + 1, S + k>>
  BY <1>1, <1>5
<1> QED BY <1>1, <1>4, <1>5, <1>6, <1>7

(* RTU at position S, in step since p, where G are the frames with a gap.  *)
RtuAt(line, p, S, out, G) ==
  /\ Track(line, p, S) /\ InOrder(out, S) /\ Emissions(out) \subseteq line.frames
  /\ \A f \in Ahead(line, p) : f[2] <= S => (f \in Emissions(out) <=> f \notin G)
(* What is known of the frame at byte i of what is kept from base on: it   *)
(* was not whole before, and the gap and the expected length are its own.  *)
RtuDue(line, p, base, fed, marker, G, i, e) ==
  \A f \in Ahead(line, p) : f[1] = base + i + 1 =>
    fed < f[2] /\ (f \in G <=> i < marker) /\ (e = 0 \/ base + e = f[2])

RtuState(i, e, out) == [index |-> i, expected |-> e, out |-> out]
(* The frames with a gap that are known when fed bytes have arrived.       *)
Gaps(G, fed) == G \subseteq frLine.frames /\ (\A g \in G : g[1] <= fed) /\ (G # {} => frLine.strict)
EndsAt(line, p, S, T) == \A f \in Ahead(line, p) : f[1] = S + 1 => f[2] = T
Taken(out, i, n, marker, f) == IF Dropped(i, n, marker) THEN out ELSE Append(out, f)
RtuIdle(i, n, total) == total - 4 < i \/ n = NEED_MORE
RtuBad(n) == n = UNKNOWN \/ n > MaxRtu \/ n < 4
RtuStops(i, n, total) == RtuIdle(i, n, total) \/ (~RtuBad(n) /\ total - i < n)

(* A round with too few bytes stays.                                       *)
LEMMA RtuIdles ==
  ASSUME NEW i, NEW e, NEW out, NEW total, NEW marker, NEW n, n = FrameLength(frLine, Kept + i, total - i),
         i > total - 4 \/ n = NEED_MORE
  PROVE  RtuStep(RtuState(i, e, out), total, marker) = RtuState(i, e, out)
BY DEF RtuStep, RtuState

(* A round at what is no frame goes on by a byte.                          *)
LEMMA RtuGoesOn ==
  ASSUME NEW i, NEW e, NEW out, NEW total, NEW marker, NEW n, n = FrameLength(frLine, Kept + i, total - i),
         ~(i > total - 4 \/ n = NEED_MORE),
         RtuBad(n) \/ (~(total - i < n) /\ Interval(i, n) \notin frLine.frames)
  PROVE  RtuStep(RtuState(i, e, out), total, marker) = RtuState(i + 1, e, out)
<1>1. PICK s : s = RtuState(i, e, out)
  OBVIOUS
<1>2. s = [index |-> i, expected |-> e, out |-> out] /\ s.index = i
  BY <1>1 DEF RtuState
<1>3. RtuStep(s, total, marker) = [s EXCEPT !.index = i + 1]
  BY <1>2 DEF RtuStep, RtuBad
<1>4. [s EXCEPT !.index = i + 1] = [index |-> i + 1, expected |-> e, out |-> out]
  BY <1>2
<1> QED BY <1>1, <1>3, <1>4 DEF RtuState

(* A round at a frame that is not whole stays, and expects it.             *)
LEMMA RtuWaits ==
  ASSUME NEW i, NEW e, NEW out, NEW total, NEW marker, NEW n, n = FrameLength(frLine, Kept + i, total - i),
         ~(i > total - 4 \/ n = NEED_MORE), ~RtuBad(n), total - i < n
  PROVE  RtuStep(RtuState(i, e, out), total, marker) = RtuState(i, i + n, out)
<1>1. PICK s : s = RtuState(i, e, out)
  OBVIOUS
<1>2. s = [index |-> i, expected |-> e, out |-> out] /\ s.index = i
  BY <1>1 DEF RtuState
<1>3. RtuStep(s, total, marker) = [s EXCEPT !.expected = i + n]
  BY <1>2 DEF RtuStep, RtuBad
<1>4. [s EXCEPT !.expected = i + n] = [index |-> i, expected |-> i + n, out |-> out]
  BY <1>2
<1> QED BY <1>1, <1>3, <1>4 DEF RtuState

(* A byte that starts no frame due.                                        *)
LEMMA RtuSkips ==
  ASSUME NEW line, Tiled(line), NEW p \in Nat, NEW S \in Nat, NEW out, NEW G, RtuAt(line, p, S, out, G),
         \A f \in Ahead(line, p) : f[1] # S + 1
  PROVE  /\ RtuAt(line, p, S + 1, out, G)
         /\ \A f \in Ahead(line, p) : f[1] # S + 2
<1>1. PICK T \in Nat : T = S + 1
  OBVIOUS
<1>2. \A f \in Ahead(line, p) : f[1] \in Nat /\ f[2] \in Nat /\ f[1] <= f[2]
  BY FrameEnds DEF Ahead
<1>3. \A f \in Ahead(line, p) : f[2] <= S
  BY DEF RtuAt, Track
<1>4. \A f \in Ahead(line, p) : f[2] <= T /\ f[1] # S + 2
  BY <1>1, <1>2, <1>3
<1>5. Track(line, p, T)
  BY <1>4 DEF Track
<1>6. InOrder(out, T)
  BY <1>1, Later DEF RtuAt
<1>7. RtuAt(line, p, T, out, G)
  BY <1>3, <1>5, <1>6 DEF RtuAt
<1> QED BY <1>1, <1>4, <1>7

(* A frame found: where it is due, its gap decides.                        *)
RtuFinding(p, base, fed, marker, G, i, e, out, n, S, T, j, new, x) ==
  /\ Gaps(G, fed) /\ RtuAt(frLine, p, S, out, G) /\ RtuDue(frLine, p, base, fed, marker, G, i, e)
  /\ EndsAt(frLine, p, S, T) /\ new \in frLine.frames /\ new = <<S + 1, T>> /\ x = Taken(out, i, n, marker, new)
  /\ i \in Nat /\ n \in Nat /\ base + marker <= fed /\ n >= 4 /\ base + i = S /\ S + n = T /\ j = i + n

(* A round that finds a frame emits it, or drops it for its gap.           *)
LEMMA RtuFound ==
  ASSUME Tiled(frLine), NEW p \in Nat, NEW base \in Nat, NEW fed \in Nat, NEW marker \in Nat, NEW G,
         NEW i, NEW e, NEW out, NEW n, NEW S \in Nat, NEW T \in Nat, NEW j, NEW new, NEW x,
         RtuFinding(p, base, fed, marker, G, i, e, out, n, S, T, j, new, x)
  PROVE  /\ RtuAt(frLine, p, T, x, G)
         /\ RtuDue(frLine, p, base, fed, marker, G, j, 0)
<1> i \in Nat /\ n \in Nat /\ base + marker <= fed /\ n >= 4 /\ base + i = S /\ S + n = T /\ j = i + n
  BY DEF RtuFinding
<1>0. /\ \A g \in G : g[1] <= fed
      /\ G # {} => frLine.strict
      /\ \A f \in Ahead(frLine, p) : f[1] = S + 1 => f[2] = T
      /\ x = IF Dropped(i, n, marker) THEN out ELSE Append(out, <<S + 1, T>>)
      /\ <<S + 1, T>> \in frLine.frames
  BY DEF Gaps, EndsAt, Taken, RtuFinding
<1>1. /\ Track(frLine, p, S) /\ InOrder(out, S) /\ Emissions(out) \subseteq frLine.frames
      /\ \A f \in Ahead(frLine, p) : f[2] <= S => (f \in Emissions(out) <=> f \notin G)
  BY DEF RtuAt, RtuFinding
<1>2. \A f \in Ahead(frLine, p) : f \in frLine.frames /\ f[1] \in Nat /\ f[2] \in Nat /\ f[1] <= f[2]
  BY FrameEnds DEF Ahead
<1>3. \A f \in Ahead(frLine, p) : f[1] = S + 1 => fed < f[2] /\ (f \in G <=> i < marker)
  <2>1. base + i + 1 = S + 1
    OBVIOUS
  <2> QED BY <2>1 DEF RtuDue, RtuFinding
<1>4. S < T
  OBVIOUS
<1>5. /\ Track(frLine, p, T)
      /\ \A f \in Ahead(frLine, p) : f[2] <= T => f[2] <= S \/ f = <<S + 1, T>>
  BY <1>0, <1>1, <1>4, Advanced
<1>6. \A a \in Emissions(out) : a[2] \in Nat /\ a[2] <= S
  BY <1>1, Before
<1>7. PICK y : y = Append(out, <<S + 1, T>>)
  OBVIOUS
<1>8. InOrder(y, T) /\ Emissions(y) = Emissions(out) \cup {<<S + 1, T>>}
  <2>1. S + 1 \in Nat /\ T <= T /\ S <= T
    BY <1>4
  <2>2. \A a \in Emissions(out) : a[2] < S + 1
    BY <1>6
  <2>3. InOrder(out, S)
    BY <1>1
  <2>4. PICK a \in Nat : a = S + 1
    OBVIOUS
  <2>5. \A f \in Emissions(out) : f[2] < a
    BY <2>2, <2>4
  <2>6. /\ InOrder(Append(out, <<a, T>>), T)
        /\ Emissions(Append(out, <<a, T>>)) = Emissions(out) \cup {<<a, T>>}
    BY <2>1, <2>3, <2>5, Emits
  <2> QED BY <2>4, <2>6, <1>7, Zenon
<1>9. InOrder(out, T)
  BY <1>1, <1>4, Later
<1>10. InOrder(x, T) /\ Emissions(x) \subseteq frLine.frames
  <2>1. x = out \/ x = y
    BY <1>0, <1>7
  <2> QED BY <2>1, <1>0, <1>1, <1>8, <1>9
<1>11. ASSUME NEW f \in Ahead(frLine, p), f[2] <= T PROVE f \in Emissions(x) <=> f \notin G
  <2>1. CASE f[2] <= S
    <3>1. f # <<S + 1, T>>
      <4>1. ~(T <= S)
        BY <1>4
      <4> QED BY <4>1, <2>1
    <3>2. f \in Emissions(x) <=> f \in Emissions(out)
      BY <3>1, <1>0, <1>7, <1>8
    <3> QED BY <3>2, <2>1, <1>1
  <2>2. CASE ~(f[2] <= S)
    <3>1. f = <<S + 1, T>>
      BY <2>2, <1>5, <1>11
    <3>2. f[1] = S + 1 /\ f[2] = T
      BY <3>1
    <3>3. fed < T /\ (f \in G <=> i < marker)
      BY <3>2, <1>3
    <3>4. marker < i + n
      BY <3>3
    <3>5. f \in G => frLine.strict
      BY <1>0
    <3>6. Dropped(i, n, marker) <=> f \in G
      BY <3>3, <3>4, <3>5 DEF Dropped
    <3>7. f \notin Emissions(out)
      BY <3>2, <1>4, <1>6
    <3> QED BY <3>1, <3>6, <3>7, <1>0, <1>7, <1>8
  <2> QED BY <2>1, <2>2
<1>12. RtuAt(frLine, p, T, x, G)
  BY <1>5, <1>10, <1>11 DEF RtuAt
<1>13. ASSUME NEW g \in Ahead(frLine, p), g[1] = T + 1 PROVE fed < g[2] /\ g \notin G /\ ~(i + n < marker)
  <2>1. ~(g[2] <= S)
    BY <1>2, <1>4, <1>13
  <2>2. PICK f \in Ahead(frLine, p) : f[1] = S + 1
    BY <2>1, <1>1 DEF Track
  <2>3. f[2] = T /\ fed < f[2]
    BY <2>2, <1>0, <1>3
  <2>4. fed < T
    BY <2>3
  <2>5. fed < g[2] /\ ~(g[1] <= fed)
    BY <2>4, <1>2, <1>13
  <2>7. g \notin G
    BY <2>5, <1>0
  <2>6. ~(i + n < marker)
    BY <2>4
  <2> QED BY <2>5, <2>6, <2>7
<1>14. RtuDue(frLine, p, base, fed, marker, G, j, 0)
  <2>1. base + j + 1 = T + 1 /\ j = i + n
    OBVIOUS
  <2> QED BY <2>1, <1>13 DEF RtuDue
<1> QED BY <1>12, <1>14

(* One round.                                                              *)
LEMMA RtuOne ==
  ASSUME Tiled(frLine), RtuSent(frLine), NEW p \in Nat, NEW base \in Nat, Kept = base,
         NEW total \in Nat, base + total <= Len(frLine.bytes),
         NEW fed \in Nat, NEW marker \in Nat, base + marker <= fed,
         NEW G, Gaps(G, fed),
         NEW i \in 0..total, NEW e \in Nat, NEW out,
         RtuAt(frLine, p, base + i, out, G), RtuDue(frLine, p, base, fed, marker, G, i, e)
  PROVE  \E j \in 0..total, d \in Nat : \E x :
           /\ RtuStep(RtuState(i, e, out), total, marker) = RtuState(j, d, x)
           /\ RtuAt(frLine, p, base + j, x, G) /\ RtuDue(frLine, p, base, fed, marker, G, j, d)
           /\ IF RtuStops(i, FrameLength(frLine, base + i, total - i), total) THEN j = i ELSE i < j
<1>0. MaxRtu \in Nat /\ Len(frLine.bytes) \in Nat /\ NEED_MORE = 0
  BY FramingAssumption DEF Tiled, NEED_MORE
<1>1. PICK S \in Nat, len \in Nat : base + i = S /\ total - i = len /\ S + len <= Len(frLine.bytes) /\ S + len = base + total
  BY <1>0
<1>2. PICK n : n = FrameLength(frLine, S, len)
  OBVIOUS
<1>3. n = FrameLength(frLine, Kept + i, total - i) /\ n = FrameLength(frLine, base + i, total - i)
  BY <1>1, <1>2
<1>4. RtuAt(frLine, p, S, out, G)
  BY <1>1
<1>5. i > total - 4 <=> total - 4 < i
  OBVIOUS
<1>6. CASE i > total - 4 \/ n = NEED_MORE
  <2>1. RtuStep(RtuState(i, e, out), total, marker) = RtuState(i, e, out)
    BY <1>3, <1>6, RtuIdles
  <2>2. RtuStops(i, n, total)
    BY <1>5, <1>6 DEF RtuStops, RtuIdle
  <2> QED BY <2>1, <2>2, <1>3
<1>7. CASE ~(i > total - 4 \/ n = NEED_MORE)
  <2>1. len >= 4 /\ ~RtuIdle(i, n, total)
    BY <1>1, <1>7 DEF RtuIdle
  <2>2. n \in Int
    BY <2>1, <1>1, <1>2, FrameLengths
  <2>3. ASSUME NEW f \in Ahead(frLine, p), f[1] = S + 1
        PROVE  n \in Nat /\ n >= 4 /\ n <= MaxRtu /\ f[2] = S + n /\ f = <<S + 1, S + n>> /\ f \in frLine.frames
    <3>1. PICK k \in Nat :
            /\ k >= 4 /\ k <= MaxRtu /\ f[2] = S + k /\ f = <<S + 1, S + k>> /\ f \in frLine.frames
            /\ \A l \in Nat : l >= 4 /\ S + l <= Len(frLine.bytes) =>
                 FrameLength(frLine, S, l) = k \/ (FrameLength(frLine, S, l) = NEED_MORE /\ l < k)
      BY <2>3, RtuTracked
    <3>2. n = k
      BY <3>1, <2>1, <1>1, <1>2, <1>7
    <3> QED BY <3>1, <3>2
  <2>4. PICK m \in Nat : m = i + 1 /\ base + m = S + 1
    BY <1>1
  <2>5. CASE RtuBad(n) \/ (~(len < n) /\ Interval(i, n) \notin frLine.frames)
    <3>1. RtuStep(RtuState(i, e, out), total, marker) = RtuState(m, e, out)
      <4>1. RtuStep(RtuState(i, e, out), total, marker) = RtuState(i + 1, e, out)
        BY <2>5, <1>1, <1>3, <1>7, RtuGoesOn
      <4> QED BY <4>1, <2>4
    <3>2. \A f \in Ahead(frLine, p) : f[1] # S + 1
      <4> SUFFICES ASSUME NEW f \in Ahead(frLine, p), f[1] = S + 1 PROVE FALSE
        OBVIOUS
      <4>1. n \in Nat /\ n >= 4 /\ n <= MaxRtu /\ f = <<S + 1, S + n>> /\ f \in frLine.frames
        BY <2>3
      <4>2. n # -1 /\ ~(n > MaxRtu) /\ ~(n < 4)
        BY <4>1, <1>0
      <4>3. ~RtuBad(n)
        BY <4>2 DEF RtuBad, UNKNOWN
      <4>4. base + 1 + i = S + 1 /\ base + i + n = S + n
        BY <4>1, <1>1
      <4>5. Interval(i, n) = <<S + 1, S + n>>
        BY <4>4 DEF Interval
      <4> QED BY <4>1, <4>3, <4>5, <2>5
    <3>3. RtuAt(frLine, p, S + 1, out, G) /\ \A f \in Ahead(frLine, p) : f[1] # S + 2
      BY <3>2, <1>4, RtuSkips
    <3>4. base + m + 1 = S + 2
      BY <2>4
    <3>5. RtuDue(frLine, p, base, fed, marker, G, m, e)
      BY <3>3, <3>4 DEF RtuDue
    <3>6. m \in 0..total /\ i < m
      BY <2>1, <2>4, <1>1
    <3>7. ~RtuStops(i, n, total)
      BY <2>1, <2>5, <1>1 DEF RtuStops
    <3>8. RtuAt(frLine, p, base + m, out, G)
      BY <3>3, <2>4
    <3> QED BY <3>1, <3>5, <3>6, <3>7, <3>8, <1>3
  <2>6. CASE ~RtuBad(n) /\ len < n
    <3>1. n \in Nat
      BY <2>2, <2>6 DEF RtuBad
    <3>2. PICK d \in Nat : d = i + n /\ base + d = S + n
      BY <3>1, <1>1
    <3>3. RtuStep(RtuState(i, e, out), total, marker) = RtuState(i, d, out)
      <4>1. RtuStep(RtuState(i, e, out), total, marker) = RtuState(i, i + n, out)
        BY <2>6, <1>1, <1>3, <1>7, RtuWaits
      <4> QED BY <4>1, <3>2
    <3>4. \A f \in Ahead(frLine, p) : f[1] = base + i + 1 => base + d = f[2]
      <4>1. base + i + 1 = S + 1
        BY <1>1
      <4> QED BY <4>1, <3>2, <2>3
    <3>5. RtuDue(frLine, p, base, fed, marker, G, i, d)
      BY <3>4 DEF RtuDue
    <3>6. RtuStops(i, n, total)
      BY <2>6, <1>1 DEF RtuStops
    <3> QED BY <3>3, <3>5, <3>6, <1>3
  <2>7. CASE ~RtuBad(n) /\ ~(len < n) /\ Interval(i, n) \in frLine.frames
    <3>1. n \in Nat /\ n >= 4 /\ n <= len
      BY <2>2, <2>7 DEF RtuBad
    <3>2. PICK T \in Nat, j \in 0..total : T = S + n /\ j = i + n /\ base + j = T /\ i < j
      <4>1. S + n \in Nat /\ i + n \in 0..total /\ base + (i + n) = S + n /\ i < i + n
        BY <3>1, <1>1
      <4> QED BY <4>1
    <3>3. Interval(i, n) = <<S + 1, T>>
      <4>1. base + 1 + i = S + 1 /\ base + i + n = T
        BY <3>1, <3>2, <1>1
      <4> QED BY <4>1 DEF Interval
    <3>40. PICK new \in frLine.frames : new = <<S + 1, T>>
      BY <2>7, <3>3
    <3>4. PICK x : x = Taken(out, i, n, marker, new)
      OBVIOUS
    <3>5. RtuStep(RtuState(i, e, out), total, marker) = RtuState(j, 0, x)
      <4>1. RtuStep(RtuState(i, e, out), total, marker)
              = RtuState(i + n, NEED_MORE, Taken(out, i, n, marker, Interval(i, n)))
        <5>1. ~(i > total - 4 \/ n = NEED_MORE) /\ ~RtuBad(n) /\ ~(total - i < n)
          BY <2>7, <1>1, <1>7
        <5>2. Interval(i, n) \in frLine.frames /\ n = FrameLength(frLine, Kept + i, total - i)
          BY <2>7, <1>3
        <5>3. PICK s : s = RtuState(i, e, out)
          OBVIOUS
        <5>4. s.index = i /\ s.out = out
          BY <5>3 DEF RtuState
        <5>5. RtuStep(s, total, marker)
                = [index |-> i + n, expected |-> NEED_MORE, out |-> Taken(out, i, n, marker, Interval(i, n))]
          BY <5>1, <5>2, <5>4 DEF RtuStep, RtuBad, Taken
        <5> QED BY <5>3, <5>5 DEF RtuState
      <4> QED BY <4>1, <3>2, <3>3, <3>40, <3>4, <1>0
    <3>6. EndsAt(frLine, p, S, T)
      BY <2>3, <3>2 DEF EndsAt
    <3>7. RtuAt(frLine, p, T, x, G) /\ RtuDue(frLine, p, base, fed, marker, G, j, 0)
      <4>1. i \in Nat /\ j \in Nat
        OBVIOUS
      <4>2. base + i = S /\ S + n = T /\ j = i + n /\ n \in Nat /\ n >= 4
        BY <3>1, <3>2, <1>1
      <4>3. RtuFinding(p, base, fed, marker, G, i, e, out, n, S, T, j, new, x)
        BY <4>1, <4>2, <3>4, <3>40, <3>6, <1>4 DEF RtuFinding
      <4> QED BY <4>3, RtuFound
    <3>8. RtuAt(frLine, p, base + j, x, G)
      BY <3>2, <3>7
    <3>9. ~RtuStops(i, n, total)
      BY <2>1, <2>7, <1>1 DEF RtuStops
    <3> QED BY <3>2, <3>5, <3>7, <3>8, <3>9, <1>3
  <2> QED BY <2>5, <2>6, <2>7
<1> QED BY <1>6, <1>7
-----------------------------------------------------------------------------
(* RTU: the loop.                                                          *)

(* The scan runs until it stops.                                           *)
RtuStates(total) == [index : 0..total, expected : Nat, out : Seq(Nat \X Nat)]
RtuEnds(base, i, total) == RtuStops(i, FrameLength(frLine, base + i, total - i), total)
RtuReached(p, base, total, fed, marker, G, k) ==
  {s \in RtuStates(total) :
     \E i, e, out :
       /\ i \in 0..total /\ e \in Nat /\ s = RtuState(i, e, out)
       /\ RtuAt(frLine, p, base + i, out, G) /\ RtuDue(frLine, p, base, fed, marker, G, i, e)
       /\ RtuEnds(base, i, total) \/ k <= i}

(* What is kept between rounds is one of the states reached.               *)
LEMMA RtuReaches ==
  ASSUME NEW p, NEW base, NEW total, NEW fed, NEW marker, NEW G, NEW k, NEW i \in 0..total, NEW e \in Nat, NEW out,
         RtuAt(frLine, p, base + i, out, G), RtuDue(frLine, p, base, fed, marker, G, i, e),
         RtuEnds(base, i, total) \/ k <= i
  PROVE  RtuState(i, e, out) \in RtuReached(p, base, total, fed, marker, G, k)
<1>1. out \in Seq(Nat \X Nat)
  BY DEF RtuAt, InOrder
<1>2. RtuState(i, e, out) \in RtuStates(total)
  BY <1>1 DEF RtuState, RtuStates
<1> QED BY <1>2 DEF RtuReached

RtuEquation(g, total, marker) ==
  g = [k \in 0..total |-> IF k = 0 THEN [index |-> 0, expected |-> frExpected, out |-> frOut]
                          ELSE RtuStep(g[k - 1], total, marker)]

(* Where a scan starts.                                                    *)
RtuReady(p, base, total, fed, marker, G) ==
  /\ Kept = base /\ base + total <= Len(frLine.bytes) /\ base + marker <= fed /\ Gaps(G, fed)
  /\ frExpected \in Nat /\ RtuAt(frLine, p, base, frOut, G)
  /\ RtuDue(frLine, p, base, fed, marker, G, 0, frExpected)

(* The whole loop of RTU.                                                  *)
LEMMA RtuScanned ==
  ASSUME Tiled(frLine), RtuSent(frLine), NEW p \in Nat, NEW base \in Nat, NEW total \in Nat,
         NEW fed \in Nat, NEW marker \in Nat, NEW G, RtuReady(p, base, total, fed, marker, G)
  PROVE  \E i \in 0..total, e \in Nat : \E out :
           /\ RtuScan(total, marker) = RtuState(i, e, out)
           /\ RtuAt(frLine, p, base + i, out, G) /\ RtuDue(frLine, p, base, fed, marker, G, i, e)
           /\ RtuEnds(base, i, total)
<1>0. /\ Kept = base /\ base + total <= Len(frLine.bytes) /\ base + marker <= fed /\ Gaps(G, fed)
      /\ frExpected \in Nat /\ RtuAt(frLine, p, base, frOut, G)
      /\ RtuDue(frLine, p, base, fed, marker, G, 0, frExpected)
  BY DEF RtuReady
<1> DEFINE R(k) == RtuReached(p, base, total, fed, marker, G, k)
<1>1. PICK a : a = RtuState(0, frExpected, frOut)
  OBVIOUS
<1>2. a \in R(0)
  <2>1. base + 0 = base /\ 0 \in 0..total /\ 0 <= 0
    OBVIOUS
  <2> QED BY <2>1, <1>0, <1>1, RtuReaches
<1>3. ASSUME NEW k \in 1..total, NEW s \in R(k - 1)
      PROVE  RtuStep(s, total, marker) \in R(k)
  <2>1. PICK i, e, out :
          /\ i \in 0..total /\ e \in Nat /\ s = RtuState(i, e, out)
          /\ RtuAt(frLine, p, base + i, out, G) /\ RtuDue(frLine, p, base, fed, marker, G, i, e)
          /\ RtuEnds(base, i, total) \/ k - 1 <= i
    BY <1>3 DEF RtuReached
  <2>2. PICK j \in 0..total, d \in Nat : \E x :
          /\ RtuStep(RtuState(i, e, out), total, marker) = RtuState(j, d, x)
          /\ RtuAt(frLine, p, base + j, x, G) /\ RtuDue(frLine, p, base, fed, marker, G, j, d)
          /\ IF RtuEnds(base, i, total) THEN j = i ELSE i < j
    BY <2>1, <1>0, RtuOne DEF RtuEnds
  <2>3. PICK x :
          /\ RtuStep(RtuState(i, e, out), total, marker) = RtuState(j, d, x)
          /\ RtuAt(frLine, p, base + j, x, G) /\ RtuDue(frLine, p, base, fed, marker, G, j, d)
          /\ IF RtuEnds(base, i, total) THEN j = i ELSE i < j
    BY <2>2
  <2>4. RtuEnds(base, j, total) \/ k <= j
    <3>1. CASE RtuEnds(base, i, total)
      BY <3>1, <2>3
    <3>2. CASE ~RtuEnds(base, i, total)
      <4>1. k - 1 <= i /\ i < j /\ i \in 0..total
        BY <3>2, <2>1, <2>3
      <4> QED BY <4>1
    <3> QED BY <3>1, <3>2
  <2>5. RtuState(j, d, x) \in R(k)
    BY <2>3, <2>4, RtuReaches
  <2> QED BY <2>1, <2>3, <2>5
<1> HIDE DEF R
<1>4. PICK S : S = [k \in 0..total |-> R(k)]
  OBVIOUS
<1>5. PICK F : F = [k \in 1..total |-> [s \in S[k - 1] |-> RtuStep(s, total, marker)]]
  OBVIOUS
<1>6. ASSUME NEW k \in 1..total
      PROVE  /\ k \in 0..total /\ k - 1 \in 0..total
             /\ S[k] = R(k) /\ S[k - 1] = R(k - 1)
             /\ F[k] = [s \in S[k - 1] |-> RtuStep(s, total, marker)]
  <2>1. k \in 0..total /\ k - 1 \in 0..total
    OBVIOUS
  <2> QED BY <2>1, <1>4, <1>5
<1>7. \A k \in 1..total : F[k] \in [S[k - 1] -> S[k]]
  <2> TAKE k \in 1..total
  <2>1. \A s \in S[k - 1] : RtuStep(s, total, marker) \in S[k]
    BY <1>3, <1>6
  <2>2. F[k] = [s \in S[k - 1] |-> RtuStep(s, total, marker)]
    BY <1>6
  <2> QED BY <2>1, <2>2
<1>8. a \in S[0]
  BY <1>2, <1>4
<1>9. PICK g : Rounds(S, F, a, total, g)
  BY <1>7, <1>8, RoundsExist
<1>10. RtuEquation(g, total, marker)
  <2>1. \A k \in 0..total : g[k] = IF k = 0 THEN [index |-> 0, expected |-> frExpected, out |-> frOut]
                                   ELSE RtuStep(g[k - 1], total, marker)
    <3> TAKE k \in 0..total
    <3>1. CASE k = 0
      BY <3>1, <1>1, <1>9 DEF Rounds, RtuState
    <3>2. CASE k # 0
      <4>1. k \in 1..total
        BY <3>2
      <4>2. g[k] = F[k][g[k - 1]] /\ g[k - 1] \in S[k - 1]
        BY <4>1, <1>6, <1>9 DEF Rounds
      <4>3. g[k] = RtuStep(g[k - 1], total, marker)
        BY <4>1, <4>2, <1>6
      <4> QED BY <3>2, <4>3
    <3> QED BY <3>1, <3>2
  <2>2. g = [k \in 0..total |-> g[k]]
    BY <1>9 DEF Rounds
  <2> QED BY <2>1, <2>2, Zenon DEF RtuEquation
<1>11. PICK w : w = CHOOSE f : RtuEquation(f, total, marker)
  OBVIOUS
<1>12. RtuScan(total, marker) = w[total]
  BY <1>11 DEF RtuScan, RtuEquation
<1>13. RtuEquation(w, total, marker)
  BY <1>10, <1>11
<1>14. /\ w[0] = a
       /\ \A k \in 1..total : w[k] = RtuStep(w[k - 1], total, marker)
  BY <1>1, <1>13 DEF RtuEquation, RtuState
<1>15. PICK T : T = {k \in 0..total : w[k] \in R(k)}
  OBVIOUS
<1>16. 0 \in T
  BY <1>2, <1>14, <1>15
<1>17. ASSUME NEW k \in 1..total, k - 1 \in T PROVE k \in T
  <2>1. w[k - 1] \in R(k - 1)
    BY <1>15, <1>17
  <2>2. w[k] \in R(k)
    BY <2>1, <1>3, <1>14
  <2> QED BY <2>2, <1>15
<1>18. \A k \in 0..total : k \in T
  BY <1>16, <1>17, Inducted
<1>19. RtuScan(total, marker) \in R(total)
  BY <1>12, <1>15, <1>18
<1>20. PICK i, e, out :
         /\ i \in 0..total /\ e \in Nat /\ RtuScan(total, marker) = RtuState(i, e, out)
         /\ RtuAt(frLine, p, base + i, out, G) /\ RtuDue(frLine, p, base, fed, marker, G, i, e)
         /\ RtuEnds(base, i, total) \/ total <= i
  BY <1>19 DEF R, RtuReached
<1>21. RtuEnds(base, i, total)
  <2>1. CASE total <= i
    <3>1. total - 4 < i
      BY <2>1, <1>20
    <3> QED BY <3>1 DEF RtuEnds, RtuStops, RtuIdle
  <2> QED BY <2>1, <1>20
<1> QED BY <1>20, <1>21

(* Where it stops, a frame that is due is not whole yet.                   *)
LEMMA RtuStopped ==
  ASSUME Tiled(frLine), RtuSent(frLine), NEW p \in Nat, NEW base \in Nat,
         NEW total \in Nat, base + total <= Len(frLine.bytes), NEW i \in 0..total, RtuEnds(base, i, total),
         NEW f \in Ahead(frLine, p), f[1] = base + i + 1
  PROVE  base + total < f[2]
<1>0. MaxRtu \in Nat /\ Len(frLine.bytes) \in Nat /\ NEED_MORE = 0
  BY FramingAssumption DEF Tiled, NEED_MORE
<1>1. PICK S \in Nat, len \in Nat : base + i = S /\ total - i = len /\ S + len <= Len(frLine.bytes) /\ S + len = base + total
  BY <1>0
<1>2. f[1] = S + 1
  BY <1>1
<1>3. PICK k \in Nat :
        /\ k >= 4 /\ k <= MaxRtu /\ f[2] = S + k /\ f = <<S + 1, S + k>> /\ f \in frLine.frames
        /\ \A l \in Nat : l >= 4 /\ S + l <= Len(frLine.bytes) =>
             FrameLength(frLine, S, l) = k \/ (FrameLength(frLine, S, l) = NEED_MORE /\ l < k)
  BY <1>2, RtuTracked
<1>4. PICK n : n = FrameLength(frLine, S, len)
  OBVIOUS
<1>5. RtuStops(i, n, total)
  BY <1>1, <1>4 DEF RtuEnds
<1>6. len < k
  <2>1. CASE len < 4
    BY <2>1, <1>3
  <2>2. CASE ~(len < 4)
    <3>1. len >= 4
      BY <2>2
    <3>2. n = k \/ (n = NEED_MORE /\ len < k)
      BY <3>1, <1>1, <1>3, <1>4
    <3>3. CASE n = k
      <4>1. ~(total - 4 < i)
        BY <3>1, <1>1
      <4>2. k # 0
        BY <1>3
      <4>3. n # NEED_MORE
        BY <4>2, <3>3, <1>0
      <4>4. total - i < n
        BY <4>1, <4>3, <1>5 DEF RtuStops, RtuIdle
      <4> QED BY <4>4, <3>3, <1>1
    <3> QED BY <3>2, <3>3
  <2> QED BY <2>1, <2>2
<1> QED BY <1>1, <1>3, <1>6
-----------------------------------------------------------------------------
(* RTU: what is kept, and the gaps.                                        *)

(* Where a chunk has been read to.                                         *)
RtuIsRead(p, base, total, fed, marker, G, i, e, out) ==
  /\ Scanned(total, marker) = RtuState(i, e, out)
  /\ RtuAt(frLine, p, base + i, out, G) /\ RtuDue(frLine, p, base, fed, marker, G, i, e)
  /\ \A f \in Ahead(frLine, p) : f[1] = base + i + 1 => base + total < f[2]

(* A chunk scanned, or not yet because of the length expected.             *)
LEMMA RtuRead ==
  ASSUME Tiled(frLine), RtuSent(frLine), NEW p \in Nat, NEW base \in Nat, NEW total \in Nat,
         NEW fed \in Nat, NEW marker \in Nat, NEW G, RtuReady(p, base, total, fed, marker, G)
  PROVE  \E i \in 0..total, e \in Nat : \E out : RtuIsRead(p, base, total, fed, marker, G, i, e, out)
<1>0. /\ base + total <= Len(frLine.bytes)
      /\ frExpected \in Nat /\ RtuAt(frLine, p, base, frOut, G)
      /\ RtuDue(frLine, p, base, fed, marker, G, 0, frExpected)
  BY DEF RtuReady
<1>1. CASE frExpected > 0 /\ total < frExpected
  <2>1. Scanned(total, marker) = RtuState(0, frExpected, frOut)
    BY <1>1 DEF Scanned, RtuState
  <2>2. base + 0 = base /\ 0 \in 0..total
    OBVIOUS
  <2>3. ASSUME NEW f \in Ahead(frLine, p), f[1] = base + 0 + 1 PROVE base + total < f[2]
    <3>1. frExpected = 0 \/ base + frExpected = f[2]
      BY <2>3, <1>0 DEF RtuDue
    <3>2. base + frExpected = f[2]
      BY <3>1, <1>1
    <3> QED BY <3>2, <1>0, <1>1
  <2> QED BY <2>1, <2>2, <2>3, <1>0 DEF RtuIsRead
<1>2. CASE ~(frExpected > 0 /\ total < frExpected)
  <2>1. PICK i \in 0..total, e \in Nat : \E out :
           /\ RtuScan(total, marker) = RtuState(i, e, out)
           /\ RtuAt(frLine, p, base + i, out, G) /\ RtuDue(frLine, p, base, fed, marker, G, i, e)
           /\ RtuEnds(base, i, total)
    BY RtuScanned
  <2>2. Scanned(total, marker) = RtuScan(total, marker)
    BY <1>2 DEF Scanned
  <2>3. \A f \in Ahead(frLine, p) : f[1] = base + i + 1 => base + total < f[2]
    BY <2>1, <1>0, RtuStopped
  <2> QED BY <2>1, <2>2, <2>3 DEF RtuIsRead
<1> QED BY <1>1, <1>2

(* What is kept after a scan, and what points into it.                     *)
RtuLeaves(base, total, i, keep, discard, T, m) ==
  /\ keep = IF total - i < MaxRtu THEN total - i ELSE MaxRtu
  /\ discard = total - keep /\ base + discard = T /\ base + total = m

(* What points into the residual moves along or is dropped.                *)
LEMMA Moved ==
  ASSUME NEW a \in Nat, NEW d \in Nat
  PROVE  Above(a, d) \in Nat /\ (Above(a, d) > 0 <=> d < a) /\ (d < a => d + Above(a, d) = a) /\ (~(d < a) => Above(a, d) = 0)
BY DEF Above

(* What is kept after a scan is enough for the next one.                   *)
LEMMA RtuSettled ==
  ASSUME Tiled(frLine), RtuSent(frLine), NEW p \in Nat, NEW base \in Nat, NEW total \in Nat,
         NEW fed \in Nat, NEW marker \in Nat, base + marker <= fed, NEW G, Gaps(G, fed),
         NEW i \in 0..total, NEW e \in Nat, NEW out,
         RtuAt(frLine, p, base + i, out, G), RtuDue(frLine, p, base, fed, marker, G, i, e),
         \A f \in Ahead(frLine, p) : f[1] = base + i + 1 => base + total < f[2],
         NEW keep \in Nat, NEW discard \in Nat, NEW T \in Nat, NEW m \in Nat, fed <= m,
         RtuLeaves(base, total, i, keep, discard, T, m)
  PROVE  /\ RtuAt(frLine, p, T, out, G)
         /\ RtuDue(frLine, p, T, m, Above(marker, discard), G, 0, Above(e, discard))
<1>0. MaxRtu \in Nat
  BY FramingAssumption
<1>1. PICK S \in Nat : base + i = S
  OBVIOUS
<1>2. /\ S <= T /\ T <= m
      /\ total - i < MaxRtu => discard = i /\ T = S
  BY <1>0, <1>1 DEF RtuLeaves
<1>3. RtuAt(frLine, p, S, out, G)
  BY <1>1
<1>4. /\ Track(frLine, p, S) /\ InOrder(out, S) /\ Emissions(out) \subseteq frLine.frames
      /\ \A f \in Ahead(frLine, p) : f[2] <= S => (f \in Emissions(out) <=> f \notin G)
  BY <1>3 DEF RtuAt
<1>5. ASSUME NEW f \in Ahead(frLine, p), f[1] = S + 1
      PROVE  m < f[2] /\ T = S /\ discard = i /\ (f \in G <=> i < marker) /\ (e = 0 \/ base + e = f[2])
  <2>1. f[1] = base + i + 1
    BY <1>1, <1>5
  <2>2. m < f[2]
    BY <2>1 DEF RtuLeaves
  <2>3. (f \in G <=> i < marker) /\ (e = 0 \/ base + e = f[2])
    BY <2>1 DEF RtuDue
  <2>4. PICK k \in Nat :
          /\ k >= 4 /\ k <= MaxRtu /\ f[2] = S + k /\ f = <<S + 1, S + k>> /\ f \in frLine.frames
          /\ \A l \in Nat : l >= 4 /\ S + l <= Len(frLine.bytes) =>
               FrameLength(frLine, S, l) = k \/ (FrameLength(frLine, S, l) = NEED_MORE /\ l < k)
    BY <1>5, RtuTracked
  <2>5. total - i < MaxRtu
    BY <2>2, <2>4, <1>0, <1>1 DEF RtuLeaves
  <2> QED BY <2>2, <2>3, <2>5, <1>2
<1>6. \A f \in Ahead(frLine, p) : f[1] = S + 1 => m < f[2] /\ T = S
  BY <1>5
<1>7. /\ Track(frLine, p, T)
      /\ \A f \in Ahead(frLine, p) : f[1] = T + 1 => m < f[2] /\ T = S
      /\ \A f \in Ahead(frLine, p) : f[2] <= T => f[2] <= S
  BY <1>2, <1>4, <1>6, Settled
<1>8. InOrder(out, T)
  BY <1>2, <1>4, Later
<1>9. RtuAt(frLine, p, T, out, G)
  BY <1>4, <1>7, <1>8 DEF RtuAt
<1>10. ASSUME NEW f \in Ahead(frLine, p), f[1] = T + 1
       PROVE  m < f[2] /\ (f \in G <=> 0 < Above(marker, discard)) /\ (Above(e, discard) = 0 \/ T + Above(e, discard) = f[2])
  <2>1. T = S /\ f[1] = S + 1
    BY <1>7, <1>10
  <2>2. m < f[2] /\ discard = i /\ (f \in G <=> i < marker) /\ (e = 0 \/ base + e = f[2])
    BY <2>1, <1>5
  <2>3. Above(marker, discard) \in Nat /\ (Above(marker, discard) > 0 <=> i < marker)
    BY <2>2, Moved
  <2>4. PICK d \in Nat : d = Above(e, discard) /\ (i < e => i + d = e) /\ (~(i < e) => d = 0)
    BY <2>2, Moved
  <2>5. d = 0 \/ T + d = f[2]
    BY <2>1, <2>2, <2>4, <1>1
  <2> QED BY <2>2, <2>3, <2>4, <2>5
<1>11. RtuDue(frLine, p, T, m, Above(marker, discard), G, 0, Above(e, discard))
  <2>1. T + 0 + 1 = T + 1
    OBVIOUS
  <2> QED BY <2>1, <1>10 DEF RtuDue
<1> QED BY <1>9, <1>11
-----------------------------------------------------------------------------
RtuStart == IF frSilent >= 0 THEN frSilent ELSE 0
(* RTU in step with its line since the last silence.                       *)
RtuInv ==
  /\ frFed \in Nat /\ frKeep \in Nat /\ frKeep <= frFed /\ frFed <= Len(frLine.bytes)
  /\ frSilent \in Int /\ frExpected \in Nat /\ frMarker \in Nat /\ frMarker <= frKeep
  /\ frTimer => frKeep > 0
  /\ Gaps(frGapped, frFed)
  /\ RtuAt(frLine, RtuStart, Kept, frOut, frGapped)
  /\ RtuDue(frLine, RtuStart, Kept, frFed, frMarker, frGapped, 0, frExpected)

(* A gap belongs to the frame that is due.                                 *)
LEMMA RtuGap ==
  ASSUME Tiled(frLine), RtuInv, NEW gap \in BOOLEAN, gap => frTimer /\ frLine.strict,
         NEW p \in Nat, p = RtuStart, NEW base \in Nat, Kept = base,
         NEW G, G = IF gap THEN frGapped \cup {f \in frLine.frames : f[1] <= frFed /\ frFed < f[2]} ELSE frGapped,
         NEW marker, marker = IF frTimer /\ gap THEN frKeep ELSE frMarker
  PROVE  /\ marker \in Nat /\ marker <= frKeep /\ Gaps(G, frFed)
         /\ RtuAt(frLine, p, base, frOut, G) /\ RtuDue(frLine, p, base, frFed, marker, G, 0, frExpected)
<1>1. /\ frFed \in Nat /\ frKeep \in Nat /\ frKeep <= frFed /\ frMarker \in Nat /\ frMarker <= frKeep
      /\ frTimer => frKeep > 0
      /\ Gaps(frGapped, frFed) /\ RtuAt(frLine, p, base, frOut, frGapped)
      /\ RtuDue(frLine, p, base, frFed, frMarker, frGapped, 0, frExpected)
  BY DEF RtuInv
<1>2. CASE ~gap
  BY <1>1, <1>2
<1>3. CASE gap
  <2>1. marker = frKeep /\ frKeep > 0
    BY <1>1, <1>3
  <2>2. \A f \in frLine.frames : f \in G <=> f \in frGapped \/ (f[1] <= frFed /\ frFed < f[2])
    BY <1>3
  <2>3. Gaps(G, frFed)
    BY <1>1, <1>3 DEF Gaps
  <2>4. base <= frFed /\ base + frKeep = frFed
    BY <1>1 DEF Kept
  <2>5. \A f \in Ahead(frLine, p) : f \in frLine.frames /\ f[1] \in Nat /\ f[2] \in Nat
    BY FrameEnds DEF Ahead
  <2>6. \A f \in Ahead(frLine, p) : f[2] <= base => (f \in G <=> f \in frGapped)
    BY <2>2, <2>4, <2>5, <1>1
  <2>7. RtuAt(frLine, p, base, frOut, G)
    BY <2>6, <1>1 DEF RtuAt
  <2>8. ASSUME NEW f \in Ahead(frLine, p), f[1] = base + 0 + 1
        PROVE  frFed < f[2] /\ f \in G /\ (frExpected = 0 \/ base + frExpected = f[2])
    <3>1. frFed < f[2] /\ (frExpected = 0 \/ base + frExpected = f[2])
      BY <2>8, <1>1 DEF RtuDue
    <3>2. f[1] <= frFed
      BY <2>1, <2>4, <2>8, <1>1
    <3> QED BY <3>1, <3>2, <2>2, <2>5
  <2>9. RtuDue(frLine, p, base, frFed, marker, G, 0, frExpected)
    BY <2>1, <2>8 DEF RtuDue
  <2> QED BY <2>1, <2>3, <2>7, <2>9, <1>1
<1> QED BY <1>2, <1>3

RtuNewGapped(gap) ==
  IF gap THEN frGapped \cup {f \in frLine.frames : f[1] <= frFed /\ frFed < f[2]} ELSE frGapped
RtuFast(n) ==
  frKeep = 0 /\ n >= 4 /\ FrameLength(frLine, Kept, n) = n /\ Interval(0, n) \in frLine.frames

(* A chunk that is one frame.                                              *)
LEMMA RtuFastKept ==
  ASSUME Tiled(frLine), RtuSent(frLine), RtuInv, NEW n \in Nat, frFed + n <= Len(frLine.bytes),
         frLine' = frLine, frFed' = frFed + n, RtuFast(n),
         frOut' = IF frLine.timing /\ frLine.strict /\ frMarker > 0 THEN frOut ELSE Append(frOut, Interval(0, n)),
         frExpected' = NEED_MORE, frMarker' = 0, frTimer' = FALSE, frKeep' = frKeep, frGapped' = frGapped,
         frSilent' = frSilent
  PROVE  RtuInv'
<1>0. NEED_MORE = 0 /\ Len(frLine.bytes) \in Nat /\ MaxRtu \in Nat
  BY FramingAssumption DEF NEED_MORE, Tiled
<1>1. PICK p \in Nat : p = RtuStart
  BY DEF RtuInv, RtuStart
<1>2. PICK S \in Nat, T \in Nat : frFed = S /\ S + n = T /\ T <= Len(frLine.bytes)
  BY DEF RtuInv
<1>3. frMarker = 0 /\ Kept = S /\ frKeep = 0
  <2>1. frMarker \in Nat /\ frMarker <= frKeep /\ frKeep = 0
    BY DEF RtuInv, RtuFast
  <2> QED BY <2>1, <1>2 DEF Kept
<1>4. /\ Gaps(frGapped, S) /\ RtuAt(frLine, p, S, frOut, frGapped) /\ frSilent \in Int
      /\ RtuDue(frLine, p, S, S, 0, frGapped, 0, frExpected)
  BY <1>1, <1>2, <1>3 DEF RtuInv
<1>5. n >= 4 /\ FrameLength(frLine, S, n) = n /\ Interval(0, n) \in frLine.frames
  BY <1>3 DEF RtuFast
<1>6. Interval(0, n) = <<S + 1, T>>
  <2>1. S + 1 + 0 = S + 1 /\ S + 0 + n = T
    BY <1>2
  <2> QED BY <2>1, <1>3 DEF Interval
<1>7. PICK new \in frLine.frames : new = <<S + 1, T>>
  BY <1>5, <1>6
<1>8. frOut' = Append(frOut, new)
  BY <1>3, <1>6, <1>7
<1>9. frOut' = Taken(frOut, 0, n, 0, new)
  BY <1>8 DEF Taken, Dropped
<1>10. EndsAt(frLine, p, S, T)
  <2> SUFFICES ASSUME NEW f \in Ahead(frLine, p), f[1] = S + 1 PROVE f[2] = T
    BY DEF EndsAt
  <2>1. PICK k \in Nat :
          /\ k >= 4 /\ k <= MaxRtu /\ f[2] = S + k /\ f = <<S + 1, S + k>> /\ f \in frLine.frames
          /\ \A l \in Nat : l >= 4 /\ S + l <= Len(frLine.bytes) =>
               FrameLength(frLine, S, l) = k \/ (FrameLength(frLine, S, l) = NEED_MORE /\ l < k)
    BY RtuTracked
  <2>2. n = k \/ n = NEED_MORE
    BY <2>1, <1>2, <1>5
  <2>3. n = k
    BY <2>2, <1>0, <1>5
  <2> QED BY <2>1, <2>3, <1>2
<1>11. PICK out : out = frOut'
  OBVIOUS
<1>12. RtuFinding(p, S, S, 0, frGapped, 0, frExpected, frOut, n, S, T, n, new, out)
  <2>1. S + 0 <= S /\ S + 0 = S /\ n = 0 + n /\ 0 \in Nat
    OBVIOUS
  <2> QED BY <2>1, <1>2, <1>4, <1>5, <1>7, <1>9, <1>10, <1>11 DEF RtuFinding
<1>13. /\ RtuAt(frLine, p, T, out, frGapped)
       /\ RtuDue(frLine, p, S, S, 0, frGapped, n, 0)
  BY <1>12, RtuFound
<1>14. RtuDue(frLine, p, T, T, 0, frGapped, 0, 0)
  <2> SUFFICES ASSUME NEW f \in Ahead(frLine, p), f[1] = T + 0 + 1 PROVE T < f[2] /\ (f \in frGapped <=> 0 < 0)
    BY DEF RtuDue
  <2>1. f[1] = S + n + 1 /\ ~(n < 0) /\ ~(0 < 0)
    BY <1>2
  <2>2. f \notin frGapped
    BY <2>1, <1>13 DEF RtuDue
  <2>3. f[1] \in Nat /\ f[2] \in Nat /\ f[1] <= f[2]
    BY FrameEnds DEF Ahead
  <2>4. T < f[2]
    BY <2>3
  <2> QED BY <2>1, <2>2, <2>4
<1>15. Gaps(frGapped, T)
  <2>1. S <= T /\ \A g \in frGapped : g[1] <= S
    BY <1>2, <1>4 DEF Gaps
  <2>2. frGapped \subseteq frLine.frames
    BY <1>4 DEF Gaps
  <2>3. \A g \in frGapped : g[1] <= T
    BY <2>1, <2>2, FrameEnds
  <2> QED BY <2>3, <1>4 DEF Gaps
<1>16. frFed' = T /\ frKeep' = 0 /\ Kept' = T /\ frExpected' = 0 /\ RtuStart' = p
  <2>1. frFed' = T /\ frKeep' = 0 /\ frExpected' = 0
    BY <1>0, <1>2, <1>3
  <2>2. RtuStart' = p
    BY <1>1 DEF RtuStart
  <2> QED BY <2>1, <2>2 DEF Kept
<1>17. /\ RtuAt(frLine', RtuStart', Kept', frOut', frGapped')
       /\ RtuDue(frLine', RtuStart', Kept', frFed', frMarker', frGapped', 0, frExpected')
  BY <1>11, <1>13, <1>14, <1>16
<1> QED BY <1>2, <1>4, <1>15, <1>16, <1>17 DEF RtuInv, Gaps
-----------------------------------------------------------------------------
(* RTU: a chunk and a silence.                                             *)

(* A chunk that is scanned with what is kept.                              *)
RtuTakes(n, gap, marker, total, r) ==
  marker = (IF frTimer /\ gap THEN frKeep ELSE frMarker) /\ total = frKeep + n /\ r = Scanned(total, marker)
RtuLeft(total, r, k, c) ==
  k = (IF total - r.index < MaxRtu THEN total - r.index ELSE MaxRtu) /\ c = total - k
RtuSets(gap, marker, r, k, c) ==
  /\ frOut' = r.out /\ frKeep' = k
  /\ frExpected' = IF k = 0 THEN NEED_MORE ELSE Above(r.expected, c)
  /\ frMarker' = IF k = 0 THEN 0 ELSE MovedMarker(marker, c)
  /\ frTimer' = (k > 0 /\ frLine.timing) /\ frGapped' = RtuNewGapped(gap)

(* A chunk that is scanned keeps the invariant.                            *)
LEMMA RtuScanKept ==
  ASSUME Tiled(frLine), RtuSent(frLine), RtuInv, NEW n \in Nat, NEW gap \in BOOLEAN, gap => frTimer /\ frLine.strict,
         frFed + n <= Len(frLine.bytes), frLine' = frLine, frFed' = frFed + n, frSilent' = frSilent,
         NEW marker \in Nat, NEW total \in Nat, NEW r, RtuTakes(n, gap, marker, total, r),
         NEW k, NEW c, RtuLeft(total, r, k, c), RtuSets(gap, marker, r, k, c)
  PROVE  RtuInv'
<1>0. NEED_MORE = 0 /\ Len(frLine.bytes) \in Nat /\ MaxRtu \in Nat
  BY FramingAssumption DEF NEED_MORE, Tiled
<1>1. PICK p \in Nat : p = RtuStart
  BY DEF RtuInv, RtuStart
<1>2. PICK fed \in Nat, kept \in Nat, base \in Nat, m \in Nat :
        /\ frFed = fed /\ frKeep = kept /\ base + kept = fed /\ Kept = base /\ fed + n = m /\ m <= Len(frLine.bytes)
  <2>1. frFed \in Nat /\ frKeep \in Nat /\ frKeep <= frFed
    BY DEF RtuInv
  <2>2. frFed - frKeep \in Nat /\ frFed + n \in Nat /\ (frFed - frKeep) + frKeep = frFed
    BY <2>1
  <2> QED BY <2>1, <2>2 DEF Kept
<1>3. base + total = m /\ kept <= total
  <2>1. total = kept + n
    BY <1>2 DEF RtuTakes
  <2> QED BY <2>1, <1>2
<1>4. PICK G : G = RtuNewGapped(gap)
  OBVIOUS
<1>5. /\ marker <= frKeep /\ Gaps(G, frFed)
      /\ RtuAt(frLine, p, base, frOut, G) /\ RtuDue(frLine, p, base, frFed, marker, G, 0, frExpected)
  BY <1>1, <1>2, <1>4, RtuGap DEF RtuNewGapped, RtuTakes
<1>6. RtuReady(p, base, total, fed, marker, G)
  <2>1. base + marker <= fed /\ base + total <= Len(frLine.bytes)
    BY <1>2, <1>3, <1>5
  <2>2. frExpected \in Nat
    BY DEF RtuInv
  <2> QED BY <2>1, <2>2, <1>2, <1>5 DEF RtuReady
<1>7. PICK i \in 0..total, e \in Nat : \E out : RtuIsRead(p, base, total, fed, marker, G, i, e, out)
  BY <1>6, RtuRead
<1>8. PICK out :
           /\ Scanned(total, marker) = RtuState(i, e, out)
           /\ RtuAt(frLine, p, base + i, out, G) /\ RtuDue(frLine, p, base, fed, marker, G, i, e)
           /\ \A f \in Ahead(frLine, p) : f[1] = base + i + 1 => base + total < f[2]
  BY <1>7 DEF RtuIsRead
<1>9. r.index = i /\ r.expected = e /\ r.out = out
  BY <1>8 DEF RtuState, RtuTakes
<1>10. PICK keep \in Nat, discard \in Nat :
         /\ k = keep /\ c = discard /\ keep <= total /\ discard + keep = total
         /\ keep = IF total - i < MaxRtu THEN total - i ELSE MaxRtu
  <2>1. k = IF total - i < MaxRtu THEN total - i ELSE MaxRtu
    BY <1>9 DEF RtuLeft
  <2>2. k \in Nat /\ k <= total
    BY <2>1, <1>0
  <2>3. total - k \in Nat /\ total - k + k = total
    BY <2>2
  <2>4. c = total - k
    BY DEF RtuLeft
  <2> QED BY <2>1, <2>2, <2>3, <2>4
<1>11. /\ frOut' = r.out /\ frKeep' = keep
       /\ frExpected' = IF keep = 0 THEN NEED_MORE ELSE Above(r.expected, discard)
       /\ frMarker' = IF keep = 0 THEN 0 ELSE MovedMarker(marker, discard)
       /\ frTimer' = (keep > 0 /\ frLine.timing) /\ frGapped' = G
  BY <1>4, <1>10 DEF RtuSets
<1>12. PICK T \in Nat : base + discard = T /\ T + keep = m /\ m - keep = T
  <2>1. discard + keep = total /\ base + total = m
    BY <1>3, <1>10
  <2>2. base + discard \in Nat /\ (base + discard) + keep = m
    BY <2>1
  <2> QED BY <2>2
<1>13. RtuLeaves(base, total, i, keep, discard, T, m)
  BY <1>3, <1>10, <1>12 DEF RtuLeaves
<1>14. /\ RtuAt(frLine, p, T, out, G)
       /\ RtuDue(frLine, p, T, m, Above(marker, discard), G, 0, Above(e, discard))
  <2>1. fed <= m /\ base + marker <= fed
    BY <1>2, <1>5
  <2>2. Gaps(G, fed)
    BY <1>2, <1>5
  <2> QED BY <2>1, <2>2, <1>8, <1>13, RtuSettled
<1>15. PICK h \in Nat, d \in Nat : h = Above(marker, discard) /\ d = Above(e, discard) /\ h <= keep
  <2>1. Above(marker, discard) \in Nat /\ Above(e, discard) \in Nat
    BY Moved
  <2>2. Above(marker, discard) <= keep
    <3>1. marker <= kept
      BY <1>2, <1>5
    <3>2. kept <= total
      BY <1>3
    <3>3. marker <= total
      BY <3>1, <3>2
    <3>4. discard + keep = total
      BY <1>10
    <3>5. CASE marker > discard
      <4>1. Above(marker, discard) = marker - discard
        BY <3>5 DEF Above
      <4> QED BY <4>1, <3>3, <3>4
    <3>6. CASE ~(marker > discard)
      BY <3>6 DEF Above
    <3> QED BY <3>5, <3>6
  <2> QED BY <2>1, <2>2
<1>16. PICK hh \in Nat, dd \in Nat :
         /\ hh = IF keep = 0 THEN 0 ELSE h
         /\ dd = IF keep = 0 THEN 0 ELSE d
  OBVIOUS
<1>17. frExpected' = dd /\ frMarker' = hh /\ hh <= keep
  <2>1. frExpected' = IF keep = 0 THEN 0 ELSE d
    BY <1>0, <1>9, <1>11, <1>15
  <2>2. frMarker' = IF keep = 0 THEN 0 ELSE h
    BY <1>11, <1>15 DEF MovedMarker
  <2> QED BY <2>1, <2>2, <1>15, <1>16
<1>18. RtuDue(frLine, p, T, m, hh, G, 0, dd)
  <2> SUFFICES ASSUME NEW f \in Ahead(frLine, p), f[1] = T + 0 + 1
               PROVE  m < f[2] /\ (f \in G <=> 0 < hh) /\ (dd = 0 \/ T + dd = f[2])
    BY DEF RtuDue
  <2>1. m < f[2] /\ (f \in G <=> 0 < h) /\ (d = 0 \/ T + d = f[2])
    BY <1>14, <1>15 DEF RtuDue
  <2>2. CASE keep = 0
    <3>1. h = 0
      BY <2>2, <1>15
    <3> QED BY <2>1, <2>2, <3>1, <1>16
  <2>3. CASE keep # 0
    BY <2>1, <2>3, <1>16
  <2> QED BY <2>2, <2>3
<1>19. Gaps(G, m)
  <2>1. G \subseteq frLine.frames /\ \A g \in G : g[1] <= fed
    BY <1>2, <1>5 DEF Gaps
  <2>3. \A g \in G : g[1] \in Nat
    BY <2>1, FrameEnds
  <2>2. \A g \in G : g[1] <= m
    BY <2>1, <2>3, <1>2
  <2> QED BY <2>1, <2>2, <1>5 DEF Gaps
<1>20. frFed' = m /\ frKeep' = keep /\ Kept' = T /\ RtuStart' = p
  <2>1. frFed' = m /\ frKeep' = keep /\ Kept' = frFed' - frKeep'
    BY <1>2, <1>11 DEF Kept
  <2>2. Kept' = T
    BY <2>1, <1>12
  <2> QED BY <2>1, <2>2, <1>1 DEF RtuStart
<1>21. keep <= m
  BY <1>12
<1>22. /\ RtuAt(frLine', RtuStart', Kept', frOut', frGapped')
       /\ RtuDue(frLine', RtuStart', Kept', frFed', frMarker', frGapped', 0, frExpected')
  BY <1>4, <1>9, <1>11, <1>14, <1>17, <1>18, <1>20
<1>23. frTimer' => keep > 0
  BY <1>11
<1>24. frSilent' \in Int
  BY DEF RtuInv
<1> QED BY <1>2, <1>4, <1>10, <1>11, <1>17, <1>19, <1>20, <1>21, <1>22, <1>23, <1>24 DEF RtuInv, Gaps

(* A chunk, by the fast path or by the scan.                               *)
LEMMA RtuKept ==
  ASSUME Tiled(frLine), RtuSent(frLine), RtuInv, NEW n \in Nat, NEW gap \in BOOLEAN, gap => frTimer /\ frLine.strict,
         frFed + n <= Len(frLine.bytes), frLine' = frLine, frFed' = frFed + n, decodeRtu(n, gap)
  PROVE  RtuInv'
<1>1. PICK marker \in Nat : marker = IF frTimer /\ gap THEN frKeep ELSE frMarker
  BY DEF RtuInv
<1>2. PICK total \in Nat : total = frKeep + n
  BY DEF RtuInv
<1>3. PICK r : r = Scanned(total, marker)
  OBVIOUS
<1>4. PICK keep : keep = IF total - r.index < MaxRtu THEN total - r.index ELSE MaxRtu
  OBVIOUS
<1>5. PICK discard : discard = total - keep
  OBVIOUS
<1>6. /\ IF RtuFast(n)
         THEN /\ frOut' = IF frLine.timing /\ frLine.strict /\ marker > 0 THEN frOut
                          ELSE Append(frOut, Interval(0, n))
              /\ frExpected' = NEED_MORE /\ frMarker' = 0 /\ frTimer' = FALSE
              /\ frKeep' = frKeep
         ELSE /\ frOut' = r.out
              /\ frKeep' = keep
              /\ frExpected' = IF keep = 0 THEN NEED_MORE ELSE Above(r.expected, discard)
              /\ frMarker' = IF keep = 0 THEN 0 ELSE MovedMarker(marker, discard)
              /\ frTimer' = (keep > 0 /\ frLine.timing)
      /\ frGapped' = RtuNewGapped(gap)
      /\ frSilent' = frSilent
  BY <1>1, <1>2, <1>3, <1>4, <1>5 DEF decodeRtu, RtuFast, RtuNewGapped
<1>7. CASE RtuFast(n)
  <2>1. frKeep = 0 /\ ~gap /\ marker = frMarker
    <3>1. frKeep = 0
      BY <1>7 DEF RtuFast
    <3>2. ~frTimer
      BY <3>1 DEF RtuInv
    <3> QED BY <3>1, <3>2, <1>1
  <2>2. frGapped' = frGapped
    BY <2>1, <1>6 DEF RtuNewGapped
  <2> QED BY <2>1, <2>2, <1>6, <1>7, RtuFastKept
<1>8. CASE ~RtuFast(n)
  <2>1. RtuLeft(total, r, keep, discard)
    BY <1>4, <1>5 DEF RtuLeft
  <2>2. RtuSets(gap, marker, r, keep, discard)
    BY <1>6, <1>8 DEF RtuSets
  <2>3. RtuTakes(n, gap, marker, total, r)
    BY <1>1, <1>2, <1>3 DEF RtuTakes
  <2>4. frSilent' = frSilent
    BY <1>6
  <2> QED BY <2>1, <2>2, <2>3, <2>4, RtuScanKept
<1> QED BY <1>7, <1>8

(* The silence of t3.5: a scan begins anew at the end of what was fed.     *)
LEMMA RtuSilence ==
  ASSUME Tiled(frLine), RtuInv, Silence
  PROVE  RtuInv'
<1>1. PICK m \in Nat : frFed = m /\ m <= Len(frLine.bytes)
  BY DEF RtuInv
<1>2. /\ frLine' = frLine /\ frFed' = m /\ frKeep' = 0 /\ frExpected' = 0 /\ frMarker' = 0 /\ frSilent' = m
      /\ frOut' = frOut /\ frGapped' = frGapped /\ frTimer' = FALSE
  BY <1>1 DEF Silence, NEED_MORE
<1>3. Kept' = m /\ RtuStart' = m
  BY <1>2 DEF Kept, RtuStart
<1>4. Gaps(frGapped, m) /\ RtuAt(frLine, RtuStart, Kept, frOut, frGapped)
  BY <1>1 DEF RtuInv
<1>5. Kept \in Nat /\ Kept <= m
  <2>1. frKeep \in Nat /\ frKeep <= m
    BY <1>1 DEF RtuInv
  <2> QED BY <2>1, <1>1 DEF Kept
<1>6. Track(frLine, m, m)
  BY NextPiece
<1>7. InOrder(frOut, m) /\ Emissions(frOut) \subseteq frLine.frames
  BY <1>4, <1>5, Later DEF RtuAt
<1>8. \A f \in Ahead(frLine, m) : f \in frLine.frames /\ m < f[1] /\ f[1] \in Nat /\ f[2] \in Nat /\ f[1] <= f[2]
  BY FrameEnds DEF Ahead
<1>9. \A f \in Ahead(frLine, m) : ~(f[2] <= m) /\ m < f[2]
  BY <1>8
<1>10. \A f \in Ahead(frLine, m) : f \notin frGapped
  <2> SUFFICES ASSUME NEW f \in Ahead(frLine, m), f \in frGapped PROVE FALSE
    OBVIOUS
  <2>1. f[1] <= m
    BY <1>4 DEF Gaps
  <2> QED BY <2>1, <1>8
<1>11. RtuAt(frLine, m, m, frOut, frGapped)
  BY <1>6, <1>7, <1>9 DEF RtuAt
<1>12. RtuDue(frLine, m, m, m, 0, frGapped, 0, 0)
  BY <1>9, <1>10 DEF RtuDue
<1>13. /\ RtuAt(frLine', RtuStart', Kept', frOut', frGapped')
       /\ RtuDue(frLine', RtuStart', Kept', frFed', frMarker', frGapped', 0, frExpected')
  BY <1>2, <1>3, <1>11, <1>12
<1> QED BY <1>1, <1>2, <1>4, <1>13 DEF RtuInv, Gaps
-----------------------------------------------------------------------------
(* The line.                                                               *)

(* The inductive invariant: each layer is in step with its line.           *)
FrInv ==
  /\ Tiled(frLine)
  /\ \/ frLine.proto = "tcp" /\ TcpSent(frLine) /\ TcpInv /\ ~frTimer
     \/ frLine.proto = "ascii" /\ AsciiSent(frLine) /\ AsciiInv /\ ~frTimer
     \/ frLine.proto = "rtu" /\ RtuSent(frLine) /\ RtuInv

(* Before anything is emitted.                                             *)
LEMMA Nothing ==
  /\ InOrder(<<>>, 0) /\ Emissions(<<>>) = {}
BY DEF InOrder, Emissions

(* A line on which nothing was fed.                                        *)
LEMMA FrInit_FrInv == FrInit => FrInv
<1> SUFFICES ASSUME FrInit PROVE FrInv
  OBVIOUS
<1>1. PICK l \in Lines : frLine = Laid(l)
  BY DEF FrInit
<1>2. Tiled(frLine)
  BY <1>1, LaidTiled
<1>3. /\ frFed = 0 /\ frKeep = 0 /\ frStatus = "idle" /\ frExpected = 0 /\ frMarker = 0
      /\ frTimer = FALSE /\ frOut = <<>> /\ frSync = 0 /\ frSilent = -1 /\ frGapped = {}
  BY DEF FrInit
<1>4. Kept = 0 /\ RtuStart = 0 /\ 0 <= Len(frLine.bytes)
  <2>1. Len(frLine.bytes) \in Nat
    BY <1>2 DEF Tiled
  <2> QED BY <2>1, <1>3 DEF Kept, RtuStart
<1>5. Laid(l).proto = l.proto
  BY DEF Laid
<1>6. \/ frLine.proto = "tcp" /\ TcpSent(frLine)
      \/ frLine.proto = "ascii" /\ AsciiSent(frLine)
      \/ frLine.proto = "rtu" /\ RtuSent(frLine)
  BY <1>1, <1>5, FramingAssumption
<1>7. Track(frLine, 0, 0)
  BY <1>2, NextPiece
<1>8. \A f \in frLine.frames : f[1] \in Nat /\ f[2] \in Nat /\ 1 <= f[1] /\ f[1] <= f[2]
  BY <1>2, FrameEnds
<1>9. \A f \in frLine.frames : ~(f[2] <= 0) /\ ~(f[1] <= 0) /\ 0 < f[2]
  BY <1>8
<1>10. Ahead(frLine, 0) \subseteq frLine.frames
  BY DEF Ahead
<1>11. TcpInv
  <2>1. TcpAt(frLine, 0, 0, <<>>)
    BY <1>7, <1>9, <1>10, Nothing DEF TcpAt
  <2>2. \A f \in Ahead(frLine, 0) : 0 < f[2]
    BY <1>9, <1>10
  <2> QED BY <2>1, <2>2, <1>3, <1>4 DEF TcpInv
<1>12. AsciiInv
  <2>1. AsciiAt(frLine, 0, "idle", 0, <<>>)
    <3>1. ReadSoFar(frLine, 0, "idle", 0)
      BY DEF ReadSoFar
    <3>2. GoesOn(frLine, 0, "idle", 0)
      BY <1>9 DEF GoesOn
    <3>3. OverEmitted(frLine, 0, <<>>)
      BY <1>9, Nothing DEF OverEmitted
    <3> QED BY <3>1, <3>2, <3>3 DEF AsciiAt
  <2>2. "idle" \in AsciiStatuses
    BY DEF AsciiStatuses
  <2>3. MaxAscii \in Nat /\ 0 <= MaxAscii
    BY FramingAssumption
  <2> QED BY <2>1, <2>2, <2>3, <1>3, <1>4 DEF AsciiInv
<1>13. RtuInv
  <2>1. RtuAt(frLine, 0, 0, <<>>, {})
    BY <1>7, <1>9, <1>10, Nothing DEF RtuAt
  <2>2. RtuDue(frLine, 0, 0, 0, 0, {}, 0, 0)
    BY <1>9, <1>10 DEF RtuDue
  <2>3. Gaps({}, 0)
    BY DEF Gaps
  <2> QED BY <2>1, <2>2, <2>3, <1>3, <1>4 DEF RtuInv
<1> QED BY <1>2, <1>3, <1>6, <1>11, <1>12, <1>13 DEF FrInv

(* Every chunk and every silence keeps the invariant.                      *)
LEMMA FrNext_FrInv == FrInv /\ [FrNext]_frVars => FrInv'
<1> SUFFICES ASSUME FrInv, [FrNext]_frVars PROVE FrInv'
  OBVIOUS
<1>0. Tiled(frLine)
  BY DEF FrInv
<1>1. ASSUME NEW n \in 1..(Len(frLine.bytes) - frFed), NEW gap \in BOOLEAN, Chunk(n, gap)
      PROVE  FrInv'
  <2>1. frFed + n <= Len(frLine.bytes) /\ frFed' = frFed + n /\ frLine' = frLine
    BY <1>1 DEF Chunk
  <2>2. n \in Nat
    <3>1. frFed \in Nat /\ Len(frLine.bytes) \in Nat
      BY <1>0 DEF FrInv, TcpInv, AsciiInv, RtuInv, Tiled
    <3> QED BY <3>1
  <2>3. CASE frLine.proto = "tcp" /\ TcpSent(frLine) /\ TcpInv /\ ~frTimer
    <3>1. decodeTcp(n)
      BY <1>1, <2>3 DEF Chunk
    <3>2. TcpInv'
      BY <3>1, <2>1, <2>2, <2>3, <1>0, TcpKept
    <3>3. frTimer' = frTimer
      BY <3>1 DEF decodeTcp
    <3> QED BY <3>2, <3>3, <2>1, <2>3, <1>0 DEF FrInv
  <2>4. CASE frLine.proto = "ascii" /\ AsciiSent(frLine) /\ AsciiInv /\ ~frTimer
    <3>1. decodeAscii(n)
      BY <1>1, <2>4 DEF Chunk
    <3>2. AsciiInv'
      BY <3>1, <2>1, <2>2, <2>4, <1>0, AsciiKept
    <3>3. frTimer' = frTimer
      BY <3>1 DEF decodeAscii
    <3> QED BY <3>2, <3>3, <2>1, <2>4, <1>0 DEF FrInv
  <2>5. CASE frLine.proto = "rtu" /\ RtuSent(frLine) /\ RtuInv
    <3>1. decodeRtu(n, gap) /\ (gap => frTimer /\ frLine.strict)
      BY <1>1, <2>5 DEF Chunk
    <3>2. RtuInv'
      BY <3>1, <2>1, <2>2, <2>5, <1>0, RtuKept
    <3> QED BY <3>2, <2>1, <2>5, <1>0 DEF FrInv
  <2> QED BY <2>3, <2>4, <2>5 DEF FrInv
<1>2. CASE Silence
  <2>1. frTimer /\ frLine' = frLine
    BY <1>2 DEF Silence
  <2>2. frLine.proto = "rtu" /\ RtuSent(frLine) /\ RtuInv
    BY <2>1 DEF FrInv
  <2>3. RtuInv'
    BY <2>2, <1>0, <1>2, RtuSilence
  <2> QED BY <2>1, <2>2, <2>3, <1>0 DEF FrInv
<1>3. CASE UNCHANGED frVars
  BY <1>3 DEF FrInv, frVars, TcpInv, AsciiInv, RtuInv, RtuStart, Kept, Gaps
<1> QED BY <1>1, <1>2, <1>3 DEF FrNext

(* So it holds always.                                                     *)
LEMMA FrAlways == FrSpec => []FrInv
BY FrInit_FrInv, FrNext_FrInv, PTL DEF FrSpec

-----------------------------------------------------------------------------
(* What was emitted, as a set, and its order.                              *)
LEMMA EmittedIs ==
  ASSUME NEW S \in Nat, InOrder(frOut, S)
  PROVE  /\ Emitted = Emissions(frOut)
         /\ \A i, j \in DOMAIN frOut : i < j => frOut[i][2] < frOut[j][1]
<1>1. DOMAIN frOut = 1..Len(frOut)
  BY DEF InOrder
<1> QED BY <1>1 DEF Emitted, Emissions, InOrder

(* What RTU has found since the scan began.                                *)
LEMMA RtuFindsAll ==
  ASSUME Tiled(frLine), RtuSent(frLine), RtuInv, NEW f \in After(RtuStart)
  PROVE  f \in Emitted <=> f \notin frGapped
<1>1. PICK p \in Nat, S \in Nat : p = RtuStart /\ S = Kept /\ S <= frFed /\ frFed \in Nat
  <2>1. RtuStart \in Nat
    BY DEF RtuInv, RtuStart
  <2>2. Kept \in Nat /\ Kept <= frFed /\ frFed \in Nat
    BY DEF RtuInv, Kept
  <2> QED BY <2>1, <2>2
<1>2. RtuAt(frLine, p, S, frOut, frGapped)
  BY <1>1 DEF RtuInv
<1>3. \A g \in Ahead(frLine, p) : g[1] = S + 1 => frFed < g[2]
  <2>1. S + 0 + 1 = S + 1
    OBVIOUS
  <2> QED BY <2>1, <1>1 DEF RtuInv, RtuDue
<1>4. f \in Ahead(frLine, p) /\ f[2] <= frFed
  BY <1>1, AfterAhead
<1>5. f[2] <= S
  BY <1>1, <1>2, <1>3, <1>4, Received DEF RtuAt
<1>6. Emitted = Emissions(frOut)
  BY <1>2, EmittedIs DEF RtuAt
<1> QED BY <1>2, <1>4, <1>5, <1>6 DEF RtuAt

(* What each layer has found, of what was sent.                            *)
LEMMA FrInv_FramesAsSent == FrInv => FramesAsSent
<1> SUFFICES ASSUME FrInv PROVE FramesAsSent
  OBVIOUS
<1>0. Tiled(frLine)
  BY DEF FrInv
<1>1. CASE frLine.proto = "tcp" /\ TcpSent(frLine) /\ TcpInv
  <2>1. PICK p \in Nat, S \in Nat : p = frSync /\ S = Kept /\ S <= frFed /\ frFed \in Nat
    BY <1>1 DEF TcpInv, Kept
  <2>2. TcpAt(frLine, p, S, frOut)
    BY <1>1, <2>1 DEF TcpInv
  <2>3. /\ Emitted = Emissions(frOut)
        /\ \A i, j \in DOMAIN frOut : i < j => frOut[i][2] < frOut[j][1]
    BY <2>2, EmittedIs DEF TcpAt
  <2>4. frLine.noise = {} => Emitted \subseteq frLine.frames
    BY <2>2, <2>3 DEF TcpAt
  <2>5. ASSUME NEW f \in After(p) PROVE f \in Emitted
    <3>1. f \in Ahead(frLine, p) /\ f[2] <= frFed
      BY <2>5, AfterAhead
    <3>2. \A g \in Ahead(frLine, p) : g[1] = S + 1 => frFed < g[2]
      BY <1>1, <2>1 DEF TcpInv
    <3>3. f[2] <= S
      BY <1>0, <2>1, <2>2, <3>1, <3>2, Received DEF TcpAt
    <3> QED BY <2>2, <2>3, <3>1, <3>3 DEF TcpAt
  <2>6. After(frSync) \subseteq Emitted
    BY <2>1, <2>5
  <2> QED BY <1>1, <2>3, <2>4, <2>6 DEF FramesAsSent
<1>2. CASE frLine.proto = "ascii" /\ AsciiSent(frLine) /\ AsciiInv
  <2>1. frFed \in Nat /\ OverEmitted(frLine, frFed, frOut)
    BY <1>2 DEF AsciiInv, AsciiAt
  <2>2. /\ Emitted = Emissions(frOut)
        /\ \A i, j \in DOMAIN frOut : i < j => frOut[i][2] < frOut[j][1]
    BY <2>1, EmittedIs DEF OverEmitted
  <2>3. Emitted = {f \in frLine.frames : f[2] <= frFed}
    BY <2>1, <2>2 DEF OverEmitted
  <2> QED BY <1>2, <2>2, <2>3 DEF FramesAsSent
<1>3. CASE frLine.proto = "rtu" /\ RtuSent(frLine) /\ RtuInv
  <2>1. PICK S \in Nat : S = Kept
    BY <1>3 DEF RtuInv, Kept
  <2>2. RtuAt(frLine, RtuStart, S, frOut, frGapped) /\ Gaps(frGapped, frFed)
    BY <1>3, <2>1 DEF RtuInv
  <2>3. /\ Emitted = Emissions(frOut)
        /\ \A i, j \in DOMAIN frOut : i < j => frOut[i][2] < frOut[j][1]
    BY <2>2, EmittedIs DEF RtuAt
  <2>4. Emitted \subseteq frLine.frames
    BY <2>2, <2>3 DEF RtuAt
  <2>5. ~frLine.strict /\ frSilent = -1 => After(0) \subseteq Emitted
    <3> SUFFICES ASSUME ~frLine.strict, frSilent = -1, NEW f \in After(0) PROVE f \in Emitted
      OBVIOUS
    <3>1. RtuStart = 0
      BY DEF RtuStart
    <3>2. frGapped = {}
      BY <2>2 DEF Gaps
    <3> QED BY <3>1, <3>2, <1>0, <1>3, RtuFindsAll
  <2> QED BY <1>3, <2>3, <2>4, <2>5 DEF FramesAsSent
<1> QED BY <1>1, <1>2, <1>3 DEF FrInv

(* A silence begins the scan anew.                                         *)
LEMMA FrInv_CleanAfterSilence == FrInv => CleanAfterSilence
<1> SUFFICES ASSUME FrInv, frLine.proto = "rtu", ~frLine.strict, frSilent >= 0, NEW f \in After(frSilent)
             PROVE  f \in Emitted
  BY DEF CleanAfterSilence
<1>1. Tiled(frLine) /\ RtuSent(frLine) /\ RtuInv
  BY DEF FrInv
<1>2. RtuStart = frSilent
  BY DEF RtuStart
<1>3. frGapped = {}
  BY <1>1 DEF RtuInv, Gaps
<1> QED BY <1>1, <1>2, <1>3, RtuFindsAll

(* With strict timing only frames with a gap are missing.                  *)
LEMMA FrInv_NoGapInside == FrInv => NoGapInside
<1> SUFFICES ASSUME FrInv, frLine.proto = "rtu", frLine.strict
             PROVE  After(RtuStart) \cap Emitted = After(RtuStart) \ frGapped
  BY DEF NoGapInside, RtuStart
<1>1. Tiled(frLine) /\ RtuSent(frLine) /\ RtuInv
  BY DEF FrInv
<1>2. \A f \in After(RtuStart) : f \in Emitted <=> f \notin frGapped
  BY <1>1, RtuFindsAll
<1> QED BY <1>2

(* For any line whose frames are as their layer sends them and any noise   *)
(* between, decode() of the TCP, ASCII and RTU layers gives the frames out *)
(* as they were sent, once and in order, however the transport splits and  *)
(* joins the bytes into chunks.                                            *)
THEOREM FramesSent == FrSpec => []FramesAsSent
BY FrAlways, FrInv_FramesAsSent, PTL

(* Whatever noise made the length predictor of RTU expect, once the t3.5   *)
(* timer has discarded the residual no frame that follows is lost.         *)
THEOREM SilenceCleans == FrSpec => []CleanAfterSilence
BY FrAlways, FrInv_CleanAfterSilence, PTL

(* With strictTiming decode() of RTU drops the frames with a gap of t1.5   *)
(* inside and no other, though _t15Marker is moved from chunk to chunk     *)
(* with the bytes that are kept.                                           *)
THEOREM GapsDrop == FrSpec => []NoGapInside
BY FrAlways, FrInv_NoGapInside, PTL
=============================================================================
