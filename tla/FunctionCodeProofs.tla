------------------------- MODULE FunctionCodeProofs -------------------------
(***************************************************************************)
(* Theorems about FunctionCodes, for requests with any arguments, and      *)
(* their proofs: first what bytes say of numbers, then a request on its    *)
(* way to the model, then the answer on its way back; and, at the end, the *)
(* walk of DeviceIdentification.                                           *)
(***************************************************************************)
EXTENDS FunctionCodes, DeviceIdentification, FiniteSetTheorems, SequenceTheorems, TLAPS

(* Words: the two bytes of a number, read back, are its low 16 bits.       *)
LEMMA WordFacts ==
  \A n \in Nat : /\ Word(n) \in Seq(Nat) /\ Len(Word(n)) = 2
                 /\ (Word(n)[1] * 256) + Word(n)[2] = Wire(n)
BY DEF Word, Wire

LEMMA WireSame == ASSUME NEW n \in Nat, n <= 65535 PROVE Wire(n) = n
BY DEF Wire

(* One list behind another, and a byte and more behind a head.             *)
IsJoined(d, s, t) ==
  /\ d \in Seq(Nat) /\ Len(d) = Len(s) + Len(t)
  /\ \A i \in 1..(Len(s) + Len(t)) : d[i] = IF i <= Len(s) THEN s[i] ELSE t[i - Len(s)]
IsBehind(d, h, c, t) ==
  /\ d \in Seq(Nat) /\ Len(d) = Len(h) + 1 + Len(t)
  /\ \A i \in 1..Len(h) : d[i] = h[i]
  /\ d[Len(h) + 1] = c
  /\ \A i \in 1..Len(t) : d[Len(h) + 1 + i] = t[i]

LEMMA Joined ==
  ASSUME NEW s \in Seq(Nat), NEW t \in Seq(Nat)
  PROVE  IsJoined(s \o t, s, t)
BY ConcatProperties DEF IsJoined

LEMMA Behind ==
  ASSUME NEW h \in Seq(Nat), NEW c \in Nat, NEW t \in Seq(Nat)
  PROVE  IsBehind(h \o <<c>> \o t, h, c, t)
<1> DEFINE w == <<c>>
           g == h \o w
           d == g \o t
<1>1. w \in Seq(Nat) /\ Len(w) = 1 /\ w[1] = c
  OBVIOUS
<1>2. Len(h) \in Nat /\ Len(t) \in Nat
  BY LenProperties
<1> HIDE DEF w
<1>3. IsJoined(g, h, w)
  BY <1>1, Joined
<1> HIDE DEF g
<1>4. g \in Seq(Nat) /\ Len(g) = Len(h) + 1
  BY <1>1, <1>3 DEF IsJoined
<1>5. IsJoined(d, g, t)
  BY <1>4, Joined
<1> HIDE DEF d
<1>6. d \in Seq(Nat) /\ Len(d) = Len(g) + Len(t)
  BY <1>5 DEF IsJoined
<1>7. ASSUME NEW i \in 1..(Len(h) + 1) PROVE d[i] = g[i]
  <2>1. i \in 1..(Len(g) + Len(t)) /\ i <= Len(g)
    BY <1>2, <1>4
  <2> QED BY <1>5, <2>1 DEF IsJoined
<1>8. ASSUME NEW i \in 1..Len(h) PROVE g[i] = h[i] /\ i \in 1..(Len(h) + 1)
  <2>1. i \in 1..(Len(h) + Len(w)) /\ i <= Len(h) /\ i \in 1..(Len(h) + 1)
    BY <1>1, <1>2
  <2> QED BY <1>3, <2>1 DEF IsJoined
<1>9. g[Len(h) + 1] = c
  <2> DEFINE k == Len(h) + 1
  <2>1. k \in 1..(Len(h) + Len(w)) /\ ~(k <= Len(h)) /\ k - Len(h) = 1
    BY <1>1, <1>2
  <2> HIDE DEF k
  <2>2. g[k] = w[k - Len(h)]
    BY <1>3, <2>1 DEF IsJoined
  <2> QED BY <2>1, <2>2, <1>1 DEF k
<1>10. ASSUME NEW i \in 1..Len(t) PROVE d[Len(h) + 1 + i] = t[i]
  <2> DEFINE k == Len(h) + 1 + i
  <2>1. k \in 1..(Len(g) + Len(t)) /\ ~(k <= Len(g)) /\ k - Len(g) = i
    BY <1>2, <1>4
  <2> HIDE DEF k
  <2>2. d[k] = t[k - Len(g)]
    BY <1>5, <2>1 DEF IsJoined
  <2> QED BY <2>1, <2>2 DEF k
<1>11. d[Len(h) + 1] = c
  <2>1. Len(h) + 1 \in 1..(Len(h) + 1)
    BY <1>2
  <2> QED BY <2>1, <1>7, <1>9
<1>12. \A i \in 1..Len(h) : d[i] = h[i]
  BY <1>7, <1>8
<1>13. Len(d) = Len(h) + 1 + Len(t)
  BY <1>2, <1>4, <1>6
<1>14. IsBehind(d, h, c, t)
  BY <1>6, <1>10, <1>11, <1>12, <1>13 DEF IsBehind
<1> QED BY <1>14 DEF d, g, w

(* A part of a list that reads as another list is that list.               *)
LEMMA Part ==
  ASSUME NEW d \in Seq(Nat), NEW t \in Seq(Nat), NEW i \in Nat \ {0}, NEW n \in Nat,
         n = i + Len(t) - 1, n <= Len(d), \A j \in 1..Len(t) : d[i + j - 1] = t[j]
  PROVE  SubSeq(d, i, n) = t
<1>1. Len(t) \in Nat /\ Len(d) \in Nat
  BY LenProperties
<1>2. ASSUME NEW j \in i..n PROVE d[j] \in Nat
  <2>1. j \in 1..Len(d)
    BY <1>1
  <2> QED BY <2>1, ElementOfSeq
<1>3. i \in Int /\ n \in Int
  OBVIOUS
<1>4. PICK s : s = SubSeq(d, i, n)
  OBVIOUS
<1>5. /\ s \in Seq(Nat) /\ Len(s) = IF i <= n THEN n - i + 1 ELSE 0
      /\ \A j \in 1..(n - i + 1) : s[j] = d[i + j - 1]
  BY <1>2, <1>3, <1>4, SubSeqProperties
<1>6. n - i + 1 = Len(t) /\ (~(i <= n) => Len(t) = 0)
  BY <1>1
<1>7. Len(s) = Len(t) /\ \A j \in 1..Len(s) : s[j] = t[j]
  BY <1>5, <1>6
<1>8. s \in Seq(Nat)
  BY <1>5
<1>9. s = t
  BY <1>7, <1>8, SeqEqual
<1> QED BY <1>4, <1>9

(* A PDU of words alone.                                                   *)
AreWords2(d, a, b) ==
  /\ d \in Seq(Nat) /\ Len(d) = 4
  /\ WordAt(d, 1) = Wire(a) /\ WordAt(d, 3) = Wire(b)
AreWords3(d, a, b, c) ==
  /\ d \in Seq(Nat) /\ Len(d) = 6
  /\ WordAt(d, 1) = Wire(a) /\ WordAt(d, 3) = Wire(b) /\ WordAt(d, 5) = Wire(c)
AreWords4(d, a, b, c, e) ==
  /\ d \in Seq(Nat) /\ Len(d) = 8
  /\ WordAt(d, 1) = Wire(a) /\ WordAt(d, 3) = Wire(b)
  /\ WordAt(d, 5) = Wire(c) /\ WordAt(d, 7) = Wire(e)

LEMMA TwoWords ==
  ASSUME NEW a \in Nat, NEW b \in Nat
  PROVE  AreWords2(Word(a) \o Word(b), a, b)
<1> DEFINE d == Word(a) \o Word(b)
<1>1. /\ Word(a) \in Seq(Nat) /\ Len(Word(a)) = 2
      /\ Word(a)[1] = (a \div 256) % 256 /\ Word(a)[2] = a % 256
      /\ Word(b) \in Seq(Nat) /\ Len(Word(b)) = 2
      /\ Word(b)[1] = (b \div 256) % 256 /\ Word(b)[2] = b % 256
  BY DEF Word
<1>6. Word(a) \in Seq(Nat) /\ Word(b) \in Seq(Nat)
  BY <1>1
<1>2. IsJoined(d, Word(a), Word(b))
  BY <1>6, Joined
<1> HIDE DEF d
<1>5. /\ d \in Seq(Nat) /\ Len(d) = 4
      /\ d[1] = Word(a)[1] /\ d[2] = Word(a)[2] /\ d[3] = Word(b)[1] /\ d[4] = Word(b)[2]
  BY <1>1, <1>2 DEF IsJoined
<1>3. WordAt(d, 1) = ((a \div 256) % 256) * 256 + (a % 256)
      /\ WordAt(d, 3) = ((b \div 256) % 256) * 256 + (b % 256)
  BY <1>1, <1>5 DEF WordAt
<1>4. ((a \div 256) % 256) * 256 + (a % 256) = Wire(a)
      /\ ((b \div 256) % 256) * 256 + (b % 256) = Wire(b)
  BY DEF Wire
<1> QED BY <1>5, <1>3, <1>4 DEF d, AreWords2

LEMMA WordsFacts ==
  ASSUME NEW vs \in Seq(Nat)
  PROVE  /\ Words(vs) \in Seq(Nat) /\ Len(Words(vs)) = 2 * Len(vs) /\ Len(vs) \in Nat
         /\ \A k \in 1..Len(vs) :
              /\ 2 * k - 1 \in 1..(2 * Len(vs)) /\ 2 * k \in 1..(2 * Len(vs))
              /\ (Words(vs)[2 * k - 1] * 256) + Words(vs)[2 * k] = Wire(vs[k])
<1>1. Len(vs) \in Nat /\ 2 * Len(vs) \in Nat
  BY LenProperties
<1>2. ASSUME NEW i \in 1..(2 * Len(vs))
      PROVE  /\ (i + 1) \div 2 \in 1..Len(vs) /\ 2 - (i % 2) \in 1..2
             /\ Word(vs[(i + 1) \div 2])[2 - (i % 2)] \in Nat
  <2>1. (i + 1) \div 2 \in 1..Len(vs) /\ 2 - (i % 2) \in 1..2
    BY <1>1
  <2>2. vs[(i + 1) \div 2] \in Nat
    BY <2>1, ElementOfSeq
  <2>3. \A n \in Nat : Word(n)[1] \in Nat /\ Word(n)[2] \in Nat
    BY DEF Word
  <2>4. 2 - (i % 2) = 1 \/ 2 - (i % 2) = 2
    BY <2>1
  <2> QED BY <2>1, <2>2, <2>3, <2>4
<1>3. Words(vs) \in [1..(2 * Len(vs)) -> Nat]
  BY <1>2 DEF Words
<1>4. Words(vs) \in Seq(Nat) /\ Len(Words(vs)) = 2 * Len(vs)
  BY <1>1, <1>3
<1>5. ASSUME NEW k \in 1..Len(vs)
      PROVE  /\ 2 * k - 1 \in 1..(2 * Len(vs)) /\ 2 * k \in 1..(2 * Len(vs))
             /\ (Words(vs)[2 * k - 1] * 256) + Words(vs)[2 * k] = Wire(vs[k])
  <2>1. /\ 2 * k - 1 \in 1..(2 * Len(vs)) /\ 2 * k \in 1..(2 * Len(vs))
        /\ ((2 * k - 1) + 1) \div 2 = k /\ (2 * k + 1) \div 2 = k
        /\ 2 - ((2 * k - 1) % 2) = 1 /\ 2 - ((2 * k) % 2) = 2
    BY <1>1
  <2>2. Words(vs)[2 * k - 1] = Word(vs[k])[1] /\ Words(vs)[2 * k] = Word(vs[k])[2]
    BY <2>1 DEF Words
  <2>3. vs[k] \in Nat
    BY ElementOfSeq
  <2>4. \A n \in Nat : (Word(n)[1] * 256) + Word(n)[2] = Wire(n)
    BY WordFacts
  <2> QED BY <2>1, <2>2, <2>3, <2>4
<1> QED BY <1>1, <1>4, <1>5

(* Words found in a PDU from its i-th byte on.                             *)
LEMMA WordsBack ==
  ASSUME NEW vs \in Seq(Nat), NEW d, NEW i \in Nat,
         \A j \in 1..(2 * Len(vs)) : d[i + j - 1] = Words(vs)[j]
  PROVE  WordsAt(d, i, Len(vs)) = [k \in DOMAIN vs |-> Wire(vs[k])]
<1>1. DOMAIN vs = 1..Len(vs) /\ Len(vs) \in Nat
  BY LenProperties
<1>2. ASSUME NEW k \in 1..Len(vs) PROVE WordAt(d, i + 2 * (k - 1)) = Wire(vs[k])
  <2>1. /\ 2 * k - 1 \in 1..(2 * Len(vs)) /\ 2 * k \in 1..(2 * Len(vs))
        /\ (Words(vs)[2 * k - 1] * 256) + Words(vs)[2 * k] = Wire(vs[k])
    BY WordsFacts
  <2>2. i + (2 * k - 1) - 1 = i + 2 * (k - 1) /\ i + 2 * k - 1 = i + 2 * (k - 1) + 1
    BY <1>1
  <2>3. d[i + 2 * (k - 1)] = Words(vs)[2 * k - 1] /\ d[i + 2 * (k - 1) + 1] = Words(vs)[2 * k]
    BY <2>1, <2>2
  <2> QED BY <2>1, <2>3 DEF WordAt
<1> QED BY <1>1, <1>2 DEF WordsAt

(* Coils: eight to a byte, the first the lowest.                           *)
LEMMA Powers ==
  2^0 = 1 /\ 2^1 = 2 /\ 2^2 = 4 /\ 2^3 = 8 /\ 2^4 = 16 /\ 2^5 = 32 /\ 2^6 = 64 /\ 2^7 = 128
OBVIOUS

LEMMA BitType == ASSUME NEW cs \in Seq(Nat), NEW i \in Nat \ {0} PROVE Bit(cs, i) \in {0, 1}
<1>1. CASE i <= Len(cs)
  <2>1. cs[i] \in Nat
    BY <1>1, LenProperties, ElementOfSeq
  <2> QED BY <1>1, <2>1 DEF Bit
<1>2. CASE ~(i <= Len(cs))
  BY <1>2 DEF Bit
<1> QED BY <1>1, <1>2

LEMMA Lowest ==
  ASSUME NEW a \in {0, 1}, NEW m \in Nat
  PROVE  a + 2 * m \in Nat /\ (a + 2 * m) % 2 = a /\ (a + 2 * m) \div 2 = m
OBVIOUS

LEMMA Dropped ==
  ASSUME NEW s \in Nat
  PROVE  /\ s \div 4 = (s \div 2) \div 2 /\ s \div 8 = (s \div 4) \div 2
         /\ s \div 16 = (s \div 8) \div 2 /\ s \div 32 = (s \div 16) \div 2
         /\ s \div 64 = (s \div 32) \div 2 /\ s \div 128 = (s \div 64) \div 2
<1>1. s \div 4 = (s \div 2) \div 2
  OBVIOUS
<1>2. s \div 8 = (s \div 4) \div 2
  OBVIOUS
<1>3. s \div 16 = (s \div 8) \div 2
  OBVIOUS
<1>4. s \div 32 = (s \div 16) \div 2
  OBVIOUS
<1>5. s \div 64 = (s \div 32) \div 2
  OBVIOUS
<1>6. s \div 128 = (s \div 64) \div 2
  OBVIOUS
<1> QED BY <1>1, <1>2, <1>3, <1>4, <1>5, <1>6

LEMMA PackedFacts ==
  ASSUME NEW cs \in Seq(Nat), NEW n \in Nat
  PROVE  /\ Packed(cs, n) \in Seq(Nat) /\ Len(Packed(cs, n)) = BytesFor(n)
         /\ BytesFor(n) \in Nat
         /\ \A k \in 1..n :
              /\ ((k - 1) \div 8) + 1 \in 1..BytesFor(n)
              /\ (Packed(cs, n)[((k - 1) \div 8) + 1] \div (2 ^ ((k - 1) % 8))) % 2 = Bit(cs, k)
<1> DEFINE at(b, k) == IF 8 * b - 8 + k <= n THEN Bit(cs, 8 * b - 8 + k) ELSE 0
<1>1. BytesFor(n) \in Nat
  BY DEF BytesFor
<1>2. \A b \in 1..BytesFor(n) : \A k \in 1..8 : at(b, k) \in {0, 1}
  <2> SUFFICES ASSUME NEW b \in 1..BytesFor(n), NEW k \in 1..8 PROVE at(b, k) \in {0, 1}
    OBVIOUS
  <2>1. 8 * b - 8 + k \in Nat \ {0}
    BY <1>1
  <2> QED BY <2>1, BitType
<1>3. \A b \in 1..BytesFor(n) :
        Packed(cs, n)[b] = at(b, 1) + 2 * at(b, 2) + 4 * at(b, 3) + 8 * at(b, 4) + 16 * at(b, 5)
                           + 32 * at(b, 6) + 64 * at(b, 7) + 128 * at(b, 8)
  BY DEF Packed
<1>4. DOMAIN Packed(cs, n) = 1..BytesFor(n) /\ Packed(cs, n) = [b \in 1..BytesFor(n) |-> Packed(cs, n)[b]]
  BY DEF Packed
<1> HIDE DEF at
<1>5. ASSUME NEW b \in 1..BytesFor(n)
      PROVE  /\ Packed(cs, n)[b] \in Nat
             /\ \A j \in 0..7 : (Packed(cs, n)[b] \div (2 ^ j)) % 2 = at(b, j + 1)
  <2>1. /\ at(b, 1) \in {0, 1} /\ at(b, 2) \in {0, 1} /\ at(b, 3) \in {0, 1} /\ at(b, 4) \in {0, 1}
        /\ at(b, 5) \in {0, 1} /\ at(b, 6) \in {0, 1} /\ at(b, 7) \in {0, 1} /\ at(b, 8) \in {0, 1}
    BY <1>2
  <2> DEFINE s == Packed(cs, n)[b]
  <2>2. s = at(b, 1) + 2 * at(b, 2) + 4 * at(b, 3) + 8 * at(b, 4) + 16 * at(b, 5)
            + 32 * at(b, 6) + 64 * at(b, 7) + 128 * at(b, 8)
    BY <1>3
  <2> HIDE DEF s
  <2>3. /\ s \in Nat
        /\ s % 2 = at(b, 1) /\ (s \div 2) % 2 = at(b, 2) /\ (s \div 4) % 2 = at(b, 3)
        /\ (s \div 8) % 2 = at(b, 4) /\ (s \div 16) % 2 = at(b, 5) /\ (s \div 32) % 2 = at(b, 6)
        /\ (s \div 64) % 2 = at(b, 7) /\ (s \div 128) % 2 = at(b, 8)
    <3> DEFINE a1 == at(b, 1)  a2 == at(b, 2)  a3 == at(b, 3)  a4 == at(b, 4)
               a5 == at(b, 5)  a6 == at(b, 6)  a7 == at(b, 7)  a8 == at(b, 8)
    <3>1. /\ a1 \in {0, 1} /\ a2 \in {0, 1} /\ a3 \in {0, 1} /\ a4 \in {0, 1}
          /\ a5 \in {0, 1} /\ a6 \in {0, 1} /\ a7 \in {0, 1} /\ a8 \in {0, 1}
      BY <2>1
    <3>2. s = a1 + 2 * a2 + 4 * a3 + 8 * a4 + 16 * a5 + 32 * a6 + 64 * a7 + 128 * a8
      BY <2>2
    <3> HIDE DEF a1, a2, a3, a4, a5, a6, a7, a8
    <3> DEFINE m7 == a7 + 2 * a8
               m6 == a6 + 2 * m7
               m5 == a5 + 2 * m6
               m4 == a4 + 2 * m5
               m3 == a3 + 2 * m4
               m2 == a2 + 2 * m3
    <3>3. s = a1 + 2 * m2
      BY <3>1, <3>2
    <3>4. m7 \in Nat /\ m7 % 2 = a7 /\ m7 \div 2 = a8
      BY <3>1, Lowest
    <3> HIDE DEF m7
    <3>5. m6 \in Nat /\ m6 % 2 = a6 /\ m6 \div 2 = m7
      BY <3>1, <3>4, Lowest
    <3> HIDE DEF m6
    <3>6. m5 \in Nat /\ m5 % 2 = a5 /\ m5 \div 2 = m6
      BY <3>1, <3>5, Lowest
    <3> HIDE DEF m5
    <3>7. m4 \in Nat /\ m4 % 2 = a4 /\ m4 \div 2 = m5
      BY <3>1, <3>6, Lowest
    <3> HIDE DEF m4
    <3>8. m3 \in Nat /\ m3 % 2 = a3 /\ m3 \div 2 = m4
      BY <3>1, <3>7, Lowest
    <3> HIDE DEF m3
    <3>9. m2 \in Nat /\ m2 % 2 = a2 /\ m2 \div 2 = m3
      BY <3>1, <3>8, Lowest
    <3> HIDE DEF m2
    <3>10. s \in Nat /\ s % 2 = a1 /\ s \div 2 = m2
      BY <3>1, <3>3, <3>9, Lowest
    <3>14. /\ s \div 4 = (s \div 2) \div 2 /\ s \div 8 = (s \div 4) \div 2
           /\ s \div 16 = (s \div 8) \div 2 /\ s \div 32 = (s \div 16) \div 2
           /\ s \div 64 = (s \div 32) \div 2 /\ s \div 128 = (s \div 64) \div 2
      BY <3>10, Dropped
    <3>15. s \div 4 = m3 /\ s \div 8 = m4 /\ s \div 16 = m5
      BY <3>7, <3>8, <3>9, <3>10, <3>14, Zenon
    <3>16. s \div 32 = m6 /\ s \div 64 = m7 /\ s \div 128 = a8
      BY <3>4, <3>5, <3>6, <3>15, <3>14, Zenon
    <3>11. /\ s \div 4 = m3 /\ s \div 8 = m4 /\ s \div 16 = m5
           /\ s \div 32 = m6 /\ s \div 64 = m7 /\ s \div 128 = a8
      BY <3>15, <3>16
    <3>12. a8 % 2 = a8
      BY <3>1
    <3>13. /\ s \in Nat
           /\ s % 2 = a1 /\ (s \div 2) % 2 = a2 /\ (s \div 4) % 2 = a3 /\ (s \div 8) % 2 = a4
           /\ (s \div 16) % 2 = a5 /\ (s \div 32) % 2 = a6 /\ (s \div 64) % 2 = a7
           /\ (s \div 128) % 2 = a8
      BY <3>4, <3>5, <3>6, <3>7, <3>8, <3>9, <3>10, <3>11, <3>12
    <3> QED BY <3>13 DEF a1, a2, a3, a4, a5, a6, a7, a8
  <2>4. s \div 1 = s
    BY <2>3
  <2>5. ASSUME NEW j \in 0..7 PROVE (s \div (2 ^ j)) % 2 = at(b, j + 1)
    <3>1. j = 0 \/ j = 1 \/ j = 2 \/ j = 3 \/ j = 4 \/ j = 5 \/ j = 6 \/ j = 7
      OBVIOUS
    <3>2. \A x : x = s \div (2 ^ j) => x % 2 = at(b, j + 1)
      <4> SUFFICES ASSUME NEW x, x = s \div (2 ^ j) PROVE x % 2 = at(b, j + 1)
        OBVIOUS
      <4>0. CASE j = 0
        BY <2>3, <2>4, <4>0, Powers
      <4>1. CASE j = 1
        BY <2>3, <4>1, Powers
      <4>2. CASE j = 2
        BY <2>3, <4>2, Powers
      <4>3. CASE j = 3
        BY <2>3, <4>3, Powers
      <4>4. CASE j = 4
        BY <2>3, <4>4, Powers
      <4>5. CASE j = 5
        BY <2>3, <4>5, Powers
      <4>6. CASE j = 6
        BY <2>3, <4>6, Powers
      <4>7. CASE j = 7
        BY <2>3, <4>7, Powers
      <4> QED BY <3>1, <4>0, <4>1, <4>2, <4>3, <4>4, <4>5, <4>6, <4>7
    <3> QED BY <3>2
  <2> QED BY <2>3, <2>5 DEF s
<1>6. Packed(cs, n) \in Seq(Nat) /\ Len(Packed(cs, n)) = BytesFor(n)
  <2>1. Packed(cs, n) \in [1..BytesFor(n) -> Nat]
    BY <1>4, <1>5
  <2> QED BY <1>1, <2>1
<1>7. ASSUME NEW k \in 1..n
      PROVE  /\ ((k - 1) \div 8) + 1 \in 1..BytesFor(n)
             /\ (Packed(cs, n)[((k - 1) \div 8) + 1] \div (2 ^ ((k - 1) % 8))) % 2 = Bit(cs, k)
  <2> DEFINE b == ((k - 1) \div 8) + 1
             j == (k - 1) % 8
  <2>1. b \in 1..BytesFor(n) /\ j \in 0..7 /\ 8 * b - 8 + (j + 1) = k
    BY DEF BytesFor
  <2>2. at(b, j + 1) = Bit(cs, k)
    BY <2>1 DEF at
  <2> HIDE DEF b, j
  <2>3. (Packed(cs, n)[b] \div (2 ^ j)) % 2 = Bit(cs, k)
    BY <1>5, <2>1, <2>2
  <2> QED BY <2>1, <2>3 DEF b, j
<1> QED BY <1>1, <1>6, <1>7

LEMMA PackedLength ==
  ASSUME NEW cs \in Seq(Nat), NEW n \in Nat
  PROVE  Packed(cs, n) \in Seq(Nat) /\ Len(Packed(cs, n)) = BytesFor(n) /\ BytesFor(n) \in Nat
BY PackedFacts

(* Coils found in a PDU from its i-th byte on.                             *)
LEMMA CoilsBack ==
  ASSUME NEW cs \in Seq(Nat), NEW n \in Nat, NEW d, NEW i \in Nat,
         \A j \in 1..BytesFor(n) : d[i + j - 1] = Packed(cs, n)[j]
  PROVE  Unpacked(d, i, n) = [k \in 1..n |-> Bit(cs, k)]
<1>1. ASSUME NEW k \in 1..n
      PROVE  (d[i + ((k - 1) \div 8)] \div (2 ^ ((k - 1) % 8))) % 2 = Bit(cs, k)
  <2>1. /\ ((k - 1) \div 8) + 1 \in 1..BytesFor(n)
        /\ (Packed(cs, n)[((k - 1) \div 8) + 1] \div (2 ^ ((k - 1) % 8))) % 2 = Bit(cs, k)
    BY PackedFacts
  <2>2. i + (((k - 1) \div 8) + 1) - 1 = i + ((k - 1) \div 8)
    OBVIOUS
  <2>3. d[i + ((k - 1) \div 8)] = Packed(cs, n)[((k - 1) \div 8) + 1]
    BY <2>1, <2>2
  <2> QED BY <2>1, <2>3
<1> QED BY <1>1 DEF Unpacked
-----------------------------------------------------------------------------
(* Which method, handler and meaning belong to a function code.            *)
LEMMA MethodOf ==
  ASSUME NEW r
  PROVE  /\ r.fc \in {1, 2} => Method(r) = writeFC1Or2(r)
         /\ r.fc \in {3, 4} => Method(r) = writeFC3Or4(r)
         /\ r.fc = 5 => Method(r) = writeSingleCoil(r)
         /\ r.fc = 6 => Method(r) = writeSingleRegister(r)
         /\ r.fc = 8 => Method(r) = diagnosticsReturnQueryData(r)
         /\ r.fc = 15 => Method(r) = writeMultipleCoils(r)
         /\ r.fc = 16 => Method(r) = writeMultipleRegisters(r)
         /\ r.fc = 17 => Method(r) = reportServerId(r)
         /\ r.fc = 22 => Method(r) = maskWriteRegister(r)
         /\ r.fc = 23 => Method(r) = readAndWriteMultipleRegisters(r)
         /\ r.fc = CustomCode => Method(r) = sendCustomFC(r)
BY FunctionCodesAssumption DEF Method, Standard

LEMMA HandlerOf ==
  ASSUME NEW d
  PROVE  /\ handleFC(1, d) = handleFC1(d) /\ handleFC(2, d) = handleFC2(d)
         /\ handleFC(3, d) = handleFC3(d) /\ handleFC(4, d) = handleFC4(d)
         /\ handleFC(5, d) = handleFC5(d) /\ handleFC(6, d) = handleFC6(d)
         /\ handleFC(8, d) = handleFC8(d) /\ handleFC(15, d) = handleFC15(d)
         /\ handleFC(16, d) = handleFC16(d) /\ handleFC(17, d) = handleFC17(d)
         /\ handleFC(22, d) = handleFC22(d) /\ handleFC(23, d) = handleFC23(d)
         /\ handleFC(CustomCode, d) = cfcResponse(d)
BY FunctionCodesAssumption DEF handleFC, Standard

LEMMA KnownCodes ==
  ASSUME NEW r \in Requests
  PROVE  /\ r.fc \in {1, 2, 3, 4, 5, 6, 8, 15, 16, 17, 22, 23} \cup {CustomCode}
         /\ r.fc \in Nat /\ CustomCode \notin {1, 2, 3, 4, 5, 6, 8, 15, 16, 17, 22, 23}
<1>1. r.fc \in Standard \cup {CustomCode} /\ CustomCode \notin Standard
  BY FunctionCodesAssumption
<1>2. CustomCode \in Nat
  BY FunctionCodesAssumption
<1> QED BY <1>1, <1>2 DEF Standard

(* A PDU with one more word, or with a byte and more behind its words.     *)
HasWordBehind(x, d, e) ==
  /\ x \in Seq(Nat) /\ Len(x) = Len(d) + 2
  /\ WordAt(x, Len(d) + 1) = Wire(e)
  /\ \A i \in 1..(Len(d) - 1) : WordAt(x, i) = WordAt(d, i)

LEMMA WordBehind ==
  ASSUME NEW d \in Seq(Nat), NEW e \in Nat
  PROVE  HasWordBehind(d \o Word(e), d, e)
<1> DEFINE x == d \o Word(e)
<1>1. /\ Word(e) \in Seq(Nat) /\ Len(Word(e)) = 2 /\ (Word(e)[1] * 256) + Word(e)[2] = Wire(e)
  BY WordFacts, Zenon
<1>2. Len(d) \in Nat
  BY LenProperties
<1>9. Word(e) \in Seq(Nat)
  BY <1>1
<1>3. IsJoined(x, d, Word(e))
  BY <1>9, Joined
<1> HIDE DEF x
<1>4. x \in Seq(Nat) /\ Len(x) = Len(d) + 2
  BY <1>1, <1>3 DEF IsJoined
<1>5. ASSUME NEW i \in 1..Len(d) PROVE x[i] = d[i]
  <2>1. i \in 1..(Len(d) + Len(Word(e))) /\ i <= Len(d)
    BY <1>1, <1>2
  <2> QED BY <1>3, <2>1 DEF IsJoined
<1>6. x[Len(d) + 1] = Word(e)[1] /\ x[Len(d) + 2] = Word(e)[2]
  <2>1. /\ Len(d) + 1 \in 1..(Len(d) + Len(Word(e))) /\ Len(d) + 2 \in 1..(Len(d) + Len(Word(e)))
        /\ ~(Len(d) + 1 <= Len(d)) /\ ~(Len(d) + 2 <= Len(d))
        /\ (Len(d) + 1) - Len(d) = 1 /\ (Len(d) + 2) - Len(d) = 2
    BY <1>1, <1>2
  <2>2. /\ x[Len(d) + 1] = Word(e)[(Len(d) + 1) - Len(d)]
        /\ x[Len(d) + 2] = Word(e)[(Len(d) + 2) - Len(d)]
    BY <2>1, <1>3 DEF IsJoined
  <2> QED BY <2>1, <2>2
<1>7. WordAt(x, Len(d) + 1) = Wire(e)
  <2>1. (Len(d) + 1) + 1 = Len(d) + 2
    BY <1>2
  <2> QED BY <2>1, <1>1, <1>6 DEF WordAt
<1>8. ASSUME NEW i \in 1..(Len(d) - 1) PROVE WordAt(x, i) = WordAt(d, i)
  <2>1. i \in 1..Len(d) /\ i + 1 \in 1..Len(d)
    BY <1>2
  <2>2. x[i] = d[i] /\ x[i + 1] = d[i + 1]
    BY <2>1, <1>5
  <2> QED BY <2>2 DEF WordAt
<1> QED BY <1>4, <1>7, <1>8 DEF x, HasWordBehind

LEMMA ThreeWords ==
  ASSUME NEW a \in Nat, NEW b \in Nat, NEW c \in Nat
  PROVE  AreWords3(Word(a) \o Word(b) \o Word(c), a, b, c)
<1> DEFINE g == Word(a) \o Word(b)
           d == g \o Word(c)
<1>1. AreWords2(g, a, b)
  BY TwoWords
<1> HIDE DEF g
<1>2. g \in Seq(Nat)
  BY <1>1 DEF AreWords2
<1>3. HasWordBehind(d, g, c)
  BY <1>2, WordBehind
<1> HIDE DEF d
<1>4. AreWords3(d, a, b, c)
  BY <1>1, <1>3 DEF AreWords2, AreWords3, HasWordBehind
<1> QED BY <1>4 DEF g, d

LEMMA FourWords ==
  ASSUME NEW a \in Nat, NEW b \in Nat, NEW c \in Nat, NEW e \in Nat
  PROVE  AreWords4(Word(a) \o Word(b) \o Word(c) \o Word(e), a, b, c, e)
<1> DEFINE g == Word(a) \o Word(b) \o Word(c)
           d == g \o Word(e)
<1>1. AreWords3(g, a, b, c)
  BY ThreeWords
<1> HIDE DEF g
<1>2. g \in Seq(Nat)
  BY <1>1 DEF AreWords3
<1>3. HasWordBehind(d, g, e)
  BY <1>2, WordBehind
<1> HIDE DEF d
<1>4. AreWords4(d, a, b, c, e)
  BY <1>1, <1>3 DEF AreWords3, AreWords4, HasWordBehind
<1> QED BY <1>4 DEF g, d

(* What a handler finds in such a PDU.                                     *)
Behind2(a, b, c, t) == Word(a) \o Word(b) \o <<c>> \o t
Behind4(a, b, u, v, c, t) == Word(a) \o Word(b) \o Word(u) \o Word(v) \o <<c>> \o t
ReadsAs2(d, a, b, c, t) ==
  /\ d \in Seq(Nat) /\ Len(d) = 5 + Len(t) /\ d[5] = c
  /\ WordAt(d, 1) = Wire(a) /\ WordAt(d, 3) = Wire(b)
  /\ \A j \in 1..Len(t) : d[6 + j - 1] = t[j]
ReadsAs4(d, a, b, u, v, c, t) ==
  /\ d \in Seq(Nat) /\ Len(d) = 9 + Len(t) /\ d[9] = c
  /\ WordAt(d, 1) = Wire(a) /\ WordAt(d, 3) = Wire(b)
  /\ WordAt(d, 5) = Wire(u) /\ WordAt(d, 7) = Wire(v)
  /\ \A j \in 1..Len(t) : d[10 + j - 1] = t[j]

LEMMA Behind2Facts ==
  ASSUME NEW a \in Nat, NEW b \in Nat, NEW c \in Nat, NEW t \in Seq(Nat)
  PROVE  /\ ReadsAs2(Behind2(a, b, c, t), a, b, c, t)
         /\ SubSeq(Behind2(a, b, c, t), 1, 4) = Word(a) \o Word(b)
<1> DEFINE h == Word(a) \o Word(b)
           d == h \o <<c>> \o t
<1>8. AreWords2(h, a, b)
  BY TwoWords
<1> HIDE DEF h
<1>9. Len(t) \in Nat
  BY LenProperties
<1>1. Len(h) = 4 /\ Len(t) \in Nat
  BY <1>8, <1>9 DEF AreWords2
<1>7. h \in Seq(Nat)
  BY <1>8 DEF AreWords2
<1>2. IsBehind(d, h, c, t)
  BY <1>7, Behind
<1> HIDE DEF d
<1>3. /\ d \in Seq(Nat) /\ Len(d) = 5 + Len(t) /\ d[5] = c
      /\ d[1] = h[1] /\ d[2] = h[2] /\ d[3] = h[3] /\ d[4] = h[4]
  BY <1>1, <1>2 DEF IsBehind
<1>4. ASSUME NEW j \in 1..Len(t) PROVE d[6 + j - 1] = t[j]
  <2>1. d[Len(h) + 1 + j] = t[j]
    BY <1>2 DEF IsBehind
  <2>2. Len(h) + 1 + j = 6 + j - 1
    BY <1>1
  <2> QED BY <2>1, <2>2
<1>5. WordAt(d, 1) = Wire(a) /\ WordAt(d, 3) = Wire(b)
  <2>1. d[1] = h[1] /\ d[1 + 1] = h[1 + 1] /\ d[3] = h[3] /\ d[3 + 1] = h[3 + 1]
    BY <1>3
  <2>2. WordAt(d, 1) = WordAt(h, 1) /\ WordAt(d, 3) = WordAt(h, 3)
    BY <2>1, Zenon DEF WordAt
  <2>3. WordAt(h, 1) = Wire(a) /\ WordAt(h, 3) = Wire(b)
    BY <1>8 DEF AreWords2
  <2> QED BY <2>2, <2>3
<1>6. SubSeq(d, 1, 4) = h
  <2>1. d[1] = h[1] /\ d[2] = h[2] /\ d[3] = h[3] /\ d[4] = h[4]
    BY <1>3
  <2>2. \A j \in 1..Len(h) : d[1 + j - 1] = h[j]
    <3>1. ASSUME NEW j \in 1..4 PROVE d[1 + j - 1] = h[j]
      <4>1. 1 + j - 1 = j /\ (j = 1 \/ j = 2 \/ j = 3 \/ j = 4)
        OBVIOUS
      <4> QED BY <4>1, <2>1
    <3> QED BY <3>1, <1>1
  <2>3. PICK i \in Nat \ {0}, n \in Nat : i = 1 /\ n = 4
    OBVIOUS
  <2>4. d \in Seq(Nat) /\ n = i + Len(h) - 1 /\ n <= Len(d)
    BY <1>1, <1>3, <2>3
  <2>5. \A j \in 1..Len(h) : d[i + j - 1] = h[j]
    BY <2>2, <2>3
  <2>6. SubSeq(d, i, n) = h
    BY <2>4, <2>5, <1>7, Part
  <2> QED BY <2>3, <2>6
<1> QED BY <1>3, <1>4, <1>5, <1>6 DEF h, d, Behind2, ReadsAs2

LEMMA Behind4Facts ==
  ASSUME NEW a \in Nat, NEW b \in Nat, NEW u \in Nat, NEW v \in Nat, NEW c \in Nat, NEW t \in Seq(Nat)
  PROVE  ReadsAs4(Behind4(a, b, u, v, c, t), a, b, u, v, c, t)
<1>0. Len(t) \in Nat
  BY LenProperties
<1>7. PICK h : h = Word(a) \o Word(b) \o Word(u) \o Word(v)
  OBVIOUS
<1>9. AreWords4(h, a, b, u, v)
  BY <1>7, FourWords
<1>1. h \in Seq(Nat) /\ Len(h) = 8
  BY <1>9 DEF AreWords4
<1>8. PICK d : d = h \o <<c>> \o t
  OBVIOUS
<1>2. IsBehind(d, h, c, t)
  <2>1. h \in Seq(Nat)
    BY <1>1
  <2>2. IsBehind(h \o <<c>> \o t, h, c, t)
    BY <2>1, Behind
  <2> QED BY <2>2, <1>8
<1>3. d \in Seq(Nat) /\ Len(d) = 9 + Len(t) /\ d[9] = c
  BY <1>0, <1>1, <1>2 DEF IsBehind
<1>4. /\ d[1] = h[1] /\ d[2] = h[2] /\ d[3] = h[3] /\ d[4] = h[4]
      /\ d[5] = h[5] /\ d[6] = h[6] /\ d[7] = h[7] /\ d[8] = h[8]
  BY <1>1, <1>2 DEF IsBehind
<1>5. ASSUME NEW j \in 1..Len(t) PROVE d[10 + j - 1] = t[j]
  <2>1. d[Len(h) + 1 + j] = t[j]
    BY <1>2 DEF IsBehind
  <2>2. Len(h) + 1 + j = 10 + j - 1
    BY <1>0, <1>1
  <2> QED BY <2>1, <2>2
<1>6. /\ WordAt(d, 1) = Wire(a) /\ WordAt(d, 3) = Wire(b)
      /\ WordAt(d, 5) = Wire(u) /\ WordAt(d, 7) = Wire(v)
  <2>1. /\ d[1] = h[1] /\ d[1 + 1] = h[1 + 1] /\ d[3] = h[3] /\ d[3 + 1] = h[3 + 1]
        /\ d[5] = h[5] /\ d[5 + 1] = h[5 + 1] /\ d[7] = h[7] /\ d[7 + 1] = h[7 + 1]
    BY <1>4
  <2>2. /\ WordAt(d, 1) = WordAt(h, 1) /\ WordAt(d, 3) = WordAt(h, 3)
        /\ WordAt(d, 5) = WordAt(h, 5) /\ WordAt(d, 7) = WordAt(h, 7)
    BY <2>1, Zenon DEF WordAt
  <2>3. /\ WordAt(h, 1) = Wire(a) /\ WordAt(h, 3) = Wire(b)
        /\ WordAt(h, 5) = Wire(u) /\ WordAt(h, 7) = Wire(v)
    BY <1>9 DEF AreWords4
  <2> QED BY <2>2, <2>3
<1> QED BY <1>3, <1>5, <1>6, <1>7, <1>8 DEF Behind4, ReadsAs4
-----------------------------------------------------------------------------
(* The slave makes of a PDU of the master what was meant, or refuses it    *)
(* when that is beyond the limits.                                         *)
Faithful(r) ==
  LET h == handleFC(r.fc, Method(r).pdu)
      m == Meant(r)
  IN /\ m = <<m[1], m[2]>>
     /\ h.ok \in BOOLEAN /\ (h.ok <=> InLimits(m[1], m[2]))
     /\ h.ok => h.handler = m[1] /\ h.args = m[2]

LEMMA FaithfulIf ==
  ASSUME NEW r, NEW d, NEW name, NEW args, NEW reply,
         Method(r).pdu = d, Meant(r) = <<name, args>>,
         handleFC(r.fc, d) = IF InLimits(name, args) THEN Call(name, args, reply) ELSE Refuse
  PROVE  Faithful(r)
BY DEF Faithful, Call, Refuse

LEMMA FaithfulCall ==
  ASSUME NEW r, NEW d, NEW name, NEW args, NEW reply,
         Method(r).pdu = d, Meant(r) = <<name, args>>, InLimits(name, args),
         handleFC(r.fc, d) = Call(name, args, reply)
  PROVE  Faithful(r)
BY FaithfulIf, Zenon

LEMMA FaithfulRefused ==
  ASSUME NEW r, NEW d, NEW name, NEW args,
         Method(r).pdu = d, Meant(r) = <<name, args>>, ~InLimits(name, args),
         handleFC(r.fc, d) = Refuse
  PROVE  Faithful(r)
BY DEF Faithful, Refuse

LEMMA ReadsMeant == ASSUME NEW r \in Requests, r.fc \in 1..4 PROVE Faithful(r)
<1>0. r.fc = 1 \/ r.fc = 2 \/ r.fc = 3 \/ r.fc = 4
  OBVIOUS
<1>1. r.address \in Nat /\ r.length \in Nat
  BY <1>0, FunctionCodesAssumption DEF Standard
<1>2. Method(r).pdu = Word(r.address) \o Word(r.length)
  BY <1>0, MethodOf DEF writeFC1Or2, writeFC3Or4, Counted
<1>3. PICK d : d = Method(r).pdu
  OBVIOUS
<1>4. Len(d) = 4 /\ WordAt(d, 1) = Wire(r.address) /\ WordAt(d, 3) = Wire(r.length)
  <2>1. AreWords2(Word(r.address) \o Word(r.length), r.address, r.length)
    BY <1>1, TwoWords
  <2>2. AreWords2(d, r.address, r.length)
    BY <2>1, <1>2, <1>3, Zenon
  <2> QED BY <2>2 DEF AreWords2
<1>5. PICK args : args = <<Wire(r.address), Wire(r.length)>>
  OBVIOUS
<1>6. args[2] = Wire(r.length)
  BY <1>5
<1>8. Meant(r) = <<Handlers[r.fc], args>>
  BY <1>0, <1>5 DEF Meant
<1>9. CASE r.fc = 1
  <2>1. Meant(r) = <<"readCoils", args>>
    BY <1>8, <1>9 DEF Handlers
  <2>2. handleFC(r.fc, d) = handleRead(d, "readCoils", READ_COILS_MAX, "bits")
    BY <1>9, HandlerOf DEF handleFC1
  <2>3. handleFC(r.fc, d) = IF InLimits("readCoils", args) THEN Call("readCoils", args, "bits") ELSE Refuse
    <3>1. handleRead(d, "readCoils", READ_COILS_MAX, "bits") =
            IF args[2] \in 1..READ_COILS_MAX THEN Call("readCoils", args, "bits") ELSE Refuse
      BY <1>4, <1>5, <1>6 DEF handleRead
    <3>2. InLimits("readCoils", args) <=> args[2] \in 1..READ_COILS_MAX
      BY DEF InLimits
    <3> QED BY <2>2, <3>1, <3>2
  <2> QED BY <2>1, <2>3, <1>3, FaithfulIf
<1>10. CASE r.fc = 2
  <2>1. Meant(r) = <<"readDiscreteInputs", args>>
    BY <1>8, <1>10 DEF Handlers
  <2>2. handleFC(r.fc, d) = handleRead(d, "readDiscreteInputs", READ_COILS_MAX, "bits")
    BY <1>10, HandlerOf DEF handleFC2
  <2>3. handleFC(r.fc, d) = IF InLimits("readDiscreteInputs", args)
                            THEN Call("readDiscreteInputs", args, "bits") ELSE Refuse
    <3>1. handleRead(d, "readDiscreteInputs", READ_COILS_MAX, "bits") =
            IF args[2] \in 1..READ_COILS_MAX THEN Call("readDiscreteInputs", args, "bits") ELSE Refuse
      BY <1>4, <1>5, <1>6 DEF handleRead
    <3>2. InLimits("readDiscreteInputs", args) <=> args[2] \in 1..READ_COILS_MAX
      BY DEF InLimits
    <3> QED BY <2>2, <3>1, <3>2
  <2> QED BY <2>1, <2>3, <1>3, FaithfulIf
<1>11. CASE r.fc = 3
  <2>1. Meant(r) = <<"readHoldingRegisters", args>>
    BY <1>8, <1>11 DEF Handlers
  <2>2. handleFC(r.fc, d) = handleRead(d, "readHoldingRegisters", READ_REGISTERS_MAX, "words")
    BY <1>11, HandlerOf DEF handleFC3
  <2>3. handleFC(r.fc, d) = IF InLimits("readHoldingRegisters", args)
                            THEN Call("readHoldingRegisters", args, "words") ELSE Refuse
    <3>1. handleRead(d, "readHoldingRegisters", READ_REGISTERS_MAX, "words") =
            IF args[2] \in 1..READ_REGISTERS_MAX THEN Call("readHoldingRegisters", args, "words") ELSE Refuse
      BY <1>4, <1>5, <1>6 DEF handleRead
    <3>2. InLimits("readHoldingRegisters", args) <=> args[2] \in 1..READ_REGISTERS_MAX
      BY DEF InLimits
    <3> QED BY <2>2, <3>1, <3>2
  <2> QED BY <2>1, <2>3, <1>3, FaithfulIf
<1>12. CASE r.fc = 4
  <2>1. Meant(r) = <<"readInputRegisters", args>>
    BY <1>8, <1>12 DEF Handlers
  <2>2. handleFC(r.fc, d) = handleRead(d, "readInputRegisters", READ_REGISTERS_MAX, "words")
    BY <1>12, HandlerOf DEF handleFC4
  <2>3. handleFC(r.fc, d) = IF InLimits("readInputRegisters", args)
                            THEN Call("readInputRegisters", args, "words") ELSE Refuse
    <3>1. handleRead(d, "readInputRegisters", READ_REGISTERS_MAX, "words") =
            IF args[2] \in 1..READ_REGISTERS_MAX THEN Call("readInputRegisters", args, "words") ELSE Refuse
      BY <1>4, <1>5, <1>6 DEF handleRead
    <3>2. InLimits("readInputRegisters", args) <=> args[2] \in 1..READ_REGISTERS_MAX
      BY DEF InLimits
    <3> QED BY <2>2, <3>1, <3>2
  <2> QED BY <2>1, <2>3, <1>3, FaithfulIf
<1> QED BY <1>0, <1>9, <1>10, <1>11, <1>12

LEMMA SinglesMeant == ASSUME NEW r \in Requests, r.fc \in {5, 6, 8} PROVE Faithful(r)
<1>1. r.value \in Nat
  BY FunctionCodesAssumption
<1>2. Word(0) = <<0, 0>> /\ Word(65280) = <<255, 0>> /\ Wire(0) = 0 /\ Wire(65280) = 65280
  BY DEF Word, Wire
<1>7. PICK off : off = <<0, 0>> /\ off = Word(0)
  BY <1>2
<1>9. PICK full : full = 65280
  OBVIOUS
<1>8. PICK on : on = <<255, 0>> /\ on = Word(full)
  BY <1>2, <1>9
<1>10. on = Word(full)
  BY <1>8
<1>3. PICK d : d = Method(r).pdu
  OBVIOUS
<1>4. CASE r.fc = 5
  <2>1. r.address \in Nat
    BY <1>4, KnownCodes, FunctionCodesAssumption
  <2>2. Method(r) = writeSingleCoil(r)
    BY <1>4, MethodOf
  <2>3. PICK v \in Nat : v \in {0, full} /\ (v = 0 <=> r.value = 0) /\ Wire(v) = v
                          /\ d = Word(r.address) \o Word(v)
    <3>1. CASE r.value = 0
      <4>1. d = Word(r.address) \o off
        BY <3>1, <2>2, <1>3, <1>7 DEF writeSingleCoil, Echoed
      <4>2. d = Word(r.address) \o Word(0)
        BY <4>1, <1>7, Zenon
      <4>3. 0 \in Nat /\ 0 \in {0, full} /\ (0 = 0 <=> r.value = 0) /\ Wire(0) = 0
        BY <3>1, <1>2
      <4> QED BY <4>2, <4>3, Zenon
    <3>2. CASE r.value # 0
      <4>1. d = Word(r.address) \o on
        BY <3>2, <2>2, <1>3, <1>8 DEF writeSingleCoil, Echoed
      <4>2. d = Word(r.address) \o Word(full)
        BY <4>1, <1>10, Zenon
      <4>3. full \in Nat /\ full \in {0, full} /\ (full = 0 <=> r.value = 0) /\ Wire(full) = full
        BY <3>2, <1>2, <1>9
      <4> QED BY <4>2, <4>3, Zenon
    <3> QED BY <3>1, <3>2
  <2>4. Len(d) = 4 /\ WordAt(d, 1) = Wire(r.address) /\ WordAt(d, 3) = v
    <3>1. v \in Nat /\ d = Word(r.address) \o Word(v)
      BY <2>3
    <3>2. AreWords2(Word(r.address) \o Word(v), r.address, v)
      BY <2>1, <3>1, TwoWords
    <3>3. AreWords2(d, r.address, v)
      BY <3>1, <3>2, Zenon
    <3>4. Wire(v) = v
      BY <2>3
    <3> QED BY <3>3, <3>4 DEF AreWords2
  <2>5. PICK coil : coil = IF r.value = 0 THEN 0 ELSE 1
    OBVIOUS
  <2>6. handleFC(r.fc, d) = Call("writeSingleCoil", <<Wire(r.address), coil>>, "echo")
    <3>1. handleFC(r.fc, d) = handleFC5(d)
      BY <1>4, HandlerOf
    <3>2. coil = IF WordAt(d, 3) = 0 THEN 0 ELSE 1
      BY <2>3, <2>4, <2>5
    <3>3. WordAt(d, 3) \in {0, 65280}
      BY <2>3, <2>4, <1>9
    <3>4. <<WordAt(d, 1), IF WordAt(d, 3) = 0 THEN 0 ELSE 1>> = <<Wire(r.address), coil>>
      BY <3>2, <2>4
    <3>5. handleFC5(d) = Call("writeSingleCoil", <<WordAt(d, 1), IF WordAt(d, 3) = 0 THEN 0 ELSE 1>>, "echo")
      BY <3>3, <2>4 DEF handleFC5
    <3> QED BY <3>1, <3>4, <3>5
  <2>7. Meant(r) = <<"writeSingleCoil", <<Wire(r.address), coil>> >>
    BY <1>4, <2>5 DEF Meant
  <2>8. PICK args : args = <<Wire(r.address), coil>>
    OBVIOUS
  <2>9. handleFC(r.fc, d) = IF InLimits("writeSingleCoil", args) THEN Call("writeSingleCoil", args, "echo") ELSE Refuse
    <3>1. InLimits("writeSingleCoil", args)
      BY DEF InLimits
    <3> QED BY <3>1, <2>6, <2>8
  <2>10. Meant(r) = <<"writeSingleCoil", args>>
    BY <2>7, <2>8
  <2> QED BY <2>9, <2>10, <1>3, FaithfulIf
<1>5. CASE r.fc = 6
  <2>1. r.address \in Nat
    BY <1>5, KnownCodes, FunctionCodesAssumption
  <2>2. Method(r) = writeSingleRegister(r)
    BY <1>5, MethodOf
  <2>3. d = Word(r.address) \o Word(r.value)
    BY <1>3, <2>2 DEF writeSingleRegister, Echoed
  <2>4. Len(d) = 4 /\ WordAt(d, 1) = Wire(r.address) /\ WordAt(d, 3) = Wire(r.value)
    <3>1. AreWords2(Word(r.address) \o Word(r.value), r.address, r.value)
      BY <1>1, <2>1, TwoWords
    <3> QED BY <3>1, <2>3 DEF AreWords2
  <2>5. handleFC(r.fc, d) = Call("writeSingleRegister", <<Wire(r.address), Wire(r.value)>>, "echo")
    BY <1>5, <2>4, HandlerOf DEF handleFC6
  <2>6. Meant(r) = <<"writeSingleRegister", <<Wire(r.address), Wire(r.value)>> >>
    BY <1>5 DEF Meant
  <2>8. PICK args : args = <<Wire(r.address), Wire(r.value)>>
    OBVIOUS
  <2>9. handleFC(r.fc, d) = IF InLimits("writeSingleRegister", args) THEN Call("writeSingleRegister", args, "echo") ELSE Refuse
    <3>1. InLimits("writeSingleRegister", args)
      BY DEF InLimits
    <3> QED BY <3>1, <2>5, <2>8
  <2>10. Meant(r) = <<"writeSingleRegister", args>>
    BY <2>6, <2>8
  <2> QED BY <2>9, <2>10, <1>3, FaithfulIf
<1>6. CASE r.fc = 8
  <2>2. Method(r) = diagnosticsReturnQueryData(r)
    BY <1>6, MethodOf
  <2>3. d = Word(0) \o Word(r.value)
    <3>1. d = off \o Word(r.value)
      BY <1>3, <1>7, <2>2 DEF diagnosticsReturnQueryData, Echoed
    <3> QED BY <3>1, <1>7
  <2>4. Len(d) = 4 /\ WordAt(d, 1) = 0 /\ WordAt(d, 3) = Wire(r.value)
    <3>1. AreWords2(Word(0) \o Word(r.value), 0, r.value)
      BY <1>1, TwoWords
    <3>2. Wire(0) = 0
      BY <1>2
    <3> QED BY <3>1, <3>2, <2>3 DEF AreWords2
  <2>5. handleFC(r.fc, d) = Call("diagnosticsReturnQueryData", <<Wire(r.value)>>, "echo")
    BY <1>6, <2>4, HandlerOf DEF handleFC8
  <2>6. Meant(r) = <<"diagnosticsReturnQueryData", <<Wire(r.value)>> >>
    BY <1>6 DEF Meant
  <2>8. PICK args : args = <<Wire(r.value)>>
    OBVIOUS
  <2>9. handleFC(r.fc, d) = IF InLimits("diagnosticsReturnQueryData", args) THEN Call("diagnosticsReturnQueryData", args, "echo") ELSE Refuse
    <3>1. InLimits("diagnosticsReturnQueryData", args)
      BY DEF InLimits
    <3> QED BY <3>1, <2>5, <2>8
  <2>10. Meant(r) = <<"diagnosticsReturnQueryData", args>>
    BY <2>6, <2>8
  <2> QED BY <2>9, <2>10, <1>3, FaithfulIf
<1> QED BY <1>4, <1>5, <1>6

(* A byte that counts right the bytes of a list says that it is short.     *)
LEMMA ShortCoils ==
  ASSUME NEW n \in Nat
  PROVE  /\ BytesFor(n) \in Nat /\ (n >= 1 => BytesFor(n) >= 1)
         /\ BytesFor(n) = BytesFor(n) % 256 => n <= 2040
         /\ n <= 2000 => BytesFor(n) <= 250
BY DEF BytesFor

LEMMA CoilsMeant == ASSUME NEW r \in Requests, r.fc = 15 PROVE Faithful(r)
<1>1. r.address \in Nat /\ r.values \in Seq(Nat)
  BY FunctionCodesAssumption, KnownCodes
<1>2. PICK n : n = Len(r.values)
  OBVIOUS
<1>3. n \in Nat /\ DOMAIN r.values = 1..n
  BY <1>1, <1>2, LenProperties
<1>4. PICK p : p = Packed(r.values, n)
  OBVIOUS
<1>5. p \in Seq(Nat) /\ Len(p) = BytesFor(n) /\ BytesFor(n) \in Nat
  BY <1>1, <1>3, <1>4, PackedLength
<1>6. PICK c \in Nat : c = BytesFor(n) % 256
  BY <1>5
<1>7. PICK d : d = Behind2(r.address, n, c, p)
  OBVIOUS
<1>8. Method(r).pdu = d
  <2>1. Method(r) = writeMultipleCoils(r)
    BY MethodOf
  <2>2. writeMultipleCoils(r).pdu =
          Word(r.address) \o Word(Len(r.values)) \o <<BytesFor(Len(r.values)) % 256>>
            \o Packed(r.values, Len(r.values))
    BY DEF writeMultipleCoils, Echoed
  <2>3. writeMultipleCoils(r).pdu = Behind2(r.address, n, c, p)
    BY <2>2, <1>2, <1>4, <1>6, Zenon DEF Behind2
  <2> QED BY <2>1, <2>3, <1>7
<1>22. r.address \in Nat /\ n \in Nat /\ c \in Nat /\ p \in Seq(Nat)
  BY <1>1, <1>3, <1>5
<1>21. ReadsAs2(d, r.address, n, c, p)
  BY <1>22, <1>7, Behind2Facts
<1>9. /\ Len(d) = 5 + Len(p) /\ d[5] = c
      /\ WordAt(d, 1) = Wire(r.address) /\ WordAt(d, 3) = Wire(n)
  BY <1>21 DEF ReadsAs2
<1>20. \A j \in 1..Len(p) : d[6 + j - 1] = p[j]
  BY <1>21 DEF ReadsAs2
<1>10. PICK meant : meant = [i \in DOMAIN r.values |-> r.values[i] % 2]
  OBVIOUS
<1>11. Unpacked(d, 6, n) = meant
  <2>1. \A j \in 1..BytesFor(n) : d[6 + j - 1] = Packed(r.values, n)[j]
    BY <1>4, <1>5, <1>20
  <2>2. Unpacked(d, 6, n) = [k \in 1..n |-> Bit(r.values, k)]
    <3>1. r.values \in Seq(Nat) /\ n \in Nat
      BY <1>1, <1>3
    <3> QED BY <3>1, <2>1, CoilsBack
  <2>3. \A k \in 1..n : Bit(r.values, k) = r.values[k] % 2
    BY <1>2, <1>3 DEF Bit
  <2> QED BY <2>2, <2>3, <1>3, <1>10
<1>12. Len(meant) = n
  <2>1. meant \in [1..n -> Nat]
    <3>1. \A i \in 1..n : r.values[i] \in Nat
      BY <1>1, <1>2, ElementOfSeq
    <3> QED BY <3>1, <1>3, <1>10
  <2> QED BY <2>1, <1>3
<1>13. PICK args : args = <<Wire(r.address), meant>>
  OBVIOUS
<1>14. args[2] = meant
  BY <1>13
<1>15. InLimits("writeMultipleCoils", args) <=> n \in 1..WRITE_COILS_MAX
  <2>1. InLimits("writeMultipleCoils", args) <=> Len(args[2]) \in 1..WRITE_COILS_MAX
    BY DEF InLimits
  <2>2. Len(args[2]) = n
    BY <1>12, <1>14
  <2> QED BY <2>1, <2>2, Zenon
<1>16. Meant(r) = <<"writeMultipleCoils", args>>
  BY <1>10, <1>13 DEF Meant
<1>17. handleFC(r.fc, d) = handleFC15(d)
  BY HandlerOf
<1>18. CASE n \in 1..WRITE_COILS_MAX
  <2>9. n >= 1 /\ n <= 2000 /\ n <= 65535
    BY <1>18 DEF WRITE_COILS_MAX
  <2>1. Wire(n) = n
    BY <1>3, <2>9, WireSame
  <2>2. BytesFor(n) >= 1 /\ BytesFor(n) <= 250
    BY <1>3, <2>9, ShortCoils
  <2>3. c = BytesFor(n)
    <3>1. PICK b \in Nat : b = BytesFor(n)
      BY <1>5
    <3>2. b <= 250 /\ c = b % 256
      BY <3>1, <2>2, <1>6
    <3> QED BY <3>1, <3>2
  <2>4. Len(d) > 5 /\ Len(d) = 5 + d[5] /\ WordAt(d, 3) = n /\ d[5] = BytesFor(n)
    BY <2>1, <2>2, <2>3, <1>5, <1>9
  <2>5. <<WordAt(d, 1), Unpacked(d, 6, n)>> = args
    BY <1>9, <1>11, <1>13
  <2>6. handleFC15(d) = Call("writeMultipleCoils", <<WordAt(d, 1), Unpacked(d, 6, n)>>, "head")
    <3>1. WordAt(d, 3) \in 1..WRITE_COILS_MAX /\ d[5] = BytesFor(WordAt(d, 3))
      BY <2>4, <1>18
    <3>2. Unpacked(d, 6, WordAt(d, 3)) = Unpacked(d, 6, n)
      BY <2>4
    <3> QED BY <3>1, <3>2, <2>4 DEF handleFC15
  <2>7. InLimits("writeMultipleCoils", args)
    BY <1>15, <1>18
  <2>8. handleFC(r.fc, d) = Call("writeMultipleCoils", args, "head")
    BY <1>17, <2>5, <2>6
  <2> QED BY <1>8, <1>16, <2>7, <2>8, FaithfulCall
<1>19. CASE n \notin 1..WRITE_COILS_MAX
  <2>1. ASSUME Len(d) = 5 + d[5], WordAt(d, 3) \in 1..WRITE_COILS_MAX PROVE FALSE
    <3>1. BytesFor(n) = BytesFor(n) % 256
      BY <2>1, <1>5, <1>6, <1>9
    <3>2. n <= 2040
      BY <3>1, <1>3, ShortCoils
    <3>4. n <= 65535
      BY <3>2, <1>3
    <3>3. Wire(n) = n
      BY <3>4, <1>3, WireSame
    <3>5. WordAt(d, 3) = n
      BY <3>3, <1>9
    <3> QED BY <3>5, <2>1, <1>19
  <2>2. handleFC15(d) = Refuse
    BY <2>1 DEF handleFC15
  <2>3. ~InLimits("writeMultipleCoils", args)
    BY <1>15, <1>19
  <2>4. handleFC(r.fc, d) = Refuse
    BY <1>17, <2>2
  <2> QED BY <1>8, <1>16, <2>3, <2>4, FaithfulRefused
<1> QED BY <1>18, <1>19

(* What is sent of a list of registers.                                    *)
LEMMA RegistersSent ==
  ASSUME NEW vs \in Seq(Nat), NEW meant, meant = [i \in DOMAIN vs |-> Wire(vs[i])]
  PROVE  Len(vs) \in Nat /\ Len(meant) = Len(vs)
<1>1. Len(vs) \in Nat /\ DOMAIN vs = 1..Len(vs)
  BY LenProperties
<1>2. \A i \in 1..Len(vs) : vs[i] \in Nat
  BY ElementOfSeq
<1>3. \A i \in 1..Len(vs) : Wire(vs[i]) \in Nat
  BY <1>2 DEF Wire
<1>4. meant \in [1..Len(vs) -> Nat]
  BY <1>1, <1>3
<1> QED BY <1>1, <1>4

LEMMA RegistersMeant == ASSUME NEW r \in Requests, r.fc = 16 PROVE Faithful(r)
<1>1. r.address \in Nat /\ r.values \in Seq(Nat)
  BY FunctionCodesAssumption, KnownCodes
<1>2. PICK n : n = Len(r.values)
  OBVIOUS
<1>10. PICK meant : meant = [i \in DOMAIN r.values |-> Wire(r.values[i])]
  OBVIOUS
<1>4. PICK p : p = Words(r.values)
  OBVIOUS
<1>3. n \in Nat /\ Len(meant) = n
  BY <1>1, <1>2, <1>10, RegistersSent
<1>5. p \in Seq(Nat) /\ Len(p) = 2 * n
  BY <1>1, <1>2, <1>4, WordsFacts
<1>6. PICK c \in Nat : c = (2 * n) % 256
  BY <1>3
<1>7. PICK d : d = Behind2(r.address, n, c, p)
  OBVIOUS
<1>8. Method(r).pdu = d
  <2>1. Method(r) = writeMultipleRegisters(r)
    BY MethodOf
  <2>2. writeMultipleRegisters(r).pdu =
          Word(r.address) \o Word(Len(r.values)) \o <<(2 * Len(r.values)) % 256>> \o Words(r.values)
    BY DEF writeMultipleRegisters, Echoed
  <2>3. writeMultipleRegisters(r).pdu = Behind2(r.address, n, c, p)
    BY <2>2, <1>2, <1>4, <1>6, Zenon DEF Behind2
  <2> QED BY <2>1, <2>3, <1>7
<1>22. r.address \in Nat /\ n \in Nat /\ c \in Nat /\ p \in Seq(Nat)
  BY <1>1, <1>3, <1>5
<1>21. ReadsAs2(d, r.address, n, c, p)
  BY <1>22, <1>7, Behind2Facts
<1>9. /\ Len(d) = 5 + Len(p) /\ d[5] = c
      /\ WordAt(d, 1) = Wire(r.address) /\ WordAt(d, 3) = Wire(n)
  BY <1>21 DEF ReadsAs2
<1>20. \A j \in 1..Len(p) : d[6 + j - 1] = p[j]
  BY <1>21 DEF ReadsAs2
<1>11. WordsAt(d, 6, n) = meant
  <2>1. \A j \in 1..(2 * Len(r.values)) : d[6 + j - 1] = Words(r.values)[j]
    BY <1>2, <1>4, <1>5, <1>20
  <2>2. WordsAt(d, 6, Len(r.values)) = [k \in DOMAIN r.values |-> Wire(r.values[k])]
    BY <2>1, <1>1, WordsBack
  <2> QED BY <2>2, <1>2, <1>10
<1>13. PICK args : args = <<Wire(r.address), meant>>
  OBVIOUS
<1>14. args[2] = meant
  BY <1>13
<1>15. InLimits("writeMultipleRegisters", args) <=> n \in 1..WRITE_REGISTERS_MAX
  <2>1. InLimits("writeMultipleRegisters", args) <=> Len(args[2]) \in 1..WRITE_REGISTERS_MAX
    BY DEF InLimits
  <2> QED BY <2>1, <1>3, <1>14
<1>16. Meant(r) = <<"writeMultipleRegisters", args>>
  BY <1>10, <1>13 DEF Meant
<1>17. handleFC(r.fc, d) = handleFC16(d)
  BY HandlerOf
<1>18. CASE n \in 1..WRITE_REGISTERS_MAX
  <2>9. n <= 65535
    BY <1>3, <1>18 DEF WRITE_REGISTERS_MAX
  <2>1. Wire(n) = n
    BY <1>3, <2>9, WireSame
  <2>2. c = 2 * n
    BY <1>6, <1>18 DEF WRITE_REGISTERS_MAX
  <2>3. Len(d) > 5 /\ Len(d) = 5 + d[5] /\ WordAt(d, 3) = n /\ d[5] = 2 * n
    BY <2>1, <2>2, <1>5, <1>9, <1>18
  <2>4. <<WordAt(d, 1), WordsAt(d, 6, n)>> = args
    BY <1>9, <1>11, <1>13
  <2>5. handleFC16(d) = Call("writeMultipleRegisters", <<WordAt(d, 1), WordsAt(d, 6, n)>>, "head")
    BY <2>3, <1>18 DEF handleFC16
  <2>7. InLimits("writeMultipleRegisters", args)
    BY <1>15, <1>18
  <2>8. handleFC(r.fc, d) = Call("writeMultipleRegisters", args, "head")
    BY <1>17, <2>4, <2>5
  <2> QED BY <1>8, <1>16, <2>7, <2>8, FaithfulCall
<1>19. CASE n \notin 1..WRITE_REGISTERS_MAX
  <2>1. ASSUME Len(d) = 5 + d[5], WordAt(d, 3) \in 1..WRITE_REGISTERS_MAX PROVE FALSE
    <3>1. n <= 127
      BY <2>1, <1>3, <1>5, <1>6, <1>9
    <3>4. n <= 65535
      BY <3>1, <1>3
    <3>2. Wire(n) = n
      BY <3>4, <1>3, WireSame
    <3>3. WordAt(d, 3) = n
      BY <3>2, <1>9
    <3> QED BY <3>3, <2>1, <1>9, <1>19
  <2>2. handleFC16(d) = Refuse
    BY <2>1 DEF handleFC16
  <2>3. ~InLimits("writeMultipleRegisters", args)
    BY <1>15, <1>19
  <2>4. handleFC(r.fc, d) = Refuse
    BY <1>17, <2>2
  <2> QED BY <1>8, <1>16, <2>3, <2>4, FaithfulRefused
<1> QED BY <1>18, <1>19

LEMMA WriteReadMeant == ASSUME NEW r \in Requests, r.fc = 23 PROVE Faithful(r)
<1>1. r.address \in Nat /\ r.length \in Nat /\ r.writeAddress \in Nat /\ r.values \in Seq(Nat)
  BY FunctionCodesAssumption, KnownCodes
<1>2. PICK n : n = Len(r.values)
  OBVIOUS
<1>10. PICK meant : meant = [i \in DOMAIN r.values |-> Wire(r.values[i])]
  OBVIOUS
<1>4. PICK p : p = Words(r.values)
  OBVIOUS
<1>3. n \in Nat /\ Len(meant) = n
  BY <1>1, <1>2, <1>10, RegistersSent
<1>5. p \in Seq(Nat) /\ Len(p) = 2 * n
  BY <1>1, <1>2, <1>4, WordsFacts
<1>6. PICK c \in Nat : c = (2 * n) % 256
  BY <1>3
<1>7. PICK d : d = Behind4(r.address, r.length, r.writeAddress, n, c, p)
  OBVIOUS
<1>8. Method(r).pdu = d
  <2>1. Method(r) = readAndWriteMultipleRegisters(r)
    BY MethodOf
  <2>2. readAndWriteMultipleRegisters(r).pdu =
          Word(r.address) \o Word(r.length) \o Word(r.writeAddress) \o Word(Len(r.values))
            \o <<(2 * Len(r.values)) % 256>> \o Words(r.values)
    BY DEF readAndWriteMultipleRegisters, Counted
  <2>3. readAndWriteMultipleRegisters(r).pdu = Behind4(r.address, r.length, r.writeAddress, n, c, p)
    BY <2>2, <1>2, <1>4, <1>6, Zenon DEF Behind4
  <2> QED BY <2>1, <2>3, <1>7
<1>22. /\ r.address \in Nat /\ r.length \in Nat /\ r.writeAddress \in Nat /\ n \in Nat
       /\ c \in Nat /\ p \in Seq(Nat)
  BY <1>1, <1>3, <1>5
<1>21. ReadsAs4(d, r.address, r.length, r.writeAddress, n, c, p)
  BY <1>22, <1>7, Behind4Facts
<1>9. /\ Len(d) = 9 + Len(p) /\ d[9] = c
      /\ WordAt(d, 1) = Wire(r.address) /\ WordAt(d, 3) = Wire(r.length)
      /\ WordAt(d, 5) = Wire(r.writeAddress) /\ WordAt(d, 7) = Wire(n)
  BY <1>21 DEF ReadsAs4
<1>20. \A j \in 1..Len(p) : d[10 + j - 1] = p[j]
  BY <1>21 DEF ReadsAs4
<1>11. WordsAt(d, 10, n) = meant
  <2>1. \A j \in 1..(2 * Len(r.values)) : d[10 + j - 1] = Words(r.values)[j]
    BY <1>2, <1>4, <1>5, <1>20
  <2>2. WordsAt(d, 10, Len(r.values)) = [k \in DOMAIN r.values |-> Wire(r.values[k])]
    BY <2>1, <1>1, WordsBack
  <2> QED BY <2>2, <1>2, <1>10
<1>13. PICK args : args = <<Wire(r.address), Wire(r.length), Wire(r.writeAddress), meant>>
  OBVIOUS
<1>14. args[2] = Wire(r.length) /\ args[4] = meant
  BY <1>13
<1>15. InLimits("writeThenRead", args) <=> Wire(r.length) \in 1..READ_REGISTERS_MAX /\ n \in 1..RW_REGISTERS_WRITE_MAX
  <2>1. InLimits("writeThenRead", args) <=> args[2] \in 1..READ_REGISTERS_MAX /\ Len(args[4]) \in 1..RW_REGISTERS_WRITE_MAX
    BY DEF InLimits
  <2>2. Len(args[4]) = n /\ args[2] = Wire(r.length)
    BY <1>3, <1>14
  <2> QED BY <2>1, <2>2
<1>16. Meant(r) = <<"writeThenRead", args>>
  BY <1>10, <1>13 DEF Meant
<1>17. handleFC(r.fc, d) = handleFC23(d)
  BY HandlerOf
<1>18. CASE Wire(r.length) \in 1..READ_REGISTERS_MAX /\ n \in 1..RW_REGISTERS_WRITE_MAX
  <2>9. n <= 65535
    BY <1>3, <1>18 DEF RW_REGISTERS_WRITE_MAX
  <2>1. Wire(n) = n
    BY <1>3, <2>9, WireSame
  <2>2. c = 2 * n
    BY <1>6, <1>18 DEF RW_REGISTERS_WRITE_MAX
  <2>3. Len(d) > 9 /\ Len(d) = 9 + d[9] /\ WordAt(d, 7) = n /\ d[9] = 2 * n
    BY <2>1, <2>2, <1>5, <1>9, <1>18
  <2>4. <<WordAt(d, 1), WordAt(d, 3), WordAt(d, 5), WordsAt(d, 10, n)>> = args
    BY <1>9, <1>11, <1>13
  <2>5. WordAt(d, 3) \in 1..READ_REGISTERS_MAX
    BY <1>9, <1>18
  <2>6. handleFC23(d) = Call("writeThenRead",
                             <<WordAt(d, 1), WordAt(d, 3), WordAt(d, 5), WordsAt(d, 10, n)>>, "words")
    BY <2>3, <2>5, <1>18 DEF handleFC23
  <2>7. InLimits("writeThenRead", args)
    BY <1>15, <1>18
  <2>8. handleFC(r.fc, d) = Call("writeThenRead", args, "words")
    BY <1>17, <2>4, <2>6
  <2> QED BY <1>8, <1>16, <2>7, <2>8, FaithfulCall
<1>19. CASE ~(Wire(r.length) \in 1..READ_REGISTERS_MAX /\ n \in 1..RW_REGISTERS_WRITE_MAX)
  <2>1. ASSUME Len(d) = 9 + d[9], WordAt(d, 3) \in 1..READ_REGISTERS_MAX, WordAt(d, 7) \in 1..RW_REGISTERS_WRITE_MAX PROVE FALSE
    <3>1. n <= 127
      BY <2>1, <1>3, <1>5, <1>6, <1>9
    <3>4. n <= 65535
      BY <3>1, <1>3
    <3>2. Wire(n) = n
      BY <3>4, <1>3, WireSame
    <3>3. WordAt(d, 7) = n
      BY <3>2, <1>9
    <3> QED BY <3>3, <2>1, <1>9, <1>19
  <2>2. handleFC23(d) = Refuse
    BY <2>1 DEF handleFC23
  <2>3. ~InLimits("writeThenRead", args)
    BY <1>15, <1>19
  <2>4. handleFC(r.fc, d) = Refuse
    BY <1>17, <2>2
  <2> QED BY <1>8, <1>16, <2>3, <2>4, FaithfulRefused
<1> QED BY <1>18, <1>19

LEMMA OthersMeant == ASSUME NEW r \in Requests, r.fc \in {17, 22, CustomCode} PROVE Faithful(r)
<1>1. PICK d : d = Method(r).pdu
  OBVIOUS
<1>2. CASE r.fc = 17
  <2>1. d = <<>>
    BY <1>1, <1>2, MethodOf DEF reportServerId
  <2>2. PICK args : args = <<>>
    OBVIOUS
  <2>3. handleFC(r.fc, d) = Call("reportServerId", args, "id")
    BY <1>2, <2>1, <2>2, HandlerOf DEF handleFC17
  <2>4. Meant(r) = <<"reportServerId", args>>
    BY <1>2, <2>2 DEF Meant
  <2>5. InLimits("reportServerId", args)
    BY DEF InLimits
  <2>6. handleFC(r.fc, d) = IF InLimits("reportServerId", args)
                            THEN Call("reportServerId", args, "id") ELSE Refuse
    BY <2>3, <2>5
  <2> QED BY <1>1, <2>4, <2>6, FaithfulIf
<1>3. CASE r.fc = 22
  <2>1. r.address \in Nat /\ r.andMask \in Nat /\ r.orMask \in Nat
    BY <1>3, KnownCodes, FunctionCodesAssumption
  <2>2. d = Word(r.address) \o Word(r.andMask) \o Word(r.orMask)
    BY <1>1, <1>3, MethodOf DEF maskWriteRegister, Echoed
  <2>11. AreWords3(Word(r.address) \o Word(r.andMask) \o Word(r.orMask), r.address, r.andMask, r.orMask)
    BY <2>1, ThreeWords
  <2>12. AreWords3(d, r.address, r.andMask, r.orMask)
    BY <2>2, <2>11, Zenon
  <2>3. Len(d) = 6
    BY <2>12 DEF AreWords3
  <2>4. WordAt(d, 1) = Wire(r.address) /\ WordAt(d, 3) = Wire(r.andMask) /\ WordAt(d, 5) = Wire(r.orMask)
    BY <2>12 DEF AreWords3
  <2>5. PICK args : args = <<Wire(r.address), Wire(r.andMask), Wire(r.orMask)>>
    OBVIOUS
  <2>6. WordsAt(d, 1, 3) = args
    <3>1. WordsAt(d, 1, 3) = <<WordAt(d, 1), WordAt(d, 3), WordAt(d, 5)>>
      <4>1. 1..3 = {1, 2, 3}
        OBVIOUS
      <4> QED BY <4>1 DEF WordsAt
    <3> QED BY <3>1, <2>4, <2>5
  <2>7. handleFC(r.fc, d) = Call("maskWriteRegister", args, "echo")
    BY <1>3, <2>3, <2>6, HandlerOf DEF handleFC22
  <2>8. Meant(r) = <<"maskWriteRegister", args>>
    BY <1>3, <2>5 DEF Meant
  <2>9. InLimits("maskWriteRegister", args)
    BY DEF InLimits
  <2>10. handleFC(r.fc, d) = IF InLimits("maskWriteRegister", args)
                             THEN Call("maskWriteRegister", args, "echo") ELSE Refuse
    BY <2>7, <2>9
  <2> QED BY <1>1, <2>8, <2>10, FaithfulIf
<1>4. CASE r.fc = CustomCode
  <2>1. d = Words(r.values)
    BY <1>1, <1>4, MethodOf DEF sendCustomFC
  <2>2. handleFC(r.fc, d) = Call("custom", d, "custom")
    BY <1>4, HandlerOf DEF cfcResponse
  <2>3. Meant(r) = <<"custom", d>>
    BY <1>4, <2>1, KnownCodes DEF Meant
  <2>4. InLimits("custom", d)
    BY DEF InLimits
  <2>5. handleFC(r.fc, d) = IF InLimits("custom", d) THEN Call("custom", d, "custom") ELSE Refuse
    BY <2>2, <2>4
  <2> QED BY <1>1, <2>3, <2>5, FaithfulIf
<1> QED BY <1>2, <1>3, <1>4

LEMMA RequestsMeant == ASSUME NEW r \in Requests PROVE Faithful(r)
BY KnownCodes, ReadsMeant, SinglesMeant, CoilsMeant, RegistersMeant, WriteReadMeant, OthersMeant

(* A list of n says so.                                                    *)
LEMMA ListLength ==
  ASSUME NEW d, NEW i, NEW n \in Nat
  PROVE  Len(Unpacked(d, i, n)) = n /\ Len(WordsAt(d, i, n)) = n
<1>1. Len(Unpacked(d, i, n)) = n
  <2> DEFINE f == Unpacked(d, i, n)
             S == {f[k] : k \in 1..n}
  <2>1. f \in [1..n -> S]
    BY DEF Unpacked
  <2> HIDE DEF f, S
  <2>2. Len(f) = n
    BY <2>1
  <2> QED BY <2>2 DEF f
<1>2. Len(WordsAt(d, i, n)) = n
  <2> DEFINE f == WordsAt(d, i, n)
             S == {f[k] : k \in 1..n}
  <2>1. f \in [1..n -> S]
    BY DEF WordsAt
  <2> HIDE DEF f, S
  <2>2. Len(f) = n
    BY <2>1
  <2> QED BY <2>2 DEF f
<1> QED BY <1>1, <1>2

(* Whatever a PDU is, a handler is called within the limits.               *)
LEMMA CalledWithinLimits ==
  ASSUME NEW fc, NEW d, handleFC(fc, d).ok
  PROVE  InLimits(handleFC(fc, d).handler, handleFC(fc, d).args)
<1>1. PICK h : h = handleFC(fc, d)
  OBVIOUS
<1>2. ASSUME NEW handler, NEW max, NEW reply, NEW x, x = handleRead(d, handler, max, reply), x.ok
      PROVE  x.handler = handler /\ x.args[2] \in 1..max
  BY <1>2 DEF handleRead, Call, Refuse
<1>3. CASE fc = 1
  <2>1. h = handleRead(d, "readCoils", READ_COILS_MAX, "bits")
    BY <1>1, <1>3, HandlerOf DEF handleFC1
  <2>2. h.handler = "readCoils" /\ h.args[2] \in 1..READ_COILS_MAX
    BY <2>1, <1>1, <1>2
  <2>3. InLimits(h.handler, h.args)
    BY <2>2 DEF InLimits
  <2> QED BY <2>3, <1>1
<1>4. CASE fc = 2
  <2>1. h = handleRead(d, "readDiscreteInputs", READ_COILS_MAX, "bits")
    BY <1>1, <1>4, HandlerOf DEF handleFC2
  <2>2. h.handler = "readDiscreteInputs" /\ h.args[2] \in 1..READ_COILS_MAX
    BY <2>1, <1>1, <1>2
  <2>3. InLimits(h.handler, h.args)
    BY <2>2 DEF InLimits
  <2> QED BY <2>3, <1>1
<1>5. CASE fc = 3
  <2>1. h = handleRead(d, "readHoldingRegisters", READ_REGISTERS_MAX, "words")
    BY <1>1, <1>5, HandlerOf DEF handleFC3
  <2>2. h.handler = "readHoldingRegisters" /\ h.args[2] \in 1..READ_REGISTERS_MAX
    BY <2>1, <1>1, <1>2
  <2>3. InLimits(h.handler, h.args)
    BY <2>2 DEF InLimits
  <2> QED BY <2>3, <1>1
<1>6. CASE fc = 4
  <2>1. h = handleRead(d, "readInputRegisters", READ_REGISTERS_MAX, "words")
    BY <1>1, <1>6, HandlerOf DEF handleFC4
  <2>2. h.handler = "readInputRegisters" /\ h.args[2] \in 1..READ_REGISTERS_MAX
    BY <2>1, <1>1, <1>2
  <2>3. InLimits(h.handler, h.args)
    BY <2>2 DEF InLimits
  <2> QED BY <2>3, <1>1
<1>7. CASE fc = 15
  <2> DEFINE n == WordAt(d, 3)
  <2>0. h = handleFC15(d)
    BY <1>1, <1>7, HandlerOf
  <2>7. h = IF Len(d) > 5 /\ Len(d) = 5 + d[5] /\ n \in 1..WRITE_COILS_MAX /\ d[5] = BytesFor(n)
            THEN Call("writeMultipleCoils", <<WordAt(d, 1), Unpacked(d, 6, n)>>, "head") ELSE Refuse
    BY <2>0, Zenon DEF handleFC15
  <2>2. WRITE_COILS_MAX \in Nat
    BY DEF WRITE_COILS_MAX
  <2> HIDE DEF n
  <2>1. h.handler = "writeMultipleCoils" /\ h.args[2] = Unpacked(d, 6, n) /\ n \in 1..WRITE_COILS_MAX
    BY <1>1, <2>7 DEF Call, Refuse
  <2>3. n \in Nat
    BY <2>1, <2>2
  <2>4. Len(Unpacked(d, 6, n)) = n
    BY <2>3, ListLength
  <2>5. Len(h.args[2]) \in 1..WRITE_COILS_MAX
    BY <2>1, <2>4
  <2>6. InLimits(h.handler, h.args)
    <3>1. PICK args : args = h.args
      OBVIOUS
    <3>2. InLimits("writeMultipleCoils", args) <=> Len(args[2]) \in 1..WRITE_COILS_MAX
      BY DEF InLimits
    <3> QED BY <3>1, <3>2, <2>1, <2>5
  <2> QED BY <2>6, <1>1
<1>8. CASE fc = 16
  <2>1. h.handler = "writeMultipleRegisters" /\ h.args[2] = WordsAt(d, 6, WordAt(d, 3)) /\ WordAt(d, 3) \in 1..WRITE_REGISTERS_MAX
    BY <1>1, <1>8, HandlerOf DEF handleFC16, Call, Refuse
  <2> DEFINE n == WordAt(d, 3)
  <2>2. n \in Nat
    BY <2>1
  <2> HIDE DEF n
  <2>3. Len(WordsAt(d, 6, n)) = n
    BY <2>2, ListLength
  <2>4. Len(h.args[2]) \in 1..WRITE_REGISTERS_MAX
    BY <2>1, <2>3 DEF n
  <2>5. InLimits(h.handler, h.args)
    BY <2>1, <2>4 DEF InLimits
  <2> QED BY <2>5, <1>1
<1>9. CASE fc = 23
  <2>1. /\ h.handler = "writeThenRead" /\ h.args[2] = WordAt(d, 3) /\ h.args[4] = WordsAt(d, 10, WordAt(d, 7))
        /\ WordAt(d, 3) \in 1..READ_REGISTERS_MAX /\ WordAt(d, 7) \in 1..RW_REGISTERS_WRITE_MAX
    BY <1>1, <1>9, HandlerOf DEF handleFC23, Call, Refuse
  <2> DEFINE n == WordAt(d, 7)
  <2>2. n \in Nat
    BY <2>1
  <2> HIDE DEF n
  <2>3. Len(WordsAt(d, 10, n)) = n
    BY <2>2, ListLength
  <2>6. h.args[4] = WordsAt(d, 10, n) /\ n \in 1..RW_REGISTERS_WRITE_MAX
    BY <2>1 DEF n
  <2>7. Len(h.args[4]) = n
    BY <2>3, <2>6
  <2>4. h.args[2] \in 1..READ_REGISTERS_MAX /\ Len(h.args[4]) \in 1..RW_REGISTERS_WRITE_MAX
    BY <2>1, <2>6, <2>7
  <2>5. InLimits(h.handler, h.args)
    BY <2>1, <2>4 DEF InLimits
  <2> QED BY <2>5, <1>1
<1>10. CASE fc \notin {1, 2, 3, 4, 15, 16, 23}
  <2>0. /\ InLimits("writeSingleCoil", h.args) /\ InLimits("writeSingleRegister", h.args)
        /\ InLimits("diagnosticsReturnQueryData", h.args) /\ InLimits("reportServerId", h.args)
        /\ InLimits("maskWriteRegister", h.args) /\ InLimits("custom", h.args)
    BY DEF InLimits
  <2>1. CASE fc = 5
    <3>1. h.handler = "writeSingleCoil"
      BY <1>1, <2>1, HandlerOf DEF handleFC5, Call, Refuse
    <3> QED BY <3>1, <2>0, <1>1
  <2>2. CASE fc = 6
    <3>1. h.handler = "writeSingleRegister"
      BY <1>1, <2>2, HandlerOf DEF handleFC6, Call, Refuse
    <3> QED BY <3>1, <2>0, <1>1
  <2>3. CASE fc = 8
    <3>1. h.handler = "diagnosticsReturnQueryData"
      BY <1>1, <2>3, HandlerOf DEF handleFC8, Call, Refuse
    <3> QED BY <3>1, <2>0, <1>1
  <2>4. CASE fc = 17
    <3>1. h.handler = "reportServerId"
      BY <1>1, <2>4, HandlerOf DEF handleFC17, Call, Refuse
    <3> QED BY <3>1, <2>0, <1>1
  <2>5. CASE fc = 22
    <3>1. h.handler = "maskWriteRegister"
      BY <1>1, <2>5, HandlerOf DEF handleFC22, Call, Refuse
    <3> QED BY <3>1, <2>0, <1>1
  <2>6. CASE fc \notin {5, 6, 8, 17, 22}
    <3>1. h = cfcResponse(d)
      BY <1>1, <1>10, <2>6 DEF handleFC
    <3>2. h.handler = "custom"
      BY <3>1 DEF cfcResponse, Call
    <3> QED BY <3>2, <2>0, <1>1
  <2> QED BY <2>1, <2>2, <2>3, <2>4, <2>5, <2>6
<1> QED BY <1>3, <1>4, <1>5, <1>6, <1>7, <1>8, <1>9, <1>10
-----------------------------------------------------------------------------
(* What holds between the steps of a request: the PDU sent is the master's *)
(* own if nobody else sent it, the handler called is the one the slave     *)
(* found for it, and the response is one of three: a refusal, a failure of *)
(* the model, or its answer.                                               *)
Replied ==
  \/ /\ ~fcCall.ok
     /\ fcFrame = Exception(IF handleFC(fcReq.fc, fcSent).ok THEN ILLEGAL_FUNCTION
                                                             ELSE ILLEGAL_DATA_VALUE)
  \/ fcCall.ok /\ fcFrame = Exception(2)
  \/ fcCall.ok /\ fcAnswer \in Answers(fcCall) /\ fcFrame = Reply(fcAnswer)

Received ==
  \E f \in IF fcTampered THEN Forged(fcFrame) ELSE {fcFrame} : fcOutcome = Settled(f)

FcInv ==
  /\ fcStage \in {"ask", "sent", "called", "answered", "over"} /\ fcTampered \in BOOLEAN
  /\ fcStage = "ask" => fcOwn /\ fcCall = Refuse
  /\ fcStage # "ask" =>
       /\ fcReq \in Requests /\ fcUnit \in {0, 1}
       /\ fcOwn => fcSent = Method(fcReq).pdu
       /\ fcCall = Refuse \/ fcCall = handleFC(fcReq.fc, fcSent)
  /\ fcStage = "sent" => fcCall = Refuse
  /\ fcStage = "called" => fcCall.ok
  /\ fcStage \in {"answered", "over"} => Replied
  /\ fcStage = "over" => fcOwn /\ fcUnit # 0 /\ Received

LEMMA FcStarts == FcInit => FcInv
BY DEF FcInit, FcInv, Refuse

LEMMA AskKeeps ==
  ASSUME FcInv, NEW r \in Requests, NEW u \in {0, 1}, Ask(r, u)
  PROVE  FcInv'
BY DEF FcInv, Ask, Refuse

LEMMA ForeignKeeps ==
  ASSUME FcInv, NEW r \in Requests, ForeignRequest(r)
  PROVE  FcInv'
BY DEF FcInv, ForeignRequest, Refuse

LEMMA DispatchKeeps ==
  ASSUME FcInv, NEW b \in BOOLEAN, Dispatch(b)
  PROVE  FcInv'
<1>1. /\ fcStage = "sent" /\ fcCall = Refuse /\ ~Refuse.ok
      /\ fcReq \in Requests /\ fcUnit \in {0, 1} /\ (fcOwn => fcSent = Method(fcReq).pdu)
      /\ fcTampered \in BOOLEAN
  BY DEF FcInv, Dispatch, Refuse
<1>2. UNCHANGED <<fcReq, fcUnit, fcSent, fcOwn, fcAnswer, fcTampered, fcOutcome>>
  BY DEF Dispatch
<1>3. PICK h : h = handleFC(fcReq.fc, fcSent)
  OBVIOUS
<1>4. CASE h.ok /\ fcCall' = h /\ fcStage' = "called"
  BY <1>1, <1>2, <1>3, <1>4 DEF FcInv
<1>5. CASE /\ fcFrame' = Exception(IF h.ok THEN ILLEGAL_FUNCTION ELSE ILLEGAL_DATA_VALUE)
           /\ fcStage' = "answered" /\ fcCall' = fcCall
  <2>1. Replied'
    BY <1>1, <1>2, <1>3, <1>5 DEF Replied, Exception
  <2> QED BY <2>1, <1>1, <1>2, <1>5 DEF FcInv
<1> QED BY <1>3, <1>4, <1>5 DEF Dispatch

LEMMA FailsKeeps == ASSUME FcInv, ModelFails PROVE FcInv'
<1>1. Replied'
  BY DEF FcInv, ModelFails, Replied, Exception
<1> QED BY <1>1 DEF FcInv, ModelFails

LEMMA AnswersKeeps == ASSUME FcInv, ModelAnswers PROVE FcInv'
<1>1. fcCall.ok /\ UNCHANGED <<fcReq, fcUnit, fcSent, fcOwn, fcCall, fcTampered, fcOutcome>>
  BY DEF FcInv, ModelAnswers
<1>2. PICK a \in Answers(fcCall) : fcAnswer' = a /\ fcFrame' = Reply(a)
  BY DEF ModelAnswers
<1>3. Reply(a)' = Reply(a)
  BY <1>1 DEF Reply, Response, Exception, ServerIdBytes
<1>4. Replied'
  BY <1>1, <1>2, <1>3 DEF Replied
<1> QED BY <1>1, <1>4 DEF FcInv, ModelAnswers

LEMMA AnsweredKeeps == ASSUME FcInv, NEW b \in BOOLEAN, Answered(b) PROVE FcInv'
<1>1. /\ fcStage = "answered" /\ fcOwn /\ fcUnit # 0 /\ Replied /\ fcTampered' = b /\ fcStage' = "over"
      /\ UNCHANGED <<fcReq, fcUnit, fcSent, fcOwn, fcCall, fcAnswer, fcFrame>>
  BY DEF FcInv, Answered
<1>2. Replied'
  <2>1. Reply(fcAnswer)' = Reply(fcAnswer)
    BY <1>1 DEF Reply, Response, Exception, ServerIdBytes
  <2>2. \A x : Exception(x)' = Exception(x)
    BY <1>1 DEF Exception
  <2> QED BY <1>1, <2>1, <2>2 DEF Replied, Exception
<1>3. PICK f \in IF b THEN Forged(fcFrame) ELSE {fcFrame} : fcOutcome' = Settled(f)
  BY DEF Answered
<1>4. Settled(f)' = Settled(f)
  BY <1>1 DEF Settled, detectException, Conforms, Decoded, validateByteCountResponse,
              validateEchoResponse, validateResponse
<1>5. Forged(fcFrame)' = Forged(fcFrame)
  BY <1>1 DEF Forged
<1>6. Received'
  BY <1>1, <1>3, <1>4, <1>5 DEF Received
<1> QED BY <1>1, <1>2, <1>6 DEF FcInv

LEMMA FcKeeps == FcInv /\ [FcNext]_fcVars => FcInv'
<1> SUFFICES ASSUME FcInv, [FcNext]_fcVars PROVE FcInv'
  OBVIOUS
<1>1. CASE UNCHANGED fcVars
  <2>1. Replied' <=> Replied
    BY <1>1 DEF fcVars, Replied, Reply, Response, Exception, ServerIdBytes
  <2>2. Received' <=> Received
    BY <1>1 DEF fcVars, Received, Forged, Settled, detectException, Conforms, Decoded,
                validateByteCountResponse, validateEchoResponse, validateResponse
  <2> QED BY <1>1, <2>1, <2>2 DEF fcVars, FcInv
<1> QED BY <1>1, AskKeeps, ForeignKeeps, DispatchKeeps, FailsKeeps, AnswersKeeps, AnsweredKeeps DEF FcNext

LEMMA FcAlways == FcSpec => []FcInv
BY FcStarts, FcKeeps, PTL DEF FcSpec

(* Whatever is asked, with any numbers and lists, and whatever another     *)
(* master sends: a handler of the model is called within the limits of the *)
(* protocol, for a request of this master with exactly what was asked, and *)
(* a request is refused only when it is beyond the limits.                 *)
THEOREM HandlersGetRequests == FcSpec => []HandlerGetsRequest
<1>1. FcInv => HandlerGetsRequest
  <2> SUFFICES ASSUME FcInv, fcStage \in {"called", "answered", "over"}
               PROVE  /\ fcCall.ok => InLimits(fcCall.handler, fcCall.args)
                      /\ fcOwn => IF fcCall.ok THEN <<fcCall.handler, fcCall.args>> = Meant(fcReq)
                                  ELSE fcFrame = Exception(IF InLimits(Meant(fcReq)[1], Meant(fcReq)[2])
                                                           THEN ILLEGAL_FUNCTION ELSE ILLEGAL_DATA_VALUE)
    BY DEF HandlerGetsRequest
  <2>1. /\ fcReq \in Requests /\ (fcOwn => fcSent = Method(fcReq).pdu)
        /\ fcCall = Refuse \/ fcCall = handleFC(fcReq.fc, fcSent)
        /\ ~Refuse.ok
    BY DEF FcInv, Refuse
  <2>2. PICK h : h = handleFC(fcReq.fc, fcSent)
    OBVIOUS
  <2>3. fcCall.ok => fcCall = h /\ h.ok
    BY <2>1, <2>2
  <2>4. fcCall.ok => InLimits(fcCall.handler, fcCall.args)
    BY <2>2, <2>3, CalledWithinLimits
  <2>5. PICK m : m = Meant(fcReq)
    OBVIOUS
  <2>6. fcOwn => /\ h.ok \in BOOLEAN /\ (h.ok <=> InLimits(m[1], m[2]))
                 /\ h.ok => h.handler = m[1] /\ h.args = m[2]
    BY <2>1, <2>2, <2>5, RequestsMeant DEF Faithful
  <2>7. m = <<m[1], m[2]>>
    BY <2>1, <2>5, RequestsMeant DEF Faithful
  <2>8. ~fcCall.ok => fcFrame = Exception(IF h.ok THEN ILLEGAL_FUNCTION ELSE ILLEGAL_DATA_VALUE)
    BY <2>2 DEF FcInv, Replied
  <2> QED BY <2>3, <2>4, <2>5, <2>6, <2>7, <2>8
<1> QED BY <1>1, FcAlways, PTL
-----------------------------------------------------------------------------
(* Responses.  One counts k bytes when it has so many behind its first.    *)
Counts(data, k) == data \in Seq(Nat) /\ k \in Nat \ {0} /\ Len(data) = 1 + k /\ data[1] = k

InFront(k, t) == <<k>> \o t
HasInFront(d, k, t) ==
  /\ d \in Seq(Nat) /\ Len(d) = 1 + Len(t) /\ d[1] = k /\ Len(t) \in Nat
  /\ \A j \in 1..Len(t) : d[2 + j - 1] = t[j]

LEMMA CountInFront ==
  ASSUME NEW k \in Nat, NEW t \in Seq(Nat)
  PROVE  HasInFront(InFront(k, t), k, t)
<1>1. <<k>> \in Seq(Nat) /\ Len(<<k>>) = 1 /\ <<k>>[1] = k
  OBVIOUS
<1>2. Len(t) \in Nat
  BY LenProperties
<1> DEFINE h == <<k>>
           d == h \o t
<1> HIDE DEF h
<1>4. h \in Seq(Nat) /\ Len(h) = 1 /\ h[1] = k
  BY <1>1 DEF h
<1>7. IsJoined(d, h, t)
  BY <1>4, Joined
<1> HIDE DEF d
<1>3. d \in Seq(Nat) /\ Len(d) = Len(h) + Len(t)
  BY <1>7 DEF IsJoined
<1>5. Len(d) = 1 + Len(t) /\ d[1] = k
  <2>1. 1 \in 1..(Len(h) + Len(t)) /\ 1 <= Len(h)
    BY <1>2, <1>4
  <2>2. d[1] = h[1]
    BY <1>7, <2>1 DEF IsJoined
  <2> QED BY <2>2, <1>3, <1>4
<1>6. ASSUME NEW j \in 1..Len(t) PROVE d[2 + j - 1] = t[j]
  <2> DEFINE i == 2 + j - 1
  <2>1. i \in 1..(Len(h) + Len(t)) /\ ~(i <= Len(h)) /\ i - Len(h) = j
    BY <1>2, <1>4
  <2> HIDE DEF i
  <2>2. d[i] = t[i - Len(h)]
    BY <1>7, <2>1 DEF IsJoined
  <2> QED BY <2>1, <2>2 DEF i
<1> QED BY <1>2, <1>3, <1>5, <1>6 DEF d, h, InFront, HasInFront

(* All the coils that were asked for come back, zero where the model gave  *)
(* none.                                                                   *)
LEMMA BitsReturn ==
  ASSUME NEW w \in Nat \ {0}, NEW a \in Seq(Nat), NEW data, data = InFront(BytesFor(w), Packed(a, w))
  PROVE  /\ Counts(data, BytesFor(w))
         /\ Unpacked(data, 2, w) = [i \in 1..w |-> IF i <= Len(a) THEN a[i] % 2 ELSE 0]
<1>1. BytesFor(w) \in Nat \ {0}
  BY ShortCoils
<1>2. PICK p : p = Packed(a, w)
  OBVIOUS
<1>3. p \in Seq(Nat) /\ Len(p) = BytesFor(w)
  BY <1>2, PackedFacts
<1>4. /\ data \in Seq(Nat) /\ Len(data) = 1 + Len(p) /\ data[1] = BytesFor(w)
      /\ \A j \in 1..Len(p) : data[2 + j - 1] = p[j]
  <2>1. HasInFront(data, BytesFor(w), p)
    BY <1>1, <1>2, <1>3, CountInFront
  <2> QED BY <2>1 DEF HasInFront
<1>5. Counts(data, BytesFor(w))
  BY <1>1, <1>3, <1>4 DEF Counts
<1>6. Unpacked(data, 2, w) = [k \in 1..w |-> Bit(a, k)]
  <2>1. \A j \in 1..BytesFor(w) : data[2 + j - 1] = Packed(a, w)[j]
    BY <1>2, <1>3, <1>4
  <2> QED BY <2>1, CoilsBack
<1> QED BY <1>5, <1>6 DEF Bit

(* And the registers.                                                      *)
LEMMA WordsReturn ==
  ASSUME NEW w \in Nat \ {0}, NEW a \in Seq(Nat), NEW data, data = InFront(2 * w, Words(Padded(a, w)))
  PROVE  /\ Counts(data, 2 * w)
         /\ WordsAt(data, 2, w) = [i \in 1..w |-> IF i <= Len(a) THEN Wire(a[i]) ELSE 0]
<1>1. PICK vs : vs = Padded(a, w)
  OBVIOUS
<1>2. /\ DOMAIN vs = 1..w
      /\ \A i \in 1..w : vs[i] = IF i <= Len(a) THEN a[i] ELSE 0
  BY <1>1 DEF Padded
<1>3. vs \in Seq(Nat) /\ Len(vs) = w
  <2>1. \A i \in 1..w : i <= Len(a) => a[i] \in Nat
    BY LenProperties, ElementOfSeq
  <2>2. vs \in [1..w -> Nat]
    BY <2>1, <1>1 DEF Padded
  <2> QED BY <2>2
<1>4. PICK p : p = Words(vs)
  OBVIOUS
<1>5. p \in Seq(Nat) /\ Len(p) = 2 * w
  BY <1>3, <1>4, WordsFacts
<1>6. PICK k \in Nat \ {0} : k = 2 * w
  OBVIOUS
<1>7. /\ data \in Seq(Nat) /\ Len(data) = 1 + Len(p) /\ data[1] = k
      /\ \A j \in 1..Len(p) : data[2 + j - 1] = p[j]
  <2>1. p \in Seq(Nat) /\ k \in Nat /\ data = InFront(k, p)
    BY <1>1, <1>4, <1>5, <1>6
  <2>2. HasInFront(data, k, p)
    BY <2>1, CountInFront
  <2> QED BY <2>2 DEF HasInFront
<1>8. Counts(data, k)
  BY <1>5, <1>6, <1>7 DEF Counts
<1>9. WordsAt(data, 2, w) = [i \in 1..w |-> Wire(vs[i])]
  <2>1. \A j \in 1..(2 * Len(vs)) : data[2 + j - 1] = Words(vs)[j]
    BY <1>3, <1>4, <1>5, <1>7
  <2>2. WordsAt(data, 2, Len(vs)) = [i \in DOMAIN vs |-> Wire(vs[i])]
    <3>1. vs \in Seq(Nat)
      BY <1>3
    <3> QED BY <2>1, <3>1, WordsBack
  <2> QED BY <2>2, <1>2, <1>3
<1>10. \A i \in 1..w : Wire(vs[i]) = IF i <= Len(a) THEN Wire(a[i]) ELSE 0
  BY <1>2, WireSame
<1> QED BY <1>6, <1>8, <1>9, <1>10

(* A response altered on its way counts its bytes no longer, or is no echo.*)
LEMMA SpoiltCounts ==
  ASSUME NEW data, NEW k, Counts(data, k), NEW e \in Spoilt(data),
         Len(e) # Len(data) \/ e[1] # data[1]
  PROVE  Len(e) # 1 + e[1]
<1>1. data \in Seq(Nat) /\ k \in Nat \ {0} /\ Len(data) = 1 + k /\ data[1] = k
  BY DEF Counts
<1>2. CASE e = Append(data, 0)
  <2>1. Len(e) = 2 + k /\ e[1] = k
    BY <1>1, <1>2, AppendProperties
  <2> QED BY <2>1, <1>1
<1>3. CASE e = SubSeq(data, 1, Len(data) - 1)
  <2>1. \A i \in 1..k : data[i] \in Nat
    BY <1>1, ElementOfSeq
  <2>2. e = SubSeq(data, 1, k)
    BY <1>1, <1>3
  <2>3. Len(e) = k /\ e[1] = k
    BY <2>1, <2>2, <1>1, SubSeqProperties
  <2> QED BY <2>3, <1>1
<1>4. CASE \E i \in DOMAIN data : e = [data EXCEPT ![i] = (@ + 1) % 256]
  <2>1. Len(e) = Len(data)
    BY <1>1, <1>4
  <2>2. e[1] # k
    BY <2>1, <1>1
  <2>3. e[1] \in Nat
    <3>1. PICK i \in DOMAIN data : e = [data EXCEPT ![i] = (@ + 1) % 256]
      BY <1>4
    <3>2. 1 \in DOMAIN data /\ data[1] \in Nat
      BY <1>1
    <3>3. e[1] = k \/ e[1] = (k + 1) % 256
      BY <3>1, <3>2, <1>1
    <3> QED BY <3>3, <1>1
  <2> QED BY <2>1, <2>2, <2>3, <1>1
<1> QED BY <1>2, <1>3, <1>4 DEF Spoilt

LEMMA SpoiltDiffers ==
  ASSUME NEW data \in Seq(Nat), Len(data) > 0, NEW e \in Spoilt(data)
  PROVE  e # data
<1>1. Len(data) \in Nat
  BY LenProperties
<1>2. CASE e = Append(data, 0)
  <2>1. Len(e) = Len(data) + 1
    BY <1>2, AppendProperties
  <2> QED BY <2>1, <1>1
<1>3. CASE e = SubSeq(data, 1, Len(data) - 1)
  <2>1. PICK n \in Nat : n = Len(data) - 1
    BY <1>1
  <2>2. \A i \in 1..n : data[i] \in Nat
    BY <1>1, <2>1, ElementOfSeq
  <2>3. Len(SubSeq(data, 1, n)) = n
    BY <2>1, <2>2, <1>1, SubSeqProperties
  <2> QED BY <2>1, <2>3, <1>1, <1>3
<1>4. CASE \E i \in DOMAIN data : e = [data EXCEPT ![i] = (@ + 1) % 256]
  <2>1. PICK i \in DOMAIN data : e = [data EXCEPT ![i] = (@ + 1) % 256]
    BY <1>4
  <2>2. data[i] \in Nat
    BY <2>1, <1>1, LenProperties, ElementOfSeq
  <2>3. e[i] = (data[i] + 1) % 256
    BY <2>1
  <2>4. (data[i] + 1) % 256 # data[i]
    BY <2>2
  <2> QED BY <2>3, <2>4
<1> QED BY <1>2, <1>3, <1>4 DEF Spoilt

(* How each handler's answer is encoded.                                   *)
LEMMA RepliesBy ==
  ASSUME NEW fc, NEW d, NEW h, h = handleFC(fc, d), h.ok
  PROVE  /\ fc \in {1, 2} => h.reply = "bits"
         /\ fc \in {3, 4, 23} => h.reply = "words"
         /\ fc \in {1, 2, 3, 4, 23} => h.args[2] \in Nat \ {0}
         /\ fc \in {5, 6, 8, 22} => h.reply = "echo"
         /\ fc \in {15, 16} => h.reply = "head"
         /\ fc = 17 => h.reply = "id"
         /\ fc = CustomCode => h.reply = "custom"
<1>1. ASSUME NEW handler, NEW max \in Nat, NEW reply, NEW x, x = handleRead(d, handler, max, reply), x.ok
      PROVE  x.reply = reply /\ x.args[2] \in Nat \ {0}
  BY <1>1 DEF handleRead, Call, Refuse
<1>2. READ_COILS_MAX \in Nat /\ READ_REGISTERS_MAX \in Nat
  BY DEF READ_COILS_MAX, READ_REGISTERS_MAX
<1>3. /\ fc = 1 => h = handleRead(d, "readCoils", READ_COILS_MAX, "bits")
      /\ fc = 2 => h = handleRead(d, "readDiscreteInputs", READ_COILS_MAX, "bits")
      /\ fc = 3 => h = handleRead(d, "readHoldingRegisters", READ_REGISTERS_MAX, "words")
      /\ fc = 4 => h = handleRead(d, "readInputRegisters", READ_REGISTERS_MAX, "words")
  BY HandlerOf DEF handleFC1, handleFC2, handleFC3, handleFC4
<1>4. /\ fc \in {1, 2} => h.reply = "bits" /\ h.args[2] \in Nat \ {0}
      /\ fc \in {3, 4} => h.reply = "words" /\ h.args[2] \in Nat \ {0}
  <2>1. fc \in {1, 2} => h.reply = "bits" /\ h.args[2] \in Nat \ {0}
    BY <1>1, <1>2, <1>3
  <2>2. fc \in {3, 4} => h.reply = "words" /\ h.args[2] \in Nat \ {0}
    BY <1>1, <1>2, <1>3
  <2> QED BY <2>1, <2>2
<1>5. fc = 23 => h.reply = "words" /\ h.args[2] \in Nat \ {0}
  <2> SUFFICES ASSUME fc = 23 PROVE h.reply = "words" /\ h.args[2] \in Nat \ {0}
    OBVIOUS
  <2>1. h = handleFC23(d)
    BY HandlerOf
  <2>2. PICK args : args = <<WordAt(d, 1), WordAt(d, 3), WordAt(d, 5), WordsAt(d, 10, WordAt(d, 7))>>
    OBVIOUS
  <2>3. args[2] = WordAt(d, 3)
    BY <2>2
  <2>4. WordAt(d, 3) \in 1..READ_REGISTERS_MAX /\ h = Call("writeThenRead", args, "words")
    BY <2>1, <2>2 DEF handleFC23, Refuse
  <2> QED BY <2>3, <2>4 DEF Call
<1>6. fc \in {5, 6, 8} => h.reply = "echo"
  BY HandlerOf DEF handleFC5, handleFC6, handleFC8, Call, Refuse
<1>7. fc = 22 => h.reply = "echo"
  BY HandlerOf DEF handleFC22, Call, Refuse
<1>8. fc = 15 => h.reply = "head"
  BY HandlerOf DEF handleFC15, Call, Refuse
<1>9. fc = 16 => h.reply = "head"
  BY HandlerOf DEF handleFC16, Call, Refuse
<1>10. fc = 17 => h.reply = "id"
  BY HandlerOf DEF handleFC17, Call, Refuse
<1>11. fc = CustomCode => h.reply = "custom"
  BY HandlerOf DEF cfcResponse, Call, Refuse
<1> QED BY <1>4, <1>5, <1>6, <1>7, <1>8, <1>9, <1>10, <1>11

(* The server id, told from the rest by its length.                        *)
IdFound(data, sid, run, extra) ==
  /\ Counts(data, data[1]) /\ Len(data) >= 2 + Len(sid)
  /\ SubSeq(data, 2, Len(sid) + 1) = sid
  /\ (data[Len(sid) + 2] = 255) = run
  /\ SubSeq(data, Len(sid) + 3, Len(data)) = extra

IdBytes(sid, run, extra) == sid \o <<IF run THEN 255 ELSE 0>> \o extra

LEMMA IdReturns ==
  ASSUME NEW sid \in Seq(Nat), NEW extra \in Seq(Nat), NEW run \in BOOLEAN
  PROVE  IdFound(InFront(Len(IdBytes(sid, run, extra)), IdBytes(sid, run, extra)), sid, run, extra)
<1>0. PICK bytes : bytes = IdBytes(sid, run, extra)
  OBVIOUS
<1>1. PICK c \in Nat : c = IF run THEN 255 ELSE 0
  OBVIOUS
<1>2. PICK n \in Nat : n = Len(sid)
  BY LenProperties
<1>3. PICK m \in Nat : m = Len(extra)
  BY LenProperties
<1>4. IsBehind(bytes, sid, c, extra)
  <2>1. IsBehind(sid \o <<c>> \o extra, sid, c, extra)
    BY Behind
  <2> QED BY <1>0, <1>1, <2>1 DEF IdBytes
<1>5. bytes \in Seq(Nat) /\ Len(bytes) = n + 1 + m
  BY <1>2, <1>3, <1>4 DEF IsBehind
<1>6. PICK k \in Nat \ {0} : k = Len(bytes) /\ k = n + 1 + m
  BY <1>5
<1>7. PICK data : data = InFront(k, bytes)
  OBVIOUS
<1>8. HasInFront(data, k, bytes)
  BY <1>5, <1>7, CountInFront
<1>9. data \in Seq(Nat) /\ Len(data) = 1 + k /\ data[1] = k
  BY <1>6, <1>8 DEF HasInFront
<1>10. ASSUME NEW j \in 1..k PROVE data[1 + j] = bytes[j]
  <2>1. j \in 1..Len(bytes) /\ 2 + j - 1 = 1 + j
    BY <1>6
  <2>2. data[2 + j - 1] = bytes[j]
    BY <2>1, <1>8 DEF HasInFront
  <2> QED BY <2>1, <2>2
<1>11. SubSeq(data, 2, n + 1) = sid
  <2>1. ASSUME NEW j \in 1..Len(sid) PROVE data[2 + j - 1] = sid[j]
    <3>1. j \in 1..k /\ 2 + j - 1 = 1 + j
      BY <1>2, <1>6
    <3>2. bytes[j] = sid[j]
      BY <1>4 DEF IsBehind
    <3> QED BY <3>1, <3>2, <1>10
  <2>2. n + 1 = 2 + Len(sid) - 1 /\ n + 1 <= Len(data) /\ n + 1 \in Nat
    BY <1>2, <1>6, <1>9
  <2>3. data \in Seq(Nat)
    BY <1>9
  <2> QED BY <2>1, <2>2, <2>3, Part
<1>12. (data[n + 2] = 255) = run
  <2>1. PICK i \in 1..k : i = n + 1
    BY <1>6
  <2>2. data[1 + i] = bytes[i]
    BY <1>10
  <2>3. bytes[i] = c
    BY <2>1, <1>2, <1>4 DEF IsBehind
  <2>4. 1 + i = n + 2
    BY <2>1
  <2>5. data[n + 2] = c
    BY <2>2, <2>3, <2>4
  <2>6. CASE run = TRUE
    BY <2>5, <2>6, <1>1
  <2>7. CASE run = FALSE
    BY <2>5, <2>7, <1>1
  <2> QED BY <2>6, <2>7
<1>13. SubSeq(data, n + 3, Len(data)) = extra
  <2>1. ASSUME NEW j \in 1..Len(extra) PROVE data[(n + 3) + j - 1] = extra[j]
    <3>1. n + 1 + j \in 1..k /\ 1 + (n + 1 + j) = (n + 3) + j - 1
      BY <1>3, <1>6
    <3>2. bytes[Len(sid) + 1 + j] = extra[j]
      BY <1>4 DEF IsBehind
    <3>3. bytes[n + 1 + j] = extra[j]
      BY <3>2, <1>2
    <3>4. data[1 + (n + 1 + j)] = bytes[n + 1 + j]
      BY <3>1, <1>10
    <3> QED BY <3>1, <3>3, <3>4
  <2>2. /\ Len(data) = (n + 3) + Len(extra) - 1 /\ Len(data) <= Len(data)
        /\ Len(data) \in Nat /\ n + 3 \in Nat \ {0}
    BY <1>3, <1>6, <1>9
  <2>3. data \in Seq(Nat)
    BY <1>9
  <2> QED BY <2>1, <2>2, <2>3, Part
<1>14. Counts(data, k)
  BY <1>9 DEF Counts
<1>15. Len(data) >= 2 + n
  BY <1>6, <1>9
<1>16. IdFound(data, sid, run, extra)
  BY <1>2, <1>9, <1>11, <1>12, <1>13, <1>14, <1>15 DEF IdFound
<1> QED BY <1>0, <1>6, <1>7, <1>16
-----------------------------------------------------------------------------
(* A response to the request in hand: its method takes it and decodes what *)
(* the caller is owed, unless what was asked for does not fit in 16 bits,  *)
(* or nobody can tell the server id from the rest.                         *)
Long == fcReq.fc \in {1, 2, 3, 4, 23} /\ fcReq.length > 65535
Told(a) == fcReq.fc = 17 => a.sid # Nothing /\ Len(a.sid) = fcReq.idLength
Fits(data, a) ==
  LET m == Method(fcReq)
  IN /\ m.takes \in {"bytes", "id", "echo"} \/ fcReq.fc = CustomCode
     /\ m.takes \in {"bytes", "id"} => Counts(data, data[1])
     /\ m.takes = "echo" => data \in Seq(Nat) /\ Len(data) > 0 /\ data = m.echo
     /\ Long => m.takes = "bytes" /\ data[1] # m.size
     /\ ~Long /\ Told(a) => Conforms(Response(data)) /\ Decoded(Response(data)) = Owed(a)

LEMMA DecodedAs ==
  ASSUME NEW f
  PROVE  /\ fcReq.fc \in {1, 2} => Decoded(f) = Unpacked(f.data, 2, fcReq.length)
         /\ fcReq.fc \in {3, 4, 23} => Decoded(f) = WordsAt(f.data, 2, fcReq.length)
<1>1. fcReq.fc \in {1, 2} => Decoded(f) = Unpacked(f.data, 2, fcReq.length)
  BY DEF Decoded
<1>2. fcReq.fc \in {3, 4, 23} => Decoded(f) = WordsAt(f.data, 2, fcReq.length)
  BY DEF Decoded
<1> QED BY <1>1, <1>2

LEMMA Taken ==
  ASSUME NEW data, NEW m, m = Method(fcReq),
         \/ m.takes = "bytes" /\ Len(data) = 1 + m.size /\ data[1] = m.size
         \/ m.takes = "echo" /\ data = m.echo
         \/ m.takes = "id" /\ Len(data) >= 2 + m.size /\ Len(data) = 1 + data[1]
         \/ m.takes = "any"
  PROVE  Conforms(Response(data))
BY DEF Conforms, Response, validateByteCountResponse, validateEchoResponse, validateResponse

LEMMA LongCoils ==
  ASSUME NEW n \in Nat, n > 65535
  PROVE  BytesFor(n % 65536) # BytesFor(n)
<1>1. PICK k \in Nat : k >= 1 /\ n = (65536 * k) + (n % 65536)
  <2>1. n \div 65536 \in Nat /\ n \div 65536 >= 1 /\ n = (65536 * (n \div 65536)) + (n % 65536)
    OBVIOUS
  <2> QED BY <2>1
<1>2. PICK w \in Nat : w = n % 65536
  OBVIOUS
<1>3. n + 7 = (w + 7) + (8 * (8192 * k))
  BY <1>1, <1>2
<1>4. (n + 7) \div 8 = ((w + 7) \div 8) + (8192 * k)
  BY <1>3
<1> QED BY <1>1, <1>2, <1>4 DEF BytesFor

LEMMA BitsFit ==
  ASSUME fcReq \in Requests, fcReq.fc \in {1, 2}, NEW w \in Nat \ {0}, w = Wire(fcReq.length),
         fcCall.reply = "bits", fcCall.args[2] = w, NEW a \in Answers(fcCall)
  PROVE  \E data : Reply(a) = Response(data) /\ Fits(data, a)
<1>1. fcReq.length \in Nat
  BY FunctionCodesAssumption
<1>2. PICK data : data = InFront(BytesFor(w), Packed(a, w))
  OBVIOUS
<1>3. Reply(a) = Response(data)
  BY <1>2 DEF Reply, InFront
<1>4. a \in Seq(Nat)
  BY FunctionCodesAssumption DEF Answers
<1>5. /\ Counts(data, BytesFor(w))
      /\ Unpacked(data, 2, w) = [i \in 1..w |-> IF i <= Len(a) THEN a[i] % 2 ELSE 0]
  BY <1>2, <1>4, BitsReturn
<1>6. Method(fcReq).takes = "bytes" /\ Method(fcReq).size = BytesFor(fcReq.length)
  BY MethodOf DEF writeFC1Or2, Counted
<1>7. Counts(data, data[1]) /\ data[1] = BytesFor(w) /\ Len(data) = 1 + BytesFor(w)
  BY <1>5 DEF Counts
<1>8. ASSUME Long PROVE data[1] # Method(fcReq).size
  <2>1. w = fcReq.length % 65536 /\ fcReq.length > 65535
    BY <1>8 DEF Long, Wire
  <2>2. BytesFor(w) # BytesFor(fcReq.length)
    BY <2>1, <1>1, LongCoils
  <2> QED BY <2>2, <1>6, <1>7
<1>9. ASSUME ~Long PROVE Conforms(Response(data)) /\ Decoded(Response(data)) = Owed(a)
  <2>1. w = fcReq.length
    <3>1. fcReq.length <= 65535
      BY <1>1, <1>9 DEF Long
    <3> QED BY <3>1, <1>1, WireSame
  <2>2. Conforms(Response(data))
    BY <2>1, <1>6, <1>7, Taken
  <2>3. Response(data).data = data
    BY DEF Response
  <2>4. Decoded(Response(data)) = Unpacked(data, 2, fcReq.length)
    BY <2>3, DecodedAs
  <2>5. Owed(a) = [i \in 1..fcReq.length |-> IF i <= Len(a) THEN a[i] % 2 ELSE 0]
    BY DEF Owed
  <2>6. Decoded(Response(data)) = Unpacked(data, 2, w)
    BY <2>1, <2>4
  <2>7. Owed(a) = [i \in 1..w |-> IF i <= Len(a) THEN a[i] % 2 ELSE 0]
    BY <2>1, <2>5
  <2>8. Decoded(Response(data)) = Owed(a)
    BY <2>6, <2>7, <1>5
  <2> QED BY <2>2, <2>8
<1> QED BY <1>3, <1>6, <1>7, <1>8, <1>9 DEF Fits

LEMMA WordsFit ==
  ASSUME fcReq \in Requests, fcReq.fc \in {3, 4, 23}, NEW w \in Nat \ {0}, w = Wire(fcReq.length),
         fcCall.reply = "words", fcCall.args[2] = w, NEW a \in Answers(fcCall)
  PROVE  \E data : Reply(a) = Response(data) /\ Fits(data, a)
<1>1. fcReq.length \in Nat
  BY FunctionCodesAssumption
<1>2. PICK data : data = InFront(2 * w, Words(Padded(a, w)))
  OBVIOUS
<1>3. Reply(a) = Response(data)
  BY <1>2 DEF Reply, InFront
<1>4. a \in Seq(Nat)
  BY FunctionCodesAssumption DEF Answers
<1>5. /\ Counts(data, 2 * w)
      /\ WordsAt(data, 2, w) = [i \in 1..w |-> IF i <= Len(a) THEN Wire(a[i]) ELSE 0]
  BY <1>2, <1>4, WordsReturn
<1>6. Method(fcReq).takes = "bytes" /\ Method(fcReq).size = 2 * fcReq.length
  <2>1. \A pdu : Counted(pdu, 2 * fcReq.length).takes = "bytes" /\ Counted(pdu, 2 * fcReq.length).size = 2 * fcReq.length
    BY DEF Counted
  <2>2. \E pdu : Method(fcReq) = Counted(pdu, 2 * fcReq.length)
    <3>1. CASE fcReq.fc \in {3, 4}
      BY <3>1, MethodOf DEF writeFC3Or4
    <3>2. CASE fcReq.fc = 23
      BY <3>2, MethodOf DEF readAndWriteMultipleRegisters
    <3> QED BY <3>1, <3>2
  <2> QED BY <2>1, <2>2
<1>7. Counts(data, data[1]) /\ data[1] = 2 * w /\ Len(data) = 1 + 2 * w
  BY <1>5 DEF Counts
<1>8. ASSUME Long PROVE data[1] # Method(fcReq).size
  <2>1. w = fcReq.length % 65536 /\ fcReq.length > 65535
    BY <1>8 DEF Long, Wire
  <2>2. w # fcReq.length
    BY <2>1, <1>1
  <2> QED BY <2>2, <1>1, <1>6, <1>7
<1>9. ASSUME ~Long PROVE Conforms(Response(data)) /\ Decoded(Response(data)) = Owed(a)
  <2>1. w = fcReq.length
    <3>1. fcReq.length <= 65535
      BY <1>1, <1>9 DEF Long
    <3> QED BY <3>1, <1>1, WireSame
  <2>2. Conforms(Response(data))
    BY <2>1, <1>6, <1>7, Taken
  <2>3. Response(data).data = data
    BY DEF Response
  <2>4. Decoded(Response(data)) = WordsAt(data, 2, fcReq.length)
    BY <2>3, DecodedAs
  <2>5. Owed(a) = [i \in 1..fcReq.length |-> IF i <= Len(a) THEN Wire(a[i]) ELSE 0]
    BY DEF Owed
  <2>6. Decoded(Response(data)) = WordsAt(data, 2, w)
    BY <2>1, <2>4
  <2>7. Owed(a) = [i \in 1..w |-> IF i <= Len(a) THEN Wire(a[i]) ELSE 0]
    BY <2>1, <2>5
  <2>8. Decoded(Response(data)) = Owed(a)
    BY <2>6, <2>7, <1>5
  <2> QED BY <2>2, <2>8
<1> QED BY <1>3, <1>6, <1>7, <1>8, <1>9 DEF Fits

(* An echo of a request has bytes.                                         *)
LEMMA SinglesSent ==
  ASSUME NEW r \in Requests, r.fc \in {5, 6, 8}
  PROVE  Method(r).pdu \in Seq(Nat) /\ Len(Method(r).pdu) = 4
<1>1. \A s \in Seq(Nat), t \in Seq(Nat) : s \o t \in Seq(Nat) /\ Len(s \o t) = Len(s) + Len(t)
  BY Joined DEF IsJoined
<1>2. \A n \in Nat : Word(n) \in Seq(Nat) /\ Len(Word(n)) = 2
  BY WordFacts
<1>3. \A x \in Nat, y \in Nat : <<x, y>> \in Seq(Nat) /\ Len(<<x, y>>) = 2
  OBVIOUS
<1>4. r.value \in Nat
  BY FunctionCodesAssumption
<1>5. PICK s, t : /\ Method(r).pdu = s \o t
                 /\ s \in Seq(Nat) /\ Len(s) = 2 /\ t \in Seq(Nat) /\ Len(t) = 2
  <2>1. CASE r.fc \in {5, 6}
    <3>1. r.address \in Nat
      BY <2>1, KnownCodes, FunctionCodesAssumption
    <3>2. PICK t : t = IF r.fc = 6 THEN Word(r.value) ELSE IF r.value = 0 THEN <<0, 0>> ELSE <<255, 0>>
      OBVIOUS
    <3>3. t \in Seq(Nat) /\ Len(t) = 2
      BY <3>2, <1>2, <1>3, <1>4
    <3>4. CASE r.fc = 5
      <4>1. t = IF r.value = 0 THEN <<0, 0>> ELSE <<255, 0>>
        BY <3>2, <3>4
      <4>3. Method(r) = writeSingleCoil(r)
        BY <3>4, MethodOf
      <4>4. writeSingleCoil(r).pdu = Word(r.address) \o t
        BY <4>1 DEF writeSingleCoil, Echoed
      <4>2. Method(r).pdu = Word(r.address) \o t
        BY <4>3, <4>4
      <4> QED BY <4>2, <3>1, <3>3, <1>2
    <3>5. CASE r.fc = 6
      <4>1. t = Word(r.value)
        BY <3>2, <3>5
      <4>3. Method(r) = writeSingleRegister(r)
        BY <3>5, MethodOf
      <4>4. writeSingleRegister(r).pdu = Word(r.address) \o Word(r.value)
        BY DEF writeSingleRegister, Echoed
      <4>2. Method(r).pdu = Word(r.address) \o t
        BY <4>1, <4>3, <4>4
      <4> QED BY <4>2, <3>1, <3>3, <1>2
    <3> QED BY <2>1, <3>4, <3>5
  <2>2. CASE r.fc = 8
    <3>1. PICK s : s = <<0, 0>>
      OBVIOUS
    <3>2. Method(r).pdu = s \o Word(r.value)
      BY <2>2, <3>1, MethodOf DEF diagnosticsReturnQueryData, Echoed
    <3>3. s \in Seq(Nat) /\ Len(s) = 2
      BY <3>1, <1>3
    <3> QED BY <3>2, <3>3, <1>2, <1>4
  <2> QED BY <2>1, <2>2
<1>6. PICK p : p = s \o t
  OBVIOUS
<1>7. p \in Seq(Nat) /\ Len(p) = 4
  <2>1. p \in Seq(Nat) /\ Len(p) = Len(s) + Len(t)
    BY <1>1, <1>5, <1>6
  <2> QED BY <2>1, <1>5
<1> QED BY <1>5, <1>6, <1>7

LEMMA EchoOf ==
  ASSUME NEW r \in Requests, r.fc \in {5, 6, 8, 22, 15, 16}
  PROVE  /\ Method(r).takes = "echo"
         /\ Method(r).echo \in Seq(Nat) /\ Len(Method(r).echo) > 0
         /\ r.fc \in {5, 6, 8, 22} => Method(r).echo = Method(r).pdu
         /\ r.fc \in {15, 16} => Method(r).echo = SubSeq(Method(r).pdu, 1, 4)
<1>0. PICK m : m = Method(r)
  OBVIOUS
<1>1. CASE r.fc \in {5, 6, 8}
  <2>1. m.takes = "echo" /\ m.echo = m.pdu
    <3>1. \E pdu : m = Echoed(pdu, pdu)
      <4>1. CASE r.fc = 5
        BY <4>1, <1>0, MethodOf DEF writeSingleCoil
      <4>2. CASE r.fc = 6
        BY <4>2, <1>0, MethodOf DEF writeSingleRegister
      <4>3. CASE r.fc = 8
        BY <4>3, <1>0, MethodOf DEF diagnosticsReturnQueryData
      <4> QED BY <4>1, <4>2, <4>3, <1>1
    <3> QED BY <3>1 DEF Echoed
  <2>2. m.pdu \in Seq(Nat) /\ Len(m.pdu) = 4
    BY <1>0, <1>1, SinglesSent
  <2>3. r.fc \notin {15, 16}
    BY <1>1
  <2>4. m.echo \in Seq(Nat) /\ Len(m.echo) > 0
    BY <2>1, <2>2
  <2> QED BY <1>0, <2>1, <2>3, <2>4, Zenon
<1>2. CASE r.fc = 22
  <2>1. r.address \in Nat /\ r.andMask \in Nat /\ r.orMask \in Nat
    BY <1>2, KnownCodes, FunctionCodesAssumption
  <2>2. PICK pdu : pdu = Word(r.address) \o Word(r.andMask) \o Word(r.orMask)
    OBVIOUS
  <2>7. AreWords3(pdu, r.address, r.andMask, r.orMask)
    BY <2>1, <2>2, ThreeWords
  <2>3. pdu \in Seq(Nat) /\ Len(pdu) = 6
    BY <2>7 DEF AreWords3
  <2>4. m = Echoed(pdu, pdu)
    BY <1>0, <1>2, <2>2, MethodOf DEF maskWriteRegister
  <2>5. m.takes = "echo" /\ m.echo = pdu /\ m.pdu = pdu
    BY <2>4 DEF Echoed
  <2>6. r.fc \notin {15, 16} /\ Len(pdu) > 0
    BY <1>2, <2>3
  <2> QED BY <1>0, <2>3, <2>5, <2>6, Zenon
<1>3. CASE r.fc \in {15, 16}
  <2>1. r.address \in Nat /\ r.values \in Seq(Nat)
    BY <1>3, KnownCodes, FunctionCodesAssumption
  <2>2. PICK n \in Nat : n = Len(r.values)
    BY <2>1, LenProperties
  <2>3. PICK head : head = Word(r.address) \o Word(n)
    OBVIOUS
  <2>11. AreWords2(head, r.address, n)
    BY <2>1, <2>3, TwoWords
  <2>4. head \in Seq(Nat) /\ Len(head) = 4
    BY <2>11 DEF AreWords2
  <2>5. PICK c \in Nat, t \in Seq(Nat) : m = Echoed(head \o <<c>> \o t, head)
    <3>1. CASE r.fc = 15
      <4>1. BytesFor(n) % 256 \in Nat /\ Packed(r.values, n) \in Seq(Nat)
        <5>1. BytesFor(n) \in Nat /\ Packed(r.values, n) \in Seq(Nat)
          BY <2>1, PackedLength
        <5> QED BY <5>1
      <4>3. m = writeMultipleCoils(r)
        BY <1>0, <3>1, MethodOf
      <4>2. m = Echoed(head \o <<BytesFor(n) % 256>> \o Packed(r.values, n), head)
        BY <4>3, <2>2, <2>3 DEF writeMultipleCoils
      <4> QED BY <4>1, <4>2, Zenon
    <3>2. CASE r.fc = 16
      <4>1. (2 * n) % 256 \in Nat /\ Words(r.values) \in Seq(Nat)
        <5>1. Words(r.values) \in Seq(Nat)
          BY <2>1, WordsFacts
        <5>2. (2 * n) % 256 \in Nat
          OBVIOUS
        <5> QED BY <5>1, <5>2
      <4>3. m = writeMultipleRegisters(r)
        BY <1>0, <3>2, MethodOf
      <4>2. m = Echoed(head \o <<(2 * n) % 256>> \o Words(r.values), head)
        BY <4>3, <2>2, <2>3 DEF writeMultipleRegisters
      <4> QED BY <4>1, <4>2, Zenon
    <3> QED BY <1>3, <3>1, <3>2
  <2>6. PICK pdu : pdu = Behind2(r.address, n, c, t)
    OBVIOUS
  <2>7. SubSeq(pdu, 1, 4) = head
    <3>1. r.address \in Nat
      BY <2>1
    <3>2. SubSeq(Behind2(r.address, n, c, t), 1, 4) = Word(r.address) \o Word(n)
      BY <3>1, Behind2Facts
    <3> QED BY <3>2, <2>3, <2>6
  <2>8. m = Echoed(pdu, head)
    BY <2>3, <2>5, <2>6 DEF Behind2
  <2>9. m.takes = "echo" /\ m.echo = head /\ m.pdu = pdu
    BY <2>8 DEF Echoed
  <2>10. r.fc \notin {5, 6, 8, 22} /\ Len(head) > 0
    BY <1>3, <2>4
  <2> QED BY <1>0, <2>4, <2>7, <2>9, <2>10, Zenon
<1> QED BY <1>1, <1>2, <1>3

LEMMA EchoesFit ==
  ASSUME fcReq \in Requests, fcReq.fc \in {5, 6, 8, 22, 15, 16}, fcSent = Method(fcReq).pdu,
         fcReq.fc \in {5, 6, 8, 22} => fcCall.reply = "echo",
         fcReq.fc \in {15, 16} => fcCall.reply = "head", NEW a
  PROVE  \E data : Reply(a) = Response(data) /\ Fits(data, a)
<1>1. PICK data : data = Method(fcReq).echo
  OBVIOUS
<1>2. /\ Method(fcReq).takes = "echo" /\ data \in Seq(Nat) /\ Len(data) > 0
  BY <1>1, EchoOf
<1>3. Reply(a) = Response(data)
  <2>1. fcReq.fc \in {5, 6, 8, 22} => Reply(a) = Response(fcSent)
    BY DEF Reply
  <2>2. fcReq.fc \in {15, 16} => Reply(a) = Response(SubSeq(fcSent, 1, 4))
    BY DEF Reply
  <2> QED BY <1>1, <2>1, <2>2, EchoOf
<1>4. Conforms(Response(data))
  BY <1>1, <1>2, Taken
<1>5. Decoded(Response(data)) = Owed(a)
  BY DEF Decoded, Owed
<1>6. ~Long
  BY DEF Long
<1>7. Fits(data, a)
  BY <1>1, <1>2, <1>4, <1>5, <1>6 DEF Fits
<1> QED BY <1>3, <1>7

LEMMA IdsFit ==
  ASSUME fcReq \in Requests, fcReq.fc = 17, fcUnit \in Nat, fcCall.reply = "id", NEW a \in Answers(fcCall)
  PROVE  \/ Reply(a) = Exception(SERVER_DEVICE_FAILURE)
         \/ \E data : Reply(a) = Response(data) /\ Fits(data, a)
<1>1. a \in [sid : Seq(Nat) \cup {Nothing}, run : BOOLEAN, extra : Seq(Nat)]
  BY FunctionCodesAssumption DEF Answers
<1>2. PICK sid : sid = IF a.sid = Nothing THEN <<fcUnit>> ELSE a.sid
  OBVIOUS
<1>3. PICK extra \in Seq(Nat), run \in BOOLEAN : extra = a.extra /\ run = a.run
  BY <1>1
<1>4. sid \in Seq(Nat)
  BY <1>1, <1>2
<1>5. PICK bytes : bytes = IdBytes(sid, run, extra)
  OBVIOUS
<1>6. ServerIdBytes(a) = bytes
  BY <1>2, <1>3, <1>5 DEF ServerIdBytes, IdBytes
<1>7. PICK data : data = InFront(Len(bytes), bytes)
  OBVIOUS
<1>8. IdFound(data, sid, run, extra)
  BY <1>4, <1>5, <1>7, IdReturns
<1>9. Reply(a) = Exception(SERVER_DEVICE_FAILURE) \/ Reply(a) = Response(data)
  BY <1>6, <1>7 DEF Reply, InFront
<1>10. Method(fcReq).takes = "id" /\ Method(fcReq).size = fcReq.idLength
  BY MethodOf DEF reportServerId
<1>11. Counts(data, data[1]) /\ Len(data) = 1 + data[1] /\ Len(data) >= 2 + Len(sid)
  BY <1>8 DEF IdFound, Counts
<1>12. ASSUME Told(a) PROVE Conforms(Response(data)) /\ Decoded(Response(data)) = Owed(a)
  <2>1. a.sid = sid /\ Len(sid) = fcReq.idLength /\ Len(sid) \in Nat
    BY <1>2, <1>4, <1>12, LenProperties DEF Told
  <2>2. Conforms(Response(data))
    BY <2>1, <1>10, <1>11, Taken
  <2>3. Decoded(Response(data)) = [sid |-> SubSeq(data, 2, Len(sid) + 1), run |-> data[(Len(sid) + 1) + 1] = 255,
                                   extra |-> SubSeq(data, (Len(sid) + 1) + 2, Len(data))]
    BY <2>1 DEF Decoded, Response
  <2>4. (Len(sid) + 1) + 1 = Len(sid) + 2 /\ (Len(sid) + 1) + 2 = Len(sid) + 3
    BY <2>1
  <2>5. Decoded(Response(data)) = [sid |-> sid, run |-> run, extra |-> extra]
    BY <2>3, <2>4, <1>8 DEF IdFound
  <2>6. Owed(a) = a
    BY DEF Owed
  <2>7. a = [sid |-> a.sid, run |-> a.run, extra |-> a.extra]
    BY <1>1
  <2> QED BY <2>1, <2>2, <2>5, <2>6, <2>7, <1>3
<1> QED BY <1>9, <1>10, <1>11, <1>12 DEF Fits, Long

LEMMA CustomFits ==
  ASSUME fcReq \in Requests, fcReq.fc = CustomCode, fcCall.reply = "custom", NEW a
  PROVE  \E data : Reply(a) = Response(data) /\ Fits(data, a)
<1>1. Reply(a) = Response(a)
  BY DEF Reply
<1>2. Method(fcReq).takes = "any"
  BY MethodOf DEF sendCustomFC
<1>3. Conforms(Response(a))
  BY <1>2, Taken
<1>4. Decoded(Response(a)) = a /\ Owed(a) = a
  BY KnownCodes DEF Decoded, Owed, Response
<1>5. ~Long
  BY KnownCodes DEF Long
<1> QED BY <1>1, <1>2, <1>3, <1>4, <1>5 DEF Fits

(* What the model answers is encoded as a response to the request.         *)
LEMMA AnswersFit ==
  ASSUME FcInv, fcStage = "over", fcCall.ok, NEW a \in Answers(fcCall)
  PROVE  \/ Reply(a) = Exception(SERVER_DEVICE_FAILURE)
         \/ \E data : Reply(a) = Response(data) /\ Fits(data, a)
<1>1. /\ fcReq \in Requests /\ fcUnit \in Nat /\ fcSent = Method(fcReq).pdu
      /\ fcCall = handleFC(fcReq.fc, fcSent)
  BY DEF FcInv, Refuse
<1>2. /\ fcReq.fc \in {1, 2} => fcCall.reply = "bits"
      /\ fcReq.fc \in {3, 4, 23} => fcCall.reply = "words"
      /\ fcReq.fc \in {1, 2, 3, 4, 23} => fcCall.args[2] \in Nat \ {0}
      /\ fcReq.fc \in {5, 6, 8, 22} => fcCall.reply = "echo"
      /\ fcReq.fc \in {15, 16} => fcCall.reply = "head"
      /\ fcReq.fc = 17 => fcCall.reply = "id"
      /\ fcReq.fc = CustomCode => fcCall.reply = "custom"
  BY <1>1, RepliesBy
<1>3. fcReq.fc \in {1, 2, 3, 4, 23} => fcCall.args[2] = Wire(fcReq.length)
  <2>1. fcCall.args = Meant(fcReq)[2]
    BY <1>1, RequestsMeant DEF Faithful
  <2>2. fcReq.fc \in 1..4 => Meant(fcReq)[2][2] = Wire(fcReq.length)
    BY DEF Meant
  <2>3. fcReq.fc = 23 => Meant(fcReq)[2][2] = Wire(fcReq.length)
    BY DEF Meant
  <2> QED BY <2>1, <2>2, <2>3
<1>4. CASE fcReq.fc \in {1, 2}
  BY <1>1, <1>2, <1>3, <1>4, BitsFit
<1>5. CASE fcReq.fc \in {3, 4, 23}
  BY <1>1, <1>2, <1>3, <1>5, WordsFit
<1>6. CASE fcReq.fc \in {5, 6, 8, 22, 15, 16}
  BY <1>1, <1>2, <1>6, EchoesFit
<1>7. CASE fcReq.fc = 17
  BY <1>1, <1>2, <1>7, IdsFit
<1>8. CASE fcReq.fc = CustomCode
  BY <1>1, <1>2, <1>8, CustomFits
<1> QED BY <1>1, <1>4, <1>5, <1>6, <1>7, <1>8, KnownCodes

(* What the promise makes of a response, and of an altered one.            *)
LEMMA OnlyValid == ASSUME NEW f, Conforms(f) PROVE validateResponse(f)
BY DEF Conforms, validateByteCountResponse, validateEchoResponse

LEMMA ForgedRejected ==
  ASSUME FcInv, fcStage = "over", NEW f \in Forged(fcFrame), fcReq.fc # CustomCode
  PROVE  Settled(f).kind = "rejected"
<1>1. fcReq \in Requests /\ fcUnit = 1 /\ fcReq.fc \in Nat /\ Replied
  BY KnownCodes DEF FcInv
<1>2. PICK data : \/ fcFrame = Response(data) /\ Fits(data, fcAnswer)
                  \/ \E code : fcFrame = Exception(code)
  <2>1. CASE fcCall.ok /\ fcAnswer \in Answers(fcCall) /\ fcFrame = Reply(fcAnswer)
    BY <2>1, AnswersFit
  <2> QED BY <1>1, <2>1 DEF Replied
<1>3. ASSUME ~Conforms(f) PROVE Settled(f).kind = "rejected"
  BY <1>3 DEF Settled
<1>4. CASE detectException(f)
  BY <1>4 DEF Settled
<1>5. CASE ~validateResponse(f)
  BY <1>3, <1>5, OnlyValid
<1>6. CASE ~detectException(f) /\ validateResponse(f)
  <2>1. f.unit = 1 /\ f.fc = fcReq.fc
    BY <1>1, <1>6 DEF validateResponse
  <2>2. PICK e \in Spoilt(fcFrame.data) :
          /\ f = [fcFrame EXCEPT !.data = e]
          /\ Method(fcReq).takes = "echo" \/ Len(e) # Len(fcFrame.data) \/ e[1] # fcFrame.data[1]
    <3>1. f # [fcFrame EXCEPT !.unit = @ + 1]
      BY <1>1, <1>2, <2>1 DEF Response, Exception
    <3>2. f # [fcFrame EXCEPT !.fc = @ + 1]
      BY <1>1, <1>2, <2>1 DEF Response, Exception
    <3>3. f # [fcFrame EXCEPT !.fc = fcReq.fc + 128, !.data = <<>>]
      <4>1. PICK u, c, d : fcFrame = [unit |-> u, fc |-> c, data |-> d]
        BY <1>2 DEF Response, Exception
      <4>2. PICK other, none : other = fcReq.fc + 128 /\ none = <<>>
        OBVIOUS
      <4>3. [fcFrame EXCEPT !.fc = other, !.data = none].fc = other
        BY <4>1
      <4>4. other # fcReq.fc
        BY <1>1, <4>2
      <4> QED BY <2>1, <4>2, <4>3, <4>4
    <3> QED BY <3>1, <3>2, <3>3 DEF Forged
  <2>3. fcFrame = Response(data) /\ Fits(data, fcAnswer)
    BY <1>1, <1>2, <2>1, <2>2 DEF Exception
  <2>4. fcFrame.data = data /\ f.data = e
    BY <2>2, <2>3 DEF Response
  <2>5. PICK m : m = Method(fcReq)
    OBVIOUS
  <2>6. CASE m.takes \in {"bytes", "id"}
    <3>1. Len(e) # 1 + e[1]
      BY <2>2, <2>3, <2>4, <2>5, <2>6, SpoiltCounts DEF Fits
    <3>2. ~Conforms(f)
      BY <3>1, <2>4, <2>5, <2>6 DEF Conforms, validateByteCountResponse
    <3> QED BY <3>2, <1>3
  <2>7. CASE m.takes = "echo"
    <3>1. e # data /\ data = m.echo
      BY <2>2, <2>3, <2>4, <2>5, <2>7, SpoiltDiffers DEF Fits
    <3>2. ~Conforms(f)
      BY <3>1, <2>4, <2>5, <2>7 DEF Conforms, validateEchoResponse
    <3> QED BY <3>2, <1>3
  <2> QED BY <2>3, <2>5, <2>6, <2>7 DEF Fits
<1> QED BY <1>4, <1>5, <1>6

LEMMA ExceptionRejected ==
  ASSUME fcReq.fc \in Nat, NEW code
  PROVE  Settled(Exception(code)) = [kind |-> "rejected", with |-> code] /\ Exception(code).data[1] = code
BY DEF Settled, detectException, Exception

LEMMA OwnSettles ==
  ASSUME fcReq.fc \in Nat, NEW data, NEW a, Fits(data, a)
  PROVE  /\ Response(data).fc = fcReq.fc
         /\ Long => Settled(Response(data)).kind = "rejected"
         /\ ~Long /\ Told(a) => Settled(Response(data)) = [kind |-> "resolved", with |-> Owed(a)]
<1>1. Response(data).fc = fcReq.fc /\ ~detectException(Response(data)) /\ Response(data).data = data
  BY DEF Response, detectException
<1>2. ASSUME Long PROVE Settled(Response(data)).kind = "rejected"
  <2>1. ~Conforms(Response(data))
    BY <1>1, <1>2 DEF Fits, Conforms, validateByteCountResponse
  <2> QED BY <2>1, <1>1 DEF Settled
<1>3. ASSUME ~Long, Told(a) PROVE Settled(Response(data)) = [kind |-> "resolved", with |-> Owed(a)]
  BY <1>1, <1>3 DEF Fits, Settled
<1> QED BY <1>1, <1>2, <1>3

(* The promise of any request, with any numbers and lists, resolves with   *)
(* the model's answer, rejects with the slave's exception, and rejects     *)
(* every response that is not one to its request.                          *)
THEOREM PromisesResolve == FcSpec => []ResolvesWithAnswer
<1>1. FcInv => ResolvesWithAnswer
  <2> SUFFICES ASSUME FcInv, fcStage = "over" PROVE ResolvesWithAnswer
    BY DEF ResolvesWithAnswer
  <2>1. fcReq \in Requests /\ fcReq.fc \in Nat /\ Replied /\ Received
    BY KnownCodes DEF FcInv
  <2>2. CASE fcTampered
    <3>1. PICK f \in Forged(fcFrame) : fcOutcome = Settled(f)
      BY <2>1, <2>2 DEF Received
    <3>2. fcReq.fc # CustomCode => fcOutcome.kind = "rejected"
      BY <3>1, ForgedRejected
    <3> QED BY <3>2, <2>2 DEF ResolvesWithAnswer
  <2>3. CASE ~fcTampered
    <3>1. fcOutcome = Settled(fcFrame)
      BY <2>1, <2>3 DEF Received
    <3>2. CASE \E code : fcFrame = Exception(code)
      <4>1. PICK code : fcFrame = Exception(code)
        BY <3>2
      <4>2. fcOutcome = [kind |-> "rejected", with |-> fcFrame.data[1]]
        BY <4>1, <3>1, <2>1, ExceptionRejected
      <4>3. fcFrame.fc # fcReq.fc
        BY <4>1, <2>1 DEF Exception
      <4> QED BY <4>2, <4>3, <2>3 DEF ResolvesWithAnswer
    <3>3. CASE \E data : fcFrame = Response(data) /\ Fits(data, fcAnswer)
      <4>1. PICK data : fcFrame = Response(data) /\ Fits(data, fcAnswer)
        BY <3>3
      <4>2. /\ fcFrame.fc = fcReq.fc
            /\ Long => fcOutcome.kind = "rejected"
            /\ ~Long /\ Told(fcAnswer) => fcOutcome = [kind |-> "resolved", with |-> Owed(fcAnswer)]
        BY <4>1, <3>1, <2>1, OwnSettles
      <4> QED BY <4>2, <2>3 DEF ResolvesWithAnswer, Long, Told
    <3>4. CASE fcCall.ok /\ fcAnswer \in Answers(fcCall) /\ fcFrame = Reply(fcAnswer)
      BY <3>2, <3>3, <3>4, AnswersFit
    <3> QED BY <2>1, <3>2, <3>4 DEF Replied
  <2> QED BY <2>2, <2>3
<1> QED BY <1>1, FcAlways, PTL
-----------------------------------------------------------------------------
(* The walk of readDeviceIdentification over the fragments of its slave:   *)
(* what is received is always the first part of what is sought, in order,  *)
(* and the next request asks for the object that follows.                  *)

(* A finite set in ascending order: the k-th has k members up to itself.   *)
Rank(S, x) == Cardinality({y \in S : y <= x})

LEMMA RankFacts ==
  ASSUME NEW S, S \subseteq Nat, IsFiniteSet(S)
  PROVE  /\ Cardinality(S) \in Nat
         /\ \A x \in S : Rank(S, x) \in 1..Cardinality(S)
         /\ \A x, y \in S : x < y => Rank(S, x) < Rank(S, y)
<1>1. \A x : /\ IsFiniteSet({y \in S : y <= x})
             /\ Cardinality({y \in S : y <= x}) \in Nat
             /\ Cardinality({y \in S : y <= x}) <= Cardinality(S)
  <2> TAKE x
  <2>1. {y \in S : y <= x} \in SUBSET S
    OBVIOUS
  <2> QED BY <2>1, FS_Subset, FS_CardinalityType
<1>2. Cardinality(S) \in Nat
  BY FS_CardinalityType
<1>3. ASSUME NEW x \in S PROVE Rank(S, x) # 0
  <2>1. x \in {y \in S : y <= x}
    OBVIOUS
  <2> QED BY <2>1, <1>1, FS_EmptySet DEF Rank
<1>4. ASSUME NEW x \in S, NEW y \in S, x < y PROVE Rank(S, x) < Rank(S, y)
  <2> DEFINE A == {z \in S : z <= x}
             B == {z \in S : z <= y}
  <2>1. A \in SUBSET B /\ y \in B /\ y \notin A
    <3>1. x \in Nat /\ y \in Nat
      BY <1>4
    <3>2. \A z \in S : z \in Nat /\ (z <= x => z <= y)
      BY <1>4, <3>1
    <3>3. y <= y /\ ~(y <= x)
      BY <1>4, <3>1
    <3>4. A \subseteq B
      BY <3>2
    <3> QED BY <3>3, <3>4
  <2>2. Cardinality(A) <= Cardinality(B) /\ (Cardinality(B) = Cardinality(A) => B = A)
    BY <2>1, <1>1, FS_Subset
  <2>3. Cardinality(A) \in Nat /\ Cardinality(B) \in Nat /\ Cardinality(A) # Cardinality(B)
    BY <2>1, <2>2, <1>1
  <2>4. Cardinality(A) < Cardinality(B)
    <3> HIDE DEF A, B
    <3> QED BY <2>2, <2>3
  <2> QED BY <2>4 DEF Rank
<1>5. ASSUME NEW x \in S PROVE Rank(S, x) \in 1..Cardinality(S)
  <2>1. Rank(S, x) \in Nat /\ Rank(S, x) <= Cardinality(S)
    BY <1>1 DEF Rank
  <2> QED BY <2>1, <1>2, <1>3
<1> QED BY <1>2, <1>4, <1>5

LEMMA RankInjective ==
  ASSUME NEW S, S \subseteq Nat, IsFiniteSet(S), NEW x \in S, NEW y \in S, Rank(S, x) = Rank(S, y)
  PROVE  x = y
<1>0. /\ Cardinality(S) \in Nat
      /\ \A z \in S : Rank(S, z) \in 1..Cardinality(S)
      /\ \A z, w \in S : z < w => Rank(S, z) < Rank(S, w)
  BY RankFacts
<1>1. x \in Nat /\ y \in Nat /\ Rank(S, x) \in Nat
  BY <1>0
<1>2. CASE x < y
  <2>1. Rank(S, x) < Rank(S, y)
    BY <1>0, <1>2
  <2> QED BY <2>1, <1>1
<1>3. CASE y < x
  <2>1. Rank(S, y) < Rank(S, x)
    BY <1>0, <1>3
  <2> QED BY <2>1, <1>1
<1> QED BY <1>1, <1>2, <1>3

LEMMA RankReached ==
  ASSUME NEW S, S \subseteq Nat, IsFiniteSet(S), NEW k \in 1..Cardinality(S)
  PROVE  \E x \in S : Rank(S, x) = k
<1>1. PICK n \in Nat : n = Cardinality(S)
  BY RankFacts
<1>2. PICK f : f = [x \in S |-> Rank(S, x)]
  OBVIOUS
<1>3. f \in [S -> 1..n]
  BY <1>1, <1>2, RankFacts
<1>4. f \in Injection(S, 1..n)
  <2>1. \A x, y \in S : f[x] = f[y] => x = y
    BY <1>2, RankInjective
  <2> QED BY <1>3, <2>1 DEF Injection, IsInjective
<1>5. IsFiniteSet(1..n) /\ Cardinality(1..n) = n
  BY <1>1, FS_Interval
<1>6. f \in Surjection(S, 1..n)
  BY <1>1, <1>4, <1>5, FS_Injection
<1>7. \E x \in S : f[x] = k
  BY <1>1, <1>6 DEF Surjection
<1> QED BY <1>2, <1>7

(* The members of a finite set of numbers, in ascending order.             *)
LEMMA AscendingIs ==
  ASSUME NEW S, S \subseteq Nat, IsFiniteSet(S)
  PROVE  /\ Cardinality(S) \in Nat
         /\ Ascending(S) \in Seq(Nat) /\ Len(Ascending(S)) = Cardinality(S)
         /\ \A k \in 1..Cardinality(S) :
              Ascending(S)[k] \in S /\ Rank(S, Ascending(S)[k]) = k
         /\ \A x \in S : Rank(S, x) \in 1..Cardinality(S) /\ x = Ascending(S)[Rank(S, x)]
         /\ \A j, k \in 1..Cardinality(S) : j < k => Ascending(S)[j] < Ascending(S)[k]
<1>1. PICK n \in Nat : n = Cardinality(S)
  BY RankFacts
<1>2. PICK L : L = Ascending(S)
  OBVIOUS
<1>3. L = [k \in 1..n |-> CHOOSE x \in S : Rank(S, x) = k]
  BY <1>1, <1>2 DEF Ascending, Rank
<1>4. \A k \in 1..n : L[k] \in S /\ Rank(S, L[k]) = k
  <2> TAKE k \in 1..n
  <2>1. \E x \in S : Rank(S, x) = k
    BY <1>1, RankReached
  <2> QED BY <1>3, <2>1
<1>5. L \in Seq(Nat) /\ Len(L) = n
  <2>1. L \in [1..n -> Nat]
    <3>1. DOMAIN L = 1..n /\ L = [k \in 1..n |-> L[k]]
      BY <1>3
    <3>2. \A k \in 1..n : L[k] \in Nat
      BY <1>4
    <3> QED BY <3>1, <3>2
  <2> QED BY <2>1, <1>1
<1>6. \A x \in S : Rank(S, x) \in 1..n /\ x = L[Rank(S, x)]
  <2> TAKE x \in S
  <2>1. Rank(S, x) \in 1..n
    BY <1>1, RankFacts
  <2>2. L[Rank(S, x)] \in S /\ Rank(S, L[Rank(S, x)]) = Rank(S, x)
    BY <2>1, <1>4
  <2> QED BY <2>1, <2>2, RankInjective
<1>7. \A j, k \in 1..n : j < k => L[j] < L[k]
  <2> SUFFICES ASSUME NEW j \in 1..n, NEW k \in 1..n, j < k PROVE L[j] < L[k]
    OBVIOUS
  <2>1. /\ L[j] \in S /\ L[k] \in S /\ L[j] \in Nat /\ L[k] \in Nat
        /\ Rank(S, L[j]) = j /\ Rank(S, L[k]) = k
    BY <1>4
  <2>2. CASE L[k] < L[j]
    <3>1. Rank(S, L[k]) < Rank(S, L[j])
      BY <2>1, <2>2, RankFacts
    <3> QED BY <2>1, <3>1
  <2>3. CASE L[k] = L[j]
    BY <2>1, <2>3
  <2> QED BY <2>1, <2>2, <2>3
<1> QED BY <1>1, <1>2, <1>4, <1>5, <1>6, <1>7

(* The function g counts the members of T, from 1 to n.                    *)
CountsUp(g, T, n) ==
  /\ g \in [1..n -> T]
  /\ \A j, k \in 1..n : g[j] = g[k] => j = k
  /\ \A x \in T : \E k \in 1..n : g[k] = x

LEMMA CountedBy ==
  ASSUME NEW T, NEW n \in Nat, NEW g, CountsUp(g, T, n)
  PROVE  Cardinality(T) = n
<1>1. g \in Bijection(1..n, T)
  BY DEF CountsUp, Bijection, Injection, IsInjective, Surjection
<1> QED BY <1>1, FS_CountingElements DEF ExistsBijection

(* From one of its members on, a set has the order it has from there on.   *)
From(S, x) == {y \in S : y >= x}
Follows(r, s, n) ==
  /\ r \in Seq(Nat) /\ Len(r) = Len(s) - n
  /\ \A k \in 1..(Len(s) - n) : r[k] = s[n + k]

LEMMA AscendingRest ==
  ASSUME NEW S, S \subseteq Nat, IsFiniteSet(S), NEW m \in Nat, m < Cardinality(S),
         NEW T, T = From(S, Ascending(S)[m + 1])
  PROVE  Follows(Ascending(T), Ascending(S), m)
<1>1. PICK n \in Nat : n = Cardinality(S)
  BY RankFacts
<1>2. PICK L : L = Ascending(S)
  OBVIOUS
<1>3. /\ \A k \in 1..n : L[k] \in S /\ L[k] \in Nat
      /\ \A x \in S : \E k \in 1..n : x = L[k]
      /\ \A j, k \in 1..n : j < k => L[j] < L[k]
  <2>1. /\ \A k \in 1..Cardinality(S) : Ascending(S)[k] \in S
        /\ \A x \in S : Rank(S, x) \in 1..Cardinality(S) /\ x = Ascending(S)[Rank(S, x)]
        /\ \A j, k \in 1..Cardinality(S) : j < k => Ascending(S)[j] < Ascending(S)[k]
    BY AscendingIs
  <2>2. \A k \in 1..n : L[k] \in S /\ L[k] \in Nat
    BY <2>1, <1>1, <1>2
  <2>3. \A x \in S : \E k \in 1..n : x = L[k]
    BY <2>1, <1>1, <1>2
  <2> QED BY <2>1, <2>2, <2>3, <1>1, <1>2
<1>4. m + 1 \in 1..n /\ n - m \in Nat
  BY <1>1
<1>0. T = {y \in S : y >= L[m + 1]}
  BY <1>2 DEF From
<1>5. T \subseteq Nat /\ IsFiniteSet(T)
  BY <1>0, FS_Subset
<1>6. \A k \in 1..(n - m) : m + k \in 1..n /\ L[m + k] \in T
  <2> TAKE k \in 1..(n - m)
  <2>1. m + k \in 1..n /\ (m + k = m + 1 \/ m + 1 < m + k)
    BY <1>4
  <2>2. L[m + k] \in S /\ L[m + k] \in Nat /\ L[m + 1] \in Nat /\ L[m + k] >= L[m + 1]
    BY <2>1, <1>3, <1>4
  <2> QED BY <2>1, <2>2, <1>0
<1>7. \A x \in T : \E k \in 1..(n - m) : x = L[m + k]
  <2> TAKE x \in T
  <2>1. PICK j \in 1..n : x = L[j]
    BY <1>0, <1>3
  <2>2. x >= L[m + 1] /\ x \in Nat /\ L[m + 1] \in Nat
    BY <1>0, <1>3, <1>4
  <2>3. ~(j < m + 1)
    BY <2>1, <2>2, <1>3, <1>4
  <2>4. j - m \in 1..(n - m) /\ m + (j - m) = j
    BY <2>3, <1>4
  <2> QED BY <2>1, <2>4
<1>8. \A j, k \in 1..(n - m) : /\ j < k => L[m + j] < L[m + k]
                               /\ L[m + j] \in Nat /\ L[m + k] \in Nat
  BY <1>3, <1>4, <1>6
<1>9. \A j, k \in 1..(n - m) : L[m + j] = L[m + k] => j = k
  <2> SUFFICES ASSUME NEW j \in 1..(n - m), NEW k \in 1..(n - m), L[m + j] = L[m + k], j # k PROVE FALSE
    OBVIOUS
  <2>1. PICK a \in 1..n, b \in 1..n : a = m + j /\ b = m + k
    BY <1>6
  <2>2. a < b \/ b < a
    BY <2>1
  <2>3. L[a] \in Nat /\ L[b] \in Nat /\ L[a] = L[b]
    BY <2>1, <1>3
  <2>4. L[a] < L[b] \/ L[b] < L[a]
    BY <2>2, <1>3
  <2> QED BY <2>3, <2>4
<1>10. Cardinality(T) = n - m
  <2>1. PICK g : g = [k \in 1..(n - m) |-> L[m + k]]
    OBVIOUS
  <2>2. g \in [1..(n - m) -> T]
    BY <2>1, <1>6
  <2>3. \A j, k \in 1..(n - m) : g[j] = g[k] => j = k
    BY <2>1, <1>9
  <2>4. \A x \in T : \E k \in 1..(n - m) : g[k] = x
    BY <2>1, <1>7
  <2>5. CountsUp(g, T, n - m)
    BY <2>2, <2>3, <2>4 DEF CountsUp
  <2> QED BY <2>5, <1>4, CountedBy
<1>11. \A k \in 1..(n - m) : Rank(T, L[m + k]) = k
  <2> TAKE k \in 1..(n - m)
  <2>1. PICK U : U = {y \in T : y <= L[m + k]}
    OBVIOUS
  <2>2. PICK g : g = [j \in 1..k |-> L[m + j]]
    OBVIOUS
  <2>3. \A j \in 1..k : j \in 1..(n - m)
    BY <1>4
  <2>4. g \in [1..k -> U]
    <3>1. \A j \in 1..k : L[m + j] <= L[m + k]
      BY <2>3, <1>8
    <3> QED BY <3>1, <2>1, <2>2, <2>3, <1>6
  <2>5. \A i, j \in 1..k : g[i] = g[j] => i = j
    BY <2>2, <2>3, <1>9
  <2>6. \A x \in U : \E j \in 1..k : g[j] = x
    <3> TAKE x \in U
    <3>1. PICK j \in 1..(n - m) : x = L[m + j] /\ x <= L[m + k]
      BY <2>1, <1>7
    <3>2. ~(k < j)
      BY <3>1, <1>8
    <3>3. j \in 1..k
      BY <3>2, <1>4
    <3> QED BY <3>1, <3>3, <2>2
  <2>7. k \in Nat
    BY <1>4
  <2>8. CountsUp(g, U, k)
    BY <2>4, <2>5, <2>6 DEF CountsUp
  <2>9. Cardinality(U) = k
    BY <2>7, <2>8, CountedBy
  <2> QED BY <2>1, <2>9 DEF Rank
<1>12. \A k \in 1..(n - m) : Ascending(T)[k] = L[m + k]
  <2> TAKE k \in 1..(n - m)
  <2>1. L[m + k] \in T /\ Rank(T, L[m + k]) = k
    BY <1>6, <1>11
  <2>2. L[m + k] = Ascending(T)[Rank(T, L[m + k])]
    BY <2>1, <1>5, AscendingIs
  <2> QED BY <2>1, <2>2
<1>13. Len(L) = n
  BY <1>1, <1>2, AscendingIs
<1> QED BY <1>2, <1>5, <1>10, <1>12, <1>13, AscendingIs DEF Follows
-----------------------------------------------------------------------------
(* A set of natural numbers that is not empty has a least member, and one  *)
(* that is bounded a greatest.                                             *)
LEMMA LeastNatural ==
  ASSUME NEW T, T \subseteq Nat, T # {}
  PROVE  \E n \in T : \A m \in T : n <= m
<1>1. PICK R : R = OpToRel(<, Nat)
  OBVIOUS
<1>2. IsWellFoundedOn(R, Nat)
  BY <1>1, NatLessThanWellFounded
<1>3. PICK n \in T : \A m \in T : ~(<<m, n>> \in R)
  BY <1>2, WFMin
<1>4. ASSUME NEW m \in T, m < n PROVE FALSE
  <2>1. <<m, n>> \in R
    BY <1>1, <1>4 DEF OpToRel
  <2> QED BY <2>1, <1>3
<1> QED BY <1>3, <1>4

LEMMA GreatestUpTo ==
  ASSUME NEW n \in Nat, NEW S, S \subseteq 0..n, S # {}
  PROVE  \E m \in S : \A k \in S : k <= m
<1>1. PICK T : T = {j \in 0..n : n - j \in S}
  OBVIOUS
<1>2. T \subseteq Nat /\ T # {}
  <2>1. PICK k \in S : k \in 0..n
    OBVIOUS
  <2>2. n - k \in 0..n /\ n - (n - k) = k
    BY <2>1
  <2>3. n - k \in T
    BY <1>1, <2>1, <2>2
  <2> QED BY <1>1, <2>3
<1>3. PICK l \in T : \A x \in T : l <= x
  BY <1>2, LeastNatural
<1>4. n - l \in S /\ l \in 0..n
  BY <1>1
<1>5. ASSUME NEW k \in S PROVE k <= n - l
  <2>1. k \in 0..n
    OBVIOUS
  <2>2. n - k \in 0..n /\ n - (n - k) = k
    BY <2>1
  <2>3. n - k \in T
    BY <1>1, <2>2
  <2>4. l <= n - k
    BY <2>3, <1>3
  <2> QED BY <2>1, <2>4, <1>4
<1> QED BY <1>4, <1>5
-----------------------------------------------------------------------------
(* The bytes of no object and of one.                                      *)
BytesEquation(g, body, n) ==
  g = [i \in 0..n |-> IF i = 0 THEN 0 ELSE g[i - 1] + 2 + body[i][2]]

LEMMA BytesOfFew ==
  ASSUME NEW body, NEW n \in {0, 1}, Len(body) = n, n = 1 => body[1][2] \in Nat
  PROVE  Bytes(body) = IF n = 0 THEN 0 ELSE 2 + body[1][2]
<1>1. PICK g : g = [i \in 0..n |-> IF i = 0 THEN 0 ELSE 2 + body[1][2]]
  OBVIOUS
<1>2. BytesEquation(g, body, n)
  <2>1. \A i \in 0..n : g[i] = IF i = 0 THEN 0 ELSE g[i - 1] + 2 + body[i][2]
    <3> TAKE i \in 0..n
    <3>1. CASE i = 0
      BY <3>1, <1>1
    <3>2. CASE i # 0
      <4>1. i = 1 /\ n = 1 /\ 0 \in 0..n
        BY <3>2
      <4> QED BY <4>1, <1>1
    <3> QED BY <3>1, <3>2
  <2> QED BY <2>1, <1>1 DEF BytesEquation
<1>3. PICK w : w = CHOOSE f : BytesEquation(f, body, n)
  OBVIOUS
<1>4. BytesEquation(w, body, n)
  BY <1>2, <1>3
<1>5. Bytes(body) = w[n]
  BY <1>3 DEF Bytes, BytesEquation
<1>6. w[0] = 0
  BY <1>4 DEF BytesEquation
<1>7. CASE n = 1
  <2>1. w[1] = w[1 - 1] + 2 + body[1][2]
    BY <1>4, <1>7 DEF BytesEquation
  <2> QED BY <2>1, <1>5, <1>6, <1>7
<1> QED BY <1>5, <1>6, <1>7

(* The first objects of a list of ids, as the wire carries them.           *)
LEMMA BodyIs ==
  ASSUME NEW t, NEW ids \in Seq(Nat), NEW n \in 0..Len(ids), \A k \in 1..n : t[ids[k]] \in Nat
  PROVE  /\ Body(t, SubSeq(ids, 1, n)) \in Seq(Nat \X Nat)
         /\ Len(Body(t, SubSeq(ids, 1, n))) = n
         /\ \A k \in 1..n : Body(t, SubSeq(ids, 1, n))[k] = <<ids[k], t[ids[k]]>>
<1>1. PICK s : s = SubSeq(ids, 1, n)
  OBVIOUS
<1>2. n \in Nat /\ \A k \in 1..n : k \in 1..Len(ids) /\ ids[k] \in Nat
  OBVIOUS
<1>3. Len(s) = n /\ \A k \in 1..n : s[k] = ids[k]
  BY <1>1, <1>2
<1>4. PICK b : b = [k \in 1..n |-> <<ids[k], t[ids[k]]>>]
  OBVIOUS
<1>5. Body(t, s) = b
  BY <1>3, <1>4 DEF Body
<1>6. \A k \in 1..n : b[k] \in Nat \X Nat
  BY <1>2, <1>4
<1>7. b \in [1..n -> Nat \X Nat]
  BY <1>4, <1>6
<1>8. b \in Seq(Nat \X Nat) /\ Len(b) = n
  BY <1>2, <1>7
<1> QED BY <1>1, <1>4, <1>5, <1>8

(* A fragment fits into a PDU and, if its first object is no longer than   *)
(* 244 bytes, has one.                                                     *)
LEMMA FittingIs ==
  ASSUME NEW t, NEW ids \in Seq(Nat), \A k \in 1..Len(ids) : t[ids[k]] \in Nat,
         ids # <<>> => t[ids[1]] <= 244
  PROVE  /\ Fitting(t, ids) \in 0..Len(ids)
         /\ 7 + Bytes(Body(t, SubSeq(ids, 1, Fitting(t, ids)))) <= 253
         /\ ids # <<>> => Fitting(t, ids) >= 1
<1>1. PICK l \in Nat : l = Len(ids)
  OBVIOUS
<1>2. PICK fits : fits = {n \in 0..l : 7 + Bytes(Body(t, SubSeq(ids, 1, n))) <= 253}
  OBVIOUS
<1>3. ASSUME NEW n \in {0, 1}, n <= l PROVE n \in fits
  <2>1. PICK b : b = Body(t, SubSeq(ids, 1, n))
    OBVIOUS
  <2>2. n \in 0..Len(ids) /\ \A k \in 1..n : t[ids[k]] \in Nat
    BY <1>1, <1>3
  <2>3. Len(b) = n /\ \A k \in 1..n : b[k] = <<ids[k], t[ids[k]]>>
    BY <2>1, <2>2, BodyIs
  <2>4. n = 1 => b[1][2] = t[ids[1]] /\ t[ids[1]] \in Nat /\ t[ids[1]] <= 244
    BY <2>2, <2>3, <1>1, <1>3
  <2>5. Bytes(b) = IF n = 0 THEN 0 ELSE 2 + b[1][2]
    BY <2>3, <2>4, BytesOfFew
  <2>6. 7 + Bytes(b) <= 253
    BY <2>4, <2>5
  <2> QED BY <2>1, <2>6, <1>1, <1>2, <1>3
<1>4. PICK m \in fits : \A k \in fits : k <= m
  <2>1. fits \subseteq 0..l /\ fits # {}
    BY <1>1, <1>2, <1>3
  <2> QED BY <2>1, <1>1, GreatestUpTo
<1>5. Fitting(t, ids) = CHOOSE n \in fits : \A k \in fits : k <= n
  BY <1>1, <1>2 DEF Fitting
<1>6. PICK n : n = Fitting(t, ids)
  OBVIOUS
<1>7. n \in fits /\ \A k \in fits : k <= n
  BY <1>4, <1>5, <1>6
<1>8. ids # <<>> => 1 <= n
  <2>1. ids # <<>> => 1 <= l
    BY <1>1
  <2> QED BY <2>1, <1>3, <1>7
<1>9. n \in 0..l /\ 7 + Bytes(Body(t, SubSeq(ids, 1, n))) <= 253
  BY <1>2, <1>7
<1> QED BY <1>1, <1>6, <1>8, <1>9

(* The master takes in as many objects as were sent only if each has two   *)
(* bytes or more, and then they are what was sent.                         *)
LEMMA ParsedIs ==
  ASSUME NEW body \in Seq(Nat \X Nat)
  PROVE  /\ Len(Parsed(body)) = Len(body) => Parsed(body) = body
         /\ (\A k \in 1..Len(body) : body[k][2] >= 2) => Parsed(body) = body
<1>1. PICK l \in Nat : l = Len(body)
  OBVIOUS
<1>2. PICK whole : whole = {n \in 0..l : \A i \in 1..n : body[i][2] >= 2}
  OBVIOUS
<1>3. PICK m \in whole : \A k \in whole : k <= m
  <2>1. whole \subseteq 0..l /\ 0 \in whole
    BY <1>1, <1>2
  <2> QED BY <2>1, <1>1, GreatestUpTo
<1>4. PICK n : n = CHOOSE i \in whole : \A k \in whole : k <= i
  OBVIOUS
<1>5. n \in whole /\ \A k \in whole : k <= n
  BY <1>3, <1>4
<1>6. Parsed(body) = SubSeq(body, 1, n)
  BY <1>1, <1>2, <1>4 DEF Parsed
<1>7. n \in 0..l /\ n \in Nat
  BY <1>1, <1>2, <1>5
<1>8. Len(SubSeq(body, 1, n)) = n
  BY <1>1, <1>7
<1>9. n = l => SubSeq(body, 1, n) = body
  BY <1>1
<1>10. (\A k \in 1..l : body[k][2] >= 2) => n = l
  <2> SUFFICES ASSUME \A k \in 1..l : body[k][2] >= 2 PROVE n = l
    OBVIOUS
  <2>1. l \in whole
    BY <1>1, <1>2
  <2> QED BY <2>1, <1>1, <1>5, <1>7
<1> QED BY <1>1, <1>6, <1>8, <1>9, <1>10
-----------------------------------------------------------------------------
(* The walk, in the order of the objects it seeks: the first n of them.    *)
Order == Ascending(Sought)
FirstPart(n) == [k \in 1..n |-> <<Order[k], Objects(diTable)[Order[k]]>>]

TypedWalk ==
  /\ diStage \in {"ask", "sent", "answered", "next", "over"}
  /\ diStage = "ask" =>
       diTable = <<>> /\ diStart = 0 /\ diFrame = Refused(0) /\ diGot = <<>> /\ diOk
  /\ diStage # "ask" => diTable \in Tables /\ diCode \in Nat /\ diStart \in Nat

(* Where the walk stands: the objects so far are the first of those sought *)
(* and the next request asks for the one after them.                       *)
FarEnough == diGot # <<>> => Len(diGot) \in 0..Len(Order) /\ diGot = FirstPart(Len(diGot))
AsksOn ==
  /\ Len(diGot) \in 1..(Len(Order) - 1) /\ diAsk = Order[Len(diGot) + 1]
  /\ diCode \in 1..3 /\ DOMAIN diTable \subseteq 0..255 \ Reserved
Asks == (diGot = <<>> /\ diAsk = diStart) \/ AsksOn

(* Why a request may be rejected.                                          *)
Excused ==
  \/ diFrame.error \in {1, 6} \/ Sought = {} \/ diCode \notin 1..4
  \/ ~(DOMAIN diTable \subseteq 0..255 \ Reserved)
  \/ \E i \in DOMAIN diTable : diTable[i] \notin 2..244

WalkInv ==
  /\ TypedWalk /\ FarEnough
  /\ 7 + Bytes(diFrame.body) <= 253
  /\ diStage \in {"sent", "answered"} => Asks
  /\ diStage = "next" => AsksOn
  /\ diStage = "answered" =>
       diFrame \in {handleFC43_14(diTable, diCode, diAsk), Refused(1), Refused(6)}
  /\ diStage # "over" => diOk
  /\ diStage = "over" => IF diOk THEN Len(diGot) = Len(Order) ELSE Excused
-----------------------------------------------------------------------------
(* What is sought is a finite part of the table the slave packs from.      *)
LEMMA SoughtIs ==
  ASSUME TypedWalk
  PROVE  /\ Sought \subseteq Nat /\ IsFiniteSet(Sought)
         /\ \A i \in DOMAIN Objects(diTable) : i \in Nat /\ Objects(diTable)[i] \in Nat
         /\ \A i \in DOMAIN Objects(diTable) :
              Objects(diTable)[i] = IF i \in DOMAIN diTable THEN diTable[i] ELSE 4
         /\ DOMAIN Objects(diTable) = DOMAIN diTable \cup 0..2
         /\ Sought \subseteq DOMAIN Objects(diTable)
<1>1. DOMAIN diTable \subseteq Nat /\ \A i \in DOMAIN diTable : diTable[i] \in Nat
  BY IdentificationAssumption DEF TypedWalk
<1>2. PICK t : t = Objects(diTable)
  OBVIOUS
<1>3. t = [i \in DOMAIN diTable \cup 0..2 |-> IF i \in DOMAIN diTable THEN diTable[i] ELSE 4]
  BY <1>2 DEF Objects
<1>4. DOMAIN t = DOMAIN diTable \cup 0..2 /\ DOMAIN t \subseteq Nat
  BY <1>1, <1>3
<1>5. \A i \in DOMAIN t : t[i] = IF i \in DOMAIN diTable THEN diTable[i] ELSE 4
  BY <1>3
<1>6. \A i \in DOMAIN t : i \in Nat /\ t[i] \in Nat
  BY <1>1, <1>4, <1>5
<1>7. PICK all : all = DOMAIN t \cap (IF diCode = SPECIFIC_ACCESS THEN {diStart} ELSE Category(diCode))
  OBVIOUS
<1>8. Sought \subseteq all
  BY <1>2, <1>7 DEF Sought
<1>9. IsFiniteSet(all)
  <2>1. IsFiniteSet({diStart}) /\ IsFiniteSet(Category(diCode))
    <3>1. \A b \in Int : IsFiniteSet(0..b)
      BY FS_Interval
    <3>2. PICK b \in Int : b = 255
      OBVIOUS
    <3>3. Category(diCode) \in SUBSET (0..b)
      BY <3>2 DEF Category
    <3>4. IsFiniteSet(Category(diCode))
      BY <3>1, <3>3, FS_Subset
    <3> QED BY <3>4, FS_Singleton
  <2>2. all \in SUBSET {diStart} \/ all \in SUBSET Category(diCode)
    BY <1>7
  <2> QED BY <2>1, <2>2, FS_Subset
<1>10. IsFiniteSet(Sought)
  BY <1>8, <1>9, FS_Subset
<1> QED BY <1>2, <1>4, <1>5, <1>6, <1>7, <1>8, <1>10

(* The order of the walk is a sequence of what is sought.                  *)
LEMMA OrderIs ==
  ASSUME TypedWalk
  PROVE  /\ Order \in Seq(Nat) /\ Len(Order) \in Nat /\ Len(Order) = Cardinality(Sought)
         /\ DOMAIN Order = 1..Len(Order)
         /\ \A k \in 1..Len(Order) :
              /\ Order[k] \in Sought /\ Order[k] \in DOMAIN Objects(diTable)
              /\ Order[k] \in Nat /\ Objects(diTable)[Order[k]] \in Nat
         /\ Sought = {} <=> Len(Order) = 0
<1>1. PICK n \in Nat : n = Cardinality(Sought)
  BY SoughtIs, AscendingIs
<1>2. Order \in Seq(Nat) /\ Len(Order) = n /\ \A k \in 1..n : Order[k] \in Sought
  BY <1>1, SoughtIs, AscendingIs DEF Order
<1>3. Sought = {} <=> n = 0
  BY <1>1, SoughtIs, FS_EmptySet
<1>4. \A k \in 1..n : /\ Order[k] \in Sought /\ Order[k] \in DOMAIN Objects(diTable)
                      /\ Order[k] \in Nat /\ Objects(diTable)[Order[k]] \in Nat
  BY <1>2, SoughtIs
<1> QED BY <1>1, <1>2, <1>3, <1>4

(* A request that is not refused for what it asks for: the table holds no  *)
(* reserved id, and a single object asked for is in it.                    *)
Proper ==
  /\ diCode \in 1..4 /\ DOMAIN diTable \subseteq 0..255 \ Reserved
  /\ diCode = SPECIFIC_ACCESS => diStart \in DOMAIN Objects(diTable)

(* The first request asks for what the walk seeks.                         *)
LEMMA WantedFirst ==
  ASSUME TypedWalk, Proper
  PROVE  Wanted(diTable, diCode, FirstId(diCode, diStart)) = Sought /\ Sought # {}
<1> USE DEF BASIC_STREAM, REGULAR_STREAM, EXTENDED_STREAM, SPECIFIC_ACCESS, Reserved
<1>1. PICK t : t = Objects(diTable)
  OBVIOUS
<1>2. DOMAIN t \subseteq 0..255 \ Reserved /\ 0 \in DOMAIN t /\ DOMAIN t \subseteq Nat
  BY <1>1, SoughtIs DEF Proper
<1>3. diStart \in Nat
  BY DEF TypedWalk
<1>4. CASE diCode = SPECIFIC_ACCESS
  <2>1. FirstId(diCode, diStart) = diStart
    BY <1>4 DEF FirstId
  <2>2. Wanted(diTable, diCode, diStart) = {diStart}
    BY <1>4 DEF Wanted
  <2>3. DOMAIN t \cap {diStart} = {diStart}
    BY <1>1, <1>4 DEF Proper
  <2>4. Sought = {diStart}
    BY <1>1, <1>3, <1>4, <2>3 DEF Sought
  <2> QED BY <2>1, <2>2, <2>4
<1>5. CASE diCode # SPECIFIC_ACCESS
  <2>1. PICK all : all = DOMAIN t \cap Category(diCode)
    OBVIOUS
  <2>2. Sought = IF diStart \in all THEN {i \in all : i >= diStart} ELSE all
    BY <1>1, <1>5, <2>1 DEF Sought
  <2>3. PICK id : id = FirstId(diCode, diStart)
    OBVIOUS
  <2>4. PICK first : first = IF id \in DOMAIN t THEN id ELSE 0
    OBVIOUS
  <2>5. Wanted(diTable, diCode, id) = {i \in all : i >= first}
    BY <1>1, <1>5, <2>1, <2>4 DEF Wanted
  <2>6. diCode \in {1, 2, 3} /\ 0 \in all
    <3>1. diCode \in {1, 2, 3}
      BY <1>5 DEF Proper
    <3>2. 0 \in Category(diCode)
      BY <3>1 DEF Category
    <3> QED BY <3>1, <3>2, <1>2, <2>1
  <2>7. CASE diStart \in all
    <3>1. diStart \in DOMAIN t /\ diStart \in Category(diCode)
      BY <2>1, <2>7
    <3>2. id = diStart
      BY <3>1, <1>2, <2>3, <2>6 DEF FirstId, Category
    <3>3. first = diStart
      BY <3>1, <3>2, <2>4
    <3>4. Wanted(diTable, diCode, id) = {i \in all : i >= diStart}
      BY <3>3, <2>5
    <3>5. Sought = {i \in all : i >= diStart} /\ diStart \in Sought
      BY <1>3, <2>2, <2>7
    <3> QED BY <3>4, <3>5, <2>3
  <2>8. CASE diStart \notin all
    <3>1. first = 0
      <4>1. diStart \notin DOMAIN t \/ diStart \notin Category(diCode)
        BY <2>1, <2>8
      <4>2. diStart \notin DOMAIN t => id = 0 \/ id \notin DOMAIN t
        BY <2>3 DEF FirstId
      <4>3. diStart \in DOMAIN t /\ diStart \notin Category(diCode) => id = 0
        BY <1>2, <2>3, <2>6 DEF FirstId, Category
      <4> QED BY <4>1, <4>2, <4>3, <2>4
    <3>2. \A i \in all : i \in Nat
      BY <1>2, <2>1
    <3> QED BY <3>1, <3>2, <2>2, <2>3, <2>5, <2>6, <2>8
  <2> QED BY <2>7, <2>8
<1> QED BY <1>4, <1>5

(* A later request asks for what the walk seeks from there on.             *)
LEMMA WantedNext ==
  ASSUME TypedWalk, Proper, diCode # SPECIFIC_ACCESS, NEW x \in Sought
  PROVE  Wanted(diTable, diCode, FirstId(diCode, x)) = From(Sought, x)
<1> USE DEF BASIC_STREAM, REGULAR_STREAM, EXTENDED_STREAM, SPECIFIC_ACCESS, Reserved
<1>1. PICK t : t = Objects(diTable)
  OBVIOUS
<1>2. DOMAIN t \subseteq 0..255 \ Reserved /\ 0 \in DOMAIN t /\ DOMAIN t \subseteq Nat
  BY <1>1, SoughtIs DEF Proper
<1>3. diStart \in Nat
  BY DEF TypedWalk
<1>4. PICK all : all = DOMAIN t \cap Category(diCode)
  OBVIOUS
<1>5. Sought = IF diStart \in all THEN {i \in all : i >= diStart} ELSE all
  BY <1>1, <1>4 DEF Sought
<1>6. x \in all /\ x \in DOMAIN t /\ x \in Category(diCode) /\ x \in Nat
  BY <1>2, <1>4, <1>5
<1>7. diCode \in {1, 2, 3}
  BY DEF Proper
<1>8. FirstId(diCode, x) = x
  BY <1>2, <1>6, <1>7 DEF FirstId, Category
<1>9. Wanted(diTable, diCode, x) = {i \in all : i >= x}
  BY <1>1, <1>4, <1>6 DEF Wanted
<1>10. {i \in all : i >= x} = {y \in Sought : y >= x}
  <2>1. \A i \in all : i \in Nat
    BY <1>2, <1>4
  <2>2. CASE diStart \in all
    <3>1. x >= diStart
      BY <1>5, <2>2
    <3>2. \A i \in all : i >= x => i >= diStart
      BY <3>1, <2>1, <1>3, <1>6
    <3> QED BY <3>2, <1>5, <2>2
  <2>3. CASE diStart \notin all
    BY <1>5, <2>3
  <2> QED BY <2>2, <2>3
<1> QED BY <1>8, <1>9, <1>10 DEF From

(* What is left of the walk is what the slave packs for the next request.  *)
LEMMA PackedIs ==
  ASSUME TypedWalk, Proper, Asks, NEW ids, ids = Ascending(Wanted(diTable, diCode, FirstId(diCode, diAsk)))
  PROVE  /\ ids \in Seq(Nat) /\ Len(diGot) < Len(Order) /\ Len(diGot) \in Nat
         /\ Len(ids) = Len(Order) - Len(diGot)
         /\ \A k \in 1..(Len(Order) - Len(diGot)) : ids[k] = Order[Len(diGot) + k]
         /\ diCode = SPECIFIC_ACCESS => Len(Order) = 1
<1>1. PICK l \in Nat : l = Len(Order) /\ l = Cardinality(Sought)
  BY OrderIs
<1>2. Sought \subseteq Nat /\ IsFiniteSet(Sought)
  BY SoughtIs
<1>3. CASE diGot = <<>> /\ diAsk = diStart
  <2>1. ids = Order
    BY <1>3, WantedFirst DEF Order
  <2>2. Len(diGot) = 0 /\ l # 0 /\ Order \in Seq(Nat)
    BY <1>1, <1>3, WantedFirst, OrderIs
  <2>3. diCode = SPECIFIC_ACCESS => l = 1
    <3>1. diCode = SPECIFIC_ACCESS => Sought \subseteq {diStart}
      BY DEF Sought
    <3>2. diCode = SPECIFIC_ACCESS => Cardinality(Sought) <= 1
      <4> SUFFICES ASSUME diCode = SPECIFIC_ACCESS PROVE Cardinality(Sought) <= 1
        OBVIOUS
      <4>1. PICK U : U = {diStart}
        OBVIOUS
      <4>2. Sought \in SUBSET U /\ IsFiniteSet(U) /\ Cardinality(U) = 1
        BY <3>1, <4>1, FS_Singleton
      <4>3. Cardinality(Sought) <= Cardinality(U)
        BY <4>2, FS_Subset
      <4> QED BY <4>2, <4>3
    <3> QED BY <3>2, <1>1, <2>2
  <2> QED BY <2>1, <2>2, <2>3, <1>1
<1>4. CASE AsksOn
  <2>1. PICK n \in Nat : n = Len(diGot) /\ n < l /\ diAsk = Order[n + 1] /\ n + 1 \in 1..l
    BY <1>1, <1>4 DEF AsksOn
  <2>2. diAsk \in Sought /\ diCode # SPECIFIC_ACCESS
    BY <1>1, <1>4, <2>1, OrderIs DEF AsksOn, SPECIFIC_ACCESS
  <2>3. PICK T : T = From(Sought, Ascending(Sought)[n + 1])
    OBVIOUS
  <2>4. ids = Ascending(T)
    BY <2>1, <2>2, <2>3, WantedNext DEF Order
  <2>5. /\ Len(ids) = l - n /\ ids \in Seq(Nat)
        /\ \A k \in 1..(l - n) : ids[k] = Order[n + k]
    <3>1. n \in Nat /\ n < Cardinality(Sought)
      BY <1>1, <2>1
    <3>2. Follows(Ascending(T), Ascending(Sought), n)
      BY <1>2, <2>3, <3>1, AscendingRest
    <3> QED BY <3>2, <1>1, <2>4 DEF Order, Follows
  <2> QED BY <1>1, <2>1, <2>2, <2>5
<1> QED BY <1>3, <1>4 DEF Asks

(* What the handler answers to the next request of a walk: the objects     *)
(* that follow, at least one, and where to go on.                          *)
Fragment(f, n, m) ==
  /\ f.error = 0 /\ f.code = diCode /\ f.count = m
  /\ f.body \in Seq(Nat \X Nat) /\ Len(f.body) = m
  /\ \A k \in 1..m : f.body[k] = <<Order[n + k], Objects(diTable)[Order[n + k]]>>
  /\ f.more = (m < Len(Order) - n)
  /\ f.more => f.next = Order[n + m + 1]

(* The ways the handler answers.                                           *)
LEMMA HandlerIs ==
  ASSUME NEW table, NEW code, NEW asked, NEW f, f = handleFC43_14(table, code, asked),
         NEW t, t = Objects(table), NEW id, id = FirstId(code, asked),
         NEW W, W = Wanted(table, code, id), NEW ids, ids = Ascending(W), NEW m, m = Fitting(t, ids)
  PROVE  \/ code \notin 1..4 /\ f = Refused(3)
         \/ code = SPECIFIC_ACCESS /\ id \in Reserved /\ f = Refused(2)
         \/ ~(DOMAIN table \subseteq 0..255 \ Reserved) /\ f = Refused(4)
         \/ code = SPECIFIC_ACCESS /\ id \notin DOMAIN t /\ f = Refused(2)
         \/ (\E i \in W : t[i] > 244) /\ f = Refused(4)
         \/ /\ code \in 1..4 /\ DOMAIN table \subseteq 0..255 \ Reserved
            /\ code = SPECIFIC_ACCESS => id \in DOMAIN t
            /\ \A i \in W : ~(t[i] > 244)
            /\ f = [error |-> 0, code |-> code, level |-> ConformityLevel(DOMAIN t),
                    more |-> m < Len(ids), next |-> NextOf(ids, m), count |-> m,
                    body |-> Body(t, SubSeq(ids, 1, m))]
<1>1. PICK r : r = [error |-> 0, code |-> code, level |-> ConformityLevel(DOMAIN t),
                    more |-> m < Len(ids), next |-> NextOf(ids, m), count |-> m,
                    body |-> Body(t, SubSeq(ids, 1, m))]
  OBVIOUS
<1>2. f = IF code \notin 1..4 THEN Refused(3)
          ELSE IF code = SPECIFIC_ACCESS /\ id \in Reserved THEN Refused(2)
          ELSE IF ~(DOMAIN table \subseteq 0..255 \ Reserved) THEN Refused(4)
          ELSE IF code = SPECIFIC_ACCESS /\ id \notin DOMAIN t THEN Refused(2)
          ELSE IF \E i \in W : t[i] > 244 THEN Refused(4)
          ELSE r
  <2>1. f = IF code \notin 1..4 THEN Refused(3)
            ELSE IF code = SPECIFIC_ACCESS /\ id \in Reserved THEN Refused(2)
            ELSE IF ~(DOMAIN table \subseteq 0..255 \ Reserved) THEN Refused(4)
            ELSE IF code = SPECIFIC_ACCESS /\ id \notin DOMAIN t THEN Refused(2)
            ELSE IF \E i \in W : t[i] > 244 THEN Refused(4)
            ELSE [error |-> 0, code |-> code, level |-> ConformityLevel(DOMAIN t),
                  more |-> m < Len(ids), next |-> NextOf(ids, m), count |-> m,
                  body |-> Body(t, SubSeq(ids, 1, m))]
    BY DEF handleFC43_14
  <2> QED BY <2>1, <1>1
<1>3. CASE code \notin 1..4
  BY <1>2, <1>3
<1>4. CASE code = SPECIFIC_ACCESS /\ id \in Reserved
  BY <1>2, <1>4
<1>5. CASE ~(DOMAIN table \subseteq 0..255 \ Reserved)
  BY <1>2, <1>5
<1>6. CASE /\ code \in 1..4 /\ ~(code = SPECIFIC_ACCESS /\ id \in Reserved)
           /\ DOMAIN table \subseteq 0..255 \ Reserved
           /\ code = SPECIFIC_ACCESS /\ id \notin DOMAIN t
  BY <1>2, <1>6
<1>7. CASE /\ code \in 1..4 /\ ~(code = SPECIFIC_ACCESS /\ id \in Reserved)
           /\ DOMAIN table \subseteq 0..255 \ Reserved
           /\ ~(code = SPECIFIC_ACCESS /\ id \notin DOMAIN t)
           /\ \E i \in W : t[i] > 244
  BY <1>2, <1>7
<1>8. CASE /\ code \in 1..4 /\ ~(code = SPECIFIC_ACCESS /\ id \in Reserved)
           /\ DOMAIN table \subseteq 0..255 \ Reserved
           /\ ~(code = SPECIFIC_ACCESS /\ id \notin DOMAIN t)
           /\ ~(\E i \in W : t[i] > 244)
  <2>1. f = r
    BY <1>2, <1>8
  <2> QED BY <2>1, <1>1, <1>8
<1> QED BY <1>3, <1>4, <1>5, <1>6, <1>7, <1>8

(* An answer without an error brings at least one of the objects that      *)
(* follow, within one PDU.                                                 *)
LEMMA HandlerServes ==
  ASSUME TypedWalk, Asks, NEW f, f = handleFC43_14(diTable, diCode, diAsk), f.error = 0
  PROVE  /\ Proper /\ Len(diGot) \in Nat
         /\ \E m \in 1..(Len(Order) - Len(diGot)) : Fragment(f, Len(diGot), m)
         /\ 7 + Bytes(f.body) <= 253
         /\ diCode = SPECIFIC_ACCESS => Len(Order) = 1
<1>1. PICK t : t = Objects(diTable)
  OBVIOUS
<1>2. PICK id : id = FirstId(diCode, diAsk)
  OBVIOUS
<1>3. PICK W : W = Wanted(diTable, diCode, id)
  OBVIOUS
<1>4. PICK ids : ids = Ascending(W)
  OBVIOUS
<1>5. PICK m : m = Fitting(t, ids)
  OBVIOUS
<1>6. /\ diCode \in 1..4 /\ DOMAIN diTable \subseteq 0..255 \ Reserved
      /\ diCode = SPECIFIC_ACCESS => id \in DOMAIN t
      /\ \A i \in W : ~(t[i] > 244)
      /\ f = [error |-> 0, code |-> diCode, level |-> ConformityLevel(DOMAIN t),
              more |-> m < Len(ids), next |-> NextOf(ids, m), count |-> m,
              body |-> Body(t, SubSeq(ids, 1, m))]
  <2>1. f # Refused(2) /\ f # Refused(3) /\ f # Refused(4)
    BY DEF Refused
  <2> QED BY <2>1, <1>1, <1>2, <1>3, <1>4, <1>5, HandlerIs
<1>7. Proper
  <2>1. diCode = SPECIFIC_ACCESS => diAsk = diStart /\ id = diAsk
    BY <1>2 DEF Asks, AsksOn, SPECIFIC_ACCESS, FirstId, BASIC_STREAM, REGULAR_STREAM, EXTENDED_STREAM
  <2> QED BY <1>1, <1>6, <2>1 DEF Proper
<1>8. PICK n \in Nat : n = Len(diGot)
  BY <1>7, PackedIs
<1>9. PICK l \in Nat : l = Len(Order)
  BY OrderIs
<1>10. /\ ids \in Seq(Nat) /\ n < l /\ Len(ids) = l - n
       /\ \A k \in 1..(l - n) : ids[k] = Order[n + k]
       /\ diCode = SPECIFIC_ACCESS => l = 1
  BY <1>2, <1>3, <1>4, <1>7, <1>8, <1>9, PackedIs
<1>11. \A k \in 1..(l - n) : t[ids[k]] \in Nat
  <2> TAKE k \in 1..(l - n)
  <2>1. n + k \in 1..l
    BY <1>10
  <2> QED BY <2>1, <1>1, <1>9, <1>10, OrderIs
<1>12. t[ids[1]] <= 244
  <2>1. ids[1] \in W
    <3>1. W \subseteq Nat /\ IsFiniteSet(W) 
      <4>1. W = Sought \/ \E x \in Sought : W = From(Sought, x)
        <5>1. CASE diAsk = diStart /\ diGot = <<>>
          BY <5>1, <1>2, <1>3, <1>7, WantedFirst
        <5>2. CASE AsksOn
          <6>1. diAsk \in Sought /\ diCode # SPECIFIC_ACCESS
            BY <5>2, <1>8, <1>9, OrderIs DEF AsksOn, SPECIFIC_ACCESS
          <6> QED BY <6>1, <1>2, <1>3, <1>7, WantedNext
        <5> QED BY <5>1, <5>2 DEF Asks
      <4>2. W \in SUBSET Sought
        BY <4>1 DEF From
      <4> QED BY <4>2, SoughtIs, FS_Subset
    <3>2. Len(Ascending(W)) = Cardinality(W) /\ \A k \in 1..Cardinality(W) : Ascending(W)[k] \in W
      BY <3>1, AscendingIs
    <3> QED BY <3>2, <1>4, <1>10
  <2>2. 1 \in 1..(l - n)
    BY <1>10
  <2>3. t[ids[1]] \in Nat
    BY <2>2, <1>11
  <2> QED BY <2>1, <2>3, <1>6
<1>13. /\ m \in 0..(l - n) /\ 7 + Bytes(Body(t, SubSeq(ids, 1, m))) <= 253 /\ m >= 1
  <2>1. ids # <<>> /\ \A k \in 1..Len(ids) : t[ids[k]] \in Nat
    BY <1>10, <1>11
  <2> QED BY <2>1, <1>5, <1>10, <1>12, FittingIs
<1>14. m \in 1..(l - n) /\ m \in 0..Len(ids)
  BY <1>10, <1>13
<1>15. PICK b : b = Body(t, SubSeq(ids, 1, m))
  OBVIOUS
<1>16. b \in Seq(Nat \X Nat) /\ Len(b) = m /\ \A k \in 1..m : b[k] = <<ids[k], t[ids[k]]>>
  <2>1. \A k \in 1..m : t[ids[k]] \in Nat
    BY <1>11, <1>14
  <2>2. PICK s : s = SubSeq(ids, 1, m)
    OBVIOUS
  <2>3. ids \in Seq(Nat) /\ m \in 0..Len(ids)
    BY <1>10, <1>14
  <2>4. /\ Body(t, s) \in Seq(Nat \X Nat) /\ Len(Body(t, s)) = m
        /\ \A k \in 1..m : Body(t, s)[k] = <<ids[k], t[ids[k]]>>
    BY <2>1, <2>2, <2>3, BodyIs
  <2>5. b = Body(t, s)
    BY <2>2, <1>15
  <2> QED BY <2>4, <2>5
<1>17. \A k \in 1..m : ids[k] = Order[n + k]
  BY <1>10, <1>14
<1>18. m < l - n => NextOf(ids, m) = Order[n + m + 1]
  <2> SUFFICES ASSUME m < l - n PROVE NextOf(ids, m) = Order[n + m + 1]
    OBVIOUS
  <2>1. PICK k \in 1..(l - n) : k = m + 1 /\ n + k = n + m + 1
    BY <1>14
  <2>2. NextOf(ids, m) = ids[k]
    BY <2>1, <1>10 DEF NextOf
  <2> QED BY <2>1, <2>2, <1>10
<1>19. /\ f.error = 0 /\ f.code = diCode /\ f.count = m /\ f.body = b
       /\ f.more = (m < l - n) /\ f.next = NextOf(ids, m)
  BY <1>6, <1>10, <1>15
<1>20. Fragment(f, n, m)
  BY <1>1, <1>9, <1>16, <1>17, <1>18, <1>19 DEF Fragment
<1> QED BY <1>7, <1>8, <1>9, <1>10, <1>13, <1>14, <1>15, <1>19, <1>20

(* A refusal has no body and a reason in the table or in what was asked.   *)
LEMMA HandlerRefuses ==
  ASSUME TypedWalk, Asks, NEW f, f = handleFC43_14(diTable, diCode, diAsk), f.error # 0
  PROVE  /\ f.body = <<>>
         /\ \/ Sought = {} \/ diCode \notin 1..4
            \/ ~(DOMAIN diTable \subseteq 0..255 \ Reserved)
            \/ \E i \in DOMAIN diTable : diTable[i] \notin 2..244
<1>1. PICK t : t = Objects(diTable)
  OBVIOUS
<1>2. PICK id : id = FirstId(diCode, diAsk)
  OBVIOUS
<1>3. PICK W : W = Wanted(diTable, diCode, id)
  OBVIOUS
<1>4. \/ diCode \notin 1..4 /\ f = Refused(3)
      \/ diCode = SPECIFIC_ACCESS /\ id \in Reserved /\ f = Refused(2)
      \/ ~(DOMAIN diTable \subseteq 0..255 \ Reserved) /\ f = Refused(4)
      \/ diCode = SPECIFIC_ACCESS /\ id \notin DOMAIN t /\ f = Refused(2)
      \/ (\E i \in W : t[i] > 244) /\ f = Refused(4)
  <2>1. PICK ids, m : ids = Ascending(W) /\ m = Fitting(t, ids)
    OBVIOUS
  <2>2. PICK r : r = [error |-> 0, code |-> diCode, level |-> ConformityLevel(DOMAIN t),
                      more |-> m < Len(ids), next |-> NextOf(ids, m), count |-> m,
                      body |-> Body(t, SubSeq(ids, 1, m))]
    OBVIOUS
  <2>3. r.error = 0
    BY <2>2
  <2>4. f # r
    BY <2>3
  <2> QED BY <2>1, <2>2, <2>4, <1>1, <1>2, <1>3, HandlerIs
<1>5. Refused(2).body = <<>> /\ Refused(3).body = <<>> /\ Refused(4).body = <<>>
  BY DEF Refused
<1>6. f.body = <<>>
  BY <1>4, <1>5
<1>7. diCode = SPECIFIC_ACCESS => diAsk = diStart /\ id = diStart
  BY <1>2 DEF Asks, AsksOn, SPECIFIC_ACCESS, FirstId, BASIC_STREAM, REGULAR_STREAM, EXTENDED_STREAM
<1>8. diCode = SPECIFIC_ACCESS /\ id \notin DOMAIN t => Sought = {}
  BY <1>1, <1>7 DEF Sought
<1>9. /\ diCode = SPECIFIC_ACCESS /\ id \in Reserved /\ DOMAIN diTable \subseteq 0..255 \ Reserved
      => id \notin DOMAIN t
  BY <1>1, SoughtIs DEF Reserved
<1>10. ASSUME diCode \in 1..4, DOMAIN diTable \subseteq 0..255 \ Reserved,
              ~(diCode = SPECIFIC_ACCESS /\ id \notin DOMAIN t),
              NEW i \in W, t[i] > 244
       PROVE  \E k \in DOMAIN diTable : diTable[k] \notin 2..244
  <2>1. i \in DOMAIN t
    BY <1>1, <1>3, <1>10 DEF Wanted
  <2>2. t[i] = IF i \in DOMAIN diTable THEN diTable[i] ELSE 4
    BY <1>1, <2>1, SoughtIs
  <2>3. i \in DOMAIN diTable /\ diTable[i] > 244
    BY <2>2, <1>10
  <2>4. diTable[i] \in Nat
    BY <2>1, <2>2, <2>3, <1>1, SoughtIs
  <2>5. diTable[i] \notin 2..244
    BY <2>3, <2>4
  <2> QED BY <2>3, <2>5
<1>11. CASE diCode \notin 1..4 \/ ~(DOMAIN diTable \subseteq 0..255 \ Reserved)
  BY <1>6, <1>11
<1>12. CASE /\ diCode \in 1..4 /\ DOMAIN diTable \subseteq 0..255 \ Reserved
            /\ diCode = SPECIFIC_ACCESS /\ id \notin DOMAIN t
  BY <1>6, <1>8, <1>12
<1>13. CASE /\ diCode \in 1..4 /\ DOMAIN diTable \subseteq 0..255 \ Reserved
            /\ ~(diCode = SPECIFIC_ACCESS /\ id \notin DOMAIN t)
  <2>1. PICK i \in W : t[i] > 244
    BY <1>4, <1>9, <1>13
  <2> QED BY <2>1, <1>6, <1>10, <1>13
<1> QED BY <1>11, <1>12, <1>13
-----------------------------------------------------------------------------
(* A refusal carries its error and no object.                              *)
LEMMA EmptyFrames == Bytes(<<>>) = 0 /\ \A e : Refused(e).body = <<>> /\ Refused(e).error = e
  BY BytesOfFew DEF Refused

LEMMA WalkInit == DiInit => WalkInv
<1> SUFFICES ASSUME DiInit PROVE WalkInv
  OBVIOUS
<1>1. 7 + Bytes(diFrame.body) <= 253
  BY EmptyFrames DEF DiInit
<1> QED BY <1>1 DEF DiInit, WalkInv, TypedWalk, FarEnough

LEMMA WalkBegin == ASSUME WalkInv, Begin PROVE WalkInv'
<1>1. diStage = "ask" /\ diGot = <<>> /\ diOk
  BY DEF WalkInv, TypedWalk, Begin
<1>2. diTable' \in Tables /\ diCode' \in Nat /\ diStart' \in Nat
  BY IdentificationAssumption DEF Begin
<1>3. TypedWalk' /\ FarEnough' /\ Asks'
  BY <1>1, <1>2 DEF Begin, TypedWalk, FarEnough, Asks
<1> QED BY <1>1, <1>3 DEF WalkInv, Begin

(* What the walk seeks stays while it lasts.                               *)
LEMMA SoughtStays ==
  ASSUME UNCHANGED <<diTable, diCode, diStart>>
  PROVE  Sought' = Sought /\ Order' = Order
<1>1. Sought' = Sought
  BY DEF Sought, Objects
<1> QED BY <1>1 DEF Order

LEMMA WalkServe == ASSUME WalkInv, Serve PROVE WalkInv'
<1>1. TypedWalk /\ FarEnough /\ Asks /\ diOk /\ diStage = "sent"
  BY DEF WalkInv, Serve
<1>2. Sought' = Sought /\ Order' = Order
  BY SoughtStays DEF Serve
<1>3. TypedWalk' /\ FarEnough' /\ Asks'
  <2>1. TypedWalk'
    BY <1>1 DEF Serve, TypedWalk
  <2>2. FarEnough'
    <3>1. diGot' = diGot /\ diTable' = diTable
      BY DEF Serve
    <3> QED BY <3>1, <1>1, <1>2 DEF FarEnough, FirstPart
  <2>3. Asks'
    BY <1>1, <1>2 DEF Serve, Asks, AsksOn
  <2> QED BY <2>1, <2>2, <2>3
<1>4. diFrame' \in {handleFC43_14(diTable, diCode, diAsk), Refused(1), Refused(6)}
  BY DEF Serve
<1>5. 7 + Bytes(diFrame'.body) <= 253
  <2>1. CASE diFrame' = handleFC43_14(diTable, diCode, diAsk) /\ diFrame'.error = 0
    BY <2>1, <1>1, HandlerServes
  <2>2. CASE diFrame' = handleFC43_14(diTable, diCode, diAsk) /\ diFrame'.error # 0
    <3>1. diFrame'.body = <<>>
      BY <2>2, <1>1, HandlerRefuses
    <3> QED BY <3>1, EmptyFrames
  <2>3. CASE diFrame' = Refused(1) \/ diFrame' = Refused(6)
    <3>1. diFrame'.body = <<>>
      BY <2>3, EmptyFrames
    <3> QED BY <3>1, EmptyFrames
  <2> QED BY <2>1, <2>2, <2>3, <1>4
<1>6. diFrame' \in {handleFC43_14(diTable', diCode', diAsk'), Refused(1), Refused(6)}
  BY <1>4 DEF Serve
<1>7. diStage' = "answered" /\ diOk'
  BY <1>1 DEF Serve
<1> QED BY <1>3, <1>5, <1>6, <1>7 DEF WalkInv

LEMMA WalkAskNext == ASSUME WalkInv, AskNext PROVE WalkInv'
<1>1. TypedWalk /\ FarEnough /\ AsksOn /\ diOk
  BY DEF WalkInv, AskNext
<1>2. Sought' = Sought /\ Order' = Order
  BY SoughtStays DEF AskNext
<1>3. TypedWalk' /\ FarEnough' /\ Asks'
  <2>1. TypedWalk'
    BY <1>1 DEF AskNext, TypedWalk
  <2>2. FarEnough'
    <3>1. diGot' = diGot /\ diTable' = diTable
      BY DEF AskNext
    <3> QED BY <3>1, <1>1, <1>2 DEF FarEnough, FirstPart
  <2>3. Asks'
    BY <1>1, <1>2 DEF AskNext, Asks, AsksOn
  <2> QED BY <2>1, <2>2, <2>3
<1> QED BY <1>1, <1>3 DEF WalkInv, AskNext

(* The first objects sought are a prefix of them all.                      *)
LEMMA PartIs ==
  ASSUME TypedWalk
  PROVE  /\ FirstPart(Len(Order)) \in [1..Len(Order) -> Nat \X Nat]
         /\ \A n \in 0..Len(Order) : FirstPart(n) = [k \in 1..n |-> FirstPart(Len(Order))[k]]
         /\ FirstPart(0) = <<>>
<1>1. PICK l \in Nat : l = Len(Order) /\ \A k \in 1..l : <<Order[k], Objects(diTable)[Order[k]]>> \in Nat \X Nat
  BY OrderIs
<1>2. FirstPart(l) \in [1..l -> Nat \X Nat]
  BY <1>1 DEF FirstPart
<1>3. ASSUME NEW n \in 0..l PROVE FirstPart(n) = [k \in 1..n |-> FirstPart(l)[k]]
  <2>1. \A k \in 1..n : k \in 1..l /\ FirstPart(l)[k] = <<Order[k], Objects(diTable)[Order[k]]>>
    BY <1>1, <1>3 DEF FirstPart
  <2> QED BY <2>1 DEF FirstPart
<1>4. FirstPart(0) = <<>>
  BY DEF FirstPart
<1> QED BY <1>1, <1>2, <1>3, <1>4

(* A fragment that is taken extends what was received.                     *)
LEMMA Extended ==
  ASSUME TypedWalk, FarEnough, NEW n \in Nat, Len(diGot) = n, NEW m \in Nat, n + m <= Len(Order),
         NEW f, Fragment(f, n, m)
  PROVE  diGot \o f.body = FirstPart(n + m) /\ Len(diGot \o f.body) = n + m
<1>1. PICK l \in Nat : l = Len(Order)
  BY OrderIs
<1>2. PICK w \in [1..l -> Nat \X Nat] : w = FirstPart(l)
  BY <1>1, PartIs
<1>3. \A i \in 0..l : FirstPart(i) = [k \in 1..i |-> w[k]]
  BY <1>1, <1>2, PartIs
<1>4. diGot = [k \in 1..n |-> w[k]]
  <2>1. diGot = FirstPart(n)
    <3>1. CASE diGot = <<>>
      BY <3>1, PartIs
    <3>2. CASE diGot # <<>>
      BY <3>2 DEF FarEnough
    <3> QED BY <3>1, <3>2
  <2>2. n \in 0..l
    BY <1>1
  <2> QED BY <2>1, <2>2, <1>3
<1>5. f.body \in Seq(Nat \X Nat) /\ Len(f.body) = m
  BY DEF Fragment
<1>6. \A k \in 1..m : f.body[k] = w[n + k]
  <2> TAKE k \in 1..m
  <2>1. n + k \in 1..l
    BY <1>1
  <2>2. w[n + k] = <<Order[n + k], Objects(diTable)[Order[n + k]]>>
    BY <2>1, <1>2 DEF FirstPart
  <2> QED BY <2>2 DEF Fragment
<1>7. diGot \o f.body = [k \in 1..(n + m) |-> w[k]] /\ Len(diGot \o f.body) = n + m
  <2>1. n + m <= l
    BY <1>1
  <2>2. diGot \in Seq(Nat \X Nat) /\ \A k \in 1..n : diGot[k] = w[k]
    <3>1. \A k \in 1..n : w[k] \in Nat \X Nat
      BY <2>1
    <3>2. diGot \in [1..n -> Nat \X Nat]
      BY <3>1, <1>4
    <3> QED BY <3>2, <1>4
  <2>3. PICK b \in Seq(Nat \X Nat) : b = f.body /\ Len(b) = m /\ \A k \in 1..m : b[k] = w[n + k]
    BY <1>5, <1>6
  <2>4. PICK g \in Seq(Nat \X Nat) : g = diGot /\ Len(g) = n /\ \A k \in 1..n : g[k] = w[k]
    BY <2>2
  <2>5. g \o b \in Seq(Nat \X Nat)
    OBVIOUS
  <2>6. Len(g \o b) = n + m
    <3>1. Len(g \o b) = Len(g) + Len(b)
      OBVIOUS
    <3> QED BY <3>1, <2>3, <2>4
  <2>7. \A k \in 1..(n + m) : (g \o b)[k] = IF k <= n THEN g[k] ELSE b[k - n]
    <3>1. \A k \in 1..(Len(g) + Len(b)) : (g \o b)[k] = IF k <= Len(g) THEN g[k] ELSE b[k - Len(g)]
      BY ConcatProperties
    <3> QED BY <3>1, <2>3, <2>4
  <2>8. PICK c : c = g \o b
    OBVIOUS
  <2>9. \A k \in 1..(n + m) : c[k] = w[k]
    <3> TAKE k \in 1..(n + m)
    <3>1. c[k] = IF k <= n THEN g[k] ELSE b[k - n]
      BY <2>7, <2>8
    <3>2. CASE k <= n
      BY <3>1, <3>2, <2>4
    <3>3. CASE k > n
      <4>1. PICK j \in 1..m : j = k - n /\ n + j = k
        BY <3>3
      <4>2. c[k] = b[j]
        BY <3>1, <3>3, <4>1
      <4> QED BY <4>1, <4>2, <2>3
    <3> QED BY <3>2, <3>3
  <2>10. c \in Seq(Nat \X Nat) /\ Len(c) = n + m
    BY <2>5, <2>6, <2>8
  <2>11. c = [k \in 1..(n + m) |-> w[k]]
    BY <2>9, <2>10
  <2> QED BY <2>3, <2>4, <2>6, <2>8, <2>11
<1>8. n + m \in 0..l
  BY <1>1
<1> QED BY <1>3, <1>7, <1>8

(* The response and what the master makes of it.                           *)
TakenIn(f) ==
  /\ f.error = 0 /\ f.code = diCode
  /\ Len(Parsed(f.body)) = f.count /\ Bytes(f.body) = Bytes(Parsed(f.body))

LEMMA SettleIs ==
  ASSUME Settle
  PROVE  /\ diStage = "answered" /\ UNCHANGED <<diTable, diCode, diStart, diFrame>>
         /\ ~TakenIn(diFrame) => ~diOk' /\ diStage' = "over" /\ UNCHANGED <<diGot, diAsk>>
         /\ TakenIn(diFrame) =>
              /\ diGot' = diGot \o Parsed(diFrame.body) /\ diOk' = diOk
              /\ diFrame.more => diStage' = "next" /\ diAsk' = diFrame.next
              /\ ~diFrame.more => diStage' = "over"
<1>1. PICK r : r = readDeviceIdentification(diFrame)
  OBVIOUS
<1>2. CASE TakenIn(diFrame)
  <2>1. r = [ok |-> TRUE, objects |-> Parsed(diFrame.body), moreFollows |-> diFrame.more,
             nextObjectId |-> diFrame.next]
    BY <1>1, <1>2 DEF readDeviceIdentification, TakenIn
  <2>2. /\ r.ok = TRUE /\ r.objects = Parsed(diFrame.body)
        /\ r.moreFollows = diFrame.more /\ r.nextObjectId = diFrame.next
    BY <2>1
  <2> QED BY <2>2, <1>1, <1>2 DEF Settle
<1>3. CASE ~TakenIn(diFrame)
  <2>1. r = [ok |-> FALSE]
    BY <1>1, <1>3 DEF readDeviceIdentification, TakenIn
  <2>2. r.ok = FALSE
    BY <2>1
  <2> QED BY <2>2, <1>1, <1>3 DEF Settle
<1> QED BY <1>2, <1>3

(* A response that is not taken: an error of the model or without the      *)
(* function, a request the slave refuses, or an object the master cannot   *)
(* take in.                                                                *)
LEMMA NotTaken ==
  ASSUME WalkInv, diStage = "answered", ~TakenIn(diFrame)
  PROVE  Excused
<1>1. TypedWalk /\ Asks
  BY DEF WalkInv
<1>2. diFrame \in {handleFC43_14(diTable, diCode, diAsk), Refused(1), Refused(6)}
  BY DEF WalkInv
<1>3. CASE diFrame = Refused(1) \/ diFrame = Refused(6)
  <2>1. diFrame.error \in {1, 6}
    BY <1>3, EmptyFrames
  <2> QED BY <2>1 DEF Excused
<1>4. CASE diFrame = handleFC43_14(diTable, diCode, diAsk) /\ diFrame.error # 0
  BY <1>1, <1>4, HandlerRefuses DEF Excused
<1>5. CASE diFrame = handleFC43_14(diTable, diCode, diAsk) /\ diFrame.error = 0
  <2>0. PICK n \in Nat : \E m \in 1..(Len(Order) - n) : Fragment(diFrame, n, m)
    BY <1>1, <1>5, HandlerServes
  <2>1. PICK m \in 1..(Len(Order) - n) : Fragment(diFrame, n, m)
    BY <2>0
  <2>2. PICK b \in Seq(Nat \X Nat) : /\ b = diFrame.body /\ Len(b) = m
                                     /\ \A k \in 1..m : b[k] = <<Order[n + k], Objects(diTable)[Order[n + k]]>>
    BY <2>1 DEF Fragment
  <2>3. Parsed(b) # b
    BY <2>1, <2>2 DEF TakenIn, Fragment
  <2>4. PICK k \in 1..m : ~(b[k][2] >= 2)
    BY <2>2, <2>3, ParsedIs
  <2>5. PICK x : x = Order[n + k]
    OBVIOUS
  <2>6. b[k][2] = Objects(diTable)[x]
    BY <2>2, <2>5
  <2>7. x \in DOMAIN Objects(diTable)
    <3>1. PICK l \in Nat : l = Len(Order)
      BY <1>1, OrderIs
    <3>2. n + k \in 1..l
      BY <2>1, <3>1
    <3> QED BY <3>1, <3>2, <2>5, <1>1, OrderIs
  <2>8. Objects(diTable)[x] = IF x \in DOMAIN diTable THEN diTable[x] ELSE 4
    BY <1>1, <2>7, SoughtIs
  <2>9. x \in DOMAIN diTable /\ ~(diTable[x] >= 2)
    BY <2>4, <2>6, <2>8
  <2>10. PICK v \in Nat : v = diTable[x]
    BY <1>1, <2>7, <2>8, <2>9, SoughtIs
  <2>11. v \notin 2..244
    <3>1. ~(v >= 2)
      BY <2>9, <2>10
    <3> QED BY <3>1
  <2>12. diTable[x] \notin 2..244
    BY <2>10, <2>11
  <2> QED BY <2>9, <2>12 DEF Excused
<1> QED BY <1>2, <1>3, <1>4, <1>5

(* A response that is taken lengthens what was received, and either names   *)
(* the object that follows or ends the walk at the last.                   *)
LEMMA WalkSettle == ASSUME WalkInv, Settle PROVE WalkInv'
<1>1. /\ TypedWalk /\ FarEnough /\ Asks /\ diOk /\ diStage = "answered"
      /\ diFrame \in {handleFC43_14(diTable, diCode, diAsk), Refused(1), Refused(6)}
      /\ 7 + Bytes(diFrame.body) <= 253
  BY SettleIs DEF WalkInv
<1>2. Sought' = Sought /\ Order' = Order /\ UNCHANGED <<diTable, diCode, diStart, diFrame>>
  BY SettleIs, SoughtStays
<1>3. diStage' \in {"next", "over"}
  BY SettleIs
<1>4. TypedWalk'
  BY <1>1, <1>2, <1>3 DEF TypedWalk
<1>5. 7 + Bytes(diFrame'.body) <= 253
  BY <1>1, <1>2
<1>6. CASE ~TakenIn(diFrame)
  <2>1. ~diOk' /\ diStage' = "over" /\ diGot' = diGot
    BY <1>6, SettleIs
  <2>2. FarEnough'
    BY <1>1, <1>2, <2>1 DEF FarEnough, FirstPart
  <2>3. Excused
    BY <1>1, <1>6, NotTaken
  <2>4. Excused'
    BY <2>3, <1>2 DEF Excused
  <2> QED BY <1>4, <1>5, <2>1, <2>2, <2>4 DEF WalkInv
<1>7. CASE TakenIn(diFrame)
  <2>1. diFrame.error = 0 /\ diFrame = handleFC43_14(diTable, diCode, diAsk)
    BY <1>1, <1>7, EmptyFrames DEF TakenIn
  <2>2. PICK n \in Nat : n = Len(diGot)
    BY <1>1, <2>1, HandlerServes
  <2>3. PICK l \in Nat : l = Len(Order)
    BY <1>1, OrderIs
  <2>4. PICK m \in 1..(l - n) : Fragment(diFrame, n, m)
    BY <1>1, <2>1, <2>2, <2>3, HandlerServes
  <2>5. Proper /\ (diCode = SPECIFIC_ACCESS => l = 1)
    BY <1>1, <2>1, <2>3, HandlerServes
  <2>6. Parsed(diFrame.body) = diFrame.body
    BY <1>7, <2>4, ParsedIs DEF TakenIn, Fragment
  <2>7. n + m <= l /\ n + m \in Nat /\ n + m >= 1 /\ m \in Nat
    OBVIOUS
  <2>8. diGot' = FirstPart(n + m) /\ Len(diGot') = n + m
    <3>1. diGot' = diGot \o diFrame.body
      BY <1>7, <2>6, SettleIs
    <3>2. diGot \o diFrame.body = FirstPart(n + m) /\ Len(diGot \o diFrame.body) = n + m
      BY <1>1, <2>2, <2>3, <2>4, <2>7, Extended
    <3> QED BY <3>1, <3>2
  <2>9. FarEnough'
    <3>1. FirstPart(n + m)' = FirstPart(n + m)
      BY <1>2 DEF FirstPart
    <3> QED BY <3>1, <1>2, <2>3, <2>7, <2>8 DEF FarEnough
  <2>10. diOk'
    BY <1>1, <1>7, SettleIs
  <2>11. CASE diFrame.more
    <3>1. diStage' = "next" /\ diAsk' = diFrame.next
      BY <1>7, <2>11, SettleIs
    <3>2. m < l - n /\ diFrame.next = Order[n + m + 1]
      <4>1. diFrame.more = (m < l - n)
        BY <2>3, <2>4 DEF Fragment
      <4>2. m < l - n
        BY <4>1, <2>11
      <4> QED BY <4>2, <2>4, <2>11 DEF Fragment
    <3>3. n + m \in 1..(l - 1) /\ l # 1
      BY <2>7, <3>2
    <3>4. diCode \in 1..3 /\ DOMAIN diTable \subseteq 0..255 \ Reserved
      BY <2>5, <3>3 DEF Proper, SPECIFIC_ACCESS
    <3>5. AsksOn'
      BY <3>1, <3>2, <3>3, <3>4, <1>2, <2>3, <2>8 DEF AsksOn
    <3> QED BY <3>1, <3>5, <1>4, <1>5, <2>9, <2>10 DEF WalkInv
  <2>12. CASE ~diFrame.more
    <3>1. diStage' = "over"
      BY <1>7, <2>12, SettleIs
    <3>2. n + m = l
      <4>1. diFrame.more = (m < l - n)
        BY <2>3, <2>4 DEF Fragment
      <4>2. ~(m < l - n)
        BY <4>1, <2>12
      <4> QED BY <4>2
    <3>3. Len(diGot') = Len(Order')
      BY <3>2, <1>2, <2>3, <2>8
    <3> QED BY <3>1, <3>3, <1>4, <1>5, <2>9, <2>10 DEF WalkInv
  <2> QED BY <2>11, <2>12
<1> QED BY <1>6, <1>7
-----------------------------------------------------------------------------
LEMMA WalkIsInductive == WalkInv /\ [DiNext]_diVars => WalkInv'
<1> SUFFICES ASSUME WalkInv, [DiNext]_diVars PROVE WalkInv'
  OBVIOUS
<1>1. CASE Begin
  BY <1>1, WalkBegin
<1>2. CASE Serve
  BY <1>2, WalkServe
<1>3. CASE Settle
  BY <1>3, WalkSettle
<1>4. CASE AskNext
  BY <1>4, WalkAskNext
<1>5. CASE UNCHANGED diVars
  <2>1. UNCHANGED <<diStage, diTable, diCode, diStart, diAsk, diFrame, diGot, diOk>>
    BY <1>5 DEF diVars
  <2>2. Sought' = Sought /\ Order' = Order
    BY <2>1, SoughtStays
  <2>3. TypedWalk' = TypedWalk /\ FarEnough' = FarEnough /\ Asks' = Asks /\ AsksOn' = AsksOn /\ Excused' = Excused
    BY <2>1, <2>2 DEF TypedWalk, FarEnough, FirstPart, Asks, AsksOn, Excused
  <2> QED BY <2>1, <2>2, <2>3 DEF WalkInv
<1> QED BY <1>1, <1>2, <1>3, <1>4, <1>5 DEF DiNext

(* The invariant says of the walk what it is for.                          *)
LEMMA WalkInvCompletes == WalkInv => WalkCompletes
<1> SUFFICES ASSUME WalkInv PROVE WalkCompletes
  OBVIOUS
<1>1. TypedWalk /\ FarEnough
  BY DEF WalkInv
<1>2. PICK l \in Nat : l = Len(Order)
  BY <1>1, OrderIs
<1>3. PICK sought : sought = FirstPart(l)
  OBVIOUS
<1>4. sought \in [1..l -> Nat \X Nat] /\ DOMAIN Order = 1..l
  BY <1>1, <1>2, <1>3, PartIs, OrderIs
<1>5. sought = [i \in DOMAIN Ascending(Sought) |->
                 <<Ascending(Sought)[i], Objects(diTable)[Ascending(Sought)[i]]>>]
  BY <1>3, <1>4 DEF FirstPart, Order
<1>6. sought \in Seq(Nat \X Nat) /\ Len(sought) = l
  BY <1>4
<1>7. diGot # <<>> => diGot = SubSeq(sought, 1, Len(diGot)) /\ Len(diGot) <= l
  <2> SUFFICES ASSUME diGot # <<>> PROVE diGot = SubSeq(sought, 1, Len(diGot)) /\ Len(diGot) <= l
    OBVIOUS
  <2>1. diGot = FirstPart(Len(diGot)) /\ Len(diGot) \in 0..l
    BY <1>1, <1>2 DEF FarEnough
  <2>2. PICK n \in 0..l : n = Len(diGot)
    BY <2>1
  <2>3. diGot = [k \in 1..n |-> sought[k]]
    BY <1>1, <1>2, <1>3, <2>1, <2>2, PartIs
  <2>4. SubSeq(sought, 1, n) = [k \in 1..n |-> sought[k]]
    BY <1>6, <2>2
  <2> QED BY <2>1, <2>2, <2>3, <2>4
<1>8. diStage = "next" => Len(diGot) \in 1..(l - 1) /\ diAsk = sought[Len(diGot) + 1][1]
  <2> SUFFICES ASSUME diStage = "next"
               PROVE  Len(diGot) \in 1..(l - 1) /\ diAsk = sought[Len(diGot) + 1][1]
    OBVIOUS
  <2>1. Len(diGot) \in 1..(l - 1) /\ diAsk = Order[Len(diGot) + 1]
    BY <1>2 DEF WalkInv, AsksOn
  <2>2. PICK k \in 1..l : k = Len(diGot) + 1
    BY <2>1
  <2>3. sought[k][1] = Order[k]
    BY <1>3 DEF FirstPart
  <2> QED BY <2>1, <2>2, <2>3
<1>9. Sought = {} => sought = <<>>
  <2>1. Sought = {} => Len(Order) = 0
    BY <1>1, OrderIs
  <2>2. l = 0 => sought = <<>>
    BY <1>6
  <2> QED BY <2>1, <2>2, <1>2
<1>10. diStage = "over" =>
         IF diOk THEN Len(diGot) = Len(sought)
         ELSE \/ diFrame.error \in {1, 6} \/ sought = <<>> \/ diCode \notin 1..4
              \/ ~(DOMAIN diTable \subseteq 0..255 \ Reserved)
              \/ \E i \in DOMAIN diTable : diTable[i] \notin 2..244
  BY <1>2, <1>6, <1>9 DEF WalkInv, Excused
<1>11. 7 + Bytes(diFrame.body) <= 253
  BY DEF WalkInv
<1> QED BY <1>5, <1>6, <1>7, <1>8, <1>10, <1>11 DEF WalkCompletes

(* Every walk of readDeviceIdentification, over a table of any lengths and *)
(* from any object, brings what it seeks once and in order, each response  *)
(* within one PDU, or is rejected for a reason WalkCompletes names.        *)
THEOREM WalksComplete == DiSpec => []WalkCompletes
<1>1. DiInit => WalkInv
  BY WalkInit
<1>2. WalkInv /\ [DiNext]_diVars => WalkInv'
  BY WalkIsInductive
<1>3. WalkInv => WalkCompletes
  BY WalkInvCompletes
<1> QED BY <1>1, <1>2, <1>3, PTL DEF DiSpec
=============================================================================
