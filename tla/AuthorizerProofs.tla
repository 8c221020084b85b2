-------------------------- MODULE AuthorizerProofs --------------------------
(* The counter of runCheckAddress gives one verdict, the right one, for any*)
(* number of ranges, when every check is counted before the first verdict. *)
EXTENDS AccessAuthorizer, FiniteSetTheorems, TLAPS

(* While no range is denied the counter is the number of open promises, and*)
(* the callback has run only when there are none.                          *)
CounterExact ==
  /\ pendingChecks = Cardinality(promises)
  /\ rejected = {}
  /\ calls # <<>> =>
       /\ calls = <<"true">> /\ promises = {} /\ walked = count
       /\ count = 0 => returned

(* A denial was told once and nothing else was.                            *)
DenialTold ==
  /\ rejected # {}
  /\ Len(calls) = 1 /\ calls[1] # "true"

AuthInv ==
  /\ TypeOK
  /\ Cardinality(promises) <= pendingChecks
  /\ returned => walked = count
  /\ Counted => (~denied => CounterExact) /\ (denied => DenialTold)

LEMMA PromisesFinite ==
  ASSUME TypeOK
  PROVE  IsFiniteSet(promises) /\ Cardinality(promises) \in Nat
<1>1. walked \in Nat /\ IsFiniteSet(1..walked)
  BY FS_Interval, AuthorizerAssumption DEF TypeOK
<1>2. IsFiniteSet(promises)
  BY <1>1, FS_Subset DEF TypeOK
<1> QED
  BY <1>2, FS_CardinalityType

LEMMA AuthInit == Init => AuthInv
<1> SUFFICES ASSUME Init PROVE AuthInv
  OBVIOUS
<1>1. TypeOK
  <2>1. count \in Nat /\ count \in 0..MaxRanges /\ atOnce \in BOOLEAN
    BY AuthorizerAssumption DEF Init
  <2>2. calls \in Seq(Verdicts)
    BY DEF Init
  <2>3. walked \in 0..count /\ pendingChecks \in Nat
    BY <2>1 DEF Init
  <2>4. promises \subseteq 1..walked /\ rejected \subseteq 1..walked
    BY DEF Init
  <2>5. returned \in BOOLEAN /\ denied \in BOOLEAN
    BY DEF Init
  <2> QED
    BY <2>1, <2>2, <2>3, <2>4, <2>5 DEF TypeOK
<1>2. Cardinality(promises) = 0
  BY FS_EmptySet DEF Init
<1> QED
  BY <1>1, <1>2 DEF Init, AuthInv, CounterExact

(* A verdict that is counted keeps the counter exact or tells the denial.  *)
LEMMA CompleteKeeps ==
  ASSUME AuthInv, Counted, NEW v \in Verdicts, NEW r \in 1..count,
         NEW n \in Nat,
         promises' \subseteq 1..walked', Cardinality(promises') \in Nat,
         walked' \in 0..count, UNCHANGED <<given, returned>>,
         Reject(v, r), Complete(v, n),
         ~denied => /\ calls = <<>>
                    /\ n = Cardinality(promises') + 1
                    /\ Cardinality(promises') = 0 => promises' = {} /\ walked' = count
  PROVE  /\ pendingChecks' \in Nat /\ denied' \in BOOLEAN /\ calls' \in Seq(Verdicts)
         /\ (~denied => CounterExact)' /\ (denied => DenialTold)'
<1>1. v \in Verdicts /\ calls \in Seq(Verdicts) /\ pendingChecks \in Nat /\ count \in Nat
  BY AuthorizerAssumption DEF AuthInv, TypeOK
<1>2. CASE denied
  <2>1. pendingChecks' = n /\ denied' = denied /\ calls' = calls
    BY <1>2 DEF Complete
  <2>2. DenialTold
    BY <1>2 DEF AuthInv
  <2>3. rejected' # {}
    BY <2>2 DEF Reject, DenialTold
  <2> QED
    BY <1>1, <1>2, <2>1, <2>2, <2>3 DEF DenialTold, AuthInv, TypeOK
<1>3. CASE ~denied
  <2>1. /\ calls = <<>> /\ n = Cardinality(promises') + 1 /\ rejected = {}
        /\ pendingChecks' = n - 1 /\ denied' = (v # "true")
        /\ calls' = IF v # "true" \/ n = 1 THEN Append(calls, v) ELSE calls
    BY <1>3 DEF Complete, AuthInv, CounterExact
  <2>2. pendingChecks' = Cardinality(promises')
    BY <2>1
  <2>3. Append(calls, v) = <<v>>
    BY <2>1
  <2>4. CASE v = "true"
    <3>1. rejected' = {} /\ ~denied'
      BY <2>1, <2>4 DEF Reject
    <3>2. calls' # <<>> => calls' = <<"true">> /\ n = 1
      BY <2>1, <2>3, <2>4
    <3>3. count' = count /\ count # 0
      BY <1>1 DEF given
    <3>4. n = 1 => Cardinality(promises') = 0
      BY <2>1
    <3>5. n = 1 => promises' = {} /\ walked' = count'
      BY <1>3, <3>3, <3>4
    <3>6. CounterExact'
      BY <2>2, <3>1, <3>2, <3>3, <3>5 DEF CounterExact
    <3>7. calls' = calls \/ calls' = Append(calls, v)
      BY <2>1
    <3>8. calls' \in Seq(Verdicts)
      <4>1. v \in Verdicts /\ calls \in Seq(Verdicts)
        BY <1>1
      <4>2. Append(calls, v) \in Seq(Verdicts)
        BY <4>1
      <4> QED BY <3>7, <4>1, <4>2, Zenon
    <3>9. pendingChecks' \in Nat /\ denied' \in BOOLEAN
      BY <2>1, <2>2
    <3> QED
      BY <3>1, <3>6, <3>8, <3>9
  <2>5. CASE v # "true"
    <3>1. rejected' # {} /\ denied'
      BY <2>1, <2>5 DEF Reject
    <3>2. calls' = <<v>>
      BY <2>1, <2>3, <2>5
    <3> QED
      BY <1>1, <2>1, <2>2, <2>5, <3>1, <3>2 DEF DenialTold
  <2> QED
    BY <2>4, <2>5
<1> QED
  BY <1>2, <1>3

(* The types of the counter survive a verdict in every mode.               *)
LEMMA CompleteTyped ==
  ASSUME TypeOK, NEW v \in Verdicts, NEW n \in Nat \ {0}, Complete(v, n)
  PROVE  pendingChecks' \in Nat /\ denied' \in BOOLEAN /\ calls' \in Seq(Verdicts)
<1>1. pendingChecks' \in Nat /\ denied' \in BOOLEAN
  <2>1. n \in Nat /\ n - 1 \in Nat
    OBVIOUS
  <2>2. pendingChecks' = n \/ pendingChecks' = n - 1
    BY DEF Complete
  <2>3. denied' \in BOOLEAN
    BY DEF TypeOK, Complete
  <2> QED
    BY <2>1, <2>2, <2>3
<1>2. calls' = calls \/ calls' = Append(calls, v)
  BY DEF Complete
<1>3. calls \in Seq(Verdicts)
  BY DEF TypeOK
<1>4. Append(calls, v) \in Seq(Verdicts)
  BY <1>3
<1> QED
  BY <1>1, <1>2, <1>3, <1>4
-----------------------------------------------------------------------------
LEMMA AskNowKeeps ==
  ASSUME AuthInv, NEW v \in Verdicts, AskNow(v)
  PROVE  AuthInv'
<1>1. /\ count \in Nat /\ count \in 0..MaxRanges /\ walked \in 0..count
      /\ pendingChecks \in Nat /\ walked < count
      /\ walked' = walked + 1 /\ walked' \in 1..count
      /\ count' = count /\ promises' = promises
  BY AuthorizerAssumption DEF AuthInv, TypeOK, AskNow, given
<1>2. promises' \subseteq 1..walked' /\ rejected' \subseteq 1..walked'
  BY <1>1 DEF AuthInv, TypeOK, AskNow, Reject
<1>3. pendingChecks' \in Nat /\ denied' \in BOOLEAN /\ calls' \in Seq(Verdicts)
  <2>1. pendingChecks + 1 \in Nat \ {0}
    BY <1>1
  <2> QED
    BY <2>1, CompleteTyped DEF AuthInv, AskNow
<1>4. atOnce' = atOnce /\ returned' = returned
  BY DEF AskNow, given
<1>5. TypeOK'
  BY <1>1, <1>2, <1>3, <1>4 DEF AuthInv, TypeOK
<1>6. returned' => walked' = count'
  BY <1>1, <1>4 DEF AuthInv
<1>7. ASSUME Counted' PROVE (~denied => CounterExact)' /\ (denied => DenialTold)'
  <2>1. Counted /\ count = 1 /\ walked = 0
    BY <1>1, <1>4, <1>7 DEF Counted, AskNow
  <2>2. promises = {}
    BY <2>1 DEF AuthInv, TypeOK
  <2>3. Cardinality(promises') = 0
    BY <1>1, <2>2, FS_EmptySet
  <2>4. ~denied => calls = <<>> /\ pendingChecks = 0
    BY <1>1, <2>1, <2>3 DEF AuthInv, CounterExact
  <2> DEFINE n == pendingChecks + 1
  <2>5. ~denied => /\ calls = <<>> /\ n = Cardinality(promises') + 1
                   /\ Cardinality(promises') = 0 => promises' = {} /\ walked' = count
    BY <1>1, <2>1, <2>2, <2>3, <2>4
  <2>6. n \in Nat /\ walked + 1 \in 1..count /\ walked' \in 0..count
        /\ Cardinality(promises') \in Nat
    BY <1>1, <2>3
  <2>7. Reject(v, walked + 1) /\ Complete(v, n) /\ UNCHANGED <<given, returned>>
    BY DEF AskNow
  <2> HIDE DEF n
  <2> QED
    BY <1>2, <2>1, <2>5, <2>6, <2>7, CompleteKeeps
<1>8. Cardinality(promises') <= pendingChecks'
  <2>1. pendingChecks' = pendingChecks + 1 \/ pendingChecks' = pendingChecks
    BY <1>1 DEF AskNow, Complete
  <2>2. Cardinality(promises) \in Nat /\ Cardinality(promises) <= pendingChecks
    BY PromisesFinite DEF AuthInv
  <2>3. Cardinality(promises') = Cardinality(promises)
    BY <1>1
  <2> QED
    BY <1>1, <2>1, <2>2, <2>3
<1> QED
  BY <1>5, <1>6, <1>7, <1>8 DEF AuthInv

LEMMA AskLaterKeeps ==
  ASSUME AuthInv, AskLater
  PROVE  AuthInv'
<1>1. /\ count \in Nat /\ count \in 0..MaxRanges /\ walked \in 0..count
      /\ pendingChecks \in Nat /\ walked < count
      /\ walked' = walked + 1 /\ walked' \in 0..count
      /\ count' = count /\ promises' = promises \cup {walked + 1}
      /\ pendingChecks' = pendingChecks + 1
  BY AuthorizerAssumption DEF AuthInv, TypeOK, AskLater, given
<1>2. promises' \subseteq 1..walked' /\ rejected' \subseteq 1..walked'
  BY <1>1 DEF AuthInv, TypeOK, AskLater
<1>3. /\ atOnce' = atOnce /\ returned' = returned /\ rejected' = rejected
      /\ denied' = denied /\ calls' = calls
  BY DEF AskLater, given
<1>4. TypeOK'
  BY <1>1, <1>2, <1>3 DEF AuthInv, TypeOK
<1>5. returned' => walked' = count'
  BY <1>1, <1>3 DEF AuthInv
<1>6. /\ Cardinality(promises) \in Nat
      /\ Cardinality(promises') = Cardinality(promises) + 1
  <2>1. IsFiniteSet(promises) /\ Cardinality(promises) \in Nat
    BY PromisesFinite DEF AuthInv
  <2>2. walked + 1 \notin promises
    BY <1>1 DEF AuthInv, TypeOK
  <2> QED
    BY <1>1, <2>1, <2>2, FS_AddElement
<1>7. ASSUME Counted' PROVE (~denied => CounterExact)' /\ (denied => DenialTold)'
  <2>1. Counted
    BY <1>1, <1>3, <1>7 DEF Counted
  <2>2. CASE denied
    BY <1>3, <2>1, <2>2 DEF AuthInv, DenialTold
  <2>3. CASE ~denied
    <3>1. CounterExact /\ calls = <<>>
      BY <1>1, <2>1, <2>3 DEF AuthInv, CounterExact
    <3> QED
      BY <1>1, <1>3, <1>6, <2>3, <3>1 DEF CounterExact
  <2> QED
    BY <2>2, <2>3
<1>8. Cardinality(promises') <= pendingChecks'
  BY <1>1, <1>6 DEF AuthInv
<1> QED
  BY <1>4, <1>5, <1>7, <1>8 DEF AuthInv

LEMMA ReturnKeeps ==
  ASSUME AuthInv, Return
  PROVE  AuthInv'
<1>1. /\ count' = count /\ walked' = walked /\ promises' = promises
      /\ atOnce' = atOnce /\ rejected' = rejected /\ denied' = denied
      /\ pendingChecks' = pendingChecks /\ returned' = TRUE /\ walked = count
  BY DEF Return, given
<1>2. calls' = calls \/ calls' = Append(calls, "true")
  BY DEF Return
<1>3. calls \in Seq(Verdicts) /\ "true" \in Verdicts
  BY DEF AuthInv, TypeOK, Verdicts
<1>4. TypeOK'
  <2>1. calls' \in Seq(Verdicts)
    BY <1>2, <1>3
  <2> QED
    BY <1>1, <2>1 DEF AuthInv, TypeOK
<1>5. ASSUME Counted' PROVE (~denied => CounterExact)' /\ (denied => DenialTold)'
  <2>1. Counted
    BY <1>1, <1>5 DEF Counted
  <2>2. CASE count = 0
    <3>1. promises = {} /\ rejected = {}
      BY <1>1, <2>2 DEF AuthInv, TypeOK
    <3>2. ~denied
      BY <2>1, <3>1 DEF AuthInv, DenialTold
    <3>3. calls = <<>>
      BY <2>1, <2>2, <3>2 DEF AuthInv, CounterExact, Return
    <3>4. calls' = <<"true">>
      BY <2>2, <3>3 DEF Return
    <3> QED
      BY <1>1, <2>1, <3>1, <3>2, <3>4 DEF AuthInv, CounterExact
  <2>3. CASE count # 0
    BY <1>1, <2>1, <2>3 DEF Return, AuthInv, CounterExact, DenialTold
  <2> QED
    BY <2>2, <2>3
<1> QED
  BY <1>1, <1>4, <1>5 DEF AuthInv

LEMMA SettleKeeps ==
  ASSUME AuthInv, NEW r \in 1..MaxRanges, NEW v \in Verdicts, Settle(r, v)
  PROVE  AuthInv'
<1>1. /\ count \in Nat /\ count \in 0..MaxRanges /\ walked \in 0..count
      /\ pendingChecks \in Nat /\ walked = count /\ r \in promises /\ r \in 1..count
      /\ walked' = walked /\ count' = count /\ promises' = promises \ {r}
  BY AuthorizerAssumption DEF AuthInv, TypeOK, Settle, given
<1>2. promises' \subseteq 1..walked' /\ rejected' \subseteq 1..walked'
  BY <1>1 DEF AuthInv, TypeOK, Settle, Reject
<1>3. atOnce' = atOnce /\ returned' = returned
  BY DEF Settle, given
<1>4. IsFiniteSet(promises) /\ Cardinality(promises) \in Nat
  BY PromisesFinite DEF AuthInv
<1>5. /\ IsFiniteSet(promises') /\ Cardinality(promises') \in Nat
      /\ Cardinality(promises) = Cardinality(promises') + 1
      /\ Cardinality(promises') = 0 => promises' = {}
  <2>1. IsFiniteSet(promises') /\ Cardinality(promises') = Cardinality(promises) - 1
    BY <1>1, <1>4, FS_RemoveElement
  <2>2. Cardinality(promises') \in Nat
    BY <2>1, FS_CardinalityType
  <2>3. Cardinality(promises') = 0 => promises' = {}
    BY <2>1, FS_EmptySet
  <2> QED
    BY <1>4, <2>1, <2>2, <2>3
<1>6. ASSUME Counted' PROVE (~denied => CounterExact)' /\ (denied => DenialTold)'
  <2>1. Counted
    BY <1>1, <1>3, <1>6 DEF Counted
  <2>2. ~denied => calls = <<>> /\ pendingChecks = Cardinality(promises') + 1
    BY <1>1, <1>5, <2>1 DEF AuthInv, CounterExact
  <2>3. Reject(v, r) /\ Complete(v, pendingChecks) /\ UNCHANGED <<given, returned>>
    BY DEF Settle
  <2> QED
    BY <1>1, <1>2, <1>5, <2>1, <2>2, <2>3, CompleteKeeps
<1>7. /\ pendingChecks' \in Nat /\ denied' \in BOOLEAN /\ calls' \in Seq(Verdicts)
      /\ Cardinality(promises') <= pendingChecks'
  <2>1. Cardinality(promises') + 1 <= pendingChecks
    BY <1>5 DEF AuthInv
  <2>2. pendingChecks \in Nat \ {0}
    BY <1>1, <1>5, <2>1
  <2>3. pendingChecks' = pendingChecks \/ pendingChecks' = pendingChecks - 1
    BY DEF Settle, Complete
  <2>4. Cardinality(promises') <= pendingChecks'
    BY <1>1, <1>5, <2>1, <2>3
  <2> QED
    BY <2>2, <2>4, CompleteTyped DEF AuthInv, Settle
<1>8. TypeOK'
  BY <1>1, <1>2, <1>3, <1>7 DEF AuthInv, TypeOK
<1>9. returned' => walked' = count'
  BY <1>1
<1> QED
  BY <1>6, <1>7, <1>8, <1>9 DEF AuthInv
-----------------------------------------------------------------------------
LEMMA AuthNext == AuthInv /\ [Next]_vars => AuthInv'
<1> SUFFICES ASSUME AuthInv, [Next]_vars PROVE AuthInv'
  OBVIOUS
<1>1. ASSUME NEW v \in Verdicts, AskNow(v) PROVE AuthInv'
  BY <1>1, AskNowKeeps
<1>2. ASSUME NEW v \in Verdicts, NEW r \in 1..MaxRanges, Settle(r, v) PROVE AuthInv'
  BY <1>2, SettleKeeps
<1>3. CASE AskLater
  BY <1>3, AskLaterKeeps
<1>4. CASE Return
  BY <1>4, ReturnKeeps
<1>5. CASE UNCHANGED vars
  BY <1>5 DEF vars, given, AuthInv, TypeOK, Counted, CounterExact, DenialTold
<1> QED
  BY <1>1, <1>2, <1>3, <1>4, <1>5 DEF Next, Rest

LEMMA AuthInvariant == Spec => []AuthInv
<1> QED
  BY AuthInit, AuthNext, PTL DEF Spec

(* The counter stays a natural number and the state of its type, also when *)
(* the hook mixes verdicts at once with promises.                          *)
THEOREM AuthTypeCorrect == Spec => []TypeOK
<1>1. AuthInv => TypeOK
  BY DEF AuthInv
<1> QED
  BY <1>1, AuthInvariant, PTL

(* The callback of runCheckAddress is called at most once, in whatever     *)
(* order the promises are settled.                                         *)
THEOREM VerdictGivenOnce == Spec => []OneVerdict
<1>1. AuthInv => OneVerdict
  <2> SUFFICES ASSUME AuthInv, Counted PROVE Len(calls) <= 1
    BY DEF OneVerdict
  <2>1. CASE denied
    <3>1. Len(calls) = 1
      BY <2>1 DEF AuthInv, DenialTold
    <3> QED
      BY <3>1
  <2>2. CASE ~denied
    <3>1. calls = <<>> \/ calls = <<"true">>
      BY <2>2 DEF AuthInv, CounterExact
    <3>2. CASE calls = <<>>
      BY <3>2
    <3>3. CASE calls = <<"true">>
      BY <3>3
    <3> QED
      BY <3>1, <3>2, <3>3
  <2> QED
    BY <2>1, <2>2
<1> QED
  BY <1>1, AuthInvariant, PTL

(* A request goes on only when the hook has allowed each of its ranges.    *)
THEOREM GrantIsUnanimous == Spec => []GrantedWhenAllAllowed
<1>1. AuthInv => GrantedWhenAllAllowed
  <2> SUFFICES ASSUME AuthInv, Counted, Granted
               PROVE  walked = count /\ promises = {} /\ rejected = {}
    BY DEF GrantedWhenAllAllowed
  <2>1. PICK i \in 1..Len(calls) : calls[i] = "true"
    BY DEF Granted
  <2>2. ~denied
    <3> SUFFICES ASSUME denied PROVE FALSE
      OBVIOUS
    <3>1. Len(calls) = 1 /\ calls[1] # "true"
      BY DEF AuthInv, DenialTold
    <3> QED
      BY <2>1, <3>1
  <2>3. calls # <<>>
    BY <2>1
  <2> QED
    BY <2>2, <2>3 DEF AuthInv, CounterExact
<1> QED
  BY <1>1, AuthInvariant, PTL
=============================================================================
