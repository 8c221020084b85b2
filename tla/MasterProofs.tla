----------------------------- MODULE MasterProofs -----------------------------
(* Theorems about ModbusMaster, for every set of requests, every set of    *)
(* strategies and protocols and every bound, and their proofs.             *)
EXTENDS ModbusMaster, FiniteSetTheorems, TLAPS

-----------------------------------------------------------------------------
(* An event of the transport is a sequence of what may arrive.             *)
LEMMA ChunkType ==
  ASSUME TypeOK, NEW c \in Chunks
  PROVE  c \in Seq(Requests \cup {FrameError}) /\ Len(c) \in Nat
<1>1. PICK n \in 1..MaxChunk : c \in [1..n -> Arriving]
  BY DEF Chunks
<1>2. n \in Nat
  BY MasterAssumption
<1>3. Arriving \subseteq Requests \cup {FrameError}
  BY DEF Arriving, TypeOK
<1>4. c \in Seq(Requests \cup {FrameError})
  BY <1>1, <1>2, <1>3
<1> QED
  BY <1>4

(* Type correctness: the first half of every other proof.                  *)
LEMMA TypeInit == Init => TypeOK
<1> SUFFICES ASSUME Init PROVE TypeOK
  OBVIOUS
<1>1. sessionKey \in [Requests -> Keys \cup {NoKey}] /\ transactionId \in Tids
  BY MasterAssumption DEF Init, Tids
<1>2. result \in [Requests -> Results] /\ waiters \in [Keys -> Requests \cup {NoReq}]
  BY DEF Init, Results, Says, Kinds
<1>3. draining \in BOOLEAN /\ looping \in BOOLEAN /\ hung \in BOOLEAN /\ destroyed \in BOOLEAN
  BY DEF Init
<1>4. chunk \in Seq(Requests \cup {FrameError})
  BY DEF Init
<1> QED
  BY <1>1, <1>2, <1>3, <1>4 DEF Init, TypeOK

LEMMA SaysType == \A k \in Kinds : Says(k) \in Results
BY DEF Says, Results

LEMMA ReplyType ==
  ASSUME TypeOK, NEW S, NEW res \in Results
  PROVE  /\ Reply(S, res) => /\ calls' \in [Requests -> Nat]
                             /\ result' \in [Requests -> Results]
         /\ ReplyAndGoOn(S, res) => /\ calls' \in [Requests -> Nat]
                                    /\ result' \in [Requests -> Results]
                                    /\ looping' \in BOOLEAN
<1>1. Reply(S, res) => calls' \in [Requests -> Nat]
  BY DEF TypeOK, Reply
<1>2. Reply(S, res) => result' \in [Requests -> Results]
  BY DEF TypeOK, Reply
<1>3. ReplyAndGoOn(S, res) => looping' \in BOOLEAN
  BY DEF ReplyAndGoOn
<1> QED
  BY <1>1, <1>2, <1>3 DEF ReplyAndGoOn

LEMMA RunExchangeType ==
  ASSUME TypeOK, NEW r \in Requests, RunExchange(r)
  PROVE  /\ pending' \subseteq Requests
         /\ sessionKey' \in [Requests -> Keys \cup {NoKey}]
         /\ waiters' \in [Keys -> Requests \cup {NoReq}]
         /\ transactionId' \in Tids
         /\ hung' \in BOOLEAN /\ looping' \in BOOLEAN
         /\ armed' \subseteq Requests /\ writing' \subseteq Requests
         /\ sent' \subseteq Requests
         /\ calls' \in [Requests -> Nat] /\ result' \in [Requests -> Results]
<1>1. ASSUME NEW key \in Keys, WireExchange(r, key)
      PROVE  /\ pending' \subseteq Requests
             /\ sessionKey' \in [Requests -> Keys \cup {NoKey}]
             /\ waiters' \in [Keys -> Requests \cup {NoReq}]
             /\ hung' \in BOOLEAN /\ looping' \in BOOLEAN
             /\ armed' \subseteq Requests /\ writing' \subseteq Requests
             /\ sent' \subseteq Requests
             /\ calls' \in [Requests -> Nat] /\ result' \in [Requests -> Results]
  <2>1. sessionKey' \in [Requests -> Keys \cup {NoKey}] /\ hung' \in BOOLEAN
    BY <1>1 DEF TypeOK, WireExchange
  <2>2. armed' \subseteq Requests
    BY <1>1 DEF TypeOK, WireExchange
  <2>3. CASE Written(r, key)
    BY <2>1, <2>2, <2>3 DEF TypeOK, Written, NoReply, replyVars
  <2>4. CASE WrittenAtOnce(r)
    BY <2>1, <2>2, <2>4, ReplyType, SaysType DEF TypeOK, WrittenAtOnce, Kinds
  <2>5. CASE RefusedAtOnce(r, key)
    BY <2>1, <2>2, <2>5, ReplyType, SaysType DEF TypeOK, RefusedAtOnce, Kinds
  <2> QED
    BY <1>1, <2>3, <2>4, <2>5 DEF WireExchange
<1>2. FifoKey \in Keys /\ Tids \subseteq Keys
  BY DEF Keys
<1>3. \A t \in Tids : Following(t) \in Tids
  BY MasterAssumption DEF Following, Tids
<1>4. CASE protocol # "TCP" /\ WireExchange(r, FifoKey) /\ UNCHANGED transactionId
  BY <1>1, <1>2, <1>4 DEF TypeOK
<1>5. ASSUME NEW t \in Tids, transactionId' = Following(t), WireExchange(r, t)
      PROVE  transactionId' \in Tids
  BY <1>3, <1>5
<1>6. CASE SpinForId
  BY <1>6 DEF SpinForId, TypeOK, ioVars, NoReply, replyVars
<1> QED
  BY <1>1, <1>2, <1>3, <1>4, <1>5, <1>6 DEF RunExchange

(* What the helpers below Next leave well typed.                           *)
InnerTypeOK ==
  /\ draining \in BOOLEAN /\ looping \in BOOLEAN /\ hung \in BOOLEAN
  /\ queue \subseteq Requests
  /\ ticket \in [Requests -> Nat] /\ pushes \in Nat
  /\ runtime \subseteq Requests /\ pending \subseteq Requests
  /\ sessionKey \in [Requests -> Keys \cup {NoKey}]
  /\ waiters \in [Keys -> Requests \cup {NoReq}]
  /\ transactionId \in Tids
  /\ armed \subseteq Requests /\ writing \subseteq Requests
  /\ sent \subseteq Requests
  /\ calls \in [Requests -> Nat] /\ result \in [Requests -> Results]

LEMMA ExchangeType ==
  ASSUME TypeOK, NEW r \in Requests, Exchange(r),
         queue' \subseteq Requests, ticket' \in [Requests -> Nat],
         pushes' \in Nat, draining' \in BOOLEAN
  PROVE  InnerTypeOK'
<1>1. CASE RunExchange(r) /\ UNCHANGED runtime
  BY <1>1, RunExchangeType DEF InnerTypeOK, TypeOK
<1>2. CASE /\ runtime' = runtime \cup {r} /\ looping' = FALSE
           /\ KeepSession /\ NoReply
  BY <1>2 DEF InnerTypeOK, TypeOK, KeepSession, NoReply, sessionVars, ioVars, replyVars
<1>3. CASE /\ ReplyAndGoOn({r}, Says("denied"))
           /\ KeepSession /\ UNCHANGED runtime
  BY <1>3, ReplyType, SaysType
     DEF InnerTypeOK, TypeOK, KeepSession, sessionVars, ioVars, Kinds
<1> QED
  BY <1>1, <1>2, <1>3 DEF Exchange

LEMMA AdmitType ==
  ASSUME TypeOK, NEW r \in Requests, Admit(r)
  PROVE  InnerTypeOK' /\ gate' \in [Requests -> {"new", "unit", "address", "passed"}]
<1>1. gate' \in [Requests -> {"new", "unit", "address", "passed"}]
  BY DEF Admit, TypeOK
<1>2. CASE Enqueue(r)
  <2>1. queue' \subseteq Requests
    BY <1>2 DEF Enqueue, TypeOK
  <2>2. looping' \in BOOLEAN /\ draining' \in BOOLEAN
    BY <1>2 DEF Enqueue, TypeOK
  <2>3. calls' \in [Requests -> Nat] /\ result' \in [Requests -> Results]
    BY <1>2, ReplyType, SaysType DEF Enqueue, Kinds
  <2>4. pushes' \in Nat /\ ticket' \in [Requests -> Nat]
    BY <1>2 DEF Enqueue, TypeOK
  <2> QED
    BY <1>1, <1>2, <2>1, <2>2, <2>3, <2>4
       DEF Enqueue, InnerTypeOK, TypeOK, KeepSession, sessionVars, ioVars
<1>3. CASE Exchange(r) /\ UNCHANGED queueVars
  BY <1>1, <1>3, ExchangeType DEF TypeOK, queueVars
<1> QED
  BY <1>2, <1>3, <1>1 DEF Admit

LEMMA DenyType ==
  ASSUME TypeOK, NEW r \in Requests, NEW res \in Results, Deny(r, res)
  PROVE  InnerTypeOK' /\ gate' \in [Requests -> {"new", "unit", "address", "passed"}]
BY ReplyType DEF Deny, InnerTypeOK, TypeOK, KeepSession, sessionVars, ioVars, queueVars

LEMMA CheckType ==
  ASSUME TypeOK, NEW r \in Requests, CheckUnit(r)
  PROVE  InnerTypeOK' /\ gate' \in [Requests -> {"new", "unit", "address", "passed"}]
<1>1. CASE Admit(r)
  BY <1>1, AdmitType
<1>2. CASE Deny(r, Says("denied"))
  BY <1>2, DenyType, SaysType DEF Kinds
<1>3. ASSUME NEW stage \in {"unit", "address"}, Defer(r, stage)
      PROVE  InnerTypeOK' /\ gate' \in [Requests -> {"new", "unit", "address", "passed"}]
  BY <1>3 DEF Defer, InnerTypeOK, TypeOK, KeepSession, sessionVars, ioVars, queueVars, replyVars
<1> QED
  BY <1>1, <1>2, <1>3 DEF CheckUnit, CheckAddress

LEMMA SettleType ==
  ASSUME TypeOK, NEW S, NEW res \in Results, Settle(S, res),
         waiters' \in [Keys -> Requests \cup {NoReq}]
  PROVE  /\ pending' \subseteq Requests
         /\ sessionKey' \in [Requests -> Keys \cup {NoKey}]
         /\ waiters' \in [Keys -> Requests \cup {NoReq}]
         /\ transactionId' \in Tids
         /\ hung' \in BOOLEAN /\ looping' \in BOOLEAN
         /\ calls' \in [Requests -> Nat] /\ result' \in [Requests -> Results]
BY ReplyType DEF Settle, TypeOK

LEMMA StopType ==
  ASSUME TypeOK, NEW r \in Requests, Stop(r)
  PROVE  waiters' \in [Keys -> Requests \cup {NoReq}]
BY DEF Stop, TypeOK

LEMMA TypeNext == TypeOK /\ [Next]_vars => TypeOK'
<1> SUFFICES ASSUME TypeOK, [Next]_vars PROVE TypeOK'
  OBVIOUS
<1> USE DEF options, inputVars
<1>1. ASSUME NEW r \in Requests, Send(r) PROVE TypeOK'
  <2>1. CASE Deny(r, Says("destroyed"))
    BY <1>1, <2>1, DenyType, SaysType DEF Send, TypeOK, InnerTypeOK, Kinds
  <2>2. CASE CheckUnit(r)
    BY <1>1, <2>2, CheckType DEF Send, TypeOK, InnerTypeOK
  <2> QED
    BY <1>1, <2>1, <2>2 DEF Send
<1>2. ASSUME NEW r \in Requests, UnitChecked(r) PROVE TypeOK'
  BY <1>2, CheckType DEF UnitChecked, CheckUnit, TypeOK, InnerTypeOK
<1>3. ASSUME NEW r \in Requests, AddressChecked(r) PROVE TypeOK'
  BY <1>3, AdmitType, DenyType, SaysType DEF AddressChecked, TypeOK, InnerTypeOK, Kinds
<1>4. ASSUME NEW r \in Requests, RuntimeChecked(r) PROVE TypeOK'
  <2>1. CASE RunExchange(r)
    BY <1>4, <2>1, RunExchangeType DEF RuntimeChecked, TypeOK, queueVars
  <2>2. CASE ReplyAndGoOn({r}, Says("denied")) /\ KeepSession
    BY <1>4, <2>2, ReplyType, SaysType
       DEF RuntimeChecked, TypeOK, queueVars, KeepSession, sessionVars, ioVars, Kinds
  <2> QED
    BY <1>4, <2>1, <2>2 DEF RuntimeChecked
<1>5. CASE DrainNext
  <2>1. CASE /\ draining' = FALSE /\ looping' = FALSE /\ KeepSession
             /\ UNCHANGED <<queue, ticket, pushes, runtime, replyVars>>
    BY <1>5, <2>1 DEF DrainNext, Oldest, StopDraining, TypeOK, KeepSession, sessionVars, ioVars, replyVars
  <2>2. ASSUME NEW r \in queue, queue' = queue \ {r}, Exchange(r),
               UNCHANGED <<ticket, pushes, draining>>
        PROVE  TypeOK'
    <3>1. r \in Requests
      BY DEF TypeOK
    <3> QED
      BY <1>5, <2>2, <3>1, ExchangeType DEF DrainNext, Oldest, StopDraining, TypeOK, InnerTypeOK
  <2> QED
    BY <1>5, <2>1, <2>2 DEF DrainNext, Oldest, StopDraining
<1>6. CASE Receive
  <2>1. PICK c \in Chunks : chunk' = c /\ arrivals' = arrivals + Len(c) /\ seen' = sent
    BY <1>6 DEF Receive
  <2>2. c \in Seq(Requests \cup {FrameError}) /\ Len(c) \in Nat
    BY ChunkType
  <2> QED
    BY <1>6, <2>1, <2>2
       DEF Receive, TypeOK, queueVars, sessionVars, ioVars, replyVars
<1>7. CASE DecodeNext
  <2>1. chunk' \in Seq(Requests \cup {FrameError}) /\ seen' \subseteq Requests
    BY <1>7 DEF DecodeNext, TypeOK
  <2>2. CASE HandleFrameError
    <3>1. waiters' \in [Keys -> Requests \cup {NoReq}]
      BY <2>2 DEF HandleFrameError, StopAll
    <3> QED
      BY <1>7, <2>1, <2>2, <3>1, SettleType, SaysType
         DEF DecodeNext, HandleFrameError, TypeOK, queueVars, ioVars, Kinds
  <2>3. CASE Head(chunk) # FrameError /\ HandleFrame(Head(chunk))
    <3> DEFINE q == Head(chunk)
    <3>1. q \in Requests
      BY <1>7, <2>3 DEF DecodeNext, TypeOK
    <3>2. CASE waiters[sessionKey[q]] = NoReq
      BY <1>7, <2>1, <2>3, <3>2
         DEF HandleFrame, DecodeNext, TypeOK, queueVars, ioVars, sessionVars, replyVars
    <3>3. CASE waiters[sessionKey[q]] # NoReq
      <4>1. [kind |-> "response", of |-> q] \in Results
        BY <3>1 DEF Results, Kinds
      <4>2. waiters' \in [Keys -> Requests \cup {NoReq}]
        BY <2>3, <3>3 DEF HandleFrame, TypeOK
      <4>3. Settle({waiters[sessionKey[q]]} \cap pending, [kind |-> "response", of |-> q])
        BY <2>3, <3>3 DEF HandleFrame
      <4> HIDE DEF q
      <4> QED
        BY <1>7, <2>1, <4>1, <4>2, <4>3, SettleType
           DEF DecodeNext, TypeOK, queueVars, ioVars
    <3> QED
      BY <3>2, <3>3
  <2> QED
    BY <1>7, <2>2, <2>3 DEF DecodeNext
<1>8. ASSUME NEW r \in Requests, TimerFires(r) PROVE TypeOK'
  <2>1. CASE r \in pending
    BY <1>8, <2>1, StopType, SettleType, SaysType
       DEF TimerFires, TypeOK, queueVars, ioVars, Kinds
  <2>2. CASE r \notin pending
    BY <1>8, <2>2 DEF TimerFires, TypeOK, queueVars, ioVars, sessionVars, replyVars
  <2> QED
    BY <2>1, <2>2
<1>9. ASSUME NEW r \in Requests, NEW failed \in BOOLEAN, WriteDone(r, failed)
      PROVE  TypeOK'
  <2>1. CASE Stop(r) /\ Settle({r}, Says(IF failed THEN "writeError" ELSE "written"))
    <3>1. Says(IF failed THEN "writeError" ELSE "written") \in Results
      BY SaysType DEF Kinds
    <3> QED
      BY <1>9, <2>1, <3>1, StopType, SettleType DEF WriteDone, TypeOK, queueVars
  <2>2. CASE UNCHANGED <<sessionVars, looping, replyVars>>
    BY <1>9, <2>2 DEF WriteDone, TypeOK, queueVars, sessionVars, replyVars
  <2> QED
    BY <1>9, <2>1, <2>2 DEF WriteDone
<1>10. CASE Destroy
  <2>1. waiters' \in [Keys -> Requests \cup {NoReq}]
    BY <1>10 DEF Destroy, StopAll
  <2>2. calls' \in [Requests -> Nat] /\ result' \in [Requests -> Results]
    BY <1>10, ReplyType, SaysType DEF Destroy, Kinds
  <2> QED
    BY <1>10, <2>1, <2>2 DEF Destroy, TypeOK, ioVars
<1>11. CASE UNCHANGED vars
  BY <1>11 DEF TypeOK, vars, queueVars, sessionVars, ioVars, replyVars
<1> QED
  BY <1>1, <1>2, <1>3, <1>4, <1>5, <1>6, <1>7, <1>8, <1>9, <1>10, <1>11
     DEF Next, Rest, Hang

(* Every variable keeps its type.                                          *)
THEOREM TypeCorrect == Spec => []TypeOK
BY TypeInit, TypeNext, PTL DEF Spec
-----------------------------------------------------------------------------
(* The inductive invariant.  SingleFlight is not inductive by itself: that *)
(* the next exchange starts after the end of the last one rests on the     *)
(* drain loop (QueueServed), that ending it frees its key on the session   *)
(* (WaitersMatch), and both on no request being in two places (Accounted). *)
(* What decode() still holds are responses to requests that were sent.     *)
Configured == queueStrategy = "concurrent" => protocol = "TCP"

SentKeyed ==
  /\ \A r \in sent : gate[r] = "passed" /\ r \notin queue \cup runtime
  /\ \A r \in sent \ Broadcasts : sessionKey[r] \in Keys
  /\ chunk \in Seq((sent \ Broadcasts) \cup {FrameError})

Inv == /\ TypeOK /\ Configured /\ Accounted /\ SingleFlight
       /\ WaitersMatch /\ QueueServed /\ SentKeyed

LEMMA InvInit == Init => Inv
<1> SUFFICES ASSUME Init PROVE Inv
  OBVIOUS
<1>1. TypeOK
  BY TypeInit
<1>2. chunk \in Seq((sent \ Broadcasts) \cup {FrameError})
  BY DEF Init
<1> QED
  BY <1>1, <1>2
     DEF Init, Inv, Configured, Accounted, SingleFlight, WaitersMatch,
         QueueServed, SentKeyed, Active, Queued

(* Nobody waits when nothing is pending, so the key of an exchange that    *)
(* starts is free: by the search for an id, or because nothing is pending. *)
LEMMA NoWaiters ==
  ASSUME TypeOK, WaitersMatch, pending = {}, NEW k \in Keys
  PROVE  waiters[k] = NoReq
BY DEF WaitersMatch

LEMMA ReplyOne ==
  ASSUME TypeOK, NEW r \in Requests, NEW res, Reply({r}, res)
  PROVE  /\ calls' = [calls EXCEPT ![r] = @ + 1]
         /\ result' = [result EXCEPT ![r] = res]
BY DEF Reply, TypeOK

LEMMA WireExchangeEffect ==
  ASSUME TypeOK, WaitersMatch, NEW r \in Requests, r \notin pending,
         NEW key \in Keys, waiters[key] = NoReq, WireExchange(r, key)
  PROVE  /\ WaitersMatch'
         /\ hung' = hung
         /\ sessionKey' = [sessionKey EXCEPT ![r] = sessionKey'[r]]
         /\ r \notin Broadcasts => sessionKey'[r] \in Keys
         /\ sent \subseteq sent' /\ sent' \subseteq sent \cup {r}
         /\ \/ pending' = pending \cup {r} /\ looping' = FALSE /\ UNCHANGED replyVars
            \/ /\ pending' = pending
               /\ looping' = Queued
               /\ calls' = [calls EXCEPT ![r] = @ + 1]
               /\ \E k \in {"written", "writeError"} :
                    result' = [result EXCEPT ![r] = Says(k)]
<1>1. /\ hung' = hung
      /\ sessionKey' = [sessionKey EXCEPT ![r] = IF r \in Broadcasts THEN NoKey ELSE key]
      /\ sessionKey'[r] = IF r \in Broadcasts THEN NoKey ELSE key
      /\ sessionKey' = [sessionKey EXCEPT ![r] = sessionKey'[r]]
      /\ r \notin Broadcasts => sessionKey'[r] \in Keys
  BY DEF WireExchange, TypeOK
<1>2. r # NoReq
  BY MasterAssumption
<1>3. CASE Written(r, key)
  <2>1. pending' = pending \cup {r} /\ looping' = FALSE /\ UNCHANGED replyVars
    BY <1>3 DEF Written, NoReply
  <2>2. WaitersMatch'
    <3>1. CASE r \in Broadcasts
      BY <1>1, <1>2, <1>3, <3>1 DEF Written, WaitersMatch, TypeOK
    <3>2. CASE r \notin Broadcasts
      <4>1. waiters' = [waiters EXCEPT ![key] = r] /\ sessionKey' = [sessionKey EXCEPT ![r] = key]
        BY <1>1, <1>3, <3>2 DEF Written
      <4>2. ASSUME NEW k \in Keys, waiters'[k] # NoReq
            PROVE  /\ waiters'[k] \in pending' \ Broadcasts
                   /\ sessionKey'[waiters'[k]] = k
        BY <2>1, <3>2, <4>1, <4>2 DEF WaitersMatch, TypeOK
      <4>3. ASSUME NEW q \in pending' \ Broadcasts
            PROVE  sessionKey'[q] \in Keys /\ waiters'[sessionKey'[q]] = q
        <5>1. CASE q = r
          BY <4>1, <5>1 DEF TypeOK
        <5>2. CASE q # r
          <6>1. q \in pending \ Broadcasts /\ sessionKey'[q] = sessionKey[q]
            BY <2>1, <4>1, <5>2 DEF TypeOK
          <6>2. sessionKey[q] # key
            BY <6>1, MasterAssumption DEF WaitersMatch, TypeOK
          <6> QED
            BY <4>1, <6>1, <6>2 DEF WaitersMatch, TypeOK
        <5> QED
          BY <5>1, <5>2
      <4>4. ASSUME NEW q \in pending' \cap Broadcasts PROVE sessionKey'[q] = NoKey
        BY <2>1, <3>2, <4>1, <4>4 DEF WaitersMatch, TypeOK
      <4> QED
        BY <4>2, <4>3, <4>4 DEF WaitersMatch
    <3> QED
      BY <3>1, <3>2
  <2> QED
    BY <1>1, <1>3, <2>1, <2>2 DEF Written
<1>4. ASSUME waiters' = waiters, pending' = pending PROVE WaitersMatch'
  BY <1>1, <1>4 DEF WaitersMatch, TypeOK
<1>5. CASE WrittenAtOnce(r)
  BY <1>1, <1>4, <1>5, ReplyOne DEF WrittenAtOnce, ReplyAndGoOn, Queued
<1>6. CASE RefusedAtOnce(r, key)
  <2>1. waiters' = waiters
    BY <1>6 DEF RefusedAtOnce, TypeOK
  <2> QED
    BY <1>1, <1>4, <1>6, <2>1, ReplyOne DEF RefusedAtOnce, ReplyAndGoOn, Queued
<1> QED
  BY <1>3, <1>5, <1>6 DEF WireExchange

LEMMA RunExchangeEffect ==
  ASSUME TypeOK, Configured, WaitersMatch, NEW r \in Requests,
         r \notin pending, Queued => pending = {}, RunExchange(r)
  PROVE  /\ WaitersMatch'
         /\ sessionKey' = [sessionKey EXCEPT ![r] = sessionKey'[r]]
         /\ r \in sent' \ sent /\ r \notin Broadcasts => sessionKey'[r] \in Keys
         /\ sent \subseteq sent' /\ sent' \subseteq sent \cup {r}
         /\ \/ /\ pending' = pending \cup {r} /\ looping' = FALSE
               /\ hung' = hung /\ UNCHANGED replyVars
            \/ /\ pending' = pending
               /\ looping' = Queued
               /\ hung' = hung
               /\ calls' = [calls EXCEPT ![r] = @ + 1]
               /\ \E k \in {"written", "writeError"} :
                    result' = [result EXCEPT ![r] = Says(k)]
            \/ /\ pending' = pending /\ sent' = sent
               /\ looping' = looping /\ hung' /\ ~Queued /\ UNCHANGED replyVars
<1>1. FifoKey \in Keys /\ Tids \subseteq Keys
  BY DEF Keys
<1>2. CASE protocol # "TCP" /\ WireExchange(r, FifoKey) /\ UNCHANGED transactionId
  <2>1. waiters[FifoKey] = NoReq
    BY <1>1, <1>2, NoWaiters DEF Configured, Queued
  <2> QED
    BY <1>1, <1>2, <2>1, WireExchangeEffect
<1>3. ASSUME NEW t \in Tids, FirstFree(t), WireExchange(r, t)
      PROVE  waiters[t] = NoReq
  BY <1>3 DEF FirstFree, FreeTids
<1>4. CASE \E t \in Tids : FirstFree(t) /\ WireExchange(r, t)
  BY <1>1, <1>3, <1>4, WireExchangeEffect
<1>5. CASE protocol = "TCP" /\ FreeTids = {} /\ SpinForId
  <2>1. ~Queued
    <3>1. 1 \in Tids
      BY MasterAssumption DEF Tids
    <3>2. waiters[1] # NoReq
      BY <1>5, <3>1 DEF FreeTids
    <3> QED
      BY <1>1, <3>1, <3>2, NoWaiters
  <2>2. sessionKey' = sessionKey /\ waiters' = waiters /\ pending' = pending /\ sent' = sent
    BY <1>5 DEF SpinForId, ioVars
  <2>3. sessionKey = [sessionKey EXCEPT ![r] = sessionKey[r]]
    BY DEF TypeOK
  <2> QED
    BY <1>5, <2>1, <2>2, <2>3 DEF SpinForId, WaitersMatch, NoReply
<1> QED
  BY <1>2, <1>4, <1>5 DEF RunExchange

(* What an exchange that starts leaves behind: it is on the wire, it is    *)
(* over, it hangs, or it waits for checkRuntime.                           *)
Started(r) ==
  \/ /\ pending' = pending \cup {r} /\ looping' = FALSE /\ hung' = hung
     /\ UNCHANGED <<runtime, replyVars>>
  \/ /\ pending' = pending /\ looping' = Queued /\ hung' = hung
     /\ calls' = [calls EXCEPT ![r] = @ + 1]
     /\ \E k \in {"written", "writeError", "denied"} : result' = [result EXCEPT ![r] = Says(k)]
     /\ UNCHANGED runtime
  \/ /\ pending' = pending /\ looping' = looping /\ hung' /\ ~Queued
     /\ UNCHANGED <<runtime, replyVars>>
  \/ /\ pending' = pending /\ looping' = FALSE /\ hung' = hung
     /\ runtime' = runtime \cup {r} /\ sent' = sent
     /\ UNCHANGED replyVars

Keyed(r) ==
  /\ WaitersMatch'
  /\ sessionKey' = [sessionKey EXCEPT ![r] = sessionKey'[r]]
  /\ r \in sent' \ sent /\ r \notin Broadcasts => sessionKey'[r] \in Keys
  /\ sent \subseteq sent' /\ sent' \subseteq sent \cup {r}

LEMMA KeptSession ==
  ASSUME TypeOK, WaitersMatch, NEW r \in Requests, KeepSession
  PROVE  Keyed(r) /\ pending' = pending /\ hung' = hung /\ sent' = sent
<1>1. /\ pending' = pending /\ sessionKey' = sessionKey /\ waiters' = waiters
      /\ hung' = hung /\ sent' = sent
  BY DEF KeepSession, sessionVars, ioVars
<1>2. WaitersMatch'
  BY <1>1 DEF WaitersMatch
<1>3. sessionKey' = [sessionKey EXCEPT ![r] = sessionKey'[r]]
  BY <1>1 DEF TypeOK
<1> QED
  BY <1>1, <1>2, <1>3 DEF Keyed

LEMMA ExchangeEffect ==
  ASSUME TypeOK, Configured, WaitersMatch, NEW r \in Requests,
         r \notin pending, Queued => pending = {}, Exchange(r)
  PROVE  Keyed(r) /\ Started(r)
<1>1. CASE RunExchange(r) /\ UNCHANGED runtime
  BY <1>1, RunExchangeEffect DEF Keyed, Started
<1>2. CASE runtime' = runtime \cup {r} /\ looping' = FALSE /\ KeepSession /\ NoReply
  BY <1>2, KeptSession DEF Started, NoReply
<1>3. CASE ReplyAndGoOn({r}, Says("denied")) /\ KeepSession /\ UNCHANGED runtime
  <2>1. looping' = Queued
    BY <1>3 DEF ReplyAndGoOn, Queued
  <2>2. /\ calls' = [calls EXCEPT ![r] = @ + 1]
        /\ \E k \in {"written", "writeError", "denied"} : result' = [result EXCEPT ![r] = Says(k)]
    BY <1>3, ReplyOne DEF ReplyAndGoOn
  <2> QED
    BY <1>3, <2>1, <2>2, KeptSession DEF Started
<1> QED
  BY <1>1, <1>2, <1>3 DEF Exchange

(* The chunk and the keys of what was sent, when only sent has grown.      *)
LEMMA SentKeyedKept ==
  ASSUME TypeOK, SentKeyed, NEW r \in Requests, Keyed(r), UNCHANGED chunk,
         r \notin sent,
         \A q \in sent' : gate'[q] = "passed" /\ q \notin queue' \cup runtime'
  PROVE  SentKeyed'
<1>1. \A q \in sent' \ Broadcasts : sessionKey'[q] \in Keys
  <2> TAKE q \in sent' \ Broadcasts
  <2>1. CASE q = r
    BY <2>1 DEF Keyed
  <2>2. CASE q # r
    BY <2>2 DEF Keyed, SentKeyed, TypeOK
  <2> QED
    BY <2>1, <2>2
<1>2. chunk \in Seq((sent' \ Broadcasts) \cup {FrameError})
  BY DEF SentKeyed, Keyed
<1> QED
  BY <1>1, <1>2 DEF SentKeyed, FrameError
-----------------------------------------------------------------------------
(* A request that passes the gates and is not queued starts its exchange.  *)
LEMMA AdmitInv ==
  ASSUME Inv, NEW r \in Requests, Idle, gate[r] # "passed", Admit(r), UNCHANGED <<chunk, options>>
  PROVE  /\ Accounted' /\ SingleFlight' /\ WaitersMatch' /\ QueueServed'
         /\ SentKeyed'
<1> USE DEF Inv, options
<1>1. r \notin sent /\ r \notin queue \cup Active /\ calls[r] = 0
  BY DEF SentKeyed, Accounted
<1>2. CASE Queued
  <2>1. Enqueue(r) /\ gate' = [gate EXCEPT ![r] = "passed"]
    BY <1>2 DEF Admit
  <2>2. Superseded(r) \subseteq queue
    BY DEF Superseded
  <2>3. Keyed(r) /\ pending' = pending /\ hung' = hung /\ sent' = sent
        /\ runtime' = runtime
    BY <2>1, KeptSession DEF Enqueue
  <2>4. Queued' = Queued /\ Active' = Active
    BY <2>3 DEF Queued, Active
  <2>5. calls' = [q \in Requests |-> IF q \in Superseded(r) THEN calls[q] + 1 ELSE calls[q]]
    BY <2>1 DEF Enqueue, Reply
  <2>6. queue' = (queue \ Superseded(r)) \cup {r} /\ draining' = TRUE /\ looping' = ~draining
    BY <2>1 DEF Enqueue
  <2>7. Accounted'
    BY <1>1, <2>1, <2>2, <2>3, <2>4, <2>5, <2>6 DEF Accounted, TypeOK, Active
  <2>8. SingleFlight'
    BY <2>4 DEF SingleFlight
  <2>9. QueueServed'
    BY <1>2, <2>3, <2>4, <2>6 DEF QueueServed, Idle, TypeOK
  <2>10. SentKeyed'
    BY <1>1, <2>1, <2>3, <2>6, SentKeyedKept DEF SentKeyed, TypeOK
  <2> QED
    BY <2>3, <2>7, <2>8, <2>9, <2>10 DEF Keyed
<1>3. CASE ~Queued
  <2>1. Exchange(r) /\ UNCHANGED queueVars /\ gate' = [gate EXCEPT ![r] = "passed"]
    BY <1>3 DEF Admit
  <2>2. Keyed(r) /\ Started(r)
    BY <1>1, <1>3, <2>1, ExchangeEffect DEF Active
  <2>3. ~Queued'
    BY <1>3 DEF Queued
  <2>4. Accounted'
    BY <1>1, <1>3, <2>1, <2>2
       DEF Started, Accounted, TypeOK, Active, queueVars, replyVars, Idle
  <2>5. QueueServed' /\ SingleFlight'
    BY <1>3, <2>1, <2>2, <2>3 DEF QueueServed, SingleFlight, Started, queueVars, Idle
  <2>6. SentKeyed'
    <3>1. \A q \in sent' : gate'[q] = "passed" /\ q \notin queue' \cup runtime'
      BY <1>1, <2>1, <2>2 DEF Started, Keyed, SentKeyed, TypeOK, queueVars, Active
    <3> QED
      BY <1>1, <2>2, <3>1, SentKeyedKept
  <2> QED
    BY <2>2, <2>4, <2>5, <2>6 DEF Keyed
<1> QED
  BY <1>2, <1>3

(* A hook that denies answers the request where it is.                     *)
LEMMA DenyInv ==
  ASSUME Inv, NEW r \in Requests, NEW res, Idle, gate[r] # "passed",
         Deny(r, res), UNCHANGED <<chunk, options>>
  PROVE  /\ Accounted' /\ SingleFlight' /\ WaitersMatch' /\ QueueServed'
         /\ SentKeyed'
<1> USE DEF Inv, options
<1>1. r \notin sent /\ r \notin queue \cup Active /\ calls[r] = 0
  BY DEF SentKeyed, Accounted
<1>2. /\ gate' = [gate EXCEPT ![r] = "passed"] /\ UNCHANGED <<queueVars, looping, runtime>>
      /\ calls' = [calls EXCEPT ![r] = @ + 1]
  BY ReplyOne DEF Deny
<1>3. Keyed(r) /\ pending' = pending /\ hung' = hung /\ sent' = sent
  BY KeptSession DEF Deny
<1>4. Queued' = Queued /\ Active' = Active
  BY <1>2, <1>3 DEF Queued, Active
<1>5. Accounted'
  <2>1. calls'[r] = 1 /\ gate'[r] = "passed" /\ r \notin (queue \cup Active)'
    BY <1>1, <1>2, <1>4 DEF TypeOK, queueVars
  <2>2. ASSUME NEW q \in Requests, q # r PROVE calls'[q] = calls[q] /\ gate'[q] = gate[q]
    BY <1>2, <2>2 DEF TypeOK
  <2> QED
    BY <1>2, <1>3, <1>4, <2>1, <2>2 DEF Accounted, queueVars, TypeOK, Active
<1>6. SingleFlight' /\ QueueServed'
  BY <1>2, <1>3, <1>4 DEF SingleFlight, QueueServed, queueVars
<1>7. SentKeyed'
  BY <1>1, <1>2, <1>3, SentKeyedKept DEF SentKeyed, TypeOK, queueVars
<1> QED
  BY <1>3, <1>5, <1>6, <1>7 DEF Keyed

LEMMA DeferInv ==
  ASSUME Inv, NEW r \in Requests, NEW stage \in {"unit", "address"}, Idle,
         gate[r] # "passed", Defer(r, stage), UNCHANGED <<chunk, options>>
  PROVE  /\ Accounted' /\ SingleFlight' /\ WaitersMatch' /\ QueueServed'
         /\ SentKeyed'
<1> USE DEF Inv, options
<1>1. r \notin sent /\ r \notin queue \cup Active /\ calls[r] = 0
  BY DEF SentKeyed, Accounted
<1>2. /\ gate' = [gate EXCEPT ![r] = stage]
      /\ UNCHANGED <<queueVars, looping, runtime, replyVars>>
  BY DEF Defer
<1>3. Keyed(r) /\ pending' = pending /\ hung' = hung /\ sent' = sent
  BY KeptSession DEF Defer
<1>4. Queued' = Queued /\ Active' = Active
  BY <1>2, <1>3 DEF Queued, Active
<1>5. Accounted'
  BY <1>1, <1>2, <1>3, <1>4 DEF Accounted, TypeOK, queueVars, replyVars
<1>6. SingleFlight' /\ QueueServed'
  BY <1>2, <1>3, <1>4 DEF SingleFlight, QueueServed, queueVars
<1>7. SentKeyed'
  BY <1>1, <1>2, <1>3, SentKeyedKept DEF SentKeyed, TypeOK, queueVars
<1> QED
  BY <1>3, <1>5, <1>6, <1>7 DEF Keyed

(* The promise of checkRuntime: the request leaves `runtime' and starts.   *)
LEMMA RuntimeInv ==
  ASSUME Inv, NEW r \in Requests, RuntimeChecked(r)
  PROVE  /\ Accounted' /\ SingleFlight' /\ WaitersMatch' /\ QueueServed'
         /\ SentKeyed'
<1> USE DEF Inv
<1>1. r \in runtime /\ Idle /\ runtime' = runtime \ {r}
      /\ UNCHANGED <<options, gate, queueVars, chunk>>
  BY DEF RuntimeChecked, inputVars
<1>2. r \notin sent /\ r \notin queue /\ r \notin pending /\ calls[r] = 0
      /\ gate[r] = "passed"
  BY <1>1 DEF SentKeyed, Accounted, Active
<1>3. Queued => Active = {r}
  BY <1>1 DEF SingleFlight, Active
<1>4. Queued => pending = {}
  BY <1>2, <1>3 DEF Active
<1>5. Queued' = Queued
  BY <1>1 DEF Queued, options
<1>6. /\ Keyed(r)
      /\ \/ /\ pending' = pending \cup {r} /\ looping' = FALSE /\ hung' = hung
            /\ UNCHANGED replyVars
         \/ /\ pending' = pending /\ looping' = Queued /\ hung' = hung
            /\ calls' = [calls EXCEPT ![r] = @ + 1]
         \/ /\ pending' = pending /\ looping' = looping /\ hung' /\ ~Queued
            /\ UNCHANGED replyVars
  <2>1. CASE RunExchange(r)
    BY <1>2, <1>4, <2>1, RunExchangeEffect DEF Keyed
  <2>2. CASE ReplyAndGoOn({r}, Says("denied")) /\ KeepSession
    BY <2>2, KeptSession, ReplyOne DEF ReplyAndGoOn, Queued
  <2> QED
    BY <2>1, <2>2 DEF RuntimeChecked
<1>7. Accounted'
  BY <1>1, <1>2, <1>6 DEF Accounted, TypeOK, Active, queueVars, replyVars, Idle
<1>8. SingleFlight'
  BY <1>1, <1>3, <1>5, <1>6 DEF SingleFlight, Active
<1>9. QueueServed'
  BY <1>1, <1>3, <1>4, <1>5, <1>6 DEF QueueServed, Active, queueVars, Idle
<1>10. SentKeyed'
  <2>1. \A q \in sent' : gate'[q] = "passed" /\ q \notin queue' \cup runtime'
    BY <1>1, <1>2, <1>6 DEF Keyed, SentKeyed, queueVars
  <2> QED
    BY <1>1, <1>2, <1>6, <2>1, SentKeyedKept
<1> QED
  BY <1>6, <1>7, <1>8, <1>9, <1>10 DEF Keyed

(* One round of the drain loop.                                            *)
LEMMA DrainInv ==
  ASSUME Inv, DrainNext
  PROVE  /\ Accounted' /\ SingleFlight' /\ WaitersMatch' /\ QueueServed'
         /\ SentKeyed'
<1> USE DEF Inv
<1>1. looping /\ Queued /\ Active = {} /\ draining /\ ~hung
  BY DEF DrainNext, Oldest, StopDraining, QueueServed
<1>2. UNCHANGED <<options, gate, chunk>>
  BY DEF DrainNext, Oldest, StopDraining, inputVars
<1>3. Queued'
  BY <1>1, <1>2 DEF Queued, options
<1>4. CASE /\ queue = {} /\ draining' = FALSE /\ looping' = FALSE
           /\ KeepSession /\ UNCHANGED <<queue, ticket, pushes, runtime, replyVars>>
  <2>1. /\ pending' = pending /\ sessionKey' = sessionKey /\ waiters' = waiters
        /\ hung' = hung /\ sent' = sent /\ Active' = Active
    BY <1>4 DEF KeepSession, sessionVars, ioVars, Active
  <2> QED
    BY <1>1, <1>2, <1>3, <1>4, <2>1
       DEF Accounted, SingleFlight, WaitersMatch, QueueServed, SentKeyed, replyVars
<1>5. ASSUME NEW r \in queue, queue' = queue \ {r}, Exchange(r),
             UNCHANGED <<ticket, pushes, draining>>
      PROVE  /\ Accounted' /\ SingleFlight' /\ WaitersMatch' /\ QueueServed'
             /\ SentKeyed'
  <2>1. r \in Requests /\ r \notin sent /\ r \notin Active /\ calls[r] = 0 /\ gate[r] = "passed"
    BY DEF TypeOK, Accounted, SentKeyed
  <2>2. pending = {} /\ runtime = {}
    BY <1>1 DEF Active
  <2>3. Keyed(r) /\ Started(r)
    BY <1>5, <2>1, <2>2, ExchangeEffect
  <2>4. Accounted'
    <3>1. ASSUME NEW q \in Requests, q # r
          PROVE  calls'[q] = calls[q] /\ (q \in queue' <=> q \in queue) /\ q \notin Active'
      BY <1>5, <2>2, <2>3, <3>1 DEF Started, Active, TypeOK, replyVars
    <3>2. r \notin queue' /\ ~(r \in pending' /\ r \in runtime')
      BY <1>5, <2>2, <2>3 DEF Started
    <3>3. IF r \in Active' THEN calls'[r] = 0 ELSE calls'[r] = 1 \/ (hung' /\ calls'[r] = 0)
      BY <2>1, <2>2, <2>3 DEF Started, Active, TypeOK, replyVars
    <3> QED
      BY <1>1, <1>2, <2>1, <3>1, <3>2, <3>3 DEF Accounted, TypeOK, Active
  <2>5. SingleFlight'
    BY <2>2, <2>3 DEF SingleFlight, Started, Active
  <2>6. QueueServed'
    <3>1. draining' /\ ~hung'
      <4>1. draining'
        BY <1>1, <1>5
      <4>2. ~hung'
        BY <1>1, <2>3 DEF Started
      <4> QED
        BY <4>1, <4>2
    <3>2. looping' \/ Active' # {}
      BY <1>1, <2>3 DEF Started, Active
    <3>3. looping' => Active' = {}
      BY <1>1, <2>2, <2>3 DEF Started, Active
    <3> QED
      BY <1>3, <3>1, <3>2, <3>3 DEF QueueServed
  <2>7. SentKeyed'
    <3>1. \A q \in sent' : gate'[q] = "passed" /\ q \notin queue' \cup runtime'
      BY <1>2, <1>5, <2>1, <2>2, <2>3 DEF Started, Keyed, SentKeyed
    <3> QED
      BY <1>2, <2>1, <2>3, <3>1, SentKeyedKept
  <2> QED
    BY <2>3, <2>4, <2>5, <2>6, <2>7 DEF Keyed
<1> QED
  BY <1>4, <1>5 DEF DrainNext, Oldest, StopDraining
-----------------------------------------------------------------------------
(* The end of exchanges: each leaves the session with its waiter, and in a *)
(* queued master the one that ends is the only one and restarts the loop.  *)
Release(S) == [k \in Keys |-> IF waiters[k] \in S THEN NoReq ELSE waiters[k]]

LEMMA SettleInv ==
  ASSUME Inv, NEW S \in SUBSET pending, NEW res, Settle(S, res),
         waiters' = Release(S), ~looping, ~hung,
         UNCHANGED <<options, gate, queueVars, runtime>>
  PROVE  Accounted' /\ SingleFlight' /\ WaitersMatch' /\ QueueServed'
<1> USE DEF Inv
<1>1. /\ pending' = pending \ S /\ sessionKey' = sessionKey /\ hung' = hung
      /\ calls' = [q \in Requests |-> IF q \in S THEN calls[q] + 1 ELSE calls[q]]
      /\ UNCHANGED <<gate, queue, draining, runtime>>
  BY DEF Settle, ReplyAndGoOn, Reply, queueVars
<1>2. Queued' = Queued /\ looping' = (Queued /\ S # {})
  BY DEF Queued, options, Settle, ReplyAndGoOn
<1>3. Active' = Active \ S
  BY <1>1 DEF Active, Accounted, TypeOK
<1>4. Accounted'
  <2>1. ASSUME NEW q \in S
        PROVE  gate[q] = "passed" /\ calls'[q] = 1 /\ q \notin (queue \cup Active)'
    BY <1>1, <1>3 DEF Accounted, TypeOK, Active
  <2>2. ASSUME NEW q \in Requests \ S
        PROVE  calls'[q] = calls[q] /\ (q \in Active' <=> q \in Active)
    BY <1>1, <1>3
  <2>3. S \subseteq Requests
    BY DEF TypeOK
  <2> QED
    BY <1>1, <2>1, <2>2, <2>3 DEF Accounted, Active
<1>5. SingleFlight'
  BY <1>2, <1>3 DEF SingleFlight
<1>6. WaitersMatch'
  <2>1. ASSUME NEW k \in Keys, waiters'[k] # NoReq
        PROVE  waiters'[k] \in pending' \ Broadcasts /\ sessionKey'[waiters'[k]] = k
    BY <1>1, <2>1 DEF WaitersMatch, Release
  <2>2. ASSUME NEW q \in pending' \ Broadcasts
        PROVE  sessionKey'[q] \in Keys /\ waiters'[sessionKey'[q]] = q
    BY <1>1 DEF WaitersMatch, Release
  <2>3. ASSUME NEW q \in pending' \cap Broadcasts PROVE sessionKey'[q] = NoKey
    BY <1>1 DEF WaitersMatch
  <2> QED
    BY <2>1, <2>2, <2>3 DEF WaitersMatch
<1>7. QueueServed'
  <2>1. CASE Queued
    <3>1. queue' # {} => draining'
      BY <1>1, <2>1 DEF QueueServed
    <3>2. ~hung'
      BY <1>1
    <3>3. S # {} => Active' = {} /\ Active # {}
      BY <1>3, <2>1 DEF SingleFlight, Active
    <3>4. draining <=> Active # {}
      BY <2>1 DEF QueueServed
    <3>5. draining' <=> draining
      BY <1>1
    <3>6. looping' <=> S # {}
      BY <1>2, <2>1
    <3>7. S = {} => Active' = Active
      BY <1>3
    <3> QED
      BY <1>2, <2>1, <3>1, <3>2, <3>3, <3>4, <3>5, <3>6, <3>7 DEF QueueServed
  <2>2. CASE ~Queued
    BY <1>1, <1>2, <2>2 DEF QueueServed
  <2> QED
    BY <2>1, <2>2
<1> QED
  BY <1>4, <1>5, <1>6, <1>7

(* Nothing was waiting, or nothing ended.                                  *)
LEMMA NothingSettled ==
  ASSUME Inv, UNCHANGED <<sessionVars, looping, replyVars, options, gate, queueVars, runtime>>
  PROVE  Accounted' /\ SingleFlight' /\ WaitersMatch' /\ QueueServed'
<1> USE DEF Inv
<1>1. Queued' = Queued /\ Active' = Active
  BY DEF Queued, Active, options, sessionVars
<1> QED
  BY <1>1 DEF Accounted, SingleFlight, WaitersMatch, QueueServed, sessionVars,
              replyVars, queueVars

LEMMA SentKeyedSame ==
  ASSUME SentKeyed, UNCHANGED <<gate, queue, runtime, sent, sessionKey>>,
         chunk' \in Seq((sent \ Broadcasts) \cup {FrameError})
  PROVE  SentKeyed'
BY DEF SentKeyed, FrameError

LEMMA StopReleases ==
  ASSUME TypeOK, WaitersMatch, NEW r \in pending, Stop(r)
  PROVE  waiters' = Release({r})
<1>1. r \in Requests /\ r # NoReq
  BY MasterAssumption DEF TypeOK
<1>2. CASE r \in Broadcasts
  <2>1. waiters' = waiters
    BY <1>2 DEF Stop, WaitersMatch
  <2>2. \A k \in Keys : waiters[k] # r
    BY <1>1, <1>2 DEF WaitersMatch
  <2> QED
    BY <2>1, <2>2 DEF Release, TypeOK
<1>3. CASE r \notin Broadcasts
  <2>1. sessionKey[r] \in Keys /\ waiters[sessionKey[r]] = r
    BY <1>3 DEF WaitersMatch
  <2>2. sessionKey[r] # NoKey
    BY <2>1, MasterAssumption DEF Keys, Tids, FifoKey, NoKey
  <2>3. waiters' = [waiters EXCEPT ![sessionKey[r]] = NoReq]
    BY <2>2 DEF Stop
  <2>4. \A k \in Keys : waiters[k] = r <=> k = sessionKey[r]
    BY <1>1, <2>1 DEF WaitersMatch
  <2> QED
    BY <2>1, <2>3, <2>4 DEF Release, TypeOK
<1> QED
  BY <1>2, <1>3
-----------------------------------------------------------------------------
LEMMA DecodeInv ==
  ASSUME Inv, DecodeNext
  PROVE  /\ Accounted' /\ SingleFlight' /\ WaitersMatch' /\ QueueServed'
         /\ SentKeyed'
<1> USE DEF Inv
<1>1. /\ ~looping /\ ~hung /\ chunk # <<>> /\ chunk' = Tail(chunk)
      /\ UNCHANGED <<options, gate, queueVars, runtime, sent>>
  BY DEF DecodeNext, ioVars
<1>2. /\ Head(chunk) \in (sent \ Broadcasts) \cup {FrameError}
      /\ Tail(chunk) \in Seq((sent \ Broadcasts) \cup {FrameError})
  BY <1>1 DEF SentKeyed
<1>3. sessionKey' = sessionKey => SentKeyed'
  BY <1>1, <1>2, SentKeyedSame DEF queueVars
<1>4. CASE HandleFrameError
  <2> DEFINE S == Waiting \cap pending
  <2>1. Settle(S, Says("frameError")) /\ waiters' = [k \in Keys |-> NoReq]
    BY <1>4 DEF HandleFrameError, StopAll
  <2>2. \A k \in Keys : waiters[k] # NoReq => waiters[k] \in S
    BY DEF WaitersMatch, Waiting, TypeOK
  <2>3. waiters' = Release(S)
    BY <2>1, <2>2 DEF Release
  <2>4. sessionKey' = sessionKey
    BY <2>1 DEF Settle
  <2> HIDE DEF S
  <2>5. S \in SUBSET pending
    BY DEF S
  <2> QED
    BY <1>1, <1>3, <2>1, <2>3, <2>4, <2>5, SettleInv
<1>5. CASE Head(chunk) # FrameError /\ HandleFrame(Head(chunk))
  <2> DEFINE q == Head(chunk)
             key == sessionKey[q]
             r == waiters[key]
  <2>1. key \in Keys
    BY <1>2, <1>5 DEF SentKeyed
  <2>2. CASE r = NoReq
    <3>1. UNCHANGED <<sessionVars, looping, replyVars>>
      BY <1>5, <2>2 DEF HandleFrame
    <3> QED
      BY <1>1, <1>3, <3>1, NothingSettled DEF sessionVars
  <2>3. CASE r # NoReq
    <3>1. r \in pending /\ r \notin Broadcasts /\ sessionKey[r] = key
      BY <2>1, <2>3 DEF WaitersMatch
    <3>2. /\ waiters' = [waiters EXCEPT ![key] = NoReq]
          /\ Settle({r} \cap pending, [kind |-> "response", of |-> q])
      BY <1>5, <2>3 DEF HandleFrame
    <3>3. {r} \cap pending = {r} /\ {r} \in SUBSET pending
      BY <3>1
    <3>4. \A k \in Keys : waiters[k] = r <=> k = key
      BY <2>1, <2>3, <3>1 DEF WaitersMatch
    <3>5. waiters' = Release({r})
      BY <2>1, <3>2, <3>4 DEF Release, TypeOK
    <3>6. sessionKey' = sessionKey
      BY <3>2 DEF Settle
    <3> HIDE DEF r, q, key
    <3> QED
      BY <1>1, <1>3, <3>2, <3>3, <3>5, <3>6, SettleInv
  <2> QED
    BY <2>2, <2>3
<1> QED
  BY <1>4, <1>5 DEF DecodeNext

LEMMA TimerInv ==
  ASSUME Inv, NEW r \in Requests, TimerFires(r)
  PROVE  /\ Accounted' /\ SingleFlight' /\ WaitersMatch' /\ QueueServed'
         /\ SentKeyed'
<1> USE DEF Inv
<1>1. /\ ~looping /\ ~hung
      /\ UNCHANGED <<options, gate, queueVars, runtime, sent, chunk>>
  BY DEF TimerFires, Idle, ioVars, inputVars
<1>2. sessionKey' = sessionKey => SentKeyed'
  BY <1>1, SentKeyedSame DEF queueVars, SentKeyed
<1>3. CASE r \in pending
  <2>1. Stop(r) /\ Settle({r}, Says("timeout")) /\ {r} \in SUBSET pending
    BY <1>3 DEF TimerFires
  <2>2. sessionKey' = sessionKey
    BY <2>1 DEF Settle
  <2> QED
    BY <1>1, <1>2, <1>3, <2>1, <2>2, StopReleases, SettleInv
<1>4. CASE r \notin pending
  <2>1. UNCHANGED <<sessionVars, looping, replyVars>>
    BY <1>4 DEF TimerFires
  <2> QED
    BY <1>1, <1>2, <2>1, NothingSettled DEF sessionVars
<1> QED
  BY <1>3, <1>4

LEMMA WriteDoneInv ==
  ASSUME Inv, NEW r \in Requests, NEW failed \in BOOLEAN, WriteDone(r, failed)
  PROVE  /\ Accounted' /\ SingleFlight' /\ WaitersMatch' /\ QueueServed'
         /\ SentKeyed'
<1> USE DEF Inv
<1>1. /\ ~looping /\ ~hung
      /\ UNCHANGED <<options, gate, queueVars, runtime, sent, chunk>>
  BY DEF WriteDone, Idle, inputVars
<1>2. sessionKey' = sessionKey => SentKeyed'
  BY <1>1, SentKeyedSame DEF queueVars, SentKeyed
<1>3. CASE r \in pending /\ (failed \/ r \in Broadcasts)
  <2> DEFINE res == Says(IF failed THEN "writeError" ELSE "written")
  <2>1. Stop(r) /\ Settle({r}, res) /\ {r} \in SUBSET pending
    BY <1>3 DEF WriteDone
  <2> HIDE DEF res
  <2>2. sessionKey' = sessionKey
    BY <2>1 DEF Settle
  <2> QED
    BY <1>1, <1>2, <1>3, <2>1, <2>2, StopReleases, SettleInv
<1>4. CASE ~(r \in pending /\ (failed \/ r \in Broadcasts))
  <2>1. UNCHANGED <<sessionVars, looping, replyVars>>
    BY <1>4 DEF WriteDone
  <2> QED
    BY <1>1, <1>2, <2>1, NothingSettled DEF sessionVars
<1> QED
  BY <1>3, <1>4

LEMMA DestroyInv ==
  ASSUME Inv, Destroy
  PROVE  /\ Accounted' /\ SingleFlight' /\ WaitersMatch' /\ QueueServed'
         /\ SentKeyed'
<1> USE DEF Inv
<1>1. /\ ~looping /\ ~hung /\ ~hung'
      /\ UNCHANGED <<options, gate, draining, runtime, sent, chunk, sessionKey>>
      /\ queue' = {} /\ pending' = {}
      /\ waiters' = [k \in Keys |-> NoReq]
      /\ looping' = (Queued /\ pending # {})
  BY DEF Destroy, Idle, ioVars, inputVars, StopAll
<1>2. Queued' = Queued /\ Active' = runtime
  BY <1>1 DEF Queued, options, Active
<1>3. Accounted'
  <2>1. calls' = [q \in Requests |-> IF q \in queue \cup pending THEN calls[q] + 1 ELSE calls[q]]
    BY DEF Destroy, Reply
  <2>2. \A q \in Requests : q \in queue \cup pending => q \notin runtime
    BY DEF Accounted, Active
  <2> QED
    BY <1>1, <1>2, <2>1, <2>2 DEF Accounted, Active, TypeOK
<1>4. SingleFlight'
  BY <1>2 DEF SingleFlight, Active
<1>5. WaitersMatch'
  BY <1>1 DEF WaitersMatch
<1>6. QueueServed'
  <2>1. CASE Queued
    <3>1. draining <=> Active # {}
      BY <1>1, <2>1 DEF QueueServed
    <3>2. pending # {} => runtime = {}
      BY <2>1 DEF SingleFlight, Active, Accounted, TypeOK
    <3>3. draining' <=> draining
      BY <1>1
    <3>4. looping' <=> pending # {}
      BY <1>1, <2>1
    <3>5. Active # {} <=> (pending # {} \/ runtime # {})
      BY DEF Active
    <3> QED
      BY <1>1, <1>2, <2>1, <3>1, <3>2, <3>3, <3>4, <3>5 DEF QueueServed
  <2>2. CASE ~Queued
    BY <1>1, <1>2, <2>2 DEF QueueServed
  <2> QED
    BY <2>1, <2>2
<1>7. SentKeyed'
  BY <1>1 DEF SentKeyed
<1> QED
  BY <1>3, <1>4, <1>5, <1>6, <1>7

LEMMA OptionsFixed == [Next]_vars => UNCHANGED options
BY DEF Next, vars, Send, UnitChecked, AddressChecked, RuntimeChecked, DrainNext, Oldest, StopDraining,
       Receive, DecodeNext, TimerFires, WriteDone, Destroy, Rest, Hang

LEMMA InvStep ==
  ASSUME Inv, [Next]_vars
  PROVE  /\ Accounted' /\ SingleFlight' /\ WaitersMatch' /\ QueueServed'
         /\ SentKeyed'
<1> USE DEF inputVars
<1>1. ASSUME NEW r \in Requests, Send(r)
      PROVE  /\ Accounted' /\ SingleFlight' /\ WaitersMatch' /\ QueueServed'
             /\ SentKeyed'
  <2>1. Idle /\ gate[r] # "passed" /\ UNCHANGED <<chunk, options>>
    BY <1>1 DEF Send
  <2>2. CASE Admit(r)
    BY <2>1, <2>2, AdmitInv
  <2>3. ASSUME NEW res, Deny(r, res)
        PROVE  /\ Accounted' /\ SingleFlight' /\ WaitersMatch' /\ QueueServed'
               /\ SentKeyed'
    BY <2>1, <2>3, DenyInv
  <2>4. CASE Defer(r, "unit") \/ Defer(r, "address")
    BY <2>1, <2>4, DeferInv
  <2> QED
    BY <1>1, <2>2, <2>3, <2>4 DEF Send, CheckUnit, CheckAddress
<1>2. ASSUME NEW r \in Requests, UnitChecked(r)
      PROVE  /\ Accounted' /\ SingleFlight' /\ WaitersMatch' /\ QueueServed'
             /\ SentKeyed'
  <2>1. Idle /\ gate[r] # "passed" /\ UNCHANGED <<chunk, options>>
    BY <1>2 DEF UnitChecked
  <2> QED
    BY <1>2, <2>1, AdmitInv, DenyInv, DeferInv DEF UnitChecked, CheckAddress
<1>3. ASSUME NEW r \in Requests, AddressChecked(r)
      PROVE  /\ Accounted' /\ SingleFlight' /\ WaitersMatch' /\ QueueServed'
             /\ SentKeyed'
  <2>1. Idle /\ gate[r] # "passed" /\ UNCHANGED <<chunk, options>>
    BY <1>3 DEF AddressChecked
  <2> QED
    BY <1>3, <2>1, AdmitInv, DenyInv DEF AddressChecked
<1>4. CASE Receive
  <2>1. /\ UNCHANGED <<sessionVars, looping, replyVars, options, gate, queueVars, runtime>>
        /\ UNCHANGED sent
    BY <1>4 DEF Receive, ioVars
  <2>2. PICK c \in Chunks : chunk' = c
    BY <1>4 DEF Receive
  <2>3. PICK n \in 1..MaxChunk : c \in [1..n -> Arriving]
    BY <2>2 DEF Chunks
  <2>4. c \in Seq(Arriving)
    <3>1. n \in Nat
      BY MasterAssumption
    <3> QED
      BY <2>3, <3>1
  <2>5. SentKeyed'
    BY <2>1, <2>2, <2>4, SentKeyedSame DEF Inv, Arriving, sessionVars, queueVars
  <2> QED
    BY <2>1, <2>5, NothingSettled
<1>5. CASE UNCHANGED vars
  <2>1. /\ UNCHANGED <<sessionVars, looping, replyVars, options, gate, queueVars, runtime>>
        /\ UNCHANGED <<sent, chunk>>
    BY <1>5 DEF vars, ioVars
  <2>2. SentKeyed'
    BY <2>1, SentKeyedSame DEF Inv, SentKeyed, sessionVars, queueVars
  <2> QED
    BY <2>1, <2>2, NothingSettled
<1> QED
  BY <1>1, <1>2, <1>3, <1>4, <1>5, RuntimeInv, DrainInv, DecodeInv, TimerInv,
     WriteDoneInv, DestroyInv DEF Next, Rest, Hang

LEMMA InvNext == Inv /\ [Next]_vars => Inv'
<1>1. Inv /\ [Next]_vars => TypeOK'
  BY TypeNext DEF Inv
<1>2. Inv /\ [Next]_vars => Configured'
  BY OptionsFixed DEF Inv, Configured, options
<1> QED
  BY <1>1, <1>2, InvStep DEF Inv

(* Everything below rests on the invariant.                                *)
LEMMA Invariant == Spec => []Inv
BY InvInit, InvNext, PTL DEF Spec

(* A request is never lost nor answered twice, whatever the interleaving   *)
(* of hooks, responses, framing errors, timers, write callbacks and        *)
(* destroy().                                                              *)
THEOREM RequestsAccounted == Spec => []Accounted
<1>1. Inv => Accounted
  BY DEF Inv
<1> QED
  BY Invariant, <1>1, PTL

(* The at-most-one invariant the session's FIFO_KEY relies on.             *)
THEOREM OneInFlight == Spec => []SingleFlight
<1>1. Inv => SingleFlight
  BY DEF Inv
<1> QED
  BY Invariant, <1>1, PTL

(* start() overwrites no waiter and no exchange in flight lacks its own.   *)
THEOREM SessionMatchesExchanges == Spec => []WaitersMatch
<1>1. Inv => WaitersMatch
  BY DEF Inv
<1> QED
  BY Invariant, <1>1, PTL

(* The drain loop loses no wakeup and never runs twice.                    *)
THEOREM DrainLoopSound == Spec => []QueueServed
<1>1. Inv => QueueServed
  BY DEF Inv
<1> QED
  BY Invariant, <1>1, PTL
-----------------------------------------------------------------------------
(* The refinement of MasterContract.  No step takes a request back: it is  *)
(* made once, its callback is not uncalled, and it leaves the exchanges    *)
(* with its answer only.                                                   *)
NoWayBack(q) ==
  /\ gate[q] # "new" => gate'[q] # "new"
  /\ calls'[q] >= calls[q]
  /\ q \in pending => q \in pending' \/ calls'[q] = calls[q] + 1

LEMMA ReplyCounts ==
  ASSUME TypeOK, NEW S, NEW res, Reply(S, res), NEW q \in Requests
  PROVE  /\ calls'[q] >= calls[q]
         /\ q \in S => calls'[q] = calls[q] + 1
BY DEF Reply, TypeOK

LEMMA GateOnward ==
  ASSUME TypeOK, [Next]_vars, NEW q \in Requests
  PROVE  gate[q] # "new" => gate'[q] # "new"
<1>1. ASSUME NEW r \in Requests, gate'= [gate EXCEPT ![r] = "passed"]
      PROVE  gate[q] # "new" => gate'[q] # "new"
  BY <1>1 DEF TypeOK
<1>2. ASSUME NEW r \in Requests, NEW stage \in {"unit", "address"},
             gate' = [gate EXCEPT ![r] = stage]
      PROVE  gate[q] # "new" => gate'[q] # "new"
  BY <1>2 DEF TypeOK
<1>3. ASSUME NEW r \in Requests, Send(r) \/ UnitChecked(r) \/ AddressChecked(r)
      PROVE  gate[q] # "new" => gate'[q] # "new"
  BY <1>1, <1>2, <1>3
     DEF Send, UnitChecked, AddressChecked, CheckUnit, CheckAddress, Admit, Deny, Defer
<1>4. CASE UNCHANGED gate
  BY <1>4
<1> QED
  BY <1>3, <1>4 DEF Next, vars, RuntimeChecked, DrainNext, Oldest, StopDraining, Receive, DecodeNext,
     TimerFires, WriteDone, Destroy, Rest, Hang

LEMMA RunExchangeOnward ==
  ASSUME TypeOK, NEW r \in Requests, NEW q \in Requests,
         RunExchange(r) \/ Exchange(r)
  PROVE  calls'[q] >= calls[q] /\ (q \in pending => q \in pending')
<1>1. ASSUME NEW key, WireExchange(r, key)
      PROVE  calls'[q] >= calls[q] /\ (q \in pending => q \in pending')
  BY <1>1, ReplyCounts
     DEF WireExchange, Written, WrittenAtOnce, RefusedAtOnce, ReplyAndGoOn,
         NoReply, replyVars, TypeOK
<1>2. CASE SpinForId
  BY <1>2 DEF SpinForId, NoReply, replyVars, TypeOK
<1>3. CASE RunExchange(r)
  BY <1>1, <1>2, <1>3 DEF RunExchange
<1>4. CASE KeepSession /\ NoReply
  BY <1>4 DEF KeepSession, sessionVars, NoReply, replyVars, TypeOK
<1>5. CASE KeepSession /\ ReplyAndGoOn({r}, Says("denied"))
  BY <1>5, ReplyCounts DEF KeepSession, sessionVars, ReplyAndGoOn
<1> QED
  BY <1>3, <1>4, <1>5 DEF Exchange

LEMMA Onwards ==
  ASSUME TypeOK, [Next]_vars, NEW q \in Requests
  PROVE  NoWayBack(q)
<1> SUFFICES /\ calls'[q] >= calls[q]
             /\ q \in pending => q \in pending' \/ calls'[q] = calls[q] + 1
  BY GateOnward DEF NoWayBack
<1> DEFINE Goal == /\ calls'[q] >= calls[q]
                   /\ q \in pending => q \in pending' \/ calls'[q] = calls[q] + 1
<1>1. ASSUME NEW r \in Requests, Admit(r) PROVE Goal
  BY <1>1, RunExchangeOnward, ReplyCounts
     DEF Admit, Enqueue, KeepSession, sessionVars
<1>2. ASSUME NEW r, NEW res, Deny(r, res) PROVE Goal
  BY <1>2, ReplyCounts DEF Deny, KeepSession, sessionVars
<1>3. ASSUME NEW r, NEW stage, Defer(r, stage) PROVE Goal
  BY <1>3 DEF Defer, KeepSession, sessionVars, replyVars, TypeOK
<1>4. ASSUME NEW r \in Requests, Send(r) \/ UnitChecked(r) \/ AddressChecked(r)
      PROVE  Goal
  BY <1>1, <1>2, <1>3, <1>4
     DEF Send, UnitChecked, AddressChecked, CheckUnit, CheckAddress
<1>5. ASSUME NEW r \in Requests, RuntimeChecked(r) PROVE Goal
  BY <1>5, RunExchangeOnward, ReplyCounts
     DEF RuntimeChecked, ReplyAndGoOn, KeepSession, sessionVars
<1>6. CASE DrainNext
  <2>1. CASE UNCHANGED replyVars /\ KeepSession
    BY <2>1 DEF KeepSession, sessionVars, replyVars, TypeOK
  <2>2. ASSUME NEW r \in queue, Exchange(r) PROVE Goal
    BY <2>2, RunExchangeOnward DEF TypeOK
  <2> QED
    BY <1>6, <2>1, <2>2 DEF DrainNext, Oldest, StopDraining, replyVars
<1>7. ASSUME NEW S, NEW res, Settle(S, res) PROVE Goal
  BY <1>7, ReplyCounts DEF Settle, ReplyAndGoOn
<1>8. CASE UNCHANGED <<sessionVars, replyVars>>
  BY <1>8 DEF sessionVars, replyVars, TypeOK
<1>9. CASE DecodeNext
  BY <1>7, <1>8, <1>9 DEF DecodeNext, HandleFrame, HandleFrameError
<1>10. ASSUME NEW r \in Requests, TimerFires(r) PROVE Goal
  BY <1>7, <1>8, <1>10 DEF TimerFires
<1>11. ASSUME NEW r \in Requests, NEW failed \in BOOLEAN, WriteDone(r, failed)
       PROVE  Goal
  BY <1>7, <1>8, <1>11 DEF WriteDone
<1>12. CASE Destroy
  BY <1>12, ReplyCounts DEF Destroy
<1> QED
  BY <1>4, <1>5, <1>6, <1>8, <1>9, <1>10, <1>11, <1>12
     DEF Next, vars, Receive, Rest, Hang

LEMMA StatusKnown ==
  ASSUME Inv, NEW q \in Requests
  PROVE  /\ Status(q) \in Contract!Statuses
         /\ Status(q) = "answered" <=> calls[q] = 1
         /\ Status(q) = "onBus" <=> q \in pending
         /\ Status(q) = "idle" <=> gate[q] = "new"
<1>1. calls[q] \in {0, 1} /\ (q \in pending => calls[q] = 0 /\ gate[q] = "passed")
      /\ (gate[q] = "new" => calls[q] = 0)
  BY DEF Inv, Accounted, Active, TypeOK
<1> QED
  BY <1>1 DEF Status, Contract!Statuses

LEMMA StatusKnownNext ==
  ASSUME Inv', NEW q \in Requests
  PROVE  /\ Status(q)' \in Contract!Statuses
         /\ Status(q)' = "answered" <=> calls'[q] = 1
         /\ Status(q)' = "onBus" <=> q \in pending'
         /\ Status(q)' = "idle" <=> gate'[q] = "new"
<1>1. calls'[q] \in {0, 1} /\ (q \in pending' => calls'[q] = 0 /\ gate'[q] = "passed")
      /\ (gate'[q] = "new" => calls'[q] = 0)
  BY DEF Inv, Accounted, Active, TypeOK
<1> QED
  BY <1>1 DEF Status, Contract!Statuses

(* What a caller and the device see of a master, with its queue, hooks,    *)
(* session, timers and destroy(), is a behaviour of MasterContract.        *)
THEOREM MasterKeepsContract == Spec => ImplementsContract
<1>1. Init => Contract!Init
  BY DEF Init, Contract!Init, Status, Queued
<1>2. Inv /\ Inv' /\ [Next]_vars =>
        [Contract!Next]_<<[r \in Requests |-> Status(r)], Queued>>
  <2> SUFFICES ASSUME Inv, Inv', [Next]_vars PROVE Contract!Next
    OBVIOUS
  <2>1. ASSUME NEW q \in Requests
        PROVE  Status(q)' \in Contract!Onward[Status(q)]
    <3>1. NoWayBack(q)
      BY Onwards DEF Inv
    <3>2. Status(q)' \in Contract!Statuses
          /\ (Status(q)' = "answered" <=> calls'[q] = 1)
          /\ (Status(q)' = "onBus" <=> q \in pending')
          /\ (Status(q)' = "idle" <=> gate'[q] = "new")
      BY StatusKnownNext
    <3>3. calls'[q] \in {0, 1} /\ calls[q] \in {0, 1}
      BY DEF Inv, Accounted, Active, TypeOK
    <3> QED
      BY <3>1, <3>2, <3>3, StatusKnown DEF NoWayBack, Contract!Onward, Contract!Statuses
  <2>2. \A q \in Requests : Status(q)' \in Contract!Statuses
    BY StatusKnownNext
  <2>3. Queued' => \A r, q \in Requests :
                     Status(r)' = "onBus" /\ Status(q)' = "onBus" => r = q
    BY StatusKnownNext DEF Inv, SingleFlight, Active
  <2>4. Queued' = Queued
    BY OptionsFixed DEF Queued, options
  <2> QED
    BY <2>1, <2>2, <2>3, <2>4 DEF Contract!Next, Contract!Exclusion
<1> QED
  BY <1>1, <1>2, Invariant, PTL DEF Spec, ImplementsContract, Contract!Spec
-----------------------------------------------------------------------------
(* On that invariant: in which order the queue is served, for what a      *)
(* strategy drops a request, and whose response a caller is given.         *)

(* Tickets count the pushes, and grow from what has been sent over what    *)
(* waits for checkRuntime to what is queued.                               *)
Ordered ==
  /\ \A r \in Requests : ticket[r] <= pushes
  /\ Queued => \A q \in sent \cup runtime, p \in queue : ticket[q] < ticket[p]
  /\ Queued => \A q \in sent, p \in runtime : ticket[q] < ticket[p]
  /\ Queued => \A p, q \in queue : p # q => ticket[p] # ticket[q]

(* What a strategy has dropped has passed the gates.                       *)
DroppedPassed == \A r \in Requests : result[r].kind = "dropped" => gate[r] = "passed"

OrderInv == Ordered /\ DroppedPassed /\ DroppedForNewer /\ NoCrossTalk

(* A step in which no request is dropped, and none given the response of   *)
(* another.                                                                *)
Plain ==
  \A r \in Requests :
    /\ result'[r].kind = "dropped" => result[r].kind = "dropped"
    /\ result'[r].of \in {NoReq, result[r].of}
-----------------------------------------------------------------------------
LEMMA ReplyPlain ==
  ASSUME TypeOK, NEW S, NEW k, k # "dropped", Reply(S, Says(k)) PROVE Plain
BY DEF Reply, Says, Plain, TypeOK

LEMMA NoReplyPlain == UNCHANGED replyVars => Plain
BY DEF replyVars, Plain

LEMMA ExchangePlain ==
  ASSUME TypeOK, NEW r \in Requests, RunExchange(r) \/ Exchange(r)
  PROVE  Plain /\ sent \subseteq sent' /\ sent' \subseteq sent \cup {r}
<1>1. ASSUME NEW key, WireExchange(r, key)
      PROVE  Plain /\ sent \subseteq sent' /\ sent' \subseteq sent \cup {r}
  BY <1>1, ReplyPlain, NoReplyPlain
     DEF WireExchange, Written, WrittenAtOnce, RefusedAtOnce, ReplyAndGoOn, NoReply
<1>2. CASE SpinForId
  BY <1>2, NoReplyPlain DEF SpinForId, NoReply, ioVars
<1>3. CASE RunExchange(r)
  BY <1>1, <1>2, <1>3 DEF RunExchange
<1>4. CASE KeepSession /\ (NoReply \/ ReplyAndGoOn({r}, Says("denied")))
  BY <1>4, ReplyPlain, NoReplyPlain DEF KeepSession, ioVars, NoReply, ReplyAndGoOn
<1> QED BY <1>3, <1>4 DEF Exchange

(* A plain step that hands out no ticket drops nothing and mixes nothing   *)
(* up.                                                                     *)
LEMMA PlainKeeps ==
  ASSUME Inv, OrderInv, [Next]_vars, Plain, UNCHANGED <<ticket, pushes>>,
         \A r \in Requests : gate[r] = "passed" => gate'[r] = "passed"
  PROVE  DroppedPassed' /\ DroppedForNewer' /\ NoCrossTalk'
<1>1. UNCHANGED queueStrategy
  BY OptionsFixed DEF options
<1>2. DroppedPassed'
  BY DEF OrderInv, DroppedPassed, Plain
<1>3. DroppedForNewer'
  BY <1>1 DEF OrderInv, DroppedForNewer, Plain
<1>4. NoCrossTalk'
  <2> SUFFICES ASSUME NEW r \in Requests, result'[r].of \notin {r, NoReq}
               PROVE  calls'[result'[r].of] > 0
    BY DEF NoCrossTalk
  <2>1. result'[r].of = result[r].of /\ result[r].of \in Requests
    BY DEF Plain, Inv, TypeOK, Results
  <2>2. calls[result[r].of] > 0
    BY <2>1 DEF OrderInv, NoCrossTalk
  <2>3. NoWayBack(result[r].of)
    BY <2>1, Onwards DEF Inv
  <2>4. calls[result[r].of] \in Nat /\ calls'[result[r].of] \in Nat
    BY <2>1, TypeNext DEF Inv, TypeOK
  <2> QED BY <2>1, <2>2, <2>3, <2>4 DEF NoWayBack
<1> QED BY <1>2, <1>3, <1>4
-----------------------------------------------------------------------------
LEMMA OrderInit == Init => OrderInv
<1> SUFFICES ASSUME Init PROVE OrderInv
  OBVIOUS
<1>1. \A r \in Requests : result[r].kind = "none" /\ result[r].of = NoReq /\ ticket[r] = 0
  BY DEF Init, Says
<1>2. Ordered
  BY <1>1 DEF Init, Ordered
<1> QED BY <1>1, <1>2 DEF OrderInv, DroppedPassed, DroppedForNewer, NoCrossTalk

(* The queue and what waits for checkRuntime are left alone.               *)
LEMMA OrderedSame ==
  ASSUME Ordered, UNCHANGED <<options, queue, ticket, pushes, runtime, sent>> PROVE Ordered'
<1>1. Queued' <=> Queued
  BY DEF Queued, options
<1> QED BY <1>1 DEF Ordered

LEMMA PassedKept ==
  ASSUME [Next]_vars, TypeOK, NEW r \in Requests, gate[r] = "passed" PROVE gate'[r] = "passed"
<1>1. ASSUME NEW q \in Requests, Send(q) \/ UnitChecked(q) \/ AddressChecked(q)
      PROVE  gate'[r] = gate[r]
  BY <1>1 DEF Send, UnitChecked, AddressChecked, CheckUnit, CheckAddress, Admit, Deny, Defer, TypeOK
<1> QED
  BY <1>1 DEF Next, vars, RuntimeChecked, DrainNext, Receive, DecodeNext, TimerFires, WriteDone,
              Destroy, Rest, Hang

(* A push: the newest ticket, and what it supersedes.                      *)
LEMMA EnqueueOrder ==
  ASSUME Inv, OrderInv, [Next]_vars, NEW r \in Requests, gate[r] # "passed", Queued, Enqueue(r),
         gate' = [gate EXCEPT ![r] = "passed"]
  PROVE  OrderInv'
<1>1. /\ TypeOK /\ TypeOK' /\ pushes \in Nat /\ r \notin sent \cup runtime
      /\ r \notin queue /\ UNCHANGED queueStrategy
  BY TypeNext, OptionsFixed DEF Inv, TypeOK, Accounted, SentKeyed, Active, options
<1>2. /\ UNCHANGED <<sent, runtime>> /\ pushes' = pushes + 1
      /\ queue' = (queue \ Superseded(r)) \cup {r} /\ Superseded(r) \subseteq queue
      /\ ticket'[r] = pushes + 1 /\ \A q \in Requests : q # r => ticket'[q] = ticket[q]
      /\ Reply(Superseded(r), Says("dropped"))
  BY <1>1 DEF Enqueue, KeepSession, ioVars, Superseded, TypeOK
<1>3. \A q \in Requests : ticket[q] \in Nat /\ ticket[q] <= pushes
  BY <1>1 DEF OrderInv, Ordered, TypeOK
<1>4. queue \subseteq Requests /\ sent \subseteq Requests /\ runtime \subseteq Requests
  BY <1>1 DEF TypeOK
<1>5. Ordered'
  <2>1. \A q \in Requests : ticket'[q] <= pushes'
    BY <1>1, <1>2, <1>3
  <2>2. \A q \in sent' \cup runtime', p \in queue' : ticket'[q] < ticket'[p]
    BY <1>1, <1>2, <1>3, <1>4 DEF OrderInv, Ordered
  <2>3. \A q \in sent', p \in runtime' : ticket'[q] < ticket'[p]
    BY <1>1, <1>2, <1>4 DEF OrderInv, Ordered
  <2>4. \A p, q \in queue' : p # q => ticket'[p] # ticket'[q]
    BY <1>1, <1>2, <1>3, <1>4 DEF OrderInv, Ordered
  <2> QED BY <2>1, <2>2, <2>3, <2>4 DEF Ordered
<1>6. \A q \in Requests : result'[q] = IF q \in Superseded(r) THEN Says("dropped") ELSE result[q]
  BY <1>2 DEF Reply
<1>7. DroppedPassed'
  <2>1. \A q \in Superseded(r) : gate[q] = "passed"
    BY <1>2, <1>4 DEF Inv, Accounted
  <2> QED BY <1>1, <1>6, <2>1, PassedKept DEF OrderInv, DroppedPassed
<1>8. DroppedForNewer'
  <2> SUFFICES ASSUME NEW q \in Requests, result'[q].kind = "dropped"
               PROVE  \E p \in Requests :
                        /\ ticket'[p] > ticket'[q]
                        /\ \/ queueStrategy = "drop-stale"
                           \/ queueStrategy = "deduplicate" /\ Fingerprint[p] = Fingerprint[q]
    BY <1>1 DEF DroppedForNewer
  <2>1. CASE q \in Superseded(r)
    <3>1. q # r /\ ticket'[r] > ticket'[q]
      BY <1>1, <1>2, <1>3, <2>1
    <3>2. \/ queueStrategy = "drop-stale"
          \/ queueStrategy = "deduplicate" /\ Fingerprint[r] = Fingerprint[q]
      BY <2>1 DEF Superseded
    <3> QED BY <3>1, <3>2
  <2>2. CASE q \notin Superseded(r)
    <3>1. result[q].kind = "dropped" /\ q # r
      BY <1>6, <2>2 DEF OrderInv, DroppedPassed
    <3>2. PICK p \in Requests :
            /\ ticket[p] > ticket[q]
            /\ \/ queueStrategy = "drop-stale"
               \/ queueStrategy = "deduplicate" /\ Fingerprint[p] = Fingerprint[q]
      BY <3>1 DEF OrderInv, DroppedForNewer
    <3>3. ticket'[q] = ticket[q] /\ ticket'[p] >= ticket[p] /\ ticket'[p] \in Nat
      <4>1. ticket'[q] = ticket[q]
        BY <1>2, <3>1
      <4>2. CASE p = r
        BY <1>1, <1>2, <1>3, <4>1, <4>2
      <4>3. CASE p # r
        BY <1>2, <1>3, <4>1, <4>3
      <4> QED BY <4>2, <4>3
    <3>4. ticket'[p] > ticket'[q]
      BY <1>3, <3>2, <3>3
    <3> QED BY <3>2, <3>4
  <2> QED BY <2>1, <2>2
<1>9. NoCrossTalk'
  <2> SUFFICES ASSUME NEW q \in Requests, result'[q].of \notin {q, NoReq}
               PROVE  calls'[result'[q].of] > 0
    BY DEF NoCrossTalk
  <2>1. result'[q] = result[q] /\ result[q].of \in Requests
    BY <1>1, <1>6 DEF Says, TypeOK, Results
  <2>2. calls[result[q].of] > 0
    BY <2>1 DEF OrderInv, NoCrossTalk
  <2>3. NoWayBack(result[q].of)
    BY <1>1, <2>1, Onwards
  <2>4. calls'[result[q].of] >= calls[result[q].of]
    BY <2>3 DEF NoWayBack
  <2>5. calls[result[q].of] \in Nat /\ calls'[result[q].of] \in Nat
    BY <1>1, <2>1 DEF TypeOK
  <2> QED BY <2>1, <2>2, <2>4, <2>5
<1> QED BY <1>5, <1>7, <1>8, <1>9 DEF OrderInv

(* The gates.                                                              *)
LEMMA GateOrder ==
  ASSUME Inv, OrderInv, [Next]_vars, NEW r \in Requests,
         Send(r) \/ UnitChecked(r) \/ AddressChecked(r)
  PROVE  OrderInv'
<1>1. gate[r] # "passed" /\ TypeOK /\ UNCHANGED options
  BY DEF Send, UnitChecked, AddressChecked, Inv
<1>2. CASE Admit(r) /\ Queued
  BY <1>1, <1>2, EnqueueOrder DEF Admit
<1>3. CASE Admit(r) /\ ~Queued
  <2>1. Exchange(r) /\ UNCHANGED queueVars
    BY <1>3 DEF Admit
  <2>2. Plain /\ UNCHANGED <<ticket, pushes>>
    BY <1>1, <2>1, ExchangePlain DEF queueVars
  <2>3. Ordered'
    BY <1>1, <1>3, <2>2 DEF OrderInv, Ordered, Queued, options
  <2> QED BY <1>1, <2>2, <2>3, PlainKeeps, PassedKept DEF OrderInv
<1>4. CASE (\E k \in {"denied", "destroyed"} : Deny(r, Says(k))) \/ \E stage : Defer(r, stage)
  <2>1. Plain /\ UNCHANGED <<queue, ticket, pushes, runtime, sent>>
    BY <1>1, <1>4, ReplyPlain, NoReplyPlain DEF Deny, Defer, queueVars, KeepSession, ioVars
  <2>2. Ordered'
    BY <1>1, <2>1, OrderedSame DEF OrderInv
  <2> QED BY <1>1, <2>1, <2>2, PlainKeeps, PassedKept DEF OrderInv
<1> QED
  BY <1>2, <1>3, <1>4 DEF Send, UnitChecked, AddressChecked, CheckUnit, CheckAddress
-----------------------------------------------------------------------------
(* checkRuntime has allowed the request: it is the only one past the queue.*)
LEMMA RuntimeOrder ==
  ASSUME Inv, OrderInv, [Next]_vars, NEW r \in Requests, RuntimeChecked(r) PROVE OrderInv'
<1>1. /\ TypeOK /\ UNCHANGED <<options, queue, ticket, pushes>> /\ runtime' = runtime \ {r}
      /\ r \in runtime
      /\ Queued' <=> Queued
  BY DEF RuntimeChecked, Inv, queueVars, options, Queued
<1>2. Plain /\ sent' \subseteq sent \cup {r}
  BY <1>1, ExchangePlain, ReplyPlain DEF RuntimeChecked, ReplyAndGoOn, KeepSession, ioVars
<1>3. Queued => runtime = {r}
  BY <1>1 DEF Inv, SingleFlight, Active, TypeOK
<1>4. Ordered'
  BY <1>1, <1>2, <1>3 DEF OrderInv, Ordered
<1> QED BY <1>1, <1>2, <1>4, PlainKeeps, PassedKept DEF OrderInv

(* The oldest leaves the queue when nothing is past it.                    *)
LEMMA DrainOrder ==
  ASSUME Inv, OrderInv, [Next]_vars, DrainNext PROVE OrderInv'
<1>1. /\ TypeOK /\ UNCHANGED options /\ Queued /\ runtime = {}
      /\ Queued' <=> Queued
  BY DEF DrainNext, Inv, QueueServed, Active, Queued, options
<1>2. CASE StopDraining
  <2>1. Plain /\ UNCHANGED <<queue, ticket, pushes, runtime, sent>>
    BY <1>2, NoReplyPlain DEF StopDraining, KeepSession, ioVars
  <2> QED BY <1>1, <2>1, OrderedSame, PlainKeeps, PassedKept DEF OrderInv, Inv
<1>3. ASSUME NEW r \in Requests, Oldest(r), queue' = queue \ {r}, Exchange(r),
             UNCHANGED <<ticket, pushes>>
      PROVE  OrderInv'
  <2>1. Plain /\ sent' \subseteq sent \cup {r}
    BY <1>1, <1>3, ExchangePlain
  <2>2. runtime' = {} \/ (runtime' = {r} /\ sent' = sent)
    BY <1>1, <1>3 DEF Exchange, KeepSession, ioVars
  <2>3. r \in queue /\ queue \subseteq Requests /\ ticket \in [Requests -> Nat]
    BY <1>1, <1>3 DEF Oldest, TypeOK
  <2>4. \A p \in queue' : ticket[r] < ticket[p]
    BY <1>1, <1>3, <2>3 DEF Oldest, OrderInv, Ordered
  <2>5. Ordered'
    BY <1>1, <1>3, <2>1, <2>2, <2>3, <2>4 DEF OrderInv, Ordered
  <2> QED BY <1>1, <1>3, <2>1, <2>5, PlainKeeps, PassedKept DEF OrderInv
<1> QED BY <1>2, <1>3 DEF DrainNext

(* A frame: an error, or a response, which another request is given only   *)
(* when nothing waits for it any more.                                     *)
LEMMA DecodeOrder ==
  ASSUME Inv, OrderInv, [Next]_vars, DecodeNext PROVE OrderInv'
<1>1. /\ TypeOK /\ UNCHANGED <<options, queue, ticket, pushes, runtime, sent, gate>>
      /\ ~hung /\ chunk # <<>>
      /\ Ordered'
  BY OrderedSame DEF DecodeNext, Inv, queueVars, ioVars, OrderInv
<1>2. CASE HandleFrameError
  <2>1. Plain
    BY <1>1, <1>2, ReplyPlain DEF HandleFrameError, Settle, ReplyAndGoOn
  <2> QED BY <1>1, <2>1, PlainKeeps DEF OrderInv
<1>3. CASE UNCHANGED replyVars
  <2>1. Plain
    BY <1>3, NoReplyPlain
  <2> QED BY <1>1, <2>1, PlainKeeps DEF OrderInv
<1>4. ASSUME NEW q \in sent \ Broadcasts, q = Head(chunk),
             Settle({waiters[sessionKey[q]]} \cap pending, [kind |-> "response", of |-> q])
      PROVE  OrderInv'
  <2> DEFINE S == {waiters[sessionKey[q]]} \cap pending
  <2>1. q \in Requests /\ sessionKey[q] \in Keys /\ gate[q] = "passed" /\ q \notin queue \cup runtime
    BY <1>1 DEF Inv, TypeOK, SentKeyed
  <2>2. /\ \A r \in Requests :
            result'[r] = IF r \in S THEN [kind |-> "response", of |-> q] ELSE result[r]
        /\ \A r \in Requests : calls'[r] = IF r \in S THEN calls[r] + 1 ELSE calls[r]
    BY <1>4 DEF Settle, ReplyAndGoOn, Reply
  <2>3. q \in pending => S \subseteq {q}
    BY <2>1 DEF Inv, WaitersMatch
  <2>4. q \notin pending => calls[q] = 1
    BY <1>1, <2>1 DEF Inv, Accounted, Active
  <2> HIDE DEF S
  <2>5. DroppedPassed' /\ DroppedForNewer'
    BY <1>1, <2>2 DEF OrderInv, DroppedPassed, DroppedForNewer, options
  <2>6. NoCrossTalk'
    <3> SUFFICES ASSUME NEW r \in Requests, result'[r].of \notin {r, NoReq}
                 PROVE  calls'[result'[r].of] > 0
      BY DEF NoCrossTalk
    <3>1. ASSUME NEW p \in Requests PROVE calls[p] \in Nat /\ calls'[p] >= calls[p]
      <4>1. calls[p] \in Nat
        BY <1>1 DEF TypeOK
      <4> QED BY <2>2, <4>1
    <3>2. CASE r \in S
      <4>1. result'[r] = [kind |-> "response", of |-> q]
        BY <2>2, <3>2
      <4>2. result'[r].of = q /\ q # r
        BY <4>1
      <4>3. calls[q] = 1
        BY <2>3, <2>4, <3>2, <4>2
      <4>4. calls'[q] >= 1
        BY <2>1, <3>1, <4>3
      <4>5. calls'[q] \in Nat
        BY <2>1, <1>1, TypeNext DEF TypeOK
      <4> QED BY <4>2, <4>4, <4>5
    <3>3. CASE r \notin S
      <4>1. result'[r].of = result[r].of /\ result[r].of \in Requests
        BY <1>1, <2>2, <3>3 DEF TypeOK, Results
      <4>2. calls[result[r].of] > 0 /\ calls'[result[r].of] \in Nat
        BY <1>1, <4>1, TypeNext DEF OrderInv, NoCrossTalk, TypeOK
      <4> QED BY <3>1, <4>1, <4>2
    <3> QED BY <3>2, <3>3
  <2> QED BY <1>1, <2>5, <2>6 DEF OrderInv
<1>5. Head(chunk) \in (sent \ Broadcasts) \cup {FrameError}
  BY <1>1 DEF Inv, SentKeyed
<1> QED BY <1>2, <1>3, <1>4, <1>5 DEF DecodeNext, HandleFrame

LEMMA OrderStep == ASSUME Inv, OrderInv, [Next]_vars PROVE OrderInv'
<1>1. ASSUME Plain, UNCHANGED <<options, queueVars, runtime, sent>> PROVE OrderInv'
  BY <1>1, OrderedSame, PlainKeeps, PassedKept DEF OrderInv, queueVars, Inv
<1>2. ASSUME NEW r \in Requests, TimerFires(r) PROVE OrderInv'
  <2>1. Plain
    BY <1>2, ReplyPlain, NoReplyPlain DEF TimerFires, Settle, ReplyAndGoOn, Inv
  <2> QED BY <1>1, <1>2, <2>1 DEF TimerFires, ioVars
<1>3. ASSUME NEW r \in Requests, NEW failed \in BOOLEAN, WriteDone(r, failed) PROVE OrderInv'
  <2>1. Plain
    BY <1>3, ReplyPlain, NoReplyPlain DEF WriteDone, Settle, ReplyAndGoOn, Inv
  <2> QED BY <1>1, <1>3, <2>1 DEF WriteDone
<1>4. CASE Destroy
  <2>1. Plain /\ queue' = {} /\ UNCHANGED <<options, ticket, pushes, runtime, sent>>
    BY <1>4, ReplyPlain DEF Destroy, Inv, ioVars
  <2>2. Ordered'
    BY <2>1 DEF OrderInv, Ordered, options, Queued
  <2> QED BY <2>1, <2>2, PlainKeeps, PassedKept DEF OrderInv, Inv
<1>5. CASE Receive \/ Rest \/ Hang \/ UNCHANGED vars
  <2>1. Plain
    BY <1>5, NoReplyPlain DEF Receive, Rest, Hang, vars
  <2> QED BY <1>1, <1>5, <2>1 DEF Receive, Rest, Hang, vars, ioVars
<1> QED
  BY <1>2, <1>3, <1>4, <1>5, GateOrder, RuntimeOrder, DrainOrder, DecodeOrder DEF Next

LEMMA OrderInvariant == Spec => [](Inv /\ OrderInv)
<1>1. Inv /\ OrderInv /\ [Next]_vars => OrderInv'
  BY OrderStep
<1> QED BY <1>1, OrderInit, Invariant, PTL DEF Spec
-----------------------------------------------------------------------------
(* A strategy drops a request only for a newer one, and deduplicate only   *)
(* for one of its fingerprint.                                             *)
THEOREM DropsForNewer == Spec => []DroppedForNewer
<1>1. OrderInv => DroppedForNewer
  BY DEF OrderInv
<1> QED BY <1>1, OrderInvariant, PTL

(* A request is given the response of another only when that one is over:  *)
(* ids that are used again never mix up two requests in flight.            *)
THEOREM ResponsesApart == Spec => []NoCrossTalk
<1>1. OrderInv => NoCrossTalk
  BY DEF OrderInv
<1> QED BY <1>1, OrderInvariant, PTL

(* What goes through the queue reaches the wire in the order of the pushes.*)
THEOREM MasterServedInOrder == Spec => ServedInOrder
<1>1. ASSUME Inv, OrderInv, [Next]_vars, Queued, NEW r \in sent' \ sent, NEW q \in sent
      PROVE  ticket[q] < ticket[r]
  <2>1. ASSUME NEW p \in Requests, sent' \subseteq sent \cup {p}, p \in queue \cup runtime
        PROVE  ticket[q] < ticket[r]
    BY <1>1, <2>1 DEF OrderInv, Ordered
  <2>2. CASE UNCHANGED sent
    BY <1>1, <2>2
  <2>3. ASSUME NEW p \in Requests, Send(p) \/ UnitChecked(p) \/ AddressChecked(p)
        PROVE  UNCHANGED sent
    BY <1>1, <2>3 DEF Send, UnitChecked, AddressChecked, CheckUnit, CheckAddress, Admit, Enqueue,
                      Deny, Defer, KeepSession, ioVars
  <2>4. ASSUME NEW p \in Requests, RuntimeChecked(p) PROVE ticket[q] < ticket[r]
    <3>1. sent' \subseteq sent \cup {p} /\ p \in runtime
      BY <1>1, <2>4, ExchangePlain DEF RuntimeChecked, KeepSession, ioVars, Inv
    <3> QED BY <2>1, <3>1
  <2>5. CASE DrainNext
    <3>1. CASE StopDraining
      BY <2>2, <3>1 DEF StopDraining, KeepSession, ioVars
    <3>2. ASSUME NEW p \in Requests, Oldest(p), Exchange(p) PROVE ticket[q] < ticket[r]
      <4>1. sent' \subseteq sent \cup {p} /\ p \in queue
        BY <1>1, <3>2, ExchangePlain DEF Oldest, Inv
      <4> QED BY <2>1, <4>1
    <3> QED BY <2>5, <3>1, <3>2 DEF DrainNext
  <2>6. Receive \/ DecodeNext \/ Destroy \/ Rest \/ Hang \/ UNCHANGED vars => UNCHANGED sent
    BY DEF Receive, DecodeNext, Destroy, Rest, Hang, vars, ioVars
  <2>7. \A p \in Requests : TimerFires(p) => UNCHANGED sent
    BY DEF TimerFires, ioVars
  <2>8. \A p \in Requests, failed \in BOOLEAN : WriteDone(p, failed) => UNCHANGED sent
    BY DEF WriteDone
  <2> QED BY <1>1, <2>2, <2>3, <2>4, <2>5, <2>6, <2>7, <2>8 DEF Next
<1>2. Inv /\ OrderInv /\ [Next]_vars
        => [Queued => \A r \in sent' \ sent, q \in sent : ticket[q] < ticket[r]]_vars
  BY <1>1
<1> QED BY <1>2, OrderInvariant, PTL DEF Spec, ServedInOrder
-----------------------------------------------------------------------------
(* Whose response a caller is given.  As long as there are ids for all     *)
(* requests none is used twice: they are handed out one after another      *)
(* round the circle, never more of them than there are requests past the   *)
(* queue and checkRuntime, so that the next is always free.                *)
Past == {r \in Requests : gate[r] = "passed" /\ r \notin queue \cup runtime}

Advance(t, n) == IF t + n <= MaxTid THEN t + n ELSE t + n - MaxTid

InTurn(t, n) ==
  /\ transactionId = Advance(t, n)
  /\ \A r \in Requests :
       sessionKey[r] # NoKey => \E i \in 0..(n - 1) : sessionKey[r] = Advance(t, i)

HandedOut == \E t \in Tids, n \in 0..Cardinality(Past) : InTurn(t, n)

KeysApart == \A r, q \in Requests : sessionKey[r] = sessionKey[q] /\ sessionKey[r] # NoKey => r = q

IdsEnough == protocol = "TCP" /\ IsFiniteSet(Requests) /\ Cardinality(Requests) <= MaxTid

IdInv ==
  IdsEnough => HandedOut /\ KeysApart /\ ~hung /\ \A r \in Requests : result[r].of \in {r, NoReq}

LEMMA AdvanceFacts ==
  ASSUME NEW t \in Tids
  PROVE  /\ Advance(t, 0) = t
         /\ \A n \in 0..(MaxTid - 1) : Advance(t, n) \in Tids
         /\ \A n \in 0..(MaxTid - 1) : Following(Advance(t, n)) = Advance(t, n + 1)
         /\ \A m, n \in 0..(MaxTid - 1) : Advance(t, m) = Advance(t, n) => m = n
BY MasterAssumption DEF Advance, Following, Tids

LEMMA PastFinite ==
  ASSUME IsFiniteSet(Requests)
  PROVE  /\ IsFiniteSet(Past) /\ Cardinality(Past) \in Nat
         /\ IsFiniteSet(Past') /\ Cardinality(Past') \in Nat
<1>1. Past \subseteq Requests /\ Past' \subseteq Requests
  BY DEF Past
<1> QED BY <1>1, FS_Subset, FS_CardinalityType

(* An exchange gives the id it takes to its request, or to none when it is *)
(* a broadcast.                                                            *)
TakesId(r) ==
  \E t \in Tids : /\ FirstFree(t) /\ transactionId' = Following(t) /\ UNCHANGED hung
                  /\ \E k \in {t, NoKey} : sessionKey' = [sessionKey EXCEPT ![r] = k]

LEMMA RunExchangeTakesId ==
  ASSUME NEW r \in Requests, protocol = "TCP", RunExchange(r)
  PROVE  TakesId(r) \/ (FreeTids = {} /\ UNCHANGED <<sessionKey, transactionId>>)
BY DEF RunExchange, WireExchange, SpinForId, TakesId

(* The only step that touches ids: one request leaves the queue, the gates *)
(* or checkRuntime for the wire.  No other comes back from there.          *)
LEMMA IdStep ==
  ASSUME Inv, [Next]_vars, protocol = "TCP"
  PROVE  /\ Past \subseteq Past'
         /\ \/ UNCHANGED <<sessionKey, transactionId, hung>>
            \/ \E r \in Past' \ Past : TakesId(r)
            \/ /\ FreeTids = {} /\ UNCHANGED <<sessionKey, transactionId>>
               /\ Past' \ Past # {}
<1> DEFINE Goal == /\ Past \subseteq Past'
                   /\ \/ UNCHANGED <<sessionKey, transactionId, hung>>
                      \/ \E r \in Past' \ Past : TakesId(r)
                      \/ /\ FreeTids = {} /\ UNCHANGED <<sessionKey, transactionId>>
                         /\ Past' \ Past # {}
<1>0. TypeOK /\ \A r \in Requests : gate[r] = "passed" => gate'[r] = "passed"
  BY PassedKept DEF Inv
<1>1. ASSUME NEW r \in Requests, r \notin Past, gate'[r] = "passed", queue' \subseteq queue \ {r},
             r \notin runtime \/ runtime' = runtime \ {r}, RunExchange(r), runtime' \subseteq runtime
      PROVE  Goal
  BY <1>0, <1>1, RunExchangeTakesId DEF Past
<1>2. ASSUME UNCHANGED <<sessionKey, transactionId, hung>>, NEW r, r \notin Past,
             queue' \subseteq queue \cup {r}, runtime' \subseteq runtime \cup {r}
      PROVE  Goal
  BY <1>0, <1>2 DEF Past
<1>3. ASSUME NEW r \in Requests, gate'[r] = "passed", r \notin Past, r \notin runtime,
             queue' \subseteq queue \ {r}, Exchange(r)
      PROVE  Goal
  <2>1. CASE RunExchange(r) /\ UNCHANGED runtime
    BY <1>1, <1>3, <2>1
  <2>2. CASE KeepSession /\ runtime' \subseteq runtime \cup {r}
    BY <1>2, <1>3, <2>2 DEF KeepSession, sessionVars
  <2> QED BY <1>3, <2>1, <2>2 DEF Exchange
<1>4. CASE /\ UNCHANGED <<sessionKey, transactionId, hung>>
           /\ runtime' \subseteq runtime /\ queue' \subseteq queue
  BY <1>0, <1>4 DEF Past
<1>5. ASSUME NEW r \in Requests, Send(r) \/ UnitChecked(r) \/ AddressChecked(r) PROVE Goal
  <2>1. gate[r] # "passed" /\ r \notin Past /\ r \notin queue \cup runtime
    BY <1>5 DEF Send, UnitChecked, AddressChecked, Past, Inv, Accounted, Active
  <2>2. CASE Admit(r) /\ Queued
    BY <1>2, <2>1, <2>2 DEF Admit, Enqueue, KeepSession, sessionVars
  <2>3. CASE Admit(r) /\ ~Queued
    BY <1>0, <1>3, <2>1, <2>3 DEF Admit, queueVars, TypeOK
  <2>4. CASE KeepSession /\ UNCHANGED <<queueVars, runtime>>
    BY <1>4, <2>4 DEF KeepSession, sessionVars, queueVars
  <2> QED
    BY <1>5, <2>2, <2>3, <2>4
       DEF Send, UnitChecked, AddressChecked, CheckUnit, CheckAddress, Deny, Defer
<1>6. ASSUME NEW r \in Requests, RuntimeChecked(r) PROVE Goal
  <2>1. /\ r \in runtime /\ runtime' = runtime \ {r} /\ queue' = queue /\ gate'[r] = "passed"
        /\ r \notin queue /\ r \notin Past
    BY <1>0, <1>6 DEF RuntimeChecked, queueVars, Past, Inv, Accounted, Active
  <2>2. CASE RunExchange(r)
    BY <1>1, <2>1, <2>2
  <2>3. CASE KeepSession
    BY <1>4, <2>1, <2>3 DEF KeepSession, sessionVars
  <2> QED BY <1>6, <2>2, <2>3 DEF RuntimeChecked
<1>7. CASE DrainNext
  <2>1. CASE StopDraining
    BY <1>4, <2>1 DEF StopDraining, KeepSession, sessionVars
  <2>2. ASSUME NEW r \in Requests, Oldest(r), queue' = queue \ {r}, Exchange(r) PROVE Goal
    <3>1. r \in queue /\ gate'[r] = "passed" /\ r \notin Past /\ r \notin runtime
      BY <1>0, <2>2 DEF Oldest, Past, Inv, Accounted, Active
    <3> QED BY <1>3, <2>2, <3>1
  <2> QED BY <1>7, <2>1, <2>2 DEF DrainNext
<1>8. CASE DecodeNext
  BY <1>4, <1>8 DEF DecodeNext, HandleFrame, HandleFrameError, Settle, sessionVars, queueVars
<1>9. ASSUME NEW r \in Requests, TimerFires(r) PROVE Goal
  BY <1>4, <1>9 DEF TimerFires, Settle, sessionVars, queueVars
<1>10. ASSUME NEW r \in Requests, NEW failed \in BOOLEAN, WriteDone(r, failed) PROVE Goal
  BY <1>4, <1>10 DEF WriteDone, Settle, sessionVars, queueVars
<1>11. CASE Receive \/ Destroy \/ Rest \/ Hang \/ UNCHANGED vars
  BY <1>4, <1>11 DEF Receive, Destroy, Rest, Hang, vars, sessionVars, queueVars
<1> QED BY <1>5, <1>6, <1>7, <1>8, <1>9, <1>10, <1>11 DEF Next

(* The id after those handed out is free when one more request goes to the *)
(* wire: no request has it, for they are fewer than the ids.               *)
LEMMA NextIdFree ==
  ASSUME Inv, [Next]_vars, IdsEnough, Past' \ Past # {},
         NEW t \in Tids, NEW n \in 0..Cardinality(Past), InTurn(t, n)
  PROVE  /\ n \in 0..(MaxTid - 1) /\ n + 1 \in 0..Cardinality(Past')
         /\ \A q \in Requests : sessionKey[q] # transactionId
         /\ transactionId \in FreeTids
<1>1. TypeOK /\ WaitersMatch /\ MaxTid \in Nat \ {0}
  BY MasterAssumption DEF Inv
<1>2. /\ Past \subseteq Past' /\ IsFiniteSet(Past') /\ Past' \subseteq Requests
      /\ Cardinality(Past) \in Nat /\ Cardinality(Past') \in Nat /\ Cardinality(Requests) \in Nat
  BY IdStep, PastFinite, FS_CardinalityType DEF IdsEnough, Past
<1>3. Cardinality(Past) < Cardinality(Past') /\ Cardinality(Past') <= MaxTid
  <2>1. Cardinality(Past) <= Cardinality(Past') /\ Cardinality(Past) # Cardinality(Past')
    BY <1>2, FS_Subset
  <2>2. Cardinality(Past') <= Cardinality(Requests)
    BY <1>2, FS_Subset DEF IdsEnough
  <2> QED BY <1>1, <1>2, <2>1, <2>2 DEF IdsEnough
<1>4. n \in 0..(MaxTid - 1) /\ n + 1 \in 0..Cardinality(Past')
  BY <1>1, <1>2, <1>3
<1>5. \A i \in 0..(n - 1) : i \in 0..(MaxTid - 1) /\ i # n
  BY <1>1, <1>4
<1>6. \A q \in Requests : sessionKey[q] # transactionId
  <2> SUFFICES ASSUME NEW q \in Requests, sessionKey[q] = transactionId PROVE FALSE
    OBVIOUS
  <2>1. sessionKey[q] # NoKey
    BY <1>1 DEF TypeOK, Tids, NoKey
  <2>2. PICK i \in 0..(n - 1) : sessionKey[q] = Advance(t, i)
    BY <2>1 DEF InTurn
  <2>3. Advance(t, i) = Advance(t, n)
    BY <2>2 DEF InTurn
  <2> QED BY <1>4, <1>5, <2>3, AdvanceFacts
<1>7. transactionId \in FreeTids
  <2>1. transactionId \in Tids /\ transactionId \in Keys
    BY <1>1 DEF TypeOK, Keys
  <2>2. waiters[transactionId] = NoReq
    BY <1>1, <1>6, <2>1 DEF TypeOK, WaitersMatch
  <2> QED BY <2>1, <2>2 DEF FreeTids
<1> QED BY <1>4, <1>6, <1>7

(* So the search for an id ends where it begins.                           *)
LEMMA IdsKept ==
  ASSUME Inv, [Next]_vars, IdsEnough, HandedOut, KeysApart, ~hung
  PROVE  HandedOut' /\ KeysApart' /\ ~hung'
<1>1. TypeOK /\ Past \subseteq Requests /\ Past' \subseteq Requests
  BY DEF Inv, Past
<1>2. PICK t \in Tids, n \in 0..Cardinality(Past) : InTurn(t, n)
  BY DEF HandedOut
<1>3. CASE UNCHANGED <<sessionKey, transactionId, hung>>
  <2>1. /\ Cardinality(Past) \in Nat /\ Cardinality(Past') \in Nat
        /\ Cardinality(Past) <= Cardinality(Past')
    BY IdStep, PastFinite, FS_Subset DEF IdsEnough
  <2>2. n \in 0..Cardinality(Past')
    BY <2>1
  <2> QED BY <1>2, <1>3, <2>2 DEF HandedOut, InTurn, KeysApart
<1>4. CASE FreeTids = {} /\ Past' \ Past # {}
  <2>1. transactionId \in FreeTids
    BY <1>2, <1>4, NextIdFree
  <2> QED BY <1>4, <2>1
<1>5. ASSUME NEW r \in Past' \ Past, TakesId(r) PROVE HandedOut' /\ KeysApart' /\ ~hung'
  <2>1. /\ n \in 0..(MaxTid - 1) /\ n + 1 \in 0..Cardinality(Past')
        /\ \A q \in Requests : sessionKey[q] # transactionId
        /\ transactionId \in FreeTids
    BY <1>2, <1>5, NextIdFree
  <2>2. PICK u \in Tids : /\ FirstFree(u) /\ transactionId' = Following(u) /\ UNCHANGED hung
                          /\ \E k \in {u, NoKey} : sessionKey' = [sessionKey EXCEPT ![r] = k]
    BY <1>5 DEF TakesId
  <2>3. u = transactionId
    <3>1. StepsTo(u) <= StepsTo(transactionId)
      BY <2>1, <2>2 DEF FirstFree
    <3> QED BY <1>1, <3>1, MasterAssumption DEF StepsTo, TypeOK, Tids
  <2>4. transactionId' = Advance(t, n + 1)
    BY <1>2, <2>1, <2>2, <2>3, AdvanceFacts DEF InTurn
  <2>5. \A q \in Requests : \/ sessionKey'[q] = sessionKey[q]
                            \/ q = r /\ sessionKey'[q] \in {transactionId, NoKey}
    BY <1>1, <2>2, <2>3 DEF TypeOK
  <2>6. \A q \in Requests : sessionKey'[q] # NoKey => \E i \in 0..n : sessionKey'[q] = Advance(t, i)
    <3>1. n \in 0..n /\ \A i \in 0..(n - 1) : i \in 0..n
      BY <2>1
    <3> QED BY <1>2, <2>5, <3>1 DEF InTurn
  <2>7. HandedOut'
    <3>1. 0..n = 0..((n + 1) - 1)
      BY <2>1
    <3> QED BY <2>1, <2>4, <2>6, <3>1 DEF HandedOut, InTurn
  <2>8. KeysApart'
    BY <2>1, <2>5 DEF KeysApart
  <2> QED BY <2>2, <2>7, <2>8
<1> QED BY <1>3, <1>4, <1>5, IdStep DEF IdsEnough

(* A response finds the waiter of its own request.                         *)
LEMMA AnswerIsOwn ==
  ASSUME Inv, [Next]_vars, KeysApart, NEW r \in Requests
  PROVE  result'[r].of \in {r, NoReq, result[r].of}
<1>1. TypeOK
  BY DEF Inv
<1>2. CASE Plain
  BY <1>2 DEF Plain
<1>3. CASE DecodeNext
  <2>1. CASE HandleFrameError
    BY <1>1, <1>2, <2>1, ReplyPlain DEF HandleFrameError, Settle, ReplyAndGoOn
  <2>2. CASE UNCHANGED replyVars
    BY <1>2, <2>2, NoReplyPlain
  <2>3. ASSUME NEW q \in sent \ Broadcasts, waiters[sessionKey[q]] # NoReq,
               Settle({waiters[sessionKey[q]]} \cap pending, [kind |-> "response", of |-> q])
        PROVE  result'[r].of \in {r, NoReq, result[r].of}
    <3>1. q \in Requests /\ sessionKey[q] \in Keys /\ sessionKey[q] # NoKey
      BY <1>1, MasterAssumption DEF Inv, SentKeyed, TypeOK, Keys, Tids, FifoKey, NoKey
    <3>2. waiters[sessionKey[q]] \in Requests /\ sessionKey[waiters[sessionKey[q]]] = sessionKey[q]
      BY <1>1, <2>3, <3>1 DEF Inv, WaitersMatch, TypeOK
    <3>3. waiters[sessionKey[q]] = q
      BY <3>1, <3>2 DEF KeysApart
    <3> QED BY <2>3, <3>3 DEF Settle, ReplyAndGoOn, Reply
  <2>4. chunk # <<>> /\ Head(chunk) \in (sent \ Broadcasts) \cup {FrameError}
    BY <1>3 DEF DecodeNext, Inv, SentKeyed
  <2> QED BY <1>3, <2>1, <2>2, <2>3, <2>4 DEF DecodeNext, HandleFrame
<1>4. ASSUME NEW q \in Requests, Send(q) \/ UnitChecked(q) \/ AddressChecked(q)
      PROVE  result'[r].of \in {r, NoReq, result[r].of}
  <2>1. CASE Enqueue(q)
    BY <1>1, <2>1 DEF Enqueue, Reply, Says, TypeOK
  <2>2. CASE Exchange(q)
    BY <1>1, <1>2, <2>2, ExchangePlain
  <2>3. CASE (\E k \in {"denied", "destroyed"} : Deny(q, Says(k))) \/ \E stage : Defer(q, stage)
    BY <1>1, <1>2, <2>3, ReplyPlain, NoReplyPlain DEF Deny, Defer
  <2> QED
    BY <1>4, <2>1, <2>2, <2>3
       DEF Send, UnitChecked, AddressChecked, CheckUnit, CheckAddress, Admit
<1>5. ASSUME NEW q \in Requests, RuntimeChecked(q) PROVE Plain
  BY <1>1, <1>5, ExchangePlain, ReplyPlain DEF RuntimeChecked, ReplyAndGoOn
<1>6. CASE DrainNext
  <2>1. CASE StopDraining
    BY <1>2, <2>1, NoReplyPlain DEF StopDraining
  <2>2. ASSUME NEW q \in Requests, Exchange(q) PROVE Plain
    BY <1>1, <2>2, ExchangePlain
  <2> QED BY <1>2, <1>6, <2>1, <2>2 DEF DrainNext
<1>7. ASSUME NEW q \in Requests, TimerFires(q) PROVE Plain
  BY <1>1, <1>7, ReplyPlain, NoReplyPlain DEF TimerFires, Settle, ReplyAndGoOn
<1>8. ASSUME NEW q \in Requests, NEW failed \in BOOLEAN, WriteDone(q, failed) PROVE Plain
  BY <1>1, <1>8, ReplyPlain, NoReplyPlain DEF WriteDone, Settle, ReplyAndGoOn
<1>9. Destroy => Plain
  BY <1>1, ReplyPlain DEF Destroy
<1>10. Receive \/ Rest \/ Hang \/ UNCHANGED vars => Plain
  BY NoReplyPlain DEF Receive, Rest, Hang, vars
<1> QED BY <1>2, <1>3, <1>4, <1>5, <1>6, <1>7, <1>8, <1>9, <1>10 DEF Next

LEMMA IdInit == Init => IdInv
<1> SUFFICES ASSUME Init, IdsEnough
             PROVE  /\ HandedOut /\ KeysApart /\ ~hung
                    /\ \A r \in Requests : result[r].of \in {r, NoReq}
  BY DEF IdInv
<1>1. \A r \in Requests : sessionKey[r] = NoKey /\ result[r].of = NoReq
  BY DEF Init, Says
<1>2. transactionId \in Tids /\ transactionId = Advance(transactionId, 0)
  BY AdvanceFacts DEF Init, IdsEnough
<1>3. 0 \in 0..Cardinality(Past)
  BY PastFinite DEF IdsEnough
<1> QED BY <1>1, <1>2, <1>3 DEF Init, HandedOut, InTurn, KeysApart

LEMMA IdNext == Inv /\ IdInv /\ [Next]_vars => IdInv'
<1> SUFFICES ASSUME Inv, IdInv, [Next]_vars, IdsEnough'
             PROVE  /\ HandedOut' /\ KeysApart' /\ ~hung'
                    /\ \A r \in Requests : result'[r].of \in {r, NoReq}
  BY DEF IdInv
<1>1. IdsEnough
  BY OptionsFixed DEF IdsEnough, options
<1> QED BY <1>1, IdsKept, AnswerIsOwn DEF IdInv

(* With ids left to hand out no TCP response reaches another request,      *)
(* whatever timers, destroyed exchanges and late or repeated responses     *)
(* leave in the session.                                                   *)
THEOREM ResponsesOwn == Spec => []OwnResponse
<1>1. IdInv => OwnResponse
  BY DEF IdInv, IdsEnough, OwnResponse
<1> QED BY <1>1, IdInit, IdNext, Invariant, PTL DEF Spec

(* Nor does the search for an id then go on for ever.                      *)
THEOREM SearchEnds == Spec => [](IdsEnough => ~hung)
<1>1. IdInv => (IdsEnough => ~hung)
  BY DEF IdInv
<1> QED BY <1>1, IdInit, IdNext, Invariant, PTL DEF Spec
=============================================================================
