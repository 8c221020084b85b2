---------------------------- MODULE ModbusMaster ----------------------------
(***************************************************************************)
(* The request life cycle of ModbusMaster (src/master/master.ts) with the  *)
(* MasterSession it matches responses with (src/master/master-session.ts). *)
(*                                                                         *)
(* A request goes through the checkUnit and checkAddress hooks, the queue  *)
(* its strategy prescribes, the checkRuntime hook and one exchange on the  *)
(* wire; every one of these may finish at once or in a later turn of the   *)
(* event loop, and responses, framing errors, timers, write callbacks and  *)
(* destroy() arrive in any order in between.                               *)
(*                                                                         *)
(* One JavaScript turn is not one step.  `looping` is TRUE while the       *)
(* drain loop next() is on the call stack and `chunk` holds what the       *)
(* running decode() has still to deliver; nothing else happens before both *)
(* are done (run to completion), which keeps the re-entrant order of the   *)
(* code: a response that completes a request starts the next one before    *)
(* decode() looks at the rest of the chunk.                                *)
(***************************************************************************)
EXTENDS Naturals, FiniteSets, Sequences

CONSTANTS
  Requests,     \* calls of the public request methods, each made once
  NoReq,        \* not a request
  Broadcasts,   \* the requests to unit 0, which await no response
  Fingerprint,  \* [Requests -> key]: generateRequestFingerprint
  Strategies,   \* the queueStrategy values a master may be built with
  Protocols,    \* the protocol types a master may be built with
  MaxTid,       \* the largest transaction id, 65535 in the code
  MaxChunk,     \* bound: frames and framing errors in one 'data' event
  MaxArrivals   \* bound: frames and framing errors over a behaviour

ASSUME MasterAssumption ==
  /\ NoReq \notin Requests
  /\ Broadcasts \subseteq Requests
  /\ Strategies \subseteq {"concurrent", "fifo", "drop-stale", "deduplicate"}
  /\ Protocols \subseteq {"TCP", "RTU", "ASCII"}
  /\ MaxTid \in Nat \ {0}
  /\ MaxChunk \in Nat
  /\ MaxArrivals \in Nat

VARIABLES
  queueStrategy, \* options.queueStrategy, read only
  protocol,      \* _protocolLayer.PROTOCOL, read only
  destroyed,     \* _destroyed
  gate,          \* where _send() has brought a request
  queue,         \* the entries of the parallel arrays _queue*
  ticket,        \* the number of the push of a request, 0 before it
  pushes,        \* pushes so far
  draining,      \* _draining
  looping,       \* next() of _processNext is on the call stack
  runtime,       \* requests whose checkRuntime promise is unsettled
  pending,       \* _pendingExchanges: the exchanges not settled
  sessionKey,    \* the key an exchange was put in the session under
  waiters,       \* MasterSession._waiters: key -> request
  transactionId, \* _transactionId
  hung,          \* the do-while that looks for a free id never ends
  armed,         \* ids in the TimerHeap (lazily deleted)
  writing,       \* exchanges whose write callback has not run
  sent,          \* requests the pipeline accepted
  chunk,         \* what the running decode() has still to deliver
  seen,          \* history: what had been sent when the chunk came in
  arrivals,      \* items received so far
  calls,         \* how often a request's callback was called
  result         \* what its last call said

options == <<queueStrategy, protocol>>
queueVars == <<queue, ticket, pushes, draining>>
sessionVars == <<pending, sessionKey, waiters, transactionId, hung>>
ioVars == <<writing, sent>>
inputVars == <<chunk, seen, arrivals>>
replyVars == <<calls, result>>
vars == <<options, destroyed, gate, queueVars, looping, runtime, sessionVars,
          armed, ioVars, inputVars, replyVars>>
-----------------------------------------------------------------------------
Tids == 1..MaxTid

(* FIFO_KEY, the one key of a master without transaction ids.              *)
FifoKey == 0
Keys == Tids \cup {FifoKey}
NoKey == MaxTid + 1

(* What a 'data' event can bring besides a response.                       *)
FrameError == NoReq

Kinds == {"none", "response", "written", "timeout", "frameError",
          "writeError", "denied", "dropped", "destroyed"}
Results == [kind : Kinds, of : Requests \cup {NoReq}]
Says(k) == [kind |-> k, of |-> NoReq]

Queued == queueStrategy # "concurrent"

(* The call stack is empty: the event loop may take the next event.        *)
Idle == ~looping /\ chunk = <<>> /\ ~hung

(* The request's own callback, then the wrapper of _processNext around it, *)
(* which runs next() again or lets the running next() go on.               *)
Reply(S, res) ==
  /\ calls' = [r \in Requests |-> IF r \in S THEN calls[r] + 1 ELSE calls[r]]
  /\ result' = [r \in Requests |-> IF r \in S THEN res ELSE result[r]]
ReplyAndGoOn(S, res) == Reply(S, res) /\ looping' = (Queued /\ S # {})
NoReply == UNCHANGED replyVars
-----------------------------------------------------------------------------
Init ==
  /\ queueStrategy \in Strategies
  /\ protocol \in Protocols
  /\ queueStrategy = "concurrent" => protocol = "TCP"
  /\ destroyed = FALSE
  /\ gate = [r \in Requests |-> "new"]
  /\ queue = {} /\ ticket = [r \in Requests |-> 0] /\ pushes = 0
  /\ draining = FALSE /\ looping = FALSE
  /\ runtime = {} /\ pending = {}
  /\ sessionKey = [r \in Requests |-> NoKey]
  /\ waiters = [k \in Keys |-> NoReq]
  /\ transactionId \in (IF protocol = "TCP" THEN Tids ELSE {1}) /\ hung = FALSE
  /\ armed = {} /\ writing = {} /\ sent = {}
  /\ chunk = <<>> /\ seen = {} /\ arrivals = 0
  /\ calls = [r \in Requests |-> 0]
  /\ result = [r \in Requests |-> Says("none")]
-----------------------------------------------------------------------------
(* _runExchange: allocate a transaction id, arm the timer, register the    *)
(* waiter and write.  The write callback runs later, or before write()     *)
(* returns with success or with an error.                                  *)

FreeTids == {t \in Tids : waiters[t] = NoReq}
(* Faults beside the operators they break, for the runs to tell apart: the  *)
(* counter wraps through 0, does not advance, or is taken without a look   *)
(* at the session; no timer is armed.                                      *)
FollowingMasked(t) == (t + 1) % (MaxTid + 1)
FollowingSame(t) == t
FirstFreeBlind(t) == t = transactionId

Following(t) == IF t = MaxTid THEN 1 ELSE t + 1
StepsTo(t) == IF t >= transactionId THEN t - transactionId
                                    ELSE t + MaxTid - transactionId
FirstFree(t) == t \in FreeTids /\ \A u \in FreeTids : StepsTo(t) <= StepsTo(u)

(* The write was taken; its callback is due, or has run without an error.  *)
Written(r, key) ==
  /\ pending' = pending \cup {r}
  /\ waiters' = IF r \in Broadcasts THEN waiters
                                    ELSE [waiters EXCEPT ![key] = r]
  /\ sent' = sent \cup {r}
  /\ \/ writing' = writing \cup {r}
     \/ r \notin Broadcasts /\ UNCHANGED writing
  /\ looping' = FALSE
  /\ NoReply

(* A broadcast whose write callback runs inside write().                   *)
WrittenAtOnce(r) ==
  /\ r \in Broadcasts
  /\ sent' = sent \cup {r}
  /\ UNCHANGED <<pending, waiters, writing>>
  /\ ReplyAndGoOn({r}, Says("written"))

(* write() reports an error before it returns: start() and stop() cancel.  *)
RefusedAtOnce(r, key) ==
  /\ waiters' = IF r \in Broadcasts THEN waiters
                                    ELSE [waiters EXCEPT ![key] = NoReq]
  /\ UNCHANGED <<pending, sent, writing>>
  /\ ReplyAndGoOn({r}, Says("writeError"))

WireExchangeUntimed(r, key) ==
  /\ sessionKey' = [sessionKey EXCEPT ![r] = IF r \in Broadcasts THEN NoKey ELSE key]
  /\ Written(r, key) \/ WrittenAtOnce(r) \/ RefusedAtOnce(r, key)
  /\ UNCHANGED <<hung, armed>>

WireExchange(r, key) ==
  /\ sessionKey' = [sessionKey EXCEPT ![r] = IF r \in Broadcasts THEN NoKey ELSE key]
  /\ armed' = armed \cup {r}
  /\ Written(r, key) \/ WrittenAtOnce(r) \/ RefusedAtOnce(r, key)
  /\ UNCHANGED hung

(* Every id has a waiter: the do-while spins for ever.                     *)
SpinForId ==
  /\ hung' = TRUE
  /\ UNCHANGED <<sessionKey, armed, pending, waiters, transactionId, looping>>
  /\ UNCHANGED ioVars /\ NoReply

RunExchange(r) ==
  \/ /\ protocol # "TCP"
     /\ WireExchange(r, FifoKey)
     /\ UNCHANGED transactionId
  \/ /\ protocol = "TCP"
     /\ \E t \in Tids : /\ FirstFree(t)
                        /\ transactionId' = Following(t)
                        /\ WireExchange(r, t)
  \/ protocol = "TCP" /\ FreeTids = {} /\ SpinForId

KeepSession == UNCHANGED <<sessionVars, armed, ioVars>>

(* _exchange: checkRuntime, which destroy() removes with the authorizer,   *)
(* denies at once, defers its verdict, or lets the exchange run.           *)
Exchange(r) ==
  \/ RunExchange(r) /\ UNCHANGED runtime
  \/ /\ ~destroyed
     /\ runtime' = runtime \cup {r}
     /\ looping' = FALSE
     /\ KeepSession /\ NoReply
  \/ /\ ~destroyed
     /\ ReplyAndGoOn({r}, Says("denied"))
     /\ KeepSession /\ UNCHANGED runtime
-----------------------------------------------------------------------------
(* Faults: deduplicate drops what drop-stale would; _drain() without guard.*)
SupersededAll(r) ==
  IF queueStrategy \in {"drop-stale", "deduplicate"} THEN queue ELSE {}

EnqueueUnguarded(r) ==
  /\ NoReply
  /\ queue' = queue \cup {r}
  /\ pushes' = pushes + 1
  /\ ticket' = [ticket EXCEPT ![r] = pushes + 1]
  /\ draining' = TRUE /\ looping' = TRUE
  /\ KeepSession /\ UNCHANGED runtime

(* The last part of _send: what the strategy drops, the push, _drain().    *)
Superseded(r) ==
  CASE queueStrategy = "drop-stale"  -> queue
    [] queueStrategy = "deduplicate" -> {q \in queue : Fingerprint[q] = Fingerprint[r]}
    [] OTHER                         -> {}

Enqueue(r) ==
  /\ Reply(Superseded(r), Says("dropped"))
  /\ queue' = (queue \ Superseded(r)) \cup {r}
  /\ pushes' = pushes + 1
  /\ ticket' = [ticket EXCEPT ![r] = pushes + 1]
  /\ draining' = TRUE
  /\ looping' = ~draining
  /\ KeepSession /\ UNCHANGED runtime

Admit(r) ==
  /\ gate' = [gate EXCEPT ![r] = "passed"]
  /\ IF Queued THEN Enqueue(r)
               ELSE Exchange(r) /\ UNCHANGED queueVars

(* A hook says no, or the function code is not supported.                  *)
Deny(r, res) ==
  /\ gate' = [gate EXCEPT ![r] = "passed"]
  /\ Reply({r}, res)
  /\ KeepSession /\ UNCHANGED <<queueVars, looping, runtime>>

Defer(r, stage) ==
  /\ ~destroyed
  /\ gate' = [gate EXCEPT ![r] = stage]
  /\ KeepSession /\ UNCHANGED <<queueVars, looping, runtime, replyVars>>

CheckAddress(r) == Admit(r) \/ Deny(r, Says("denied")) \/ Defer(r, "address")
CheckUnit(r) == CheckAddress(r) \/ Defer(r, "unit")

(* A public request method: destroyed is looked at here and nowhere later. *)
Send(r) ==
  /\ Idle /\ gate[r] = "new"
  /\ IF destroyed THEN Deny(r, Says("destroyed")) ELSE CheckUnit(r)
  /\ UNCHANGED <<options, destroyed, inputVars>>

(* The promise of checkUnit, or of checkAddress, is fulfilled.             *)
UnitChecked(r) ==
  /\ Idle /\ gate[r] = "unit"
  /\ CheckAddress(r)
  /\ UNCHANGED <<options, destroyed, inputVars>>

AddressChecked(r) ==
  /\ Idle /\ gate[r] = "address"
  /\ Admit(r) \/ Deny(r, Says("denied"))
  /\ UNCHANGED <<options, destroyed, inputVars>>

(* The promise of checkRuntime is fulfilled or rejected.                   *)
RuntimeChecked(r) ==
  /\ Idle /\ r \in runtime
  /\ runtime' = runtime \ {r}
  /\ \/ RunExchange(r)
     \/ ReplyAndGoOn({r}, Says("denied")) /\ KeepSession
  /\ UNCHANGED <<options, destroyed, gate, queueVars, inputVars>>

(* One round of next(): dequeue the head and exchange it, or stop.  The    *)
(* faults: the newest first; the flag stays up when the queue is empty.    *)
Newest(r) == r \in queue /\ \A q \in queue : ticket[q] <= ticket[r]
Oldest(r) == r \in queue /\ \A q \in queue : ticket[r] <= ticket[q]

StopKeepingFlag ==
  /\ queue = {}
  /\ looping' = FALSE
  /\ KeepSession /\ UNCHANGED <<queueVars, runtime, replyVars>>

StopDraining ==
  /\ queue = {}
  /\ draining' = FALSE /\ looping' = FALSE
  /\ KeepSession /\ UNCHANGED <<queue, ticket, pushes, runtime, replyVars>>

DrainNext ==
  /\ looping /\ ~hung
  /\ \/ StopDraining
     \/ \E r \in Requests :
          /\ Oldest(r)
          /\ queue' = queue \ {r}
          /\ Exchange(r)
          /\ UNCHANGED <<ticket, pushes, draining>>
  /\ UNCHANGED <<options, destroyed, gate, inputVars>>
-----------------------------------------------------------------------------
(* What can be on the line: responses to requests that were sent, once,    *)
(* late, again or never, and framing errors.                               *)
Arriving == (sent \ Broadcasts) \cup {FrameError}
Chunks == UNION {[1..n -> Arriving] : n \in 1..MaxChunk}

Receive ==
  /\ Idle /\ ~destroyed
  /\ \E c \in Chunks :
       /\ arrivals + Len(c) <= MaxArrivals
       /\ chunk' = c
       /\ seen' = sent
       /\ arrivals' = arrivals + Len(c)
  /\ UNCHANGED <<options, destroyed, gate, queueVars, looping, runtime,
                 sessionVars, armed, ioVars, replyVars>>

(* An exchange ends: its waiter goes and its callback is called.           *)
Settle(S, res) ==
  /\ pending' = pending \ S
  /\ ReplyAndGoOn(S, res)
  /\ UNCHANGED <<sessionKey, transactionId, hung>>

(* MasterSession.handleFrame: the waiter under the key of the frame.       *)
HandleFrame(q) ==
  LET key == sessionKey[q]
      r == waiters[key]
  IN  IF r = NoReq
        THEN UNCHANGED <<sessionVars, looping, replyVars>>
        ELSE /\ waiters' = [waiters EXCEPT ![key] = NoReq]
             /\ Settle({r} \cap pending, [kind |-> "response", of |-> q])

StopAll == waiters' = [k \in Keys |-> NoReq]
Waiting == {r \in Requests : \E k \in Keys : waiters[k] = r}

(* onFrameError -> handleError -> stopAll: every waiter is given up.       *)
HandleFrameError ==
  /\ StopAll
  /\ Settle(Waiting \cap pending, Says("frameError"))

(* decode() delivers its next frame or error; flush() does not stop it.    *)
DecodeNext ==
  /\ ~looping /\ ~hung /\ chunk # <<>>
  /\ chunk' = Tail(chunk)
  /\ seen' = IF Len(chunk) = 1 THEN {} ELSE seen
  /\ IF Head(chunk) = FrameError THEN HandleFrameError
                                 ELSE HandleFrame(Head(chunk))
  /\ UNCHANGED <<options, destroyed, gate, queueVars, runtime, armed, ioVars,
                 arrivals>>
-----------------------------------------------------------------------------
(* Faults: the session keeps the waiter; settled exchanges end again.      *)
StopNothing(r) == r \in Requests /\ UNCHANGED waiters

(* MasterSession.stop(pending.sessionKey).                                 *)
Stop(r) == waiters' = IF sessionKey[r] = NoKey
                        THEN waiters
                        ELSE [waiters EXCEPT ![sessionKey[r]] = NoReq]

TimerFiresLate(r) ==
  /\ Idle /\ r \in armed
  /\ armed' = armed \ {r}
  /\ Stop(r) /\ Settle({r}, Says("timeout"))
  /\ UNCHANGED <<options, destroyed, gate, queueVars, runtime, ioVars, inputVars>>

WriteDoneUnsettled(r, failed) ==
  /\ Idle /\ r \in writing
  /\ writing' = writing \ {r}
  /\ IF failed \/ r \in Broadcasts
       THEN Stop(r) /\ Settle({r}, Says(IF failed THEN "writeError" ELSE "written"))
       ELSE UNCHANGED <<sessionVars, looping, replyVars>>
  /\ UNCHANGED <<options, destroyed, gate, queueVars, runtime, armed, sent,
                 inputVars>>

(* The callback of the TimerHeap.                                          *)
TimerFires(r) ==
  /\ Idle /\ r \in armed
  /\ armed' = armed \ {r}
  /\ IF r \in pending
       THEN Stop(r) /\ Settle({r}, Says("timeout"))
       ELSE UNCHANGED <<sessionVars, looping, replyVars>>
  /\ UNCHANGED <<options, destroyed, gate, queueVars, runtime, ioVars, inputVars>>

(* The write callback: a broadcast is over, and so is a failed write.      *)
WriteDone(r, failed) ==
  /\ Idle /\ r \in writing
  /\ writing' = writing \ {r}
  /\ IF r \in pending /\ (failed \/ r \in Broadcasts)
       THEN Stop(r) /\ Settle({r}, Says(IF failed THEN "writeError" ELSE "written"))
       ELSE UNCHANGED <<sessionVars, looping, replyVars>>
  /\ UNCHANGED <<options, destroyed, gate, queueVars, runtime, armed, sent,
                 inputVars>>

(* destroy(): the queue, the waiters and the other exchanges are rejected. *)
Destroy ==
  /\ Idle /\ ~destroyed
  /\ destroyed' = TRUE
  /\ armed' = {}
  /\ queue' = {}
  /\ StopAll
  /\ pending' = {}
  /\ Reply(queue \cup pending, Says("destroyed"))
  /\ looping' = (Queued /\ pending # {})
  /\ UNCHANGED <<options, gate, ticket, pushes, draining, runtime, sessionKey,
                 transactionId, hung, ioVars, inputVars>>
-----------------------------------------------------------------------------
(* Every request is answered and no callback is due.                       *)
Rest ==
  /\ \A r \in Requests : calls[r] > 0
  /\ armed = {} /\ writing = {} /\ Idle
  /\ UNCHANGED vars

(* The process is stuck in the search for a transaction id.                *)
Hang == hung /\ UNCHANGED vars

Next ==
  \/ \E r \in Requests : Send(r)
  \/ \E r \in Requests : UnitChecked(r)
  \/ \E r \in Requests : AddressChecked(r)
  \/ \E r \in Requests : RuntimeChecked(r)
  \/ DrainNext
  \/ Receive
  \/ DecodeNext
  \/ \E r \in Requests : TimerFires(r)
  \/ \E r \in Requests, failed \in BOOLEAN : WriteDone(r, failed)
  \/ Destroy
  \/ Rest
  \/ Hang

(* The event loop runs what is due: code on the stack, expired timers and  *)
(* settled promises of hooks that do settle.  Nothing is assumed about the *)
(* device, the transport's write callback or the user.                     *)
Fairness ==
  /\ WF_vars(DrainNext) /\ WF_vars(DecodeNext)
  /\ \A r \in Requests : /\ WF_vars(UnitChecked(r)) /\ WF_vars(AddressChecked(r))
                         /\ WF_vars(RuntimeChecked(r)) /\ WF_vars(TimerFires(r))

Spec == Init /\ [][Next]_vars
FairSpec == Spec /\ Fairness
-----------------------------------------------------------------------------
(* Every variable holds a value of its type.                               *)
TypeOK ==
  /\ queueStrategy \in Strategies /\ protocol \in Protocols
  /\ destroyed \in BOOLEAN
  /\ gate \in [Requests -> {"new", "unit", "address", "passed"}]
  /\ queue \subseteq Requests
  /\ ticket \in [Requests -> Nat] /\ pushes \in Nat
  /\ draining \in BOOLEAN /\ looping \in BOOLEAN /\ hung \in BOOLEAN
  /\ runtime \subseteq Requests /\ pending \subseteq Requests
  /\ sessionKey \in [Requests -> Keys \cup {NoKey}]
  /\ waiters \in [Keys -> Requests \cup {NoReq}]
  /\ transactionId \in Tids
  /\ armed \subseteq Requests /\ writing \subseteq Requests
  /\ sent \subseteq Requests /\ seen \subseteq Requests
  /\ chunk \in Seq(Requests \cup {FrameError})
  /\ arrivals \in Nat
  /\ calls \in [Requests -> Nat] /\ result \in [Requests -> Results]

(* Past the queue: waiting for checkRuntime or for the end of the exchange.*)
Active == pending \cup runtime

(* No request is lost or answered twice: one that has passed the gates is  *)
(* in exactly one of the queue, the runtime check and the exchanges, or it *)
(* has been answered, once; before that it has not been answered.          *)
Accounted ==
  \A r \in Requests :
    IF gate[r] # "passed"
      THEN calls[r] = 0 /\ r \notin queue \cup Active
      ELSE /\ r \in queue \cup Active => calls[r] = 0
           /\ r \notin queue \cup Active => calls[r] = 1 \/ (hung /\ calls[r] = 0)
           /\ r \in queue => r \notin Active
           /\ r \in pending => r \notin runtime

(* Outside the concurrent strategy one request at a time is past the       *)
(* queue, so FIFO_KEY never has two claimants and start() overwrites none  *)
(* (the comment of FIFO_KEY, src/master/master-session.ts).                *)
SingleFlight == Queued => \A r, q \in Active : r = q

(* The session and the pending exchanges tell the same story: a waiter     *)
(* belongs to an unsettled exchange under its own key, and an exchange     *)
(* that awaits a response has its waiter, whatever settled the others.     *)
WaitersMatch ==
  /\ \A k \in Keys : waiters[k] # NoReq =>
       waiters[k] \in pending \ Broadcasts /\ sessionKey[waiters[k]] = k
  /\ \A r \in pending \ Broadcasts :
       sessionKey[r] \in Keys /\ waiters[sessionKey[r]] = r
  /\ \A r \in pending \cap Broadcasts : sessionKey[r] = NoKey

(* No wakeup of the drain loop is lost: what is queued will be dequeued by *)
(* the loop on the stack or by the exchange the loop waits for, never by   *)
(* two of them; a master with a queue always finds a free id.              *)
QueueServed ==
  IF Queued
    THEN /\ queue # {} => draining
         /\ draining <=> (looping \/ Active # {})
         /\ looping => Active = {}
         /\ ~hung
    ELSE queue = {} /\ ~draining /\ ~looping

(* A response of another request only goes to a waiter when its own        *)
(* request is over: requests in flight together are never mixed up.        *)
NoCrossTalk ==
  \A r \in Requests : result[r].of \notin {r, NoReq} => calls[result[r].of] > 0

(* With ids left to hand out no TCP response reaches another request.      *)
OwnResponse ==
  protocol = "TCP" /\ IsFiniteSet(Requests) /\ Cardinality(Requests) <= MaxTid =>
    \A r \in Requests : result[r].of \in {r, NoReq}

(* The queue strategies drop a request only for a newer one, deduplicate   *)
(* only for one with its fingerprint, fifo and concurrent never.           *)
DroppedForNewer ==
  \A r \in Requests : result[r].kind = "dropped" =>
    \E q \in Requests :
      /\ ticket[q] > ticket[r]
      /\ \/ queueStrategy = "drop-stale"
         \/ queueStrategy = "deduplicate" /\ Fingerprint[q] = Fingerprint[r]

(* What reaches the wire through the queue does so in the order of the     *)
(* pushes, across drops, synchronous failures and re-entrant drains.       *)
ServedInOrder ==
  [][Queued => \A r \in sent' \ sent, q \in sent : ticket[q] < ticket[r]]_vars

(* Every request is answered, by the timer when by nothing else, unless    *)
(* the process spins for a transaction id.                                 *)
EveryRequestAnswered ==
  \A r \in Requests : gate[r] # "new" ~> (calls[r] > 0 \/ hung)

(* master.ts, destroy(): "After this call the instance is unusable":       *)
(* nothing is handed to the pipeline any more.                             *)
SilentAfterDestroy == [][destroyed => sent' = sent]_vars

(* master.ts, _runExchange: "FIFO mode: clear stale buffer state before    *)
(* this request": no request is answered by what was received before it    *)
(* was sent.                                                               *)
NoStaleResponse ==
  [][\A r \in Requests :
       calls'[r] > calls[r] /\ result'[r].kind = "response" => r \in seen]_vars
-----------------------------------------------------------------------------
(* What the caller and the device are promised.  A request in the session  *)
(* or among the broadcasts written and not over occupies the bus.          *)
Status(r) ==
  CASE calls[r] = 0 /\ r \in pending    -> "onBus"
    [] calls[r] = 0 /\ r \notin pending -> IF gate[r] = "new" THEN "idle" ELSE "asked"
    [] calls[r] = 1 /\ r \notin pending -> "answered"
    [] OTHER                            -> "broken"

Contract == INSTANCE MasterContract
              WITH status <- [r \in Requests |-> Status(r)], exclusive <- Queued
ImplementsContract == Contract!Spec
=============================================================================
