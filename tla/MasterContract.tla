--------------------------- MODULE MasterContract ---------------------------
(***************************************************************************)
(* What a ModbusMaster promises, without queues, hooks, keys or timers.    *)
(* To the caller: a request is answered exactly once, and only after it    *)
(* was made.  To the bus: a request is sent at most once, never after its  *)
(* answer, and, unless the master is concurrent, never while another one   *)
(* is on the bus.  One turn may take several requests further: a framing   *)
(* error or destroy() answers all that it finds.                           *)
(***************************************************************************)
CONSTANT Requests
VARIABLES status,    \* where each request is
          exclusive  \* one request at a time on the bus; never changes

Statuses == {"idle", "asked", "onBus", "answered"}

(* From idle straight to the bus or to the answer when no hook, no queue   *)
(* and no transport defers the request.                                    *)
Onward == [idle     |-> Statuses,
           asked    |-> {"asked", "onBus", "answered"},
           onBus    |-> {"onBus", "answered"},
           answered |-> {"answered"}]

Exclusion == exclusive => \A r, q \in Requests :
                            status[r] = "onBus" /\ status[q] = "onBus" => r = q

Init ==
  /\ exclusive \in BOOLEAN
  /\ status = [r \in Requests |-> "idle"]

Next ==
  /\ \A r \in Requests : status'[r] \in Onward[status[r]]
  /\ status' \in [Requests -> Statuses]
  /\ Exclusion'
  /\ UNCHANGED exclusive

Spec == Init /\ [][Next]_<<status, exclusive>>
=============================================================================
