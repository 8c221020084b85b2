-------------------------- MODULE AccessAuthorizer --------------------------
(***************************************************************************)
(* runCheckAddress (src/utils/access-authorizer.ts) for a custom function  *)
(* code that declares its address ranges: the hook checkAddress is called  *)
(* for one range after the other in one turn, each call answers at once or *)
(* through a promise, and pendingChecks tells when all have answered.      *)
(* A function code of the standard has one range and counts nothing.       *)
(***************************************************************************)
EXTENDS Naturals, FiniteSets, Sequences

CONSTANTS
  MaxRanges,  \* bound on the ranges a request declares
  Hooks       \* may the hook answer at once? a subset of BOOLEAN

ASSUME AuthorizerAssumption == MaxRanges \in Nat /\ Hooks \subseteq BOOLEAN

VARIABLES
  count,          \* ranges declared, over all tables, read only
  atOnce,         \* the hook may answer without a promise, read only
  walked,         \* ranges the hook was called for
  returned,       \* runCheckAddress has returned
  promises,       \* ranges whose promise is unsettled
  rejected,       \* history: ranges the hook said no to
  pendingChecks,  \* pendingChecks
  denied,         \* denied
  calls           \* the calls of the callback

given == <<count, atOnce>>
vars == <<given, walked, returned, promises, rejected, pendingChecks, denied, calls>>

Verdicts == {"true", "false", "code"}
Ranges == 1..count

Init ==
  /\ count \in 0..MaxRanges /\ atOnce \in Hooks
  /\ walked = 0 /\ returned = FALSE
  /\ promises = {} /\ rejected = {}
  /\ pendingChecks = 0 /\ denied = FALSE
  /\ calls = <<>>
-----------------------------------------------------------------------------
(* Faults, each before the operator it breaks: a denial does not end the   *)
(* check; a code is no denial.                                             *)
CompleteAfterDenial(v, n) ==
  /\ pendingChecks' = n - 1
  /\ denied' = (v # "true")
  /\ calls' = IF v # "true" THEN Append(calls, v)
              ELSE IF n = 1 THEN Append(calls, "true") ELSE calls
CompleteDroppingCodes(v, n) ==
  \/ denied /\ pendingChecks' = n /\ UNCHANGED <<denied, calls>>
  \/ /\ ~denied /\ pendingChecks' = n - 1
     /\ denied' = (v = "false")
     /\ calls' = IF v = "false" THEN Append(calls, v)
                 ELSE IF n = 1 THEN Append(calls, "true") ELSE calls

(* onCheckComplete with verdict v when pendingChecks is n.                 *)
Complete(v, n) ==
  \/ denied /\ pendingChecks' = n /\ UNCHANGED <<denied, calls>>
  \/ /\ ~denied /\ pendingChecks' = n - 1
     /\ denied' = (v # "true")
     /\ calls' = IF v # "true" \/ n = 1 THEN Append(calls, v) ELSE calls

Reject(v, r) == rejected' = IF v = "true" THEN rejected ELSE rejected \cup {r}

(* The hook answers for the next range at once.                            *)
AskNow(v) ==
  /\ walked < count /\ atOnce
  /\ walked' = walked + 1
  /\ Reject(v, walked + 1)
  /\ Complete(v, pendingChecks + 1)
  /\ UNCHANGED <<given, returned, promises>>

(* The hook returns a promise for the next range.                          *)
AskLater ==
  /\ walked < count
  /\ walked' = walked + 1
  /\ promises' = promises \cup {walked + 1}
  /\ pendingChecks' = pendingChecks + 1
  /\ UNCHANGED <<given, returned, rejected, denied, calls>>

(* Fault: a request without ranges is forgotten.                           *)
ReturnSilently ==
  /\ walked = count /\ ~returned
  /\ returned' = TRUE
  /\ UNCHANGED <<given, walked, promises, rejected, pendingChecks, denied, calls>>

(* The loops are over: !hasChecks.                                         *)
Return ==
  /\ walked = count /\ ~returned
  /\ returned' = TRUE
  /\ calls' = IF count = 0 THEN Append(calls, "true") ELSE calls
  /\ UNCHANGED <<given, walked, promises, rejected, pendingChecks, denied>>

(* The promise for a range is fulfilled, in a later turn.                  *)
Settle(r, v) ==
  /\ returned /\ r \in promises
  /\ promises' = promises \ {r}
  /\ Reject(v, r)
  /\ Complete(v, pendingChecks)
  /\ UNCHANGED <<given, walked, returned>>

(* Every range has been answered for.                                      *)
Rest == returned /\ promises = {} /\ UNCHANGED vars

Next ==
  \/ \E v \in Verdicts : AskNow(v) \/ \E r \in 1..MaxRanges : Settle(r, v)
  \/ AskLater \/ Return
  \/ Rest

Spec == Init /\ [][Next]_vars

(* The loops run to their end, and the promises of the hook are settled.   *)
Fairness ==
  /\ WF_vars(AskLater \/ \E v \in Verdicts : AskNow(v))
  /\ WF_vars(Return)
  /\ \A r \in 1..MaxRanges : WF_vars(\E v \in Verdicts : Settle(r, v))
FairSpec == Spec /\ Fairness
-----------------------------------------------------------------------------
(* Every variable holds a value of its type.                               *)
TypeOK ==
  /\ count \in 0..MaxRanges /\ atOnce \in BOOLEAN
  /\ walked \in 0..count /\ returned \in BOOLEAN
  /\ promises \subseteq 1..walked /\ rejected \subseteq 1..walked
  /\ pendingChecks \in Nat /\ denied \in BOOLEAN
  /\ calls \in Seq(Verdicts)

Granted == \E i \in 1..Len(calls) : calls[i] = "true"

(* The counter never comes down to zero early when every check is counted  *)
(* before the first verdict.                                               *)
Counted == ~atOnce \/ count <= 1

(* The callback, which sends or dispatches the request, is called at most  *)
(* once in whatever order the promises are settled.                        *)
OneVerdict == Counted => Len(calls) <= 1

(* A request is let through when the hook has allowed every range.         *)
GrantedWhenAllAllowed ==
  Counted /\ Granted => walked = count /\ promises = {} /\ rejected = {}

(* access-authorizer.test.ts: "denies custom FC when any range is          *)
(* rejected", also by a hook that answers at once.                         *)
DeniesWhenAnyRejected == Granted => rejected = {}

(* No check is forgotten: the count comes down to zero or a denial ends it.*)
EveryCheckAnswered == <>(calls # <<>>)
=============================================================================
