------------------------ MODULE DeviceIdentification ------------------------
(***************************************************************************)
(* FC 43/14 of both sides: a caller of readDeviceIdentification walks the  *)
(* identification table of a unit fragment by fragment, asking again from  *)
(* nextObjectId while moreFollows, as master.ts tells it to.  The slave    *)
(* packs as many objects as one PDU holds, the master reads the bytes back *)
(* into objects.  Of an object its id and its length matter; a table maps  *)
(* ids to lengths, and what its model leaves out is not in it.             *)
(***************************************************************************)
EXTENDS Integers, Sequences, FiniteSets

CONSTANTS
  Tables,   \* what the unit's model answers: functions from ids to lengths
  Codes,    \* read device ID codes asked for
  Starts    \* object ids asked for first

ASSUME IdentificationAssumption ==
  /\ \A t \in Tables : DOMAIN t \subseteq Nat /\ \A i \in DOMAIN t : t[i] \in Nat
  /\ Codes \subseteq Nat /\ Starts \subseteq Nat

VARIABLES
  diStage,   \* ask, sent, answered, next or over
  diTable,   \* the table of the unit
  diCode,    \* the category asked for
  diStart,   \* the object id first asked for
  diAsk,     \* the object id of this request
  diFrame,   \* the response: error, code, level, more, next, count and body
  diGot,     \* the objects received so far, in order
  diOk       \* no request of the walk was rejected

diVars == <<diStage, diTable, diCode, diStart, diAsk, diFrame, diGot, diOk>>

BASIC_STREAM == 1
REGULAR_STREAM == 2
EXTENDED_STREAM == 3
SPECIFIC_ACCESS == 4
Reserved == 7..127
-----------------------------------------------------------------------------
(* The slave.  An object id out of its category begins at the first one.   *)
FirstId(code, id) ==
  IF \/ code = BASIC_STREAM /\ id > 2
     \/ code = REGULAR_STREAM /\ id > 6
     \/ code = EXTENDED_STREAM /\ id \in Reserved
  THEN 0 ELSE id

(* The mandatory objects a model leaves out are 'null'.                    *)
Objects(table) == [id \in DOMAIN table \cup 0..2 |-> IF id \in DOMAIN table THEN table[id] ELSE 4]

Category(code) ==
  CASE code = BASIC_STREAM -> 0..2 [] code = REGULAR_STREAM -> 0..6 [] OTHER -> 0..255
Wanted(table, code, id) ==
  LET first == IF id \in DOMAIN Objects(table) THEN id ELSE 0
  IN IF code = SPECIFIC_ACCESS THEN {id}
     ELSE {i \in DOMAIN Objects(table) : i >= first /\ i \in Category(code)}

Ascending(S) ==
  [k \in 1..Cardinality(S) |-> CHOOSE x \in S : Cardinality({y \in S : y <= x}) = k]

(* The objects ids of t on the wire, and the bytes they take: each an id,  *)
(* a length and its value.                                                 *)
Body(t, ids) == [i \in 1..Len(ids) |-> <<ids[i], t[ids[i]]>>]
Bytes(body) ==
  LET upTo[i \in 0..Len(body)] == IF i = 0 THEN 0 ELSE upTo[i - 1] + 2 + body[i][2]
  IN upTo[Len(body)]

(* How many of the objects fit into a PDU of 253 bytes after 7: the first  *)
(* that does not ends the fragment.                                        *)
Fitting(t, ids) ==
  LET fits == {n \in 0..Len(ids) : 7 + Bytes(Body(t, SubSeq(ids, 1, n))) <= 253}
  IN CHOOSE n \in fits : \A m \in fits : m <= n

(* Fault: the next fragment begins at the last object of this one.         *)
LastOf(ids, n) == IF n < Len(ids) THEN ids[n] ELSE 0
(* Where the next fragment begins, 0 for none.                             *)
NextOf(ids, n) == IF n < Len(ids) THEN ids[n + 1] ELSE 0

ConformityLevel(ids) ==
  IF \E i \in ids : i >= 128 THEN EXTENDED_STREAM
  ELSE IF \E i \in ids : i > 2 THEN REGULAR_STREAM ELSE BASIC_STREAM

Refused(e) == [error |-> e, code |-> 0, level |-> 0, more |-> FALSE, next |-> 0, count |-> 0, body |-> <<>>]

handleFC43_14(table, code, asked) ==
  LET id == FirstId(code, asked)
      t == Objects(table)
      ids == Ascending(Wanted(table, code, id))
      n == Fitting(t, ids)
  IN IF code \notin 1..4 THEN Refused(3)
     ELSE IF code = SPECIFIC_ACCESS /\ id \in Reserved THEN Refused(2)
     ELSE IF ~(DOMAIN table \subseteq 0..255 \ Reserved) THEN Refused(4)
     ELSE IF code = SPECIFIC_ACCESS /\ id \notin DOMAIN t THEN Refused(2)
     ELSE IF \E i \in Wanted(table, code, id) : t[i] > 244 THEN Refused(4)
     ELSE [error |-> 0, code |-> code, level |-> ConformityLevel(DOMAIN t),
           more |-> n < Len(ids), next |-> NextOf(ids, n), count |-> n,
           body |-> Body(t, SubSeq(ids, 1, n))]
-----------------------------------------------------------------------------
(* The master takes an object byte by byte: its id, its length, its first  *)
(* byte and the others.  Only another byte than the first completes it: an *)
(* object of one byte or none takes in all that follows.                   *)
Parsed(body) ==
  LET whole == {n \in 0..Len(body) : \A i \in 1..n : body[i][2] >= 2}
  IN SubSeq(body, 1, CHOOSE n \in whole : \A m \in whole : m <= n)

readDeviceIdentification(f) ==
  LET objects == Parsed(f.body)
  IN IF /\ f.error = 0 /\ f.code = diCode
        /\ Len(objects) = f.count /\ Bytes(f.body) = Bytes(objects)
     THEN [ok |-> TRUE, objects |-> objects, moreFollows |-> f.more, nextObjectId |-> f.next]
     ELSE [ok |-> FALSE]
-----------------------------------------------------------------------------
DiInit ==
  /\ diStage = "ask" /\ diTable = <<>> /\ diCode = 0 /\ diStart = 0 /\ diAsk = 0
  /\ diFrame = Refused(0) /\ diGot = <<>> /\ diOk = TRUE

Begin ==
  /\ diStage = "ask" /\ diStage' = "sent"
  /\ diTable' \in Tables /\ diCode' \in Codes /\ diStart' \in Starts /\ diAsk' = diStart'
  /\ UNCHANGED <<diFrame, diGot, diOk>>

(* The slave answers, without the function, with the model's error or with *)
(* objects.                                                                *)
Serve ==
  /\ diStage = "sent" /\ diStage' = "answered"
  /\ diFrame' \in {handleFC43_14(diTable, diCode, diAsk), Refused(1), Refused(6)}
  /\ UNCHANGED <<diTable, diCode, diStart, diAsk, diGot, diOk>>

(* The promise settles, and the caller is done or asks for what follows.   *)
Settle ==
  /\ diStage = "answered"
  /\ LET r == readDeviceIdentification(diFrame) IN
     IF ~r.ok THEN diOk' = FALSE /\ diStage' = "over" /\ UNCHANGED <<diGot, diAsk>>
     ELSE /\ diGot' = diGot \o r.objects
          /\ diStage' = IF r.moreFollows THEN "next" ELSE "over"
          /\ diAsk' = IF r.moreFollows THEN r.nextObjectId ELSE diAsk
          /\ UNCHANGED diOk
  /\ UNCHANGED <<diTable, diCode, diStart, diFrame>>

AskNext ==
  /\ diStage = "next" /\ diStage' = "sent"
  /\ UNCHANGED <<diTable, diCode, diStart, diAsk, diFrame, diGot, diOk>>

DiNext == Begin \/ Serve \/ Settle \/ AskNext
DiSpec == DiInit /\ [][DiNext]_diVars
-----------------------------------------------------------------------------
(* What a walk is for: the objects of the category from the one asked for, *)
(* or from the first if there is none there.                               *)
Sought ==
  LET t == Objects(diTable)
      all == DOMAIN t \cap (IF diCode = SPECIFIC_ACCESS THEN {diStart} ELSE Category(diCode))
  IN IF diStart \in all THEN {i \in all : i >= diStart} ELSE all

(* The handler and its caller together finish every walk, with every       *)
(* object sought once and in order, and every response within one PDU,     *)
(* whatever the lengths, if the table holds no reserved id, each object    *)
(* has 2 to 244 bytes and the model answers: each fragment brings objects, *)
(* the next begins after the last of them, and the last one ends the walk. *)
WalkCompletes ==
  LET sought == [i \in DOMAIN Ascending(Sought) |->
                   <<Ascending(Sought)[i], Objects(diTable)[Ascending(Sought)[i]]>>]
      n == Len(diGot)
  IN /\ 7 + Bytes(diFrame.body) <= 253
     /\ diGot # <<>> => diGot = SubSeq(sought, 1, n)
     /\ diStage = "next" => n \in 1..(Len(sought) - 1) /\ diAsk = sought[n + 1][1]
     /\ diStage = "over" =>
          IF diOk THEN n = Len(sought)
          ELSE \/ diFrame.error \in {1, 6} \/ sought = <<>> \/ diCode \notin 1..4
               \/ ~(DOMAIN diTable \subseteq 0..255 \ Reserved)
               \/ \E i \in DOMAIN diTable : diTable[i] \notin 2..244
=============================================================================
