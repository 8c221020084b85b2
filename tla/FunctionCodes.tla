--------------------------- MODULE FunctionCodes ---------------------------
(***************************************************************************)
(* One request through the function codes: the methods of ModbusMaster     *)
(* that encode it and check and decode its answer, and the handlers of     *)
(* ModbusSlave that check it, call the unit's model and encode the answer. *)
(* A PDU is a sequence of bytes, the framing between the two is left out.  *)
(* The other side may also be a foreign device: a request or a response    *)
(* may come tampered with.                                                 *)
(***************************************************************************)
EXTENDS Integers, Sequences

CONSTANTS
  Requests,     \* what is asked for: records with fc and its arguments
  Lists,        \* what the model may answer to a read: lists of numbers
  ServerIds,    \* answers of reportServerId: [sid, run, extra]
  CustomCode,   \* a function code registered on both sides
  Nothing       \* no value

Standard == {1, 2, 3, 4, 5, 6, 8, 15, 16, 17, 22, 23}

(* Arguments are natural numbers and lists of them, of any size.  A custom *)
(* code is none the slave dispatches itself, 43 among them, and leaves the *)
(* bit of an exception alone.                                              *)
ASSUME FunctionCodesAssumption ==
  /\ CustomCode \in (0..127) \ (Standard \cup {43})
  /\ Lists \subseteq Seq(Nat)
  /\ ServerIds \subseteq [sid : Seq(Nat) \cup {Nothing}, run : BOOLEAN, extra : Seq(Nat)]
  /\ \A r \in Requests :
       /\ r.fc \in Standard \cup {CustomCode}
       /\ r.fc \notin {8, 17, CustomCode} => r.address \in Nat
       /\ r.fc \in {1, 2, 3, 4, 23} => r.length \in Nat
       /\ r.fc \in {5, 6, 8} => r.value \in Nat
       /\ r.fc \in {15, 16, 23, CustomCode} => r.values \in Seq(Nat)
       /\ r.fc = 17 => r.idLength \in Nat
       /\ r.fc = 22 => r.andMask \in Nat /\ r.orMask \in Nat
       /\ r.fc = 23 => r.writeAddress \in Nat

VARIABLES
  fcStage,    \* ask, sent, called, answered or over
  fcReq,      \* the request
  fcUnit,     \* its unit, 0 for a broadcast
  fcSent,     \* the PDU on the wire, without its function code
  fcOwn,      \* the PDU is the master's own
  fcCall,     \* the handler called, with its arguments, or Refuse
  fcAnswer,   \* what the handler answered
  fcFrame,    \* the response: unit, fc and data
  fcTampered, \* the response is not the slave's own
  fcOutcome   \* how the promise is settled

fcVars == <<fcStage, fcReq, fcUnit, fcSent, fcOwn, fcCall, fcAnswer, fcFrame, fcTampered, fcOutcome>>

ILLEGAL_FUNCTION == 1
ILLEGAL_DATA_VALUE == 3
SERVER_DEVICE_FAILURE == 4

(* How many coils and registers a request may read and write.              *)
READ_COILS_MAX == 2000
WRITE_COILS_MAX == 1968
READ_REGISTERS_MAX == 125
WRITE_REGISTERS_MAX == 123
RW_REGISTERS_WRITE_MAX == 121

(* Numbers on the wire: 16 bits, the high byte first; coils eight a byte.  *)
Wire(n) == n % 65536
Word(n) == <<(n \div 256) % 256, n % 256>>
Words(vs) == [i \in 1..(2 * Len(vs)) |-> Word(vs[(i + 1) \div 2])[2 - (i % 2)]]
WordAt(d, i) == d[i] * 256 + d[i + 1]
WordsAt(d, i, n) == [k \in 1..n |-> WordAt(d, i + 2 * (k - 1))]
BytesFor(n) == (n + 7) \div 8
Bit(cs, i) == IF i <= Len(cs) THEN cs[i] % 2 ELSE 0
Packed(cs, n) == [b \in 1..BytesFor(n) |->
  LET at(k) == IF 8 * b - 8 + k <= n THEN Bit(cs, 8 * b - 8 + k) ELSE 0
  IN at(1) + 2 * at(2) + 4 * at(3) + 8 * at(4) + 16 * at(5) + 32 * at(6) + 64 * at(7) + 128 * at(8)]
Unpacked(d, i, n) == [k \in 1..n |-> (d[i + ((k - 1) \div 8)] \div (2 ^ ((k - 1) % 8))) % 2]

(* What a handler leaves out is zero.                                      *)
Padded(vs, n) == [i \in 1..n |-> IF i <= Len(vs) THEN vs[i] ELSE 0]
-----------------------------------------------------------------------------
(* The methods of the master: the PDU each sends and the response it takes.*)
(* A response counts bytes, echoes some of the request or has a form of    *)
(* its own.                                                                *)
Counted(pdu, n) == [pdu |-> pdu, takes |-> "bytes", size |-> n, echo |-> <<>>]
Echoed(pdu, e) == [pdu |-> pdu, takes |-> "echo", size |-> 0, echo |-> e]

writeFC1Or2(r) == Counted(Word(r.address) \o Word(r.length), BytesFor(r.length))
writeFC3Or4(r) == Counted(Word(r.address) \o Word(r.length), 2 * r.length)
writeSingleCoil(r) ==
  LET pdu == Word(r.address) \o (IF r.value = 0 THEN <<0, 0>> ELSE <<255, 0>>) IN Echoed(pdu, pdu)
writeSingleRegister(r) == LET pdu == Word(r.address) \o Word(r.value) IN Echoed(pdu, pdu)
diagnosticsReturnQueryData(r) == LET pdu == <<0, 0>> \o Word(r.value) IN Echoed(pdu, pdu)
writeMultipleCoils(r) ==
  LET n == Len(r.values)
      head == Word(r.address) \o Word(n)
  IN Echoed(head \o <<BytesFor(n) % 256>> \o Packed(r.values, n), head)
writeMultipleRegisters(r) ==
  LET head == Word(r.address) \o Word(Len(r.values))
  IN Echoed(head \o <<(2 * Len(r.values)) % 256>> \o Words(r.values), head)
reportServerId(r) == [pdu |-> <<>>, takes |-> "id", size |-> r.idLength, echo |-> <<>>]
maskWriteRegister(r) ==
  LET pdu == Word(r.address) \o Word(r.andMask) \o Word(r.orMask) IN Echoed(pdu, pdu)
readAndWriteMultipleRegisters(r) ==
  Counted(Word(r.address) \o Word(r.length) \o Word(r.writeAddress) \o Word(Len(r.values))
          \o <<(2 * Len(r.values)) % 256>> \o Words(r.values), 2 * r.length)
sendCustomFC(r) == [pdu |-> Words(r.values), takes |-> "any", size |-> 0, echo |-> <<>>]

Method(r) ==
  CASE r.fc \in {1, 2} -> writeFC1Or2(r)
    [] r.fc \in {3, 4} -> writeFC3Or4(r)
    [] r.fc = 5 -> writeSingleCoil(r)
    [] r.fc = 6 -> writeSingleRegister(r)
    [] r.fc = 8 -> diagnosticsReturnQueryData(r)
    [] r.fc = 15 -> writeMultipleCoils(r)
    [] r.fc = 16 -> writeMultipleRegisters(r)
    [] r.fc = 17 -> reportServerId(r)
    [] r.fc = 22 -> maskWriteRegister(r)
    [] r.fc = 23 -> readAndWriteMultipleRegisters(r)
    [] OTHER -> sendCustomFC(r)
-----------------------------------------------------------------------------
(* The handlers of the slave: refuse the PDU, or call the model with       *)
(* arguments; reply says how its answer is encoded.                        *)
Refuse == [ok |-> FALSE]
Call(handler, args, reply) == [ok |-> TRUE, handler |-> handler, args |-> args, reply |-> reply]

handleRead(d, handler, max, reply) ==
  IF Len(d) = 4 /\ WordAt(d, 3) \in 1..max
  THEN Call(handler, <<WordAt(d, 1), WordAt(d, 3)>>, reply) ELSE Refuse
handleFC1(d) == handleRead(d, "readCoils", READ_COILS_MAX, "bits")
handleFC2(d) == handleRead(d, "readDiscreteInputs", READ_COILS_MAX, "bits")
handleFC3(d) == handleRead(d, "readHoldingRegisters", READ_REGISTERS_MAX, "words")
handleFC4(d) == handleRead(d, "readInputRegisters", READ_REGISTERS_MAX, "words")
handleFC5(d) ==
  IF Len(d) = 4 /\ WordAt(d, 3) \in {0, 65280}
  THEN Call("writeSingleCoil", <<WordAt(d, 1), IF WordAt(d, 3) = 0 THEN 0 ELSE 1>>, "echo") ELSE Refuse
handleFC6(d) ==
  IF Len(d) = 4 THEN Call("writeSingleRegister", <<WordAt(d, 1), WordAt(d, 3)>>, "echo") ELSE Refuse
handleFC8(d) ==
  IF Len(d) = 4 /\ WordAt(d, 1) = 0
  THEN Call("diagnosticsReturnQueryData", <<WordAt(d, 3)>>, "echo") ELSE Refuse

(* Fault: the limit of a read.                                             *)
handleFC15Long(d) ==
  IF Len(d) > 5 /\ Len(d) = 5 + d[5] /\ WordAt(d, 3) \in 1..READ_COILS_MAX /\ d[5] = BytesFor(WordAt(d, 3))
  THEN Call("writeMultipleCoils", <<WordAt(d, 1), Unpacked(d, 6, WordAt(d, 3))>>, "head") ELSE Refuse
handleFC15(d) ==
  IF Len(d) > 5 /\ Len(d) = 5 + d[5] /\ WordAt(d, 3) \in 1..WRITE_COILS_MAX /\ d[5] = BytesFor(WordAt(d, 3))
  THEN Call("writeMultipleCoils", <<WordAt(d, 1), Unpacked(d, 6, WordAt(d, 3))>>, "head") ELSE Refuse
handleFC16(d) ==
  IF Len(d) > 5 /\ Len(d) = 5 + d[5] /\ WordAt(d, 3) \in 1..WRITE_REGISTERS_MAX /\ d[5] = 2 * WordAt(d, 3)
  THEN Call("writeMultipleRegisters", <<WordAt(d, 1), WordsAt(d, 6, WordAt(d, 3))>>, "head") ELSE Refuse
handleFC17(d) == IF d = <<>> THEN Call("reportServerId", <<>>, "id") ELSE Refuse
handleFC22(d) ==
  IF Len(d) = 6 THEN Call("maskWriteRegister", WordsAt(d, 1, 3), "echo") ELSE Refuse
(* The model first writes, then reads.                                     *)
handleFC23(d) ==
  IF /\ Len(d) > 9 /\ Len(d) = 9 + d[9] /\ WordAt(d, 3) \in 1..READ_REGISTERS_MAX
     /\ WordAt(d, 7) \in 1..RW_REGISTERS_WRITE_MAX /\ d[9] = 2 * WordAt(d, 7)
  THEN Call("writeThenRead", <<WordAt(d, 1), WordAt(d, 3), WordAt(d, 5), WordsAt(d, 10, WordAt(d, 7))>>, "words")
  ELSE Refuse
cfcResponse(d) == Call("custom", d, "custom")

handleFC(fc, d) ==
  CASE fc = 1 -> handleFC1(d) [] fc = 2 -> handleFC2(d) [] fc = 3 -> handleFC3(d)
    [] fc = 4 -> handleFC4(d) [] fc = 5 -> handleFC5(d) [] fc = 6 -> handleFC6(d)
    [] fc = 8 -> handleFC8(d) [] fc = 15 -> handleFC15(d) [] fc = 16 -> handleFC16(d)
    [] fc = 17 -> handleFC17(d) [] fc = 22 -> handleFC22(d) [] fc = 23 -> handleFC23(d)
    [] OTHER -> cfcResponse(d)

Exception(code) == [unit |-> fcUnit, fc |-> fcReq.fc + 128, data |-> <<code>>]
Response(data) == [unit |-> fcUnit, fc |-> fcReq.fc, data |-> data]

(* The bytes of a server id, of the unit when the model gives none.        *)
ServerIdBytes(a) ==
  LET sid == IF a.sid = Nothing THEN <<fcUnit>> ELSE a.sid
  IN sid \o <<IF a.run THEN 255 ELSE 0>> \o a.extra

(* The response that encodes an answer of the model.                       *)
Reply(a) ==
  CASE fcCall.reply = "bits" -> Response(<<BytesFor(fcCall.args[2])>> \o Packed(a, fcCall.args[2]))
    [] fcCall.reply = "words" ->
         Response(<<2 * fcCall.args[2]>> \o Words(Padded(a, fcCall.args[2])))
    [] fcCall.reply = "echo" -> Response(fcSent)
    [] fcCall.reply = "head" -> Response(SubSeq(fcSent, 1, 4))
    [] fcCall.reply = "id" ->
         IF Len(ServerIdBytes(a)) > 251 THEN Exception(SERVER_DEVICE_FAILURE)
         ELSE Response(<<Len(ServerIdBytes(a))>> \o ServerIdBytes(a))
    [] OTHER -> Response(a)
-----------------------------------------------------------------------------
(* The master looks at a response.                                         *)
detectException(f) == f.unit = fcUnit /\ f.fc = fcReq.fc + 128
validateResponse(f) == f.unit = fcUnit /\ f.fc = fcReq.fc

validateByteCountResponse(f, n) ==
  validateResponse(f) /\ Len(f.data) = 1 + n /\ f.data[1] = n
(* Fault: only the length of an echo counts.                               *)
validateEchoLength(f, e) == validateResponse(f) /\ Len(f.data) = Len(e)
validateEchoResponse(f, e) == validateResponse(f) /\ f.data = e

Conforms(f) ==
  LET m == Method(fcReq)
  IN CASE m.takes = "bytes" -> validateByteCountResponse(f, m.size)
       [] m.takes = "echo" -> validateEchoResponse(f, m.echo)
       [] m.takes = "id" -> /\ validateResponse(f) /\ Len(f.data) >= 2 + m.size
                            /\ Len(f.data) = 1 + f.data[1]
       [] OTHER -> validateResponse(f)

Decoded(f) ==
  CASE fcReq.fc \in {1, 2} -> Unpacked(f.data, 2, fcReq.length)
    [] fcReq.fc \in {3, 4, 23} -> WordsAt(f.data, 2, fcReq.length)
    [] fcReq.fc \in {5, 6, 8} -> fcReq.value
    [] fcReq.fc \in {15, 16} -> fcReq.values
    [] fcReq.fc = 17 -> LET s == fcReq.idLength + 1 IN
         [sid |-> SubSeq(f.data, 2, s), run |-> f.data[s + 1] = 255,
          extra |-> SubSeq(f.data, s + 2, Len(f.data))]
    [] fcReq.fc = 22 -> <<fcReq.andMask, fcReq.orMask>>
    [] OTHER -> f.data

Settled(f) ==
  IF detectException(f)
  THEN [kind |-> "rejected", with |-> IF f.data = <<>> THEN Nothing ELSE f.data[1]]
  ELSE IF Conforms(f) THEN [kind |-> "resolved", with |-> Decoded(f)]
  ELSE [kind |-> "rejected", with |-> Nothing]
-----------------------------------------------------------------------------
FcInit ==
  /\ fcStage = "ask" /\ fcReq = Nothing /\ fcUnit = 0 /\ fcSent = <<>> /\ fcOwn = TRUE
  /\ fcCall = Refuse /\ fcAnswer = Nothing /\ fcFrame = Nothing
  /\ fcTampered = FALSE /\ fcOutcome = Nothing

(* Bytes as another device, or a line without checksum, may give them.     *)
Spoilt(d) ==
  {Append(d, 0)} \cup (IF d = <<>> THEN {} ELSE
    {SubSeq(d, 1, Len(d) - 1)} \cup {[d EXCEPT ![i] = (@ + 1) % 256] : i \in DOMAIN d \cap {1, 3, 5, 9}})

(* The method is called; a broadcast is settled once it is written.        *)
Ask(r, u) ==
  /\ fcStage = "ask" /\ fcStage' = "sent"
  /\ fcReq' = r /\ fcUnit' = u /\ fcSent' = Method(r).pdu
  /\ fcOutcome' = IF u = 0 THEN [kind |-> "resolved", with |-> Nothing] ELSE Nothing
  /\ UNCHANGED <<fcOwn, fcCall, fcAnswer, fcFrame, fcTampered>>

(* Another master's PDU reaches the slave.                                 *)
ForeignRequest(r) ==
  /\ fcStage = "ask" /\ fcStage' = "sent"
  /\ fcReq' = r /\ fcUnit' = 1 /\ fcOwn' = FALSE
  /\ fcSent' \in Spoilt(Method(r).pdu)
  /\ UNCHANGED <<fcCall, fcAnswer, fcFrame, fcTampered, fcOutcome>>

(* The slave checks the PDU, then whether the unit's model has a handler.  *)
Dispatch(present) ==
  /\ fcStage = "sent"
  /\ LET h == handleFC(fcReq.fc, fcSent) IN
     \/ /\ ~h.ok /\ fcFrame' = Exception(ILLEGAL_DATA_VALUE)
        /\ fcStage' = "answered" /\ UNCHANGED fcCall
     \/ /\ h.ok /\ ~present /\ fcFrame' = Exception(ILLEGAL_FUNCTION)
        /\ fcStage' = "answered" /\ UNCHANGED fcCall
     \/ /\ h.ok /\ present /\ fcCall' = h
        /\ fcStage' = "called" /\ UNCHANGED fcFrame
  /\ UNCHANGED <<fcReq, fcUnit, fcSent, fcOwn, fcAnswer, fcTampered, fcOutcome>>

(* What the model may answer: a list may be shorter or longer than asked,  *)
(* and its numbers wider than their place on the wire.                     *)
Answers(c) ==
  CASE c.reply \in {"bits", "words"} -> Lists
    [] c.reply = "id" -> ServerIds
    [] c.reply = "custom" -> {[i \in DOMAIN a |-> a[i] % 256] : a \in Lists}
    [] OTHER -> {Nothing}

ModelFails ==
  /\ fcStage = "called" /\ fcStage' = "answered" /\ fcFrame' = Exception(2)
  /\ UNCHANGED <<fcReq, fcUnit, fcSent, fcOwn, fcCall, fcAnswer, fcTampered, fcOutcome>>
ModelAnswers ==
  /\ fcStage = "called" /\ fcStage' = "answered"
  /\ \E a \in Answers(fcCall) : fcAnswer' = a /\ fcFrame' = Reply(a)
  /\ UNCHANGED <<fcReq, fcUnit, fcSent, fcOwn, fcCall, fcTampered, fcOutcome>>

(* Responses that answer another request: of another unit or function,     *)
(* another echo, or as many bytes as were not asked for.                   *)
Forged(f) ==
  {[f EXCEPT !.data = d] : d \in {e \in Spoilt(f.data) :
      Method(fcReq).takes = "echo" \/ Len(e) # Len(f.data) \/ e[1] # f.data[1]}}
    \cup {[f EXCEPT !.unit = @ + 1], [f EXCEPT !.fc = @ + 1], [f EXCEPT !.fc = fcReq.fc + 128, !.data = <<>>]}

(* A response reaches the master, which waits for none to a broadcast.     *)
Answered(forge) ==
  /\ fcStage = "answered" /\ fcOwn /\ fcUnit # 0 /\ fcStage' = "over"
  /\ fcTampered' = forge
  /\ \E f \in IF forge THEN Forged(fcFrame) ELSE {fcFrame} : fcOutcome' = Settled(f)
  /\ UNCHANGED <<fcReq, fcUnit, fcSent, fcOwn, fcCall, fcAnswer, fcFrame>>

FcNext ==
  \/ \E r \in Requests : ForeignRequest(r) \/ \E u \in {0, 1} : Ask(r, u)
  \/ \E b \in BOOLEAN : Dispatch(b) \/ Answered(b)
  \/ ModelFails \/ ModelAnswers
FcSpec == FcInit /\ [][FcNext]_fcVars
-----------------------------------------------------------------------------
(* What a request asks of the model, and the limits of the protocol.       *)
Handlers == [fc \in 1..4 |->
  <<"readCoils", "readDiscreteInputs", "readHoldingRegisters", "readInputRegisters">>[fc]]
Meant(r) ==
  CASE r.fc \in 1..4 -> <<Handlers[r.fc], <<Wire(r.address), Wire(r.length)>> >>
    [] r.fc = 5 -> <<"writeSingleCoil", <<Wire(r.address), IF r.value = 0 THEN 0 ELSE 1>> >>
    [] r.fc = 6 -> <<"writeSingleRegister", <<Wire(r.address), Wire(r.value)>> >>
    [] r.fc = 8 -> <<"diagnosticsReturnQueryData", <<Wire(r.value)>> >>
    [] r.fc = 15 -> <<"writeMultipleCoils", <<Wire(r.address), [i \in DOMAIN r.values |-> r.values[i] % 2]>> >>
    [] r.fc = 16 -> <<"writeMultipleRegisters", <<Wire(r.address), [i \in DOMAIN r.values |-> Wire(r.values[i])]>> >>
    [] r.fc = 17 -> <<"reportServerId", <<>> >>
    [] r.fc = 22 -> <<"maskWriteRegister", <<Wire(r.address), Wire(r.andMask), Wire(r.orMask)>> >>
    [] r.fc = 23 -> <<"writeThenRead", <<Wire(r.address), Wire(r.length), Wire(r.writeAddress),
                                         [i \in DOMAIN r.values |-> Wire(r.values[i])]>> >>
    [] OTHER -> <<"custom", Words(r.values)>>
InLimits(handler, args) ==
  /\ handler \in {"readCoils", "readDiscreteInputs"} => args[2] \in 1..READ_COILS_MAX
  /\ handler \in {"readHoldingRegisters", "readInputRegisters"} => args[2] \in 1..READ_REGISTERS_MAX
  /\ handler = "writeMultipleCoils" => Len(args[2]) \in 1..WRITE_COILS_MAX
  /\ handler = "writeMultipleRegisters" => Len(args[2]) \in 1..WRITE_REGISTERS_MAX
  /\ handler = "writeThenRead" => args[2] \in 1..READ_REGISTERS_MAX /\ Len(args[4]) \in 1..RW_REGISTERS_WRITE_MAX

(* Whatever arrives, a handler of the model is called within the limits of *)
(* the protocol; and for a request of this master exactly with what it     *)
(* asked, in 16 bits, if that is within them, and not at all otherwise.    *)
HandlerGetsRequest ==
  fcStage \in {"called", "answered", "over"} =>
    LET m == Meant(fcReq)
    IN /\ fcCall.ok => InLimits(fcCall.handler, fcCall.args)
       /\ fcOwn => IF fcCall.ok THEN <<fcCall.handler, fcCall.args>> = m
                   ELSE fcFrame = Exception(IF InLimits(m[1], m[2]) THEN ILLEGAL_FUNCTION
                                                                    ELSE ILLEGAL_DATA_VALUE)

(* What the caller is owed for an answer of the model: as much as it asked *)
(* for of a read, each coil a bit, each register 16, and zero where the    *)
(* model gave none; its own values for a write.                            *)
Owed(a) ==
  CASE fcReq.fc \in {1, 2} -> [i \in 1..fcReq.length |-> IF i <= Len(a) THEN a[i] % 2 ELSE 0]
    [] fcReq.fc \in {3, 4, 23} -> [i \in 1..fcReq.length |-> IF i <= Len(a) THEN Wire(a[i]) ELSE 0]
    [] fcReq.fc \in {5, 6, 8} -> fcReq.value
    [] fcReq.fc \in {15, 16} -> fcReq.values
    [] fcReq.fc = 22 -> <<fcReq.andMask, fcReq.orMask>>
    [] OTHER -> a

(* The promise of a request resolves with the model's answer, rejects with *)
(* the exception that the slave sent, and rejects every response that is   *)
(* not one to this request.  A length above 16 bits asks for what the      *)
(* caller did not mean, and rejects as well; the server id is told from    *)
(* the rest by its length, which the caller has to know.                   *)
ResolvesWithAnswer ==
  (fcStage = "over") =>
    IF fcTampered THEN fcReq.fc # CustomCode => fcOutcome.kind = "rejected"
    ELSE IF fcFrame.fc # fcReq.fc THEN fcOutcome = [kind |-> "rejected", with |-> fcFrame.data[1]]
    ELSE IF fcReq.fc \in {1, 2, 3, 4, 23} /\ fcReq.length > 65535 THEN fcOutcome.kind = "rejected"
    ELSE (fcReq.fc = 17 => fcAnswer.sid # Nothing /\ Len(fcAnswer.sid) = fcReq.idLength)
           => fcOutcome = [kind |-> "resolved", with |-> Owed(fcAnswer)]
=============================================================================
