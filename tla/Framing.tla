------------------------------ MODULE Framing ------------------------------
(***************************************************************************)
(* The protocol layers of src/layers/protocol: a line carries encoded      *)
(* frames and noise, the transport hands it to decode() in chunks of any   *)
(* size, and the layer finds the frames.  What a layer keeps of its input  *)
(* is always the end of it, so buffers are counts of bytes; a frame found  *)
(* is its first and last position on the line.  The CRC of RTU is ideal:   *)
(* exactly what was sent as a frame passes it.                             *)
(***************************************************************************)
EXTENDS Integers, Sequences

CONSTANTS
  Lines,     \* [proto, master, parts, timing, strict, lenient]; a part
             \* is [frame, coded, bytes]: noise, a frame as it is sent or
             \* one still to be coded: unit, function code and data
  MaxTcp,    \* the MAX_FRAME_LENGTH of each layer
  MaxAscii,
  MaxRtu,
  CustomFc   \* a function code with determineFrameLength

VARIABLES
  frLine,      \* the line, read only
  frFed,       \* bytes handed to decode()
  frKeep,      \* _residualLen of TCP and RTU, _frameLen of ASCII
  frStatus,    \* _status of ASCII
  frExpected,  \* _expectedLen of RTU
  frMarker,    \* _t15Marker
  frTimer,     \* _t35Timer is armed
  frOut,       \* history: the frames emitted, in order
  frSync,      \* history: where TCP has started again after an error
  frSilent,    \* history: where the last silence of t3.5 was, -1 for none
  frGapped     \* history: the frames with a gap of t1.5 inside

frVars == <<frLine, frFed, frKeep, frStatus, frExpected, frMarker, frTimer, frOut, frSync, frSilent, frGapped>>

Sum(bs) ==
  LET upTo[i \in 0..Len(bs)] == IF i = 0 THEN 0 ELSE upTo[i - 1] + bs[i] IN upTo[Len(bs)]

COLON == 100
CR == 101
LF == 102
-----------------------------------------------------------------------------
(* encode() of each layer.  ASCII digits are 0..15, lower case ones 26..31.*)
encodeTcp(b) == <<1, 2, 0, 0, Len(b) \div 256, Len(b) % 256>> \o b
LRC(bs) == (256 - (Sum(bs) % 256)) % 256
Hex(bs) ==
  [i \in 1..(2 * Len(bs)) |->
    IF i % 2 = 1 THEN bs[(i + 1) \div 2] \div 16 ELSE bs[i \div 2] % 16]
encodeAscii(b) == <<COLON>> \o Hex(Append(b, LRC(b))) \o <<CR, LF>>
encodeRtu(b) == b \o <<201, 202>>

Encoded(proto, part) ==
  IF part.coded THEN part.bytes
  ELSE CASE proto = "tcp" -> encodeTcp(part.bytes)
         [] proto = "ascii" -> encodeAscii(part.bytes)
         [] OTHER -> encodeRtu(part.bytes)

(* A line laid out: its bytes, and where its parts and its frames are.     *)
UpTo(line) ==
  LET upTo[k \in 0..Len(line.parts)] ==
        IF k = 0 THEN <<>> ELSE upTo[k - 1] \o Encoded(line.proto, line.parts[k])
  IN upTo
Place(line, k) == <<Len(UpTo(line)[k - 1]) + 1, Len(UpTo(line)[k])>>
Laid(line) ==
  [proto |-> line.proto, master |-> line.master, timing |-> line.timing, strict |-> line.strict,
   lenient |-> line.lenient, bytes |-> UpTo(line)[Len(line.parts)],
   frames |-> {Place(line, k) : k \in {j \in DOMAIN line.parts : line.parts[j].frame}},
   noise |-> {Place(line, k) : k \in {j \in DOMAIN line.parts : ~line.parts[j].frame}}]

FrInit ==
  /\ frLine \in {Laid(l) : l \in Lines}
  /\ frFed = 0 /\ frKeep = 0 /\ frStatus = "idle" /\ frExpected = 0 /\ frMarker = 0
  /\ frTimer = FALSE /\ frOut = <<>> /\ frSync = 0 /\ frSilent = -1 /\ frGapped = {}

(* The byte i, from 0, after position at of a line, and the n bytes from   *)
(* byte i on of what is kept and a chunk together.                         *)
Byte(line, at, i) == line.bytes[at + 1 + i]
Kept == frFed - frKeep
Interval(i, n) == <<Kept + 1 + i, Kept + i + n>>
-----------------------------------------------------------------------------
(* TCP.  The header after a position is no header, or says how long the    *)
(* frame is.                                                               *)
TcpLength(line, at) == 6 + Byte(line, at, 4) * 256 + Byte(line, at, 5)
BadHeader(line, at) ==
  \/ Byte(line, at, 2) # 0 \/ Byte(line, at, 3) # 0
  \/ TcpLength(line, at) > MaxTcp \/ TcpLength(line, at) < 8

(* One round of the loop over total bytes: the next frame, if it is there. *)
TcpStep(s, total) ==
  LET n == TcpLength(frLine, Kept + s.index)
  IN IF total - s.index < 6 \/ BadHeader(frLine, Kept + s.index) \/ total - s.index < n THEN s
     ELSE [index |-> s.index + n, out |-> Append(s.out, Interval(s.index, n))]

TcpScan(total) ==
  LET scan[k \in 0..total] ==
        IF k = 0 THEN [index |-> 0, out |-> frOut] ELSE TcpStep(scan[k - 1], total)
  IN scan[total]

(* An error loses the rest of the chunk.                                   *)
decodeTcp(n) ==
  LET r == TcpScan(frKeep + n)
      rest == frKeep + n - r.index
      lost == rest >= 6 /\ BadHeader(frLine, Kept + r.index)
  IN /\ frOut' = r.out
     /\ frKeep' = IF lost THEN 0 ELSE IF rest < MaxTcp THEN rest ELSE MaxTcp
     /\ frSync' = IF lost THEN frFed + n ELSE frSync
     /\ UNCHANGED <<frStatus, frExpected, frMarker, frTimer, frSilent, frGapped>>
-----------------------------------------------------------------------------
(* ASCII.  The value of a character, above 15 for none.                    *)
Digit(line, v) == IF v \in 26..31 /\ line.lenient THEN v - 16 ELSE v
IsHex(line, v) == Digit(line, v) <= 15
Octets(line, s) == [i \in 1..(Len(s) \div 2) |-> 16 * Digit(line, s[2 * i - 1]) + Digit(line, s[2 * i])]
Intact(line, s) == Sum(Octets(line, s)) % 256 = 0

(* A chunk that is a frame from colon to line feed: whether its LRC is     *)
(* right decides; with another character it is left to the state machine.  *)
AsciiFast(n) ==
  LET s == SubSeq(frLine.bytes, frFed + 1, frFed + n)
  IN /\ frStatus = "idle" /\ n >= 9 /\ n <= MaxAscii + 3 /\ n % 2 = 1
     /\ s[1] = COLON /\ s[n - 1] = CR /\ s[n] = LF
     /\ \A i \in 2..(n - 2) : IsHex(frLine, s[i])

(* The state after one more character, at position p: status, the length   *)
(* of the hex body and the frames.                                         *)
AsciiStep(s, p) ==
  LET v == frLine.bytes[p]
      body == SubSeq(frLine.bytes, p - s.len - 1, p - 2)
  IN CASE v = COLON -> [s EXCEPT !.status = "reception", !.len = 0]
       [] v # COLON /\ s.status = "idle" -> s
       [] v # COLON /\ s.status = "reception" ->
            IF v = CR THEN [s EXCEPT !.status = "waiting end"]
            ELSE IF s.len >= MaxAscii \/ ~IsHex(frLine, v) THEN [s EXCEPT !.status = "idle", !.len = 0]
            ELSE [s EXCEPT !.len = @ + 1]
       [] v # COLON /\ s.status = "waiting end" ->
            IF v = LF /\ s.len >= 6 /\ s.len % 2 = 0 /\ Intact(frLine, body)
            THEN [s EXCEPT !.status = "idle", !.out = Append(@, <<p - s.len - 2, p>>)]
            ELSE [s EXCEPT !.status = "idle"]

AsciiScan(n) ==
  LET chars[i \in 0..n] ==
        IF i = 0 THEN [status |-> frStatus, len |-> frKeep, out |-> frOut]
        ELSE AsciiStep(chars[i - 1], frFed + i)
  IN chars[n]

decodeAscii(n) ==
  /\ IF AsciiFast(n)
     THEN /\ frOut' = IF Intact(frLine, SubSeq(frLine.bytes, frFed + 2, frFed + n - 2))
                      THEN Append(frOut, <<frFed + 1, frFed + n>>) ELSE frOut
          /\ UNCHANGED <<frStatus, frKeep>>
     ELSE LET r == AsciiScan(n)
          IN frStatus' = r.status /\ frKeep' = r.len /\ frOut' = r.out
  /\ UNCHANGED <<frExpected, frMarker, frTimer, frSync, frSilent, frGapped>>
-----------------------------------------------------------------------------
(* RTU.  The length of a frame by its function code: fixed, or counted by  *)
(* the byte at an offset.                                                  *)
NEED_MORE == 0
UNKNOWN == -1
CountedFrom(offset, base) == [fixed |-> FALSE, offset |-> offset, base |-> base]
Fixed(n) == [fixed |-> TRUE, offset |-> 0, base |-> n]
RequestLength(fc) ==
  CASE fc \in {1, 2, 3, 4, 5, 6, 8} -> Fixed(8)
    [] fc = 17 -> Fixed(4) [] fc = 22 -> Fixed(10) [] fc = 43 -> Fixed(7)
    [] fc \in {15, 16} -> CountedFrom(6, 9) [] fc = 23 -> CountedFrom(10, 13)
    [] OTHER -> Fixed(UNKNOWN)
ResponseLength(fc) ==
  CASE fc >= 128 -> Fixed(5)
    [] fc \in {5, 6, 8, 15, 16} -> Fixed(8) [] fc = 22 -> Fixed(10)
    [] fc \in {1, 2, 3, 4, 17, 23} -> CountedFrom(2, 5)
    [] OTHER -> Fixed(UNKNOWN)

(* determineFrameLength of the registered function code.                   *)
determineFrameLength(line, at, len) == IF len < 3 THEN NEED_MORE ELSE 5 + Byte(line, at, 2)

(* The length of a device identification response: object after object.    *)
ObjectsEnd(line, at, len, objects) ==
  LET end[k \in 0..objects] ==
        IF k = 0 THEN 8
        ELSE IF end[k - 1] = -1 \/ len < end[k - 1] + 2 THEN -1
        ELSE end[k - 1] + 2 + Byte(line, at, end[k - 1] + 1)
  IN end[objects]
IdentificationLength(line, at, len) ==
  IF len < 8 THEN NEED_MORE
  ELSE IF Byte(line, at, 2) # 14 THEN UNKNOWN
  ELSE LET end == ObjectsEnd(line, at, len, Byte(line, at, 7))
       IN IF end = -1 THEN NEED_MORE ELSE end + 2

(* The predicted length of a frame after position at, of which len bytes   *)
(* are there.                                                              *)
FrameLength(line, at, len) ==
  LET fc == Byte(line, at, 1)
      l == IF line.master THEN ResponseLength(fc) ELSE RequestLength(fc)
  IN IF fc = CustomFc THEN determineFrameLength(line, at, len)
     ELSE IF line.master /\ fc = 43 THEN IdentificationLength(line, at, len)
     ELSE IF l.fixed THEN l.base
     ELSE IF len <= l.offset THEN NEED_MORE
     ELSE l.base + Byte(line, at, l.offset)

(* A gap inside a frame of n bytes at i drops it if timing is strict.      *)
Dropped(i, n, marker) == frLine.strict /\ marker > i /\ marker < i + n

(* One round of the loop over total bytes: it stops, goes on by a byte or  *)
(* finds a frame.                                                          *)
RtuStep(s, total, marker) ==
  LET i == s.index
      n == FrameLength(frLine, Kept + i, total - i)
  IN IF i > total - 4 \/ n = NEED_MORE THEN s
     ELSE IF n = UNKNOWN \/ n > MaxRtu \/ n < 4 THEN [s EXCEPT !.index = i + 1]
     ELSE IF total - i < n THEN [s EXCEPT !.expected = i + n]
     ELSE IF Interval(i, n) \notin frLine.frames THEN [s EXCEPT !.index = i + 1]
     ELSE [index |-> i + n, expected |-> NEED_MORE,
           out |-> IF Dropped(i, n, marker) THEN s.out ELSE Append(s.out, Interval(i, n))]

RtuScan(total, marker) ==
  LET scan[k \in 0..total] ==
        IF k = 0 THEN [index |-> 0, expected |-> frExpected, out |-> frOut]
        ELSE RtuStep(scan[k - 1], total, marker)
  IN scan[total]

(* Fault: the scan waits for one byte more than it expects.                *)
ScannedLate(total, marker) ==
  IF frExpected > 0 /\ total <= frExpected
  THEN [index |-> 0, expected |-> frExpected, out |-> frOut]
  ELSE RtuScan(total, marker)
(* While an expected length is not reached, nothing is scanned.            *)
Scanned(total, marker) ==
  IF frExpected > 0 /\ total < frExpected
  THEN [index |-> 0, expected |-> frExpected, out |-> frOut]
  ELSE RtuScan(total, marker)

Above(a, b) == IF a > b THEN a - b ELSE 0

(* Fault: the timer keeps the expected length.                             *)
SilenceKeepsExpected ==
  /\ frTimer /\ frTimer' = FALSE
  /\ frKeep' = 0 /\ frMarker' = 0 /\ frSilent' = frFed
  /\ UNCHANGED <<frLine, frFed, frStatus, frExpected, frOut, frSync, frGapped>>

(* The t3.5 timer fires: what is kept is discarded.                        *)
Silence ==
  /\ frTimer /\ frTimer' = FALSE
  /\ frKeep' = 0 /\ frExpected' = NEED_MORE /\ frMarker' = 0 /\ frSilent' = frFed
  /\ UNCHANGED <<frLine, frFed, frStatus, frOut, frSync, frGapped>>

(* Fault: where the gap was is not carried along with what is kept.        *)
MarkerStays(marker, discard) == marker
MovedMarker(marker, discard) == Above(marker, discard)

(* A chunk after a gap of t1.5, or after none; what is left is kept, at    *)
(* most MaxRtu bytes of it, and what points into it moves along.           *)
decodeRtu(n, gap) ==
  LET marker == IF frTimer /\ gap THEN frKeep ELSE frMarker
      total == frKeep + n
      r == Scanned(total, marker)
      keep == IF total - r.index < MaxRtu THEN total - r.index ELSE MaxRtu
      discard == total - keep
      fast == /\ frKeep = 0 /\ n >= 4 /\ FrameLength(frLine, Kept, n) = n /\ Interval(0, n) \in frLine.frames
  IN /\ IF fast
        THEN /\ frOut' = IF frLine.timing /\ frLine.strict /\ marker > 0 THEN frOut
                         ELSE Append(frOut, Interval(0, n))
             /\ frExpected' = NEED_MORE /\ frMarker' = 0 /\ frTimer' = FALSE
             /\ UNCHANGED frKeep
        ELSE /\ frOut' = r.out
             /\ frKeep' = keep
             /\ frExpected' = IF keep = 0 THEN NEED_MORE ELSE Above(r.expected, discard)
             /\ frMarker' = IF keep = 0 THEN 0 ELSE MovedMarker(marker, discard)
             /\ frTimer' = (keep > 0 /\ frLine.timing)
     /\ frGapped' = IF gap THEN frGapped \cup {f \in frLine.frames : f[1] <= frFed /\ frFed < f[2]}
                           ELSE frGapped
     /\ UNCHANGED <<frStatus, frSync, frSilent>>

-----------------------------------------------------------------------------
(* What is asked of the lines.  A part has a byte at least.  A frame is    *)
(* what its layer sends: with TCP the header gives its length, with ASCII  *)
(* nothing else on the line looks like one, with RTU its length is         *)
(* predicted from as many bytes as it takes to know it.                    *)
AsciiFrame(line, a, b) ==
  /\ b - a >= 8 /\ b - a <= MaxAscii + 2 /\ (b - a) % 2 = 0
  /\ line.bytes[a] = COLON /\ line.bytes[b - 1] = CR /\ line.bytes[b] = LF
  /\ \A p \in (a + 1)..(b - 2) : IsHex(line, line.bytes[p])
  /\ Intact(line, SubSeq(line.bytes, a + 1, b - 2))
TcpSent(line) ==
  \A f \in line.frames :
    ~BadHeader(line, f[1] - 1) /\ TcpLength(line, f[1] - 1) = f[2] - f[1] + 1
AsciiSent(line) ==
  \A a, b \in DOMAIN line.bytes : <<a, b>> \in line.frames <=> AsciiFrame(line, a, b)
RtuSent(line) ==
  \A f \in line.frames :
    LET n == f[2] - f[1] + 1
    IN /\ n >= 4 /\ n <= MaxRtu
       /\ \A len \in 4..(Len(line.bytes) - f[1] + 1) :
            \/ FrameLength(line, f[1] - 1, len) = n
            \/ FrameLength(line, f[1] - 1, len) = NEED_MORE /\ len < n

ASSUME FramingAssumption ==
  /\ MaxTcp \in Nat /\ MaxAscii \in Nat /\ MaxRtu \in Nat
  /\ \A l \in Lines :
       /\ Len(l.parts) \in Nat /\ DOMAIN l.parts = 1..Len(l.parts)
       /\ \A k \in DOMAIN l.parts : Encoded(l.proto, l.parts[k]) \in Seq(Nat) \ {<<>>}
       /\ \/ l.proto = "tcp" /\ TcpSent(Laid(l))
          \/ l.proto = "ascii" /\ AsciiSent(Laid(l))
          \/ l.proto = "rtu" /\ RtuSent(Laid(l))
-----------------------------------------------------------------------------
(* A chunk of n bytes arrives.  One that comes after a silence of t3.5 but *)
(* before its timer first does what the timer does: Silence, then Chunk.   *)
(* Gaps of t1.5 have a meaning on strict lines only.                       *)
Chunk(n, gap) ==
  /\ frFed + n <= Len(frLine.bytes) /\ frFed' = frFed + n
  /\ \/ frLine.proto = "tcp" /\ ~gap /\ decodeTcp(n)
     \/ frLine.proto = "ascii" /\ ~gap /\ decodeAscii(n)
     \/ frLine.proto = "rtu" /\ (gap => frTimer /\ frLine.strict) /\ decodeRtu(n, gap)
  /\ UNCHANGED frLine

FrNext ==
  \/ \E n \in 1..(Len(frLine.bytes) - frFed), gap \in BOOLEAN : Chunk(n, gap)
  \/ Silence
FrSpec == FrInit /\ [][FrNext]_frVars
-----------------------------------------------------------------------------
Emitted == {frOut[i] : i \in DOMAIN frOut}

(* The frames received that follow position p one after another, without   *)
(* noise between.                                                          *)
After(p) ==
  {f \in frLine.frames :
     /\ p < f[1] /\ f[2] <= frFed
     /\ ~\E e \in frLine.noise : p < e[2] /\ e[2] < f[1]
     /\ ~\E e \in frLine.frames : e[1] <= p /\ p < e[2]}

(* However the transport splits and joins them, frames come out as they    *)
(* were sent, once, in order and with their last byte: those of ASCII      *)
(* whatever noise is between them, those of TCP again from the end of the  *)
(* chunk that held a bad header.                                           *)
FramesAsSent ==
  /\ \A i, j \in DOMAIN frOut : i < j => frOut[i][2] < frOut[j][1]
  /\ (frLine.proto = "tcp" => frLine.noise = {}) =>
        Emitted \subseteq frLine.frames
  /\ CASE frLine.proto = "ascii" -> {f \in frLine.frames : f[2] <= frFed} \subseteq Emitted
       [] frLine.proto = "tcp" -> After(frSync) \subseteq Emitted
       [] OTHER -> ~frLine.strict /\ frSilent = -1 => After(0) \subseteq Emitted

(* Noise before a silence of t3.5, whatever length it made the predictor   *)
(* expect, costs no frame after it.                                        *)
CleanAfterSilence ==
  frLine.proto = "rtu" /\ ~frLine.strict /\ frSilent >= 0 => After(frSilent) \subseteq Emitted

(* rtu-protocol-layer.ts: with strictTiming "any frame containing a t1.5   *)
(* inter-character timeout event will be discarded"; and no other frame is.*)
NoGapInside ==
  frLine.proto = "rtu" /\ frLine.strict =>
    LET from == IF frSilent >= 0 THEN frSilent ELSE 0
    IN After(from) \cap Emitted = After(from) \ frGapped
=============================================================================
