------------------------------ MODULE MCParts ------------------------------
(***************************************************************************)
(* The parts beside the two request engines, for TLC: one run in which     *)
(* part says which of them moves, while the others stay as they begin.     *)
(***************************************************************************)
EXTENDS FunctionCodes, DeviceIdentification, Framing, TimerHeap, CompactEvent, Transport, SerialPipeline

VARIABLE part

(* Requests within, at and beyond the limits of each function code, and    *)
(* numbers of more than 16 bits.                                           *)
mcPattern(n) == [i \in 1..n |-> (i * 40503) % 131072]
mcCoils(n) == [i \in 1..n |-> (i \div 2) % 2]
mcRequests ==
  {[fc |-> f, address |-> 70000, length |-> n] : f \in {1, 2}, n \in {0, 1, 9, 2000, 2001, 65537}}
  \cup {[fc |-> f, address |-> 258, length |-> n] : f \in {3, 4}, n \in {0, 1, 125, 126, 65537}}
  \cup {[fc |-> 5, address |-> 7, value |-> v] : v \in {0, 1}}
  \cup {[fc |-> 6, address |-> 7, value |-> v] : v \in {258, 65537}}
  \cup {[fc |-> 8, value |-> 258]}
  \cup {[fc |-> 15, address |-> 258, values |-> mcCoils(n)] : n \in {0, 1, 8, 9, 1968, 1969}}
  \cup {[fc |-> 16, address |-> 258, values |-> mcPattern(n)] : n \in {0, 1, 123, 124, 128}}
  \cup {[fc |-> 17, idLength |-> n] : n \in {1, 2}}
  \cup {[fc |-> 22, address |-> 1, andMask |-> 258, orMask |-> 65537]}
  \cup {[fc |-> 23, address |-> 258, length |-> l, writeAddress |-> 515, values |-> mcPattern(n)] :
          l \in {1, 125, 126}, n \in {0, 1, 121, 122}}
  \cup {[fc |-> 65, values |-> mcPattern(2)]}
mcLists == {[i \in 1..n |-> ((i * 40503) \div 4) % 131072] : n \in {0, 8, 124, 2001}}
mcServerIds == {[sid |-> s, run |-> b, extra |-> e] :
  s \in {Nothing, <<7>>, <<7, 8>>}, b \in BOOLEAN, e \in {<<>>, <<5>>, mcCoils(250)}}

(* Tables of one to several fragments, and some that cannot be answered or *)
(* read.                                                                   *)
mcTables ==
  {[i \in ids |-> IF i \in wide THEN 244 ELSE n] :
     ids \in {{0}, {0, 1, 2}, {0, 3, 4, 128, 129}, {1, 4, 200, 255}},
     wide \in {{}, {0}, {4}, {3, 128}, {4, 200, 255}}, n \in {2, 80, 115, 116}}
  \cup {[i \in {0, 4, 128} |-> IF i = 4 THEN n ELSE 20] : n \in {0, 1, 245}}
  \cup {[i \in {0, 1, 2, 7} |-> 8]}
mcCodes == 0..4
mcStarts == {0, 4, 5, 8, 128}

(* Lines of frames, with and without noise between them.                   *)
mcFrame(b) == [frame |-> TRUE, coded |-> FALSE, bytes |-> b]
mcNoise(b) == [frame |-> FALSE, coded |-> TRUE, bytes |-> b]
mcTcp(parts) == [proto |-> "tcp", master |-> TRUE, timing |-> FALSE, strict |-> FALSE, lenient |-> FALSE, parts |-> parts]
mcAscii(parts, lenient) == [mcTcp(parts) EXCEPT !.proto = "ascii", !.lenient = lenient]
mcRtu(parts, master, timing, strict) == [mcTcp(parts) EXCEPT !.proto = "rtu", !.master = master, !.timing = timing, !.strict = strict]
mcGet == mcFrame(<<1, 3, 0>>)
mcBad == {mcNoise(<<1, 2, 0, 9, 0, 3, 1>>), mcNoise(<<1, 2, 0, 0, 0, 1, 7>>), mcNoise(<<1, 2, 0, 0, 1, 0, 7>>)}
mcJunk == {mcNoise(<<100, 1, 2, 99>>), mcNoise(<<3, 100, 1, 2>>), mcNoise(<<100, 100, 1, 2, 3, 4, 5, 6, 101>>),
  mcNoise(<<100, 1, 1, 1, 1, 1, 1, 1, 1, 1, 1, 1, 1, 1, 101, 102>>),
  mcNoise(<<100, 0, 1, 0, 3, 15, 11, 101, 102>>), mcNoise(<<102, 101, 102>>)}
mcResponses == {<<mcFrame(<<1, 131, 2>>), mcFrame(<<1, 3, 2, 5, 43>>), mcFrame(<<1, 5, 0, 1, 255, 0>>)>>,
   <<mcFrame(<<1, 43, 14, 1, 1, 0, 0, 1, 0, 2, 7, 8>>), mcFrame(<<1, 65, 1, 9>>)>>}
mcDemands == {<<mcFrame(<<1, 17>>), mcFrame(<<1, 3, 0, 1, 0, 1>>), mcFrame(<<1, 16, 0, 1, 0, 1, 2, 7, 8>>)>>,
   <<mcFrame(<<1, 65, 1, 9>>), mcFrame(<<1, 23, 0, 1, 0, 1, 0, 1, 0, 1, 2, 7, 8>>)>>}
mcStray == {mcNoise(<<9>>), mcNoise(<<1, 16, 3, 3, 3, 3, 8>>), mcNoise(<<1, 43, 14, 1, 1, 0, 0, 9>>),
  mcNoise(<<1, 3, 1, 65, 200, 17>>), mcNoise(<<2, 65, 20, 1, 1, 1, 1, 1, 1, 1>>)}
mcLower == <<100, 1, 1, 1, 1, 29, 14, 101, 102>>
mcLines ==
  {mcAscii(<<mcNoise(<<1>>), [frame |-> lenient, coded |-> TRUE, bytes |-> mcLower], mcGet>>, lenient) : lenient \in BOOLEAN}
  \cup {mcTcp(<<mcGet, mcFrame(<<1, 3>>), mcFrame(<<1, 3, 1, 2>>)>>)}
  \cup {mcTcp(<<mcGet, bad, mcFrame(<<1, 3>>), mcGet>>) : bad \in mcBad}
  \cup {mcAscii(<<mcGet, junk, mcFrame(<<1, 131>>)>>, FALSE) : junk \in mcJunk}
  \cup {mcRtu(parts, TRUE, timing, timing) : parts \in mcResponses, timing \in BOOLEAN}
  \cup {mcRtu(parts, FALSE, timing, timing) : parts \in mcDemands, timing \in BOOLEAN}
  \cup {mcRtu(<<n, mcFrame(<<1, 131, 2>>), mcFrame(<<1, 3, 2, 5, 43>>)>>, TRUE, TRUE, FALSE) : n \in mcStray}
  \cup {mcRtu(<<n, mcFrame(<<1, 17>>), mcFrame(<<1, 65, 1, 9>>)>>, FALSE, TRUE, FALSE) : n \in mcStray}
-----------------------------------------------------------------------------
Parts == {"functionCodes", "identification", "framing", "timers", "emitter", "transport", "serial"}
PartsInit ==
  /\ part \in Parts
  /\ FcInit /\ DiInit /\ ThInit /\ CeInit /\ SpInit
  /\ FrInit /\ (part # "framing" => frLine = Laid(CHOOSE l \in mcLines : TRUE))
  /\ TrInit /\ (part # "transport" => phKind = "client")

PartsNext ==
  \/ /\ part = "functionCodes" /\ FcNext
     /\ UNCHANGED <<part, diVars, frVars, thVars, ceVars, trVars, spVars>>
  \/ /\ part = "identification" /\ DiNext
     /\ UNCHANGED <<part, fcVars, frVars, thVars, ceVars, trVars, spVars>>
  \/ /\ part = "framing" /\ FrNext
     /\ UNCHANGED <<part, fcVars, diVars, thVars, ceVars, trVars, spVars>>
  \/ /\ part = "timers" /\ ThNext
     /\ UNCHANGED <<part, fcVars, diVars, frVars, ceVars, trVars, spVars>>
  \/ /\ part = "emitter" /\ CeNext
     /\ UNCHANGED <<part, fcVars, diVars, frVars, thVars, trVars, spVars>>
  \/ /\ part = "transport" /\ TrNext
     /\ UNCHANGED <<part, fcVars, diVars, frVars, thVars, ceVars, spVars>>
  \/ /\ part = "serial" /\ SpNext
     /\ UNCHANGED <<part, fcVars, diVars, frVars, thVars, ceVars, trVars>>

partsVars == <<part, fcVars, diVars, frVars, thVars, ceVars, trVars, spVars>>
(* The fairness of a part that does not move asks for nothing: none of its *)
(* actions is enabled where it begins.                                     *)
PartsSpec == PartsInit /\ [][PartsNext]_partsVars /\ ThFairness /\ TrFairness
=============================================================================
