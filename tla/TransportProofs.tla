--------------------------- MODULE TransportProofs ---------------------------
(***************************************************************************)
(* Proofs about Transport and SerialPipeline: the connections of a server  *)
(* are accounted for and within its limits over any number of opens and    *)
(* closes, for any set of connections, addresses and limits; and, whatever *)
(* the serial port and the callbacks do, each write is in one place or     *)
(* settled once, and one cycle runs at a time.                             *)
(***************************************************************************)
EXTENDS Transport, SerialPipeline, TLAPS, FiniteSetTheorems

ConnStates ==
  {"free", "handshake", "refused", "connected", "ending", "destroying", "stuck", "gone"}

CallsTyped ==
  /\ phKind \in Kinds /\ phState \in {"closed", "opening", "open", "closing"}
  /\ endpoint \in {"none", "opening", "open", "closing"}
  /\ openCbs \subseteq CallIds /\ closeCbs \subseteq CallIds
  /\ asked \in 0..MaxCalls /\ answers \in [CallIds -> Nat] /\ lost \subseteq CallIds
  /\ unclosable \in BOOLEAN

PipelinesTyped ==
  /\ conn \in [Conns -> ConnStates] /\ destroyCbs \in [Conns -> SUBSET CallIds]
  /\ tracked \subseteq Conns /\ outlived \subseteq Conns /\ IsFiniteSet(tracked)

TrTypeOK == CallsTyped /\ PipelinesTyped

(* The sets of the layer cover the connections that are not gone.          *)
Covered ==
  /\ Live \subseteq tracked /\ subscribed \subseteq Live /\ idle \subseteq Live
  /\ tracked \ subscribed \subseteq outlived /\ tracked \cap Blocked = {}
  /\ \A c \in Conns : destroyCbs[c] # {} => conn[c] \in {"destroying", "stuck"}
  /\ phKind = "udpServer" => \A c \in Conns : conn[c] \in {"free", "refused", "connected", "gone"}
  /\ \A c \in Conns : conn[c] = "handshake" => phKind = "tlsServer"

WithinLimits ==
  IsServer => /\ Cardinality(tracked) <= MaxConns
              /\ \A c \in Conns : Cardinality(tracked \cap Neighbours(c)) <= MaxPerIp

(* A client has one pipeline at most, and none while it is not open.       *)
ClientAlone ==
  ~IsServer => /\ \A c, d \in tracked : c = d
               /\ subscribed = tracked
               /\ endpoint # "open" => tracked = {}
               /\ phState = "closed" => endpoint # "open"

PipelinesSound == PipelinesTyped /\ Covered /\ WithinLimits
TrInv == CallsTyped /\ PipelinesSound /\ ClientAlone
-----------------------------------------------------------------------------
LEMMA IdsTyped == \A k : k \in CallIds => k \in Nat \ {0} /\ k \in 0..MaxCalls
BY TransportAssumption DEF CallIds

LEMMA RunTyped ==
  ASSUME NEW S, Run(S), answers \in [CallIds -> Nat]
  PROVE  answers' \in [CallIds -> Nat]
BY DEF Run

(* Fewer tracked connections are still finite and within the limits.       *)
LEMMA FewerTracked ==
  ASSUME PipelinesTyped, WithinLimits, tracked' \subseteq tracked, UNCHANGED phKind
  PROVE  IsFiniteSet(tracked') /\ WithinLimits'
<1>1. IsFiniteSet(tracked) /\ IsFiniteSet(tracked')
  BY FS_Subset DEF PipelinesTyped
<1>2. /\ Cardinality(tracked) \in Nat /\ Cardinality(tracked') \in Nat
      /\ Cardinality(tracked') <= Cardinality(tracked)
  BY <1>1, FS_Subset, FS_CardinalityType
<1>3. ASSUME NEW c \in Conns
      PROVE  /\ Cardinality(tracked \cap Neighbours(c)) \in Nat
             /\ Cardinality(tracked' \cap Neighbours(c)) \in Nat
             /\ Cardinality(tracked' \cap Neighbours(c)) <= Cardinality(tracked \cap Neighbours(c))
  <2>1. IsFiniteSet(tracked \cap Neighbours(c)) /\ IsFiniteSet(tracked' \cap Neighbours(c))
    BY <1>1, FS_Subset
  <2>2. tracked' \cap Neighbours(c) \subseteq tracked \cap Neighbours(c)
    OBVIOUS
  <2> QED BY <2>1, <2>2, FS_Subset, FS_CardinalityType
<1>4. ASSUME IsServer PROVE Cardinality(tracked') <= MaxConns
  BY <1>2, <1>4, TransportAssumption DEF WithinLimits
<1>5. ASSUME IsServer, NEW c \in Conns PROVE Cardinality(tracked' \cap Neighbours(c)) <= MaxPerIp
  <2>1. Cardinality(tracked \cap Neighbours(c)) <= MaxPerIp
    BY <1>5 DEF WithinLimits
  <2> QED BY <2>1, <1>3, TransportAssumption
<1>6. IsServer' <=> IsServer
  BY DEF IsServer
<1>7. \A c \in Conns : Neighbours(c)' = Neighbours(c)
  BY DEF Neighbours
<1> QED BY <1>1, <1>4, <1>5, <1>6, <1>7 DEF WithinLimits

LEMMA PeersGoneKeeps ==
  ASSUME PipelinesSound, NEW S, PeersGone(S), phKind = "udpServer",
         S \cap Conns \subseteq tracked \/ S \cap Conns \subseteq Live,
         UNCHANGED <<phKind, destroyCbs, outlived>>
  PROVE  PipelinesSound'
<1>1. /\ conn' = [c \in Conns |-> IF c \in S THEN "gone" ELSE conn[c]]
      /\ idle' = idle \ S /\ tracked' = tracked \ S /\ subscribed' = subscribed \ S
  BY DEF PeersGone
<1>2. PipelinesTyped /\ Covered /\ WithinLimits
  BY DEF PipelinesSound
<1>3. IsFiniteSet(tracked') /\ WithinLimits'
  BY <1>1, <1>2, FewerTracked
<1>4. PipelinesTyped'
  BY <1>1, <1>2, <1>3 DEF PipelinesTyped, ConnStates
<1>5. Live' = Live \ S
  BY <1>1 DEF Live, Open
<1>6. \A c \in Conns : destroyCbs[c] = {}
  BY <1>2 DEF Covered
<1>7. Covered'
  BY <1>1, <1>2, <1>5, <1>6 DEF Covered
<1> QED BY <1>3, <1>4, <1>7 DEF PipelinesSound

LEMMA SocketsDestroyedKeeps ==
  ASSUME PipelinesSound, NEW S, SocketsDestroyed(S), phKind # "udpServer",
         UNCHANGED <<phKind, outlived>>, destroyCbs' \in [Conns -> SUBSET CallIds],
         \A c \in Conns : destroyCbs'[c] = destroyCbs[c] \/ (c \in S /\ conn[c] \in Open)
  PROVE  PipelinesSound' /\ UNCHANGED <<tracked, subscribed>>
<1> DEFINE ended == {c \in S : conn[c] \in Open}
<1>1. /\ conn' = [c \in Conns |-> IF c \in ended THEN "destroying" ELSE conn[c]]
      /\ idle' = idle \ ended /\ UNCHANGED <<tracked, subscribed>>
  BY DEF SocketsDestroyed
<1>2. PipelinesTyped /\ Covered /\ WithinLimits
  BY DEF PipelinesSound
<1>3. IsFiniteSet(tracked') /\ WithinLimits'
  BY <1>1, <1>2, FewerTracked
<1>4. PipelinesTyped'
  BY <1>1, <1>2, <1>3 DEF PipelinesTyped, ConnStates
<1>5. Live' = Live
  BY <1>1 DEF Live, Open
<1>6. \A c \in Conns : destroyCbs'[c] # {} => conn'[c] \in {"destroying", "stuck"}
  BY <1>1, <1>2 DEF Covered
<1>7. Covered'
  BY <1>1, <1>2, <1>5, <1>6 DEF Covered
<1> QED BY <1>1, <1>3, <1>4, <1>7 DEF PipelinesSound

(* Nothing of the pipelines moves.                                         *)
LEMMA PipelinesRest ==
  ASSUME PipelinesSound, UNCHANGED <<phKind, pipelines, outlived>>
  PROVE  PipelinesSound'
<1>1. UNCHANGED <<conn, tracked, subscribed, idle, destroyCbs>>
  BY DEF pipelines
<1>2. WithinLimits' /\ IsFiniteSet(tracked')
  BY <1>1, FewerTracked DEF PipelinesSound
<1>3. PipelinesTyped' /\ Live' = Live
  BY <1>1 DEF PipelinesSound, PipelinesTyped, Live
<1>4. Covered'
  BY <1>1, <1>3 DEF PipelinesSound, Covered
<1> QED BY <1>2, <1>3, <1>4 DEF PipelinesSound

(* One more tracked connection.                                            *)
LEMMA TrackOne ==
  ASSUME PipelinesTyped, NEW c \in Conns, tracked' = tracked \cup {c}
  PROVE  /\ IsFiniteSet(tracked') /\ Cardinality(tracked) \in Nat
         /\ Cardinality(tracked') \in Nat /\ Cardinality(tracked') <= Cardinality(tracked) + 1
         /\ \A d \in Conns : c \notin Neighbours(d) => tracked' \cap Neighbours(d) = tracked \cap Neighbours(d)
         /\ \A d \in Conns : LET n == Cardinality(tracked \cap Neighbours(d))
                                 m == Cardinality(tracked' \cap Neighbours(d))
                             IN n \in Nat /\ m \in Nat /\ m <= n + 1
<1>1. IsFiniteSet(tracked)
  BY DEF PipelinesTyped
<1>2. ASSUME NEW T, IsFiniteSet(T)
      PROVE  /\ IsFiniteSet(T \cup {c}) /\ Cardinality(T) \in Nat
             /\ Cardinality(T \cup {c}) \in Nat /\ Cardinality(T \cup {c}) <= Cardinality(T) + 1
  <2>1. IsFiniteSet(T \cup {c}) /\ Cardinality(T) \in Nat
    BY <1>2, FS_AddElement, FS_CardinalityType
  <2>2. Cardinality(T \cup {c}) = Cardinality(T) \/ Cardinality(T \cup {c}) = Cardinality(T) + 1
    BY <1>2, FS_AddElement
  <2> QED BY <2>1, <2>2
<1>3. ASSUME NEW d \in Conns
      PROVE  /\ Cardinality(tracked \cap Neighbours(d)) \in Nat
             /\ Cardinality(tracked' \cap Neighbours(d)) \in Nat
             /\ Cardinality(tracked' \cap Neighbours(d)) <= Cardinality(tracked \cap Neighbours(d)) + 1
  <2> DEFINE T == tracked \cap Neighbours(d)
  <2>1. IsFiniteSet(T) /\ Cardinality(T) \in Nat
    BY <1>1, FS_Subset, FS_CardinalityType
  <2>2. tracked' \cap Neighbours(d) = T \/ tracked' \cap Neighbours(d) = T \cup {c}
    OBVIOUS
  <2> HIDE DEF T
  <2>3. Cardinality(T \cup {c}) \in Nat /\ Cardinality(T \cup {c}) <= Cardinality(T) + 1
    BY <2>1, <1>2
  <2>4. Cardinality(T) <= Cardinality(T) + 1
    BY <2>1
  <2>5. /\ Cardinality(tracked' \cap Neighbours(d)) \in Nat
        /\ Cardinality(tracked' \cap Neighbours(d)) <= Cardinality(T) + 1
    BY <2>1, <2>2, <2>3, <2>4
  <2> QED BY <2>1, <2>5 DEF T
<1> QED BY <1>1, <1>2, <1>3

(* A connection of an address that has a neighbour has the same ones.      *)
LEMMA NeighboursMutual ==
  ASSUME NEW c \in Conns, NEW d \in Conns, c \in Neighbours(d)
  PROVE  Neighbours(d) = Neighbours(c)
BY DEF Neighbours

LEMMA AcceptKeeps ==
  ASSUME PipelinesSound, NEW c \in Conns, Accept(c), IsServer,
         conn[c] \in {"free", "handshake", "refused", "gone"},
         UNCHANGED <<phKind, destroyCbs, outlived>>
  PROVE  PipelinesSound'
<1>1. PipelinesTyped /\ Covered /\ WithinLimits
  BY DEF PipelinesSound
<1>2. c \notin Live /\ c \notin subscribed /\ c \notin idle /\ destroyCbs[c] = {}
  BY <1>1 DEF Covered, Live, Open
<1>3. CASE conn' = [conn EXCEPT ![c] = "refused"] /\ UNCHANGED <<tracked, subscribed, idle>>
  <2>1. WithinLimits' /\ IsFiniteSet(tracked')
    BY <1>1, <1>3, FewerTracked
  <2>2. PipelinesTyped'
    BY <1>1, <1>3 DEF PipelinesTyped, ConnStates
  <2>3. Live' = Live
    BY <1>1, <1>2, <1>3 DEF Live, Open, PipelinesTyped
  <2>4. Covered'
    BY <1>1, <1>2, <1>3, <2>3 DEF Covered, PipelinesTyped
  <2> QED BY <2>1, <2>2, <2>4 DEF PipelinesSound
<1>4. CASE /\ c \notin Blocked /\ ~OverLimit /\ ~OverIpLimit(c)
           /\ conn' = [conn EXCEPT ![c] = "connected"]
           /\ tracked' = tracked \cup {c} /\ subscribed' = subscribed \cup {c}
           /\ idle' = idle \cup {c}
  <2>1. Live' = Live \cup {c}
    BY <1>1, <1>4 DEF Live, Open, PipelinesTyped
  <2>2. PipelinesTyped'
    BY <1>1, <1>4, TrackOne DEF PipelinesTyped, ConnStates
  <2>3. Covered'
    BY <1>1, <1>2, <1>4, <2>1 DEF Covered, PipelinesTyped
  <2>4. Cardinality(tracked') <= MaxConns
    <3>1. ~(Cardinality(tracked) >= MaxConns)
      BY <1>4 DEF OverLimit
    <3>2. /\ Cardinality(tracked) \in Nat /\ Cardinality(tracked') \in Nat
          /\ Cardinality(tracked') <= Cardinality(tracked) + 1
      BY <1>1, <1>4, TrackOne
    <3>3. MaxConns \in Nat
      BY TransportAssumption
    <3> QED BY <3>1, <3>2, <3>3
  <2>5. ASSUME NEW d \in Conns PROVE Cardinality(tracked' \cap Neighbours(d)) <= MaxPerIp
    <3>1. Cardinality(tracked \cap Neighbours(d)) <= MaxPerIp
      BY <1>1 DEF WithinLimits
    <3>2. CASE c \in Neighbours(d)
      <4>1. ~(Cardinality(tracked \cap Neighbours(d)) >= MaxPerIp)
        BY <1>4, <3>2, NeighboursMutual DEF OverIpLimit
      <4>2. /\ Cardinality(tracked \cap Neighbours(d)) \in Nat
            /\ Cardinality(tracked' \cap Neighbours(d)) \in Nat
            /\ Cardinality(tracked' \cap Neighbours(d)) <= Cardinality(tracked \cap Neighbours(d)) + 1
        BY <1>1, <1>4, TrackOne
      <4>3. MaxPerIp \in Nat
        BY TransportAssumption
      <4> QED BY <4>1, <4>2, <4>3
    <3>3. CASE c \notin Neighbours(d)
      <4>1. tracked' \cap Neighbours(d) = tracked \cap Neighbours(d)
        BY <1>1, <1>4, <3>3, TrackOne
      <4> QED BY <3>1, <4>1
    <3> QED BY <3>2, <3>3
  <2>6. WithinLimits'
    BY <2>4, <2>5 DEF WithinLimits, Neighbours
  <2> QED BY <2>2, <2>3, <2>6 DEF PipelinesSound
<1> QED BY <1>3, <1>4 DEF Accept
-----------------------------------------------------------------------------
LEMMA TransportInit == TrInit => TrInv
<1> SUFFICES ASSUME TrInit PROVE TrInv
  OBVIOUS
<1>1. CallsTyped
  <2>1. asked \in 0..MaxCalls /\ answers \in [CallIds -> Nat]
    BY TransportAssumption DEF TrInit
  <2> QED BY <2>1 DEF TrInit, CallsTyped
<1>2. tracked = {} /\ IsFiniteSet(tracked) /\ Live = {}
  BY FS_EmptySet DEF TrInit, Live, Open
<1>3. PipelinesTyped
  BY <1>2 DEF TrInit, PipelinesTyped, ConnStates
<1>4. Covered
  BY <1>2 DEF TrInit, Covered
<1>5. WithinLimits
  <2>1. \A c \in Conns : tracked \cap Neighbours(c) = {}
    BY <1>2
  <2> QED BY <1>2, <2>1, FS_EmptySet, TransportAssumption DEF WithinLimits
<1>6. ClientAlone
  BY DEF TrInit, ClientAlone
<1> QED BY <1>1, <1>3, <1>4, <1>5, <1>6 DEF TrInv, PipelinesSound

LEMMA AskOpenKeeps ==
  ASSUME TrInv, NEW k \in CallIds, AskOpen(k)
  PROVE  TrInv'
<1>1. CallsTyped /\ PipelinesSound /\ ClientAlone
  BY DEF TrInv
<1>2. UNCHANGED <<phKind, pipelines, lost, unclosable, outlived>> /\ asked' = k
  BY DEF AskOpen, NextCall
<1>3. PipelinesSound'
  BY <1>1, <1>2, PipelinesRest
<1>4. CASE phState \in {"open", "closing"} /\ Run({k}) /\ UNCHANGED lifecycle
  <2>1. CallsTyped'
    BY <1>1, <1>2, <1>4, IdsTyped, RunTyped DEF CallsTyped, lifecycle
  <2>2. ClientAlone'
    BY <1>1, <1>2, <1>4 DEF ClientAlone, IsServer, lifecycle, pipelines
  <2> QED BY <1>3, <2>1, <2>2 DEF TrInv
<1>5. CASE /\ phState = "opening" /\ openCbs' = Wait(openCbs, k)
           /\ UNCHANGED <<phState, endpoint, closeCbs, answers>>
  <2>1. CallsTyped'
    BY <1>1, <1>2, <1>5, IdsTyped DEF CallsTyped, Wait
  <2>2. ClientAlone'
    BY <1>1, <1>2, <1>5 DEF ClientAlone, IsServer, pipelines
  <2> QED BY <1>3, <2>1, <2>2 DEF TrInv
<1>6. CASE /\ phState = "closed" /\ phState' = "opening" /\ endpoint' = "opening" /\ openCbs' = {k}
           /\ UNCHANGED <<closeCbs, answers>>
  <2>1. CallsTyped'
    BY <1>1, <1>2, <1>6, IdsTyped DEF CallsTyped
  <2>2. ClientAlone'
    BY <1>1, <1>2, <1>6 DEF ClientAlone, IsServer, pipelines
  <2> QED BY <1>3, <2>1, <2>2 DEF TrInv
<1> QED BY <1>4, <1>5, <1>6 DEF AskOpen

LEMMA ShutdownKeeps ==
  ASSUME PipelinesSound, Shutdown, UNCHANGED <<phKind, outlived>>
  PROVE  /\ PipelinesSound'
         /\ ~IsServer => UNCHANGED <<tracked, subscribed, endpoint>>
         /\ endpoint' \in {endpoint, "closing"}
<1>1. /\ endpoint' = IF IsServer THEN "closing" ELSE endpoint
      /\ UNCHANGED destroyCbs
      /\ IF phKind = "udpServer" THEN PeersGone(tracked) ELSE SocketsDestroyed(tracked)
  BY DEF Shutdown
<1>2. CASE phKind = "udpServer"
  <2>1. PipelinesSound'
    BY <1>1, <1>2, PeersGoneKeeps
  <2> QED BY <1>1, <1>2, <2>1 DEF IsServer
<1>3. CASE phKind # "udpServer"
  <2>1. destroyCbs' \in [Conns -> SUBSET CallIds]
    BY <1>1 DEF PipelinesSound, PipelinesTyped
  <2>2. PipelinesSound' /\ UNCHANGED <<tracked, subscribed>>
    BY <1>1, <1>3, <2>1, SocketsDestroyedKeeps
  <2> QED BY <1>1, <2>2
<1> QED BY <1>2, <1>3

LEMMA AskCloseKeeps ==
  ASSUME TrInv, NEW k \in CallIds, AskClose(k)
  PROVE  TrInv'
<1>1. CallsTyped /\ PipelinesSound /\ ClientAlone
  BY DEF TrInv
<1>2. UNCHANGED <<phKind, lost, unclosable, outlived>> /\ asked' = k
  BY DEF AskClose, NextCall
<1>3. CASE phState \in {"closed", "opening"} /\ Run({k}) /\ UNCHANGED <<lifecycle, pipelines>>
  <2>1. CallsTyped'
    BY <1>1, <1>2, <1>3, IdsTyped, RunTyped DEF CallsTyped, lifecycle
  <2>2. ClientAlone'
    BY <1>1, <1>2, <1>3 DEF ClientAlone, IsServer, lifecycle, pipelines
  <2>3. PipelinesSound'
    BY <1>1, <1>2, <1>3, PipelinesRest
  <2> QED BY <2>1, <2>2, <2>3 DEF TrInv
<1>4. CASE /\ phState = "closing" /\ closeCbs' = Wait(closeCbs, k)
           /\ UNCHANGED <<phState, endpoint, openCbs, answers, pipelines>>
  <2>1. CallsTyped'
    BY <1>1, <1>2, <1>4, IdsTyped DEF CallsTyped, Wait
  <2>2. ClientAlone'
    BY <1>1, <1>2, <1>4 DEF ClientAlone, IsServer, pipelines
  <2>3. PipelinesSound'
    BY <1>1, <1>2, <1>4, PipelinesRest
  <2> QED BY <2>1, <2>2, <2>3 DEF TrInv
<1>5. CASE /\ phState = "open" /\ phState' = "closing" /\ closeCbs' = {k} /\ Shutdown
           /\ UNCHANGED <<openCbs, answers>>
  <2>1. /\ PipelinesSound'
        /\ ~IsServer => UNCHANGED <<tracked, subscribed, endpoint>>
        /\ endpoint' \in {endpoint, "closing"}
    BY <1>1, <1>2, <1>5, ShutdownKeeps
  <2>2. CallsTyped'
    BY <1>1, <1>2, <1>5, <2>1, IdsTyped DEF CallsTyped
  <2>3. ClientAlone'
    BY <1>1, <1>2, <1>5, <2>1 DEF ClientAlone, IsServer
  <2> QED BY <2>1, <2>2, <2>3 DEF TrInv
<1> QED BY <1>3, <1>4, <1>5 DEF AskClose

LEMMA AskDestroyKeeps ==
  ASSUME TrInv, NEW k \in CallIds, NEW c \in Conns, AskDestroy(k, c)
  PROVE  TrInv'
<1>1. CallsTyped /\ PipelinesSound /\ ClientAlone /\ destroyCbs \in [Conns -> SUBSET CallIds]
  BY DEF TrInv, PipelinesSound, PipelinesTyped
<1>2. UNCHANGED <<phKind, lifecycle, lost, unclosable, outlived>> /\ asked' = k
  BY DEF AskDestroy, NextCall
<1>3. answers' \in [CallIds -> Nat] => CallsTyped'
  BY <1>1, <1>2, IdsTyped DEF CallsTyped, lifecycle
<1>4. (IsServer \/ (tracked' = tracked /\ subscribed' = subscribed)) => ClientAlone'
  <2>1. IsServer' <=> IsServer
    BY <1>2 DEF IsServer
  <2> QED BY <1>1, <1>2, <2>1 DEF ClientAlone, lifecycle
<1>5. CASE /\ conn[c] = "connected" /\ phKind = "udpServer"
           /\ PeersGone({c}) /\ Run({k}) /\ UNCHANGED destroyCbs
  <2>1. c \in Live
    BY <1>5 DEF Live, Open
  <2>2. PipelinesSound'
    BY <1>1, <1>2, <1>5, <2>1, PeersGoneKeeps
  <2>3. IsServer /\ answers' \in [CallIds -> Nat]
    BY <1>1, <1>5, RunTyped DEF IsServer, CallsTyped
  <2> QED BY <1>3, <1>4, <2>2, <2>3 DEF TrInv
<1>6. CASE /\ conn[c] \in Open /\ phKind # "udpServer"
           /\ SocketsDestroyed({c}) /\ destroyCbs' = [destroyCbs EXCEPT ![c] = {k}]
           /\ UNCHANGED answers
  <2>1. destroyCbs' \in [Conns -> SUBSET CallIds]
    BY <1>1, <1>6
  <2>2. \A d \in Conns : destroyCbs'[d] = destroyCbs[d] \/ (d \in {c} /\ conn[d] \in Open)
    BY <1>1, <1>6
  <2>3. PipelinesSound' /\ UNCHANGED <<tracked, subscribed>>
    BY <1>1, <1>2, <1>6, <2>1, <2>2, SocketsDestroyedKeeps
  <2>4. answers' \in [CallIds -> Nat]
    BY <1>1, <1>6 DEF CallsTyped
  <2> QED BY <1>3, <1>4, <2>3, <2>4 DEF TrInv
<1>7. CASE /\ conn[c] \in {"destroying", "stuck"}
           /\ destroyCbs' = [destroyCbs EXCEPT ![c] = Wait(@, k)]
           /\ UNCHANGED <<answers, conn, tracked, subscribed, idle>>
  <2>1. destroyCbs' \in [Conns -> SUBSET CallIds]
    BY <1>1, <1>7 DEF Wait
  <2>2. WithinLimits' /\ IsFiniteSet(tracked')
    BY <1>1, <1>2, <1>7, FewerTracked DEF PipelinesSound
  <2>3. PipelinesTyped' /\ Live' = Live
    BY <1>1, <1>2, <1>7, <2>1 DEF PipelinesSound, PipelinesTyped, Live
  <2>4. Covered'
    BY <1>1, <1>2, <1>7, <2>1, <2>3 DEF PipelinesSound, Covered
  <2>5. answers' \in [CallIds -> Nat]
    BY <1>1, <1>7 DEF CallsTyped
  <2> QED BY <1>3, <1>4, <1>7, <2>2, <2>3, <2>4, <2>5 DEF TrInv, PipelinesSound
<1>8. CASE conn[c] = "gone" /\ Run({k}) /\ UNCHANGED pipelines
  <2>1. PipelinesSound'
    BY <1>1, <1>2, <1>8, PipelinesRest
  <2>2. UNCHANGED <<tracked, subscribed>> /\ answers' \in [CallIds -> Nat]
    BY <1>1, <1>8, RunTyped DEF CallsTyped, pipelines
  <2> QED BY <1>3, <1>4, <2>1, <2>2 DEF TrInv
<1> QED BY <1>5, <1>6, <1>7, <1>8 DEF AskDestroy
-----------------------------------------------------------------------------
(* A call that a callback makes, if any.                                   *)
LEMMA NestedTyped ==
  ASSUME CallsTyped, NEW n, Nested(n)
  PROVE  asked' \in 0..MaxCalls /\ (n # 0 => n \in CallIds)
BY IdsTyped DEF CallsTyped, Nested, NextCall

LEMMA OpenedKeeps ==
  ASSUME TrInv, NEW n \in 0..MaxCalls, Opened(n)
  PROVE  TrInv'
<1>1. CallsTyped /\ PipelinesSound /\ ClientAlone
  BY DEF TrInv
<1>2. /\ endpoint = "opening" /\ Nested(n) /\ Run(openCbs) /\ openCbs' = {}
      /\ phState' \in {"open", "closing"} /\ closeCbs' = (IF n = 0 THEN closeCbs ELSE {n})
      /\ endpoint' \in {"open", "closing"} /\ (~IsServer => endpoint' = "open")
      /\ UNCHANGED <<phKind, lost, outlived>>
  BY DEF Opened
<1>3. unclosable' \in BOOLEAN
  BY <1>1 DEF Opened, CallsTyped
<1>4. CallsTyped'
  BY <1>1, <1>2, <1>3, NestedTyped, RunTyped DEF CallsTyped
<1>5. IsServer' <=> IsServer
  BY <1>2 DEF IsServer
<1>6. CASE IsServer
  <2>1. UNCHANGED pipelines
    BY <1>6 DEF Opened
  <2>2. PipelinesSound'
    BY <1>1, <1>2, <2>1, PipelinesRest
  <2>3. ClientAlone'
    BY <1>5, <1>6 DEF ClientAlone
  <2> QED BY <1>4, <2>2, <2>3 DEF TrInv
<1>7. CASE ~IsServer
  <2>1. PICK c \in Conns : ClientPipeline(c)
    BY <1>7 DEF Opened
  <2>2. /\ conn[c] = "free" /\ c \notin Blocked /\ conn' = [conn EXCEPT ![c] = "connected"]
        /\ tracked' = tracked \cup {c} /\ subscribed' = subscribed \cup {c}
        /\ UNCHANGED <<idle, destroyCbs>>
    BY <2>1 DEF ClientPipeline
  <2>3. tracked = {} /\ subscribed = {}
    BY <1>1, <1>2, <1>7 DEF ClientAlone
  <2>4. PipelinesTyped'
    BY <1>1, <1>2, <2>2, TrackOne DEF PipelinesSound, PipelinesTyped, ConnStates
  <2>5. Live' = Live \cup {c}
    BY <1>1, <2>2 DEF Live, Open, PipelinesSound, PipelinesTyped
  <2>6. Covered'
    BY <1>1, <1>2, <1>7, <2>2, <2>5 DEF Covered, IsServer, PipelinesSound, PipelinesTyped
  <2>7. WithinLimits'
    BY <1>5, <1>7 DEF WithinLimits
  <2>8. ClientAlone'
    BY <1>2, <1>7, <2>2, <2>3 DEF ClientAlone
  <2> QED BY <1>4, <2>4, <2>6, <2>7, <2>8 DEF TrInv, PipelinesSound
<1> QED BY <1>6, <1>7

LEMMA OpenFailsKeeps ==
  ASSUME TrInv, NEW n \in 0..MaxCalls, OpenFails(n)
  PROVE  TrInv'
<1>1. CallsTyped /\ PipelinesSound /\ ClientAlone
  BY DEF TrInv
<1>2. /\ endpoint = "opening" /\ Nested(n) /\ Run(openCbs) /\ openCbs' = {}
      /\ \/ phState' = "closed" /\ endpoint' = "none" /\ UNCHANGED lost
         \/ phState' = "opening" /\ endpoint' = "opening" /\ lost' = lost \cup {n} /\ n # 0
      /\ UNCHANGED <<phKind, closeCbs, pipelines, unclosable, outlived>>
  BY DEF OpenFails
<1>3. CallsTyped'
  BY <1>1, <1>2, NestedTyped, RunTyped DEF CallsTyped
<1>4. PipelinesSound'
  BY <1>1, <1>2, PipelinesRest
<1>5. ClientAlone'
  BY <1>1, <1>2 DEF ClientAlone, IsServer, pipelines
<1> QED BY <1>3, <1>4, <1>5 DEF TrInv

LEMMA LayerClosedTyped ==
  ASSUME CallsTyped, NEW n \in 0..MaxCalls, NEW S, LayerClosed(S, n), UNCHANGED <<phKind, lost>>
  PROVE  CallsTyped' /\ endpoint' # "open"
<1>1. /\ Nested(n) /\ Run(S \cup closeCbs) /\ closeCbs' = {} /\ unclosable' = FALSE
      /\ \/ phState' = "closed" /\ endpoint' = "none" /\ UNCHANGED openCbs
         \/ phState' = "opening" /\ endpoint' = "opening" /\ openCbs' = {n} /\ n # 0
  BY DEF LayerClosed
<1> QED BY <1>1, NestedTyped, RunTyped DEF CallsTyped

LEMMA ServerClosedKeeps ==
  ASSUME TrInv, NEW n \in 0..MaxCalls, ServerClosed(n)
  PROVE  TrInv'
<1>1. CallsTyped /\ PipelinesTyped /\ Covered /\ WithinLimits
  BY DEF TrInv, PipelinesSound
<1>2. /\ IsServer /\ LayerClosed({}, n) /\ subscribed' = {} /\ outlived' = outlived \cup Live
      /\ UNCHANGED <<phKind, conn, tracked, idle, destroyCbs, lost>>
  BY DEF ServerClosed
<1>3. CallsTyped'
  BY <1>1, <1>2, LayerClosedTyped
<1>4. WithinLimits' /\ IsFiniteSet(tracked')
  BY <1>1, <1>2, FewerTracked
<1>5. PipelinesTyped' /\ Live' = Live
  BY <1>1, <1>2 DEF PipelinesTyped, Live
<1>6. Covered'
  BY <1>1, <1>2, <1>5 DEF Covered
<1>7. ClientAlone'
  BY <1>2 DEF ClientAlone, IsServer
<1> QED BY <1>3, <1>4, <1>5, <1>6, <1>7 DEF TrInv, PipelinesSound

LEMMA PipelineClosesKeeps ==
  ASSUME TrInv, NEW n \in 0..MaxCalls, NEW c \in Conns, PipelineCloses(c, n)
  PROVE  TrInv'
<1>1. CallsTyped /\ PipelinesTyped /\ Covered /\ WithinLimits /\ ClientAlone
  BY DEF TrInv, PipelinesSound
<1>2. /\ c \in Live /\ conn' = [conn EXCEPT ![c] = "gone"] /\ idle' = idle \ {c}
      /\ destroyCbs' = [destroyCbs EXCEPT ![c] = {}] /\ subscribed' = subscribed \ {c}
      /\ tracked' = IF c \in subscribed THEN tracked \ {c} ELSE tracked
      /\ UNCHANGED <<phKind, lost, outlived>>
  BY DEF PipelineCloses
<1>3. tracked' \subseteq tracked
  BY <1>2
<1>4. WithinLimits' /\ IsFiniteSet(tracked')
  BY <1>1, <1>2, <1>3, FewerTracked
<1>5. PipelinesTyped'
  BY <1>1, <1>2, <1>3, <1>4 DEF PipelinesTyped, ConnStates
<1>6. Live' = Live \ {c}
  BY <1>1, <1>2 DEF Live, Open, PipelinesTyped
<1>7. Covered'
  <2>1. Live' \subseteq tracked' /\ subscribed' \subseteq Live' /\ idle' \subseteq Live'
    BY <1>1, <1>2, <1>6 DEF Covered
  <2>2. tracked' \ subscribed' \subseteq outlived' /\ tracked' \cap Blocked = {}
    BY <1>1, <1>2 DEF Covered
  <2>3. \A d \in Conns : destroyCbs'[d] # {} => conn'[d] \in {"destroying", "stuck"}
    BY <1>1, <1>2 DEF Covered, PipelinesTyped
  <2>4. phKind' = "udpServer" => \A d \in Conns : conn'[d] \in {"free", "refused", "connected", "gone"}
    BY <1>1, <1>2 DEF Covered, PipelinesTyped
  <2>5. \A d \in Conns : conn'[d] = "handshake" => phKind' = "tlsServer"
    BY <1>1, <1>2 DEF Covered, PipelinesTyped
  <2> QED BY <2>1, <2>2, <2>3, <2>4, <2>5 DEF Covered
<1>8. CASE IsServer
  <2>1. Run(destroyCbs[c]) /\ UNCHANGED <<lifecycle, asked, unclosable>>
    BY <1>8 DEF PipelineCloses
  <2>2. CallsTyped'
    BY <1>1, <1>2, <2>1, RunTyped DEF CallsTyped, lifecycle
  <2>3. ClientAlone'
    BY <1>2, <1>8 DEF ClientAlone, IsServer
  <2> QED BY <1>4, <1>5, <1>7, <2>2, <2>3 DEF TrInv, PipelinesSound
<1>9. CASE ~IsServer
  <2>1. LayerClosed(destroyCbs[c], n)
    BY <1>9 DEF PipelineCloses
  <2>2. CallsTyped' /\ endpoint' # "open"
    BY <1>1, <1>2, <2>1, LayerClosedTyped
  <2>3. tracked' = {} /\ subscribed' = {}
    <3>1. c \in tracked /\ subscribed = tracked /\ \A d \in tracked : d = c
      BY <1>1, <1>2, <1>9 DEF ClientAlone, Covered
    <3> QED BY <1>2, <3>1
  <2>4. ClientAlone'
    BY <2>2, <2>3 DEF ClientAlone
  <2> QED BY <1>4, <1>5, <1>7, <2>2, <2>4 DEF TrInv, PipelinesSound
<1> QED BY <1>8, <1>9
-----------------------------------------------------------------------------
(* Only one connection changes, between states in which it is as live as   *)
(* before and, if it waits for its end, still does.                        *)
LEMMA ConnKeeps ==
  ASSUME PipelinesSound, NEW c \in Conns, NEW st \in ConnStates, phKind # "udpServer",
         conn' = [conn EXCEPT ![c] = st],
         UNCHANGED <<phKind, tracked, subscribed, idle, destroyCbs, outlived>>,
         c \in Live <=> st \in Open \cup {"destroying", "stuck"},
         destroyCbs[c] # {} => st \in {"destroying", "stuck"},
         st = "handshake" => phKind = "tlsServer"
  PROVE  PipelinesSound'
<1>1. PipelinesTyped /\ Covered /\ WithinLimits
  BY DEF PipelinesSound
<1>2. WithinLimits' /\ IsFiniteSet(tracked')
  BY <1>1, FewerTracked
<1>3. PipelinesTyped'
  BY <1>1 DEF PipelinesTyped
<1>4. Live' = Live
  BY <1>1 DEF Live, Open, PipelinesTyped
<1>5. \A d \in Conns : destroyCbs'[d] # {} => conn'[d] \in {"destroying", "stuck"}
  BY <1>1 DEF Covered, PipelinesTyped
<1>6. Covered'
  BY <1>1, <1>4, <1>5 DEF Covered
<1> QED BY <1>2, <1>3, <1>6 DEF PipelinesSound

(* The layer and its calls rest.                                           *)
LEMMA CallsRest ==
  ASSUME TrInv, UNCHANGED <<phKind, lifecycle, calls_>>, unclosable' \in BOOLEAN
  PROVE  /\ CallsTyped'
         /\ IsServer \/ (tracked' = tracked /\ subscribed' = subscribed) => ClientAlone'
<1>1. CallsTyped'
  BY DEF TrInv, CallsTyped, lifecycle, calls_
<1>2. IsServer' <=> IsServer
  BY DEF IsServer
<1>3. ASSUME IsServer \/ (tracked' = tracked /\ subscribed' = subscribed) PROVE ClientAlone'
  BY <1>2, <1>3 DEF TrInv, ClientAlone, lifecycle
<1> QED BY <1>1, <1>3

LEMMA ConnEventsKeep ==
  ASSUME TrInv, NEW c \in Conns, PeerEnds(c) \/ HandshakeStarts(c) \/ HandshakeFails(c)
  PROVE  TrInv'
<1>1. PipelinesSound /\ unclosable \in BOOLEAN /\ Covered
  BY DEF TrInv, CallsTyped, PipelinesSound
<1>2. UNCHANGED <<phKind, lifecycle, tracked, subscribed, idle, destroyCbs, calls_, unclosable, outlived>>
  BY DEF PeerEnds, HandshakeStarts, HandshakeFails
<1>3. CallsTyped' /\ ClientAlone'
  BY <1>1, <1>2, CallsRest
<1>4. CASE PeerEnds(c)
  <2>1. phKind # "udpServer" /\ conn[c] = "connected" /\ conn' = [conn EXCEPT ![c] = "ending"]
    BY <1>4 DEF PeerEnds
  <2>2. destroyCbs[c] = {} /\ c \in Live /\ "ending" \in Open /\ "ending" \in ConnStates
    BY <1>1, <2>1 DEF Covered, Live, Open, ConnStates
  <2>3. PipelinesSound'
    BY <1>1, <1>2, <2>1, <2>2, ConnKeeps
  <2> QED BY <1>3, <2>3 DEF TrInv
<1>5. CASE HandshakeStarts(c)
  <2>1. phKind = "tlsServer" /\ conn[c] = "free" /\ conn' = [conn EXCEPT ![c] = "handshake"]
    BY <1>5 DEF HandshakeStarts
  <2>2. /\ destroyCbs[c] = {} /\ c \notin Live /\ "handshake" \in ConnStates
        /\ "handshake" \notin Open \cup {"destroying", "stuck"}
    BY <1>1, <2>1 DEF Covered, Live, Open, ConnStates
  <2>3. PipelinesSound'
    BY <1>1, <1>2, <2>1, <2>2, ConnKeeps
  <2> QED BY <1>3, <2>3 DEF TrInv
<1>6. CASE HandshakeFails(c)
  <2>1. conn[c] = "handshake" /\ conn' = [conn EXCEPT ![c] = "refused"]
    BY <1>6 DEF HandshakeFails
  <2>2. /\ destroyCbs[c] = {} /\ c \notin Live /\ "refused" \in ConnStates /\ phKind # "udpServer"
        /\ "refused" \notin Open \cup {"destroying", "stuck"}
    BY <1>1, <2>1 DEF Covered, Live, Open, ConnStates
  <2>3. PipelinesSound'
    BY <1>1, <1>2, <2>1, <2>2, ConnKeeps
  <2> QED BY <1>3, <2>3 DEF TrInv
<1> QED BY <1>4, <1>5, <1>6

LEMMA PortCloseFailsKeeps ==
  ASSUME TrInv, NEW c \in Conns, PortCloseFails(c)
  PROVE  TrInv'
<1>1. CallsTyped /\ PipelinesTyped /\ Covered /\ WithinLimits /\ ClientAlone
  BY DEF TrInv, PipelinesSound
<1>2. /\ phKind = "serial" /\ conn[c] = "destroying" /\ conn' = [conn EXCEPT ![c] = "stuck"]
      /\ Run(destroyCbs[c]) /\ destroyCbs' = [destroyCbs EXCEPT ![c] = {}] /\ unclosable' = TRUE
      /\ UNCHANGED <<phKind, lifecycle, tracked, subscribed, idle, asked, lost, outlived>>
  BY DEF PortCloseFails
<1>3. CallsTyped'
  BY <1>1, <1>2, RunTyped DEF CallsTyped, lifecycle
<1>4. WithinLimits' /\ IsFiniteSet(tracked')
  BY <1>1, <1>2, FewerTracked
<1>5. PipelinesTyped'
  BY <1>1, <1>2 DEF PipelinesTyped, ConnStates
<1>6. Live' = Live
  BY <1>1, <1>2 DEF Live, Open, PipelinesTyped
<1>7. Covered'
  BY <1>1, <1>2, <1>6 DEF Covered, PipelinesTyped
<1>8. ClientAlone'
  BY <1>1, <1>2 DEF ClientAlone, IsServer, lifecycle
<1> QED BY <1>3, <1>4, <1>5, <1>7, <1>8 DEF TrInv, PipelinesSound

LEMMA AcceptEventsKeep ==
  ASSUME TrInv, NEW c \in Conns, Connect(c) \/ Datagram(c) \/ HandshakeEnds(c)
  PROVE  TrInv'
<1>1. PipelinesSound /\ unclosable \in BOOLEAN /\ Covered
  BY DEF TrInv, CallsTyped, PipelinesSound
<1>2. /\ Accept(c) /\ UNCHANGED <<phKind, lifecycle, destroyCbs, calls_, outlived>>
      /\ conn[c] \in {"free", "handshake", "refused", "gone"} /\ unclosable' \in BOOLEAN
  BY <1>1 DEF Connect, Datagram, HandshakeEnds
<1>3. IsServer
  BY <1>1 DEF Connect, Datagram, HandshakeEnds, IsServer, Covered
<1>4. PipelinesSound'
  BY <1>1, <1>2, <1>3, AcceptKeeps
<1>5. CallsTyped' /\ ClientAlone'
  BY <1>2, <1>3, CallsRest
<1> QED BY <1>4, <1>5 DEF TrInv

LEMMA IdleEventsKeep ==
  ASSUME TrInv, NEW c \in Conns, DataThenDestroy(c) \/ IdleFires(c)
  PROVE  TrInv'
<1>1. PipelinesTyped /\ Covered /\ WithinLimits /\ unclosable \in BOOLEAN /\ PipelinesSound
  BY DEF TrInv, CallsTyped, PipelinesSound
<1>2. c \in Live /\ UNCHANGED <<phKind, lifecycle, destroyCbs, calls_, unclosable, outlived>>
  BY <1>1 DEF DataThenDestroy, IdleFires, Covered, Live, Open
<1>3. CASE phKind = "udpServer"
  <2>1. PeersGone({c})
    BY <1>3 DEF DataThenDestroy, IdleFires
  <2>2. PipelinesSound'
    BY <1>1, <1>2, <1>3, <2>1, PeersGoneKeeps
  <2>3. CallsTyped' /\ ClientAlone'
    BY <1>1, <1>2, <1>3, CallsRest DEF IsServer
  <2> QED BY <2>2, <2>3 DEF TrInv
<1>4. CASE phKind # "udpServer"
  <2>1. /\ UNCHANGED <<tracked, subscribed>> /\ idle' \subseteq idle \cup {c}
        /\ conn' = [conn EXCEPT ![c] = IF @ \in Open THEN "destroying" ELSE @]
    BY <1>4 DEF DataThenDestroy, IdleFires, Open
  <2>2. WithinLimits' /\ IsFiniteSet(tracked')
    BY <1>1, <1>2, <2>1, FewerTracked
  <2>3. PipelinesTyped'
    BY <1>1, <1>2, <2>1 DEF PipelinesTyped, ConnStates
  <2>4. Live' = Live
    BY <1>1, <2>1 DEF Live, Open, PipelinesTyped
  <2>5. \A d \in Conns : destroyCbs'[d] # {} => conn'[d] \in {"destroying", "stuck"}
    BY <1>1, <1>2, <2>1 DEF Covered, PipelinesTyped
  <2>6. Covered'
    BY <1>1, <1>2, <1>4, <2>1, <2>4, <2>5 DEF Covered
  <2>7. CallsTyped' /\ ClientAlone'
    BY <1>1, <1>2, <2>1, CallsRest
  <2> QED BY <2>2, <2>3, <2>6, <2>7 DEF TrInv, PipelinesSound
<1> QED BY <1>3, <1>4
-----------------------------------------------------------------------------
LEMMA TransportStep == TrInv /\ [TrNext]_trVars => TrInv'
<1> SUFFICES ASSUME TrInv, [TrNext]_trVars PROVE TrInv'
  OBVIOUS
<1>1. ASSUME NEW k \in CallIds, AskOpen(k) \/ AskClose(k) \/ \E c \in Conns : AskDestroy(k, c)
      PROVE  TrInv'
  BY <1>1, AskOpenKeeps, AskCloseKeeps, AskDestroyKeeps
<1>2. ASSUME NEW n \in 0..MaxCalls,
             Opened(n) \/ OpenFails(n) \/ ServerClosed(n) \/ \E c \in Conns : PipelineCloses(c, n)
      PROVE  TrInv'
  BY <1>2, OpenedKeeps, OpenFailsKeeps, ServerClosedKeeps, PipelineClosesKeeps
<1>3. ASSUME NEW c \in Conns, PortCloseFails(c) PROVE TrInv'
  BY <1>3, PortCloseFailsKeeps
<1>4. ASSUME NEW c \in Conns, PeerEnds(c) \/ HandshakeStarts(c) \/ HandshakeFails(c) PROVE TrInv'
  BY <1>4, ConnEventsKeep
<1>5. ASSUME NEW c \in Conns, Connect(c) \/ Datagram(c) \/ HandshakeEnds(c) PROVE TrInv'
  BY <1>5, AcceptEventsKeep
<1>6. ASSUME NEW c \in Conns, DataThenDestroy(c) \/ IdleFires(c) PROVE TrInv'
  BY <1>6, IdleEventsKeep
<1>7. CASE UNCHANGED trVars
  <2>1. UNCHANGED <<phKind, lifecycle, pipelines, calls_, unclosable, outlived>>
    BY <1>7 DEF trVars
  <2>2. PipelinesSound'
    BY <2>1, PipelinesRest DEF TrInv
  <2>3. UNCHANGED <<tracked, subscribed>> /\ unclosable' \in BOOLEAN
    BY <2>1 DEF pipelines, TrInv, CallsTyped
  <2>4. CallsTyped' /\ ClientAlone'
    BY <2>1, <2>3, CallsRest
  <2> QED BY <2>2, <2>4 DEF TrInv
<1> QED BY <1>1, <1>2, <1>3, <1>4, <1>5, <1>6, <1>7 DEF TrNext

LEMMA InvGivesAccounted == TrInv => ConnectionsAccounted
<1> SUFFICES ASSUME TrInv PROVE ConnectionsAccounted
  OBVIOUS
<1>1. PipelinesTyped /\ Covered /\ WithinLimits /\ ClientAlone
  BY DEF TrInv, PipelinesSound
<1>2. IsFiniteSet(tracked) /\ Live \subseteq tracked
  BY <1>1 DEF PipelinesTyped, Covered
<1>3. Cardinality(Live) <= MaxConns
  <2>1. /\ Cardinality(Live) \in Nat /\ Cardinality(tracked) \in Nat
        /\ Cardinality(Live) <= Cardinality(tracked)
    BY <1>2, FS_Subset, FS_CardinalityType
  <2>2. CASE IsServer
    <3>1. Cardinality(tracked) <= MaxConns /\ MaxConns \in Nat
      BY <1>1, <2>2, TransportAssumption DEF WithinLimits
    <3> QED BY <2>1, <3>1
  <2>3. CASE ~IsServer
    <3>1. tracked = {} \/ \E c \in tracked : tracked = {c}
      BY <1>1, <2>3 DEF ClientAlone
    <3>2. Cardinality(tracked) \in {0, 1}
      BY <3>1, FS_EmptySet, FS_Singleton
    <3> QED BY <2>1, <3>2, TransportAssumption
  <2> QED BY <2>2, <2>3
<1>4. ASSUME IsServer, NEW c \in Conns PROVE Cardinality(Live \cap Neighbours(c)) <= MaxPerIp
  <2> DEFINE L == Live \cap Neighbours(c)
             T == tracked \cap Neighbours(c)
  <2>1. L \subseteq T /\ IsFiniteSet(T)
    BY <1>2, FS_Subset
  <2>2. Cardinality(T) <= MaxPerIp /\ MaxPerIp \in Nat
    BY <1>1, <1>4, TransportAssumption DEF WithinLimits
  <2> HIDE DEF L, T
  <2>3. Cardinality(L) \in Nat /\ Cardinality(T) \in Nat /\ Cardinality(L) <= Cardinality(T)
    BY <2>1, FS_Subset, FS_CardinalityType
  <2>4. Cardinality(L) <= MaxPerIp
    BY <2>2, <2>3
  <2> QED BY <2>4 DEF L
<1>5. tracked \ Live \subseteq outlived /\ Live \cap Blocked = {}
  BY <1>1 DEF Covered
<1>6. \A c \in Conns : conn[c] = "gone" => c \notin idle \cup subscribed /\ destroyCbs[c] = {}
  BY <1>1 DEF Covered, Live, Open
<1> QED BY <1>2, <1>3, <1>4, <1>5, <1>6 DEF ConnectionsAccounted

(* The state of a physical layer has its types.                            *)
THEOREM TransportTypeCorrect == TrSpec => []TrTypeOK
<1>1. TrInv => TrTypeOK
  BY DEF TrInv, TrTypeOK, PipelinesSound
<1> QED BY <1>1, TransportInit, TransportStep, PTL DEF TrSpec

(* The connections of a server are in the set that close() goes through,   *)
(* allowed and within both limits, and what is gone is gone everywhere but *)
(* where the connection outlived the close of its server: for any number   *)
(* of connections, addresses, limits and calls.                            *)
THEOREM TransportAccounted == TrSpec => []ConnectionsAccounted
BY TransportInit, TransportStep, InvGivesAccounted, PTL DEF TrSpec
-----------------------------------------------------------------------------
(* The write cycles of a serial pipeline.                                  *)
SpTypeOK ==
  /\ spState \in {"connected", "destroying", "destroyed"} /\ isDraining \in BOOLEAN
  /\ writeQueue \in Seq(WriteIds) /\ refilled \in BOOLEAN
  /\ cycles \subseteq [id : WriteIds, phase : {"write", "drain"}]
  /\ wrote \in 0..MaxWrites /\ settled \in [WriteIds -> Nat]

(* A write waits once in the queue.                                        *)
NoneTwice(q) == \A i, j \in DOMAIN q : q[i] = q[j] => i = j

(* Each write made waits, is in the port or is settled, and one not made   *)
(* yet is in none of these.                                                *)
Placed(waiting, inPort, done, k) ==
  IF k <= wrote THEN \/ done = 1 /\ ~waiting /\ ~inPort
                     \/ done = 0 /\ (waiting <=> ~inPort)
  ELSE done = 0 /\ ~waiting /\ ~inPort
WritesPlaced ==
  \A k \in WriteIds : Placed(k \in Queued_(writeQueue), Cycle(k, "write") \in cycles, settled[k], k)

OneCycle ==
  ~refilled /\ spState # "destroyed" =>
    /\ IF isDraining THEN \E c \in cycles : cycles = {c} ELSE cycles = {}
    /\ writeQueue # <<>> => isDraining

SpInv == SpTypeOK /\ NoneTwice(writeQueue) /\ WritesPlaced /\ OneCycle
-----------------------------------------------------------------------------
(* What joining the queue and leaving it do to it as a set.                *)
LEMMA JoinsQueue ==
  ASSUME NEW S, NEW q \in Seq(S), NEW n \in S, NoneTwice(q), n \notin Queued_(q)
  PROVE  /\ Append(q, n) \in Seq(S) /\ NoneTwice(Append(q, n))
         /\ Queued_(Append(q, n)) = Queued_(q) \cup {n}
<1>1. Append(q, n) \in Seq(S) /\ Len(Append(q, n)) = Len(q) + 1
  OBVIOUS
<1>2. \A i \in 1..Len(q) : Append(q, n)[i] = q[i]
  OBVIOUS
<1>3. Append(q, n)[Len(q) + 1] = n
  OBVIOUS
<1>4. DOMAIN q = 1..Len(q) /\ DOMAIN Append(q, n) = 1..(Len(q) + 1) /\ Len(q) \in Nat
  BY <1>1
<1>5. NoneTwice(Append(q, n))
  BY <1>2, <1>3, <1>4 DEF NoneTwice, Queued_
<1>6. Queued_(Append(q, n)) = Queued_(q) \cup {n}
  BY <1>2, <1>3, <1>4 DEF Queued_
<1> QED BY <1>1, <1>5, <1>6

LEMMA LeavesQueue ==
  ASSUME NEW S, NEW q \in Seq(S), q # <<>>, NoneTwice(q)
  PROVE  /\ Tail(q) \in Seq(S) /\ NoneTwice(Tail(q)) /\ Head(q) \in S
         /\ Head(q) \in Queued_(q) /\ Queued_(Tail(q)) = Queued_(q) \ {Head(q)}
<1>1. Tail(q) \in Seq(S) /\ Len(Tail(q)) = Len(q) - 1 /\ Len(q) \in Nat \ {0}
  OBVIOUS
<1>2. \A i \in 1..(Len(q) - 1) : Tail(q)[i] = q[i + 1]
  OBVIOUS
<1>3. Head(q) = q[1] /\ 1 \in DOMAIN q
  OBVIOUS
<1>4. DOMAIN q = 1..Len(q) /\ DOMAIN Tail(q) = 1..(Len(q) - 1)
  BY <1>1
<1>5. NoneTwice(Tail(q))
  <2> SUFFICES ASSUME NEW i \in DOMAIN Tail(q), NEW j \in DOMAIN Tail(q), Tail(q)[i] = Tail(q)[j]
               PROVE  i = j
    BY DEF NoneTwice
  <2>1. i + 1 \in DOMAIN q /\ j + 1 \in DOMAIN q /\ q[i + 1] = q[j + 1]
    BY <1>1, <1>2, <1>4
  <2> QED BY <2>1, <1>4 DEF NoneTwice
<1>6. Queued_(Tail(q)) \subseteq Queued_(q) \ {Head(q)}
  <2> SUFFICES ASSUME NEW i \in DOMAIN Tail(q)
               PROVE  Tail(q)[i] \in Queued_(q) \ {Head(q)}
    BY DEF Queued_
  <2>1. i + 1 \in DOMAIN q /\ Tail(q)[i] = q[i + 1] /\ i + 1 # 1
    BY <1>1, <1>2, <1>4
  <2> QED BY <2>1, <1>3 DEF NoneTwice, Queued_
<1>7. Queued_(q) \ {Head(q)} \subseteq Queued_(Tail(q))
  <2> SUFFICES ASSUME NEW i \in DOMAIN q, q[i] # Head(q)
               PROVE  q[i] \in Queued_(Tail(q))
    BY DEF Queued_
  <2>1. i - 1 \in DOMAIN Tail(q) /\ Tail(q)[i - 1] = q[i]
    BY <1>1, <1>2, <1>3, <1>4
  <2> QED BY <2>1 DEF Queued_
<1>8. Head(q) \in S /\ Head(q) \in Queued_(q)
  BY <1>3 DEF Queued_
<1>9. Queued_(Tail(q)) = Queued_(q) \ {Head(q)}
  BY <1>6, <1>7
<1> QED BY <1>1, <1>5, <1>8, <1>9
-----------------------------------------------------------------------------
LEMMA InitHolds == SpInit => SpInv
<1> SUFFICES ASSUME SpInit PROVE SpInv
  OBVIOUS
<1>1. writeQueue \in Seq(WriteIds) /\ DOMAIN writeQueue = {}
  BY DEF SpInit
<1>2. SpTypeOK
  <2>1. wrote \in 0..MaxWrites
    BY SerialAssumption DEF SpInit
  <2>2. settled \in [WriteIds -> Nat]
    BY DEF SpInit
  <2>3. cycles \subseteq [id : WriteIds, phase : {"write", "drain"}]
    BY DEF SpInit
  <2> QED BY <1>1, <2>1, <2>2, <2>3 DEF SpTypeOK, SpInit
<1>3. NoneTwice(writeQueue) /\ Queued_(writeQueue) = {}
  BY <1>1 DEF NoneTwice, Queued_
<1>4. WritesPlaced
  BY <1>3, SerialAssumption DEF WritesPlaced, Placed, WriteIds, SpInit
<1>5. OneCycle
  BY DEF OneCycle, SpInit
<1> QED BY <1>2, <1>3, <1>4, <1>5 DEF SpInv

(* A write made now is in no place yet.                                    *)
LEMMA FreshWrite ==
  ASSUME SpInv, NEW n, MadeBy(n)
  PROVE  /\ wrote' \in 0..MaxWrites
         /\ \/ n = 0 /\ wrote' = wrote
            \/ /\ n \in WriteIds /\ n = wrote + 1 /\ wrote' = n
               /\ n \notin Queued_(writeQueue) /\ Cycle(n, "write") \notin cycles /\ settled[n] = 0
<1>1. wrote \in 0..MaxWrites /\ MaxWrites \in Nat
  BY SerialAssumption DEF SpInv, SpTypeOK
<1>2. CASE n = 0
  BY <1>1, <1>2 DEF MadeBy
<1>3. CASE n # 0
  <2>1. n \in WriteIds /\ n = wrote + 1 /\ wrote' = n
    BY <1>1, <1>3 DEF MadeBy, WriteIds
  <2>2. Placed(n \in Queued_(writeQueue), Cycle(n, "write") \in cycles, settled[n], n)
    BY <2>1 DEF SpInv, WritesPlaced
  <2>3. ~(n <= wrote)
    BY <2>1, <1>1
  <2>4. n \notin Queued_(writeQueue) /\ Cycle(n, "write") \notin cycles /\ settled[n] = 0
    BY <2>2, <2>3 DEF Placed
  <2> QED BY <2>1, <2>4, <1>1 DEF WriteIds
<1> QED BY <1>2, <1>3

LEMMA QueueGrows ==
  ASSUME SpInv, NEW n, MadeBy(n)
  PROVE  /\ QueueWith(n) \in Seq(WriteIds) /\ NoneTwice(QueueWith(n))
         /\ Queued_(QueueWith(n)) =
              Queued_(writeQueue) \cup (IF n # 0 /\ spState = "connected" THEN {n} ELSE {})
<1>1. writeQueue \in Seq(WriteIds) /\ NoneTwice(writeQueue)
  BY DEF SpInv, SpTypeOK
<1>2. CASE n # 0 /\ spState = "connected"
  <2>1. n \in WriteIds /\ n \notin Queued_(writeQueue)
    BY <1>2, FreshWrite
  <2>2. QueueWith(n) = Append(writeQueue, n)
    BY <1>2 DEF QueueWith
  <2> QED BY <1>1, <1>2, <2>1, <2>2, JoinsQueue
<1>3. CASE ~(n # 0 /\ spState = "connected")
  BY <1>1, <1>3 DEF QueueWith
<1> QED BY <1>2, <1>3

(* The callbacks of the writes in S have run.                              *)
LEMMA CallBackTyped ==
  ASSUME SpInv, NEW S, CallBack(S)
  PROVE  /\ settled' \in [WriteIds -> Nat]
         /\ \A k \in WriteIds : settled'[k] = IF k \in S THEN settled[k] + 1 ELSE settled[k]
BY DEF SpInv, SpTypeOK, CallBack

Present(k) == k \in Queued_(writeQueue) \/ Cycle(k, "write") \in cycles

(* A step has settled the writes in S, n being the one made by it if any:  *)
(* they have left queue and port, and the others are in one of them.       *)
Settling(n, S) ==
  /\ \A k \in WriteIds : settled'[k] = IF k \in S THEN settled[k] + 1 ELSE settled[k]
  /\ \A k \in WriteIds : k \in S => (Present(k) \/ k = n) /\ ~Present(k)'
  /\ \A k \in WriteIds : k \notin S /\ (Present(k) \/ k = n) =>
                            (k \in Queued_(writeQueue)' <=> Cycle(k, "write") \notin cycles')
  /\ \A k \in WriteIds : Present(k)' => Present(k) \/ k = n

LEMMA PlacesKept ==
  ASSUME SpInv, NEW n, MadeBy(n), NEW S, Settling(n, S)
  PROVE  WritesPlaced'
<1> SUFFICES ASSUME NEW k \in WriteIds
             PROVE  Placed(k \in Queued_(writeQueue), Cycle(k, "write") \in cycles, settled[k], k)'
  BY DEF WritesPlaced
<1> DEFINE w == k \in Queued_(writeQueue)
           p == Cycle(k, "write") \in cycles
           wn == k \in Queued_(writeQueue)'
           pn == Cycle(k, "write") \in cycles'
<1>1. Placed(w, p, settled[k], k)
  BY DEF SpInv, WritesPlaced
<1>2. settled[k] \in Nat /\ k \in Nat /\ wrote \in Nat /\ wrote' \in Nat
  BY FreshWrite DEF SpInv, SpTypeOK, WriteIds
<1>3. (k <= wrote') <=> (k <= wrote \/ k = n)
  BY <1>2, FreshWrite DEF WriteIds
<1>4. k = n => ~(k <= wrote)
  BY <1>2, FreshWrite DEF WriteIds
<1>5. settled'[k] = IF k \in S THEN settled[k] + 1 ELSE settled[k]
  BY DEF Settling
<1>6. IF k \in S THEN (w \/ p \/ k = n) /\ ~wn /\ ~pn
      ELSE IF w \/ p \/ k = n THEN wn <=> ~pn ELSE ~wn /\ ~pn
  BY DEF Present, Settling
<1>7. IF k <= wrote' THEN (settled'[k] = 1 /\ ~wn /\ ~pn) \/ (settled'[k] = 0 /\ (wn <=> ~pn))
      ELSE settled'[k] = 0 /\ ~wn /\ ~pn
  <2> HIDE DEF w, p, wn, pn
  <2>1. IF k <= wrote THEN (settled[k] = 1 /\ ~w /\ ~p) \/ (settled[k] = 0 /\ (w <=> ~p))
        ELSE settled[k] = 0 /\ ~w /\ ~p
    BY <1>1 DEF Placed
  <2>2. CASE k \in S
    <3>1. settled[k] = 0 /\ k <= wrote'
      BY <2>1, <2>2, <1>3, <1>4, <1>6
    <3>2. settled'[k] = 1
      BY <3>1, <2>2, <1>5
    <3> QED BY <3>1, <3>2, <2>2, <1>6
  <2>3. CASE k \notin S
    BY <2>1, <2>3, <1>3, <1>4, <1>5, <1>6
  <2> QED BY <2>2, <2>3
<1> QED BY <1>7 DEF Placed
-----------------------------------------------------------------------------
(* Cycles differ in their write or in their phase.                         *)
LEMMA CyclesDiffer ==
  \A j, k : /\ (Cycle(j, "write") = Cycle(k, "write")) <=> j = k
            /\ Cycle(j, "write") # Cycle(k, "drain")
BY DEF Cycle

LEMMA CycleTyped ==
  ASSUME NEW k \in WriteIds
  PROVE  /\ Cycle(k, "write") \in [id : WriteIds, phase : {"write", "drain"}]
         /\ Cycle(k, "drain") \in [id : WriteIds, phase : {"write", "drain"}]
BY DEF Cycle

LEMMA WriteKeeps ==
  ASSUME SpInv, NEW n \in 0..MaxWrites, Write(n)
  PROVE  SpInv'
<1>1. n \in WriteIds /\ MadeBy(n) /\ n \notin Queued_(writeQueue)
      /\ Cycle(n, "write") \notin cycles /\ wrote' \in 0..MaxWrites
  BY FreshWrite DEF Write
<1>2. SpTypeOK /\ NoneTwice(writeQueue) /\ OneCycle /\ WritesPlaced
  BY DEF SpInv
<1>3. \A k \in WriteIds : k \in Queued_(writeQueue) => Cycle(k, "write") \notin cycles
  BY <1>2 DEF WritesPlaced, Placed
<1>4. CASE spState = "connected" /\ isDraining
  <2>1. writeQueue' = Append(writeQueue, n) /\ UNCHANGED <<isDraining, cycles, settled, spState, refilled>>
    BY <1>4 DEF Write
  <2>2. /\ writeQueue' \in Seq(WriteIds) /\ NoneTwice(writeQueue')
        /\ Queued_(writeQueue)' = Queued_(writeQueue) \cup {n}
    BY <1>1, <1>2, <2>1, JoinsQueue DEF SpTypeOK
  <2>3. SpTypeOK'
    BY <1>1, <1>2, <2>1, <2>2 DEF SpTypeOK
  <2>4. WritesPlaced'
    <3>1. Settling(n, {})
      BY <1>1, <1>3, <2>1, <2>2 DEF Settling, Present
    <3> QED BY <1>1, <3>1, PlacesKept
  <2>5. OneCycle'
    BY <1>2, <1>4, <2>1 DEF OneCycle
  <2> QED BY <2>2, <2>3, <2>4, <2>5 DEF SpInv
<1>5. CASE spState = "connected" /\ ~isDraining
  <2>1. /\ isDraining' = TRUE /\ cycles' = cycles \cup {Cycle(n, "write")}
        /\ UNCHANGED <<writeQueue, settled, spState, refilled>>
    BY <1>5 DEF Write
  <2>2. NoneTwice(writeQueue') /\ Queued_(writeQueue)' = Queued_(writeQueue)
    BY <1>2, <2>1
  <2>3. SpTypeOK'
    <3>1. cycles' \subseteq [id : WriteIds, phase : {"write", "drain"}]
      BY <1>1, <1>2, <2>1, CycleTyped DEF SpTypeOK
    <3> QED BY <1>1, <1>2, <2>1, <3>1 DEF SpTypeOK
  <2>4. WritesPlaced'
    <3>1. \A k \in WriteIds : Cycle(k, "write") \in cycles' <=> Cycle(k, "write") \in cycles \/ k = n
      BY <2>1, CyclesDiffer
    <3>2. Settling(n, {})
      BY <1>1, <1>3, <2>1, <2>2, <3>1 DEF Settling, Present
    <3> QED BY <1>1, <3>2, PlacesKept
  <2>5. OneCycle'
    BY <1>2, <1>5, <2>1 DEF OneCycle
  <2> QED BY <2>2, <2>3, <2>4, <2>5 DEF SpInv
<1>6. CASE spState # "connected"
  <2>1. CallBack({n}) /\ UNCHANGED <<isDraining, writeQueue, cycles, spState, refilled>>
    BY <1>6 DEF Write
  <2>2. NoneTwice(writeQueue') /\ Queued_(writeQueue)' = Queued_(writeQueue)
    BY <1>2, <2>1
  <2>3. /\ settled' \in [WriteIds -> Nat]
        /\ \A k \in WriteIds : settled'[k] = IF k \in {n} THEN settled[k] + 1 ELSE settled[k]
    BY <2>1, CallBackTyped
  <2>4. SpTypeOK'
    BY <1>1, <1>2, <2>1, <2>3 DEF SpTypeOK
  <2>5. WritesPlaced'
    <3>1. Settling(n, {n})
      BY <1>1, <1>3, <2>1, <2>2, <2>3 DEF Settling, Present
    <3> QED BY <1>1, <3>1, PlacesKept
  <2>6. OneCycle'
    BY <1>2, <2>1 DEF OneCycle
  <2> QED BY <2>2, <2>4, <2>5, <2>6 DEF SpInv
<1> QED BY <1>4, <1>5, <1>6

LEMMA WriteTakenKeeps ==
  ASSUME SpInv, NEW n \in 0..MaxWrites, NEW k \in WriteIds, WriteTaken(k, n)
  PROVE  SpInv'
<1> DEFINE S == {k} \cup FailsAtOnce(n)
<1>1. /\ MadeBy(n) /\ wrote' \in 0..MaxWrites
      /\ n = 0 \/ (n \in WriteIds /\ ~Present(n) /\ n # 0)
  BY FreshWrite DEF WriteTaken, Present, WriteIds
<1>2. SpTypeOK /\ NoneTwice(writeQueue) /\ OneCycle /\ WritesPlaced
  BY DEF SpInv
<1>3. \A j \in WriteIds : j \in Queued_(writeQueue) => Cycle(j, "write") \notin cycles
  BY <1>2 DEF WritesPlaced, Placed
<1>4. /\ Cycle(k, "write") \in cycles /\ CallBack(S) /\ writeQueue' = QueueWith(n)
      /\ cycles' = (cycles \ {Cycle(k, "write")}) \cup {Cycle(k, "drain")}
      /\ UNCHANGED <<spState, isDraining, refilled>>
  BY DEF WriteTaken
<1>5. /\ writeQueue' \in Seq(WriteIds) /\ NoneTwice(writeQueue')
      /\ Queued_(writeQueue)' =
           Queued_(writeQueue) \cup (IF n # 0 /\ spState = "connected" THEN {n} ELSE {})
  BY <1>1, <1>4, QueueGrows
<1>6. /\ settled' \in [WriteIds -> Nat]
      /\ \A j \in WriteIds : settled'[j] = IF j \in S THEN settled[j] + 1 ELSE settled[j]
  BY <1>4, CallBackTyped
<1>7. SpTypeOK'
  <2>1. cycles' \subseteq [id : WriteIds, phase : {"write", "drain"}]
    BY <1>2, <1>4, CycleTyped DEF SpTypeOK
  <2> QED BY <1>1, <1>2, <1>4, <1>5, <1>6, <2>1 DEF SpTypeOK
<1>8. WritesPlaced'
  <2>1. \A j \in WriteIds : Cycle(j, "write") \in cycles' <=> Cycle(j, "write") \in cycles /\ j # k
    BY <1>4, CyclesDiffer
  <2>2. Settling(n, S)
    BY <1>1, <1>3, <1>4, <1>5, <1>6, <2>1 DEF Settling, Present, FailsAtOnce, WriteIds
  <2> QED BY <1>1, <2>2, PlacesKept
<1>9. OneCycle'
  <2> SUFFICES ASSUME ~refilled, spState # "destroyed"
               PROVE  isDraining' /\ \E c \in cycles' : cycles' = {c}
    BY <1>4 DEF OneCycle
  <2>1. isDraining /\ cycles = {Cycle(k, "write")}
    BY <1>2, <1>4 DEF OneCycle
  <2> QED BY <1>4, <2>1
<1> QED BY <1>5, <1>7, <1>8, <1>9 DEF SpInv

LEMMA DrainedKeeps ==
  ASSUME SpInv, NEW n \in 0..MaxWrites, NEW k \in WriteIds, Drained(k, n)
  PROVE  SpInv'
<1> DEFINE S == FailsAtOnce(n)
           q == QueueWith(n)
           rest == cycles \ {Cycle(k, "drain")}
<1>1. /\ MadeBy(n) /\ wrote' \in 0..MaxWrites
      /\ n = 0 \/ (n \in WriteIds /\ ~Present(n) /\ n # 0)
  BY FreshWrite DEF Drained, Present, WriteIds
<1>2. SpTypeOK /\ NoneTwice(writeQueue) /\ OneCycle /\ WritesPlaced
  BY DEF SpInv
<1>3. \A j \in WriteIds : j \in Queued_(writeQueue) => Cycle(j, "write") \notin cycles
  BY <1>2 DEF WritesPlaced, Placed
<1>4. /\ Cycle(k, "drain") \in cycles /\ CallBack(S) /\ NextCycle(q, rest)
      /\ UNCHANGED <<spState, refilled>>
  BY DEF Drained
<1>5. /\ q \in Seq(WriteIds) /\ NoneTwice(q)
      /\ Queued_(q) = Queued_(writeQueue) \cup (IF n # 0 /\ spState = "connected" THEN {n} ELSE {})
  BY <1>1, QueueGrows
<1>6. /\ settled' \in [WriteIds -> Nat]
      /\ \A j \in WriteIds : settled'[j] = IF j \in S THEN settled[j] + 1 ELSE settled[j]
  BY <1>4, CallBackTyped
<1>7. \A j \in WriteIds : Cycle(j, "write") \in rest <=> Cycle(j, "write") \in cycles
  BY CyclesDiffer
<1>8. ~refilled /\ spState # "destroyed" => rest = {}
  BY <1>2, <1>4 DEF OneCycle
<1>9. CASE q = <<>>
  <2>1. isDraining' = FALSE /\ writeQueue' = q /\ cycles' = rest
    BY <1>4, <1>9 DEF NextCycle
  <2>2. SpTypeOK'
    BY <1>1, <1>2, <1>4, <1>5, <1>6, <2>1 DEF SpTypeOK
  <2>3. WritesPlaced'
    <3>1. Settling(n, S)
      BY <1>1, <1>3, <1>5, <1>6, <1>7, <2>1 DEF Settling, Present, FailsAtOnce, WriteIds
    <3> QED BY <1>1, <3>1, PlacesKept
  <2>4. OneCycle'
    BY <1>4, <1>8, <1>9, <2>1 DEF OneCycle
  <2> QED BY <1>5, <2>1, <2>2, <2>3, <2>4 DEF SpInv
<1>10. CASE q # <<>>
  <2> DEFINE h == Head(q)
  <2>1. isDraining' = TRUE /\ writeQueue' = Tail(q) /\ cycles' = rest \cup {Cycle(h, "write")}
    BY <1>4, <1>10 DEF NextCycle
  <2>2. /\ writeQueue' \in Seq(WriteIds) /\ NoneTwice(writeQueue') /\ h \in WriteIds
        /\ h \in Queued_(q) /\ Queued_(writeQueue)' = Queued_(q) \ {h}
    BY <1>5, <1>10, <2>1, LeavesQueue
  <2> HIDE DEF h
  <2>3. SpTypeOK'
    <3>1. cycles' \subseteq [id : WriteIds, phase : {"write", "drain"}]
      BY <1>2, <2>1, <2>2, CycleTyped DEF SpTypeOK
    <3> QED BY <1>1, <1>2, <1>4, <1>6, <2>1, <2>2, <3>1 DEF SpTypeOK
  <2>4. WritesPlaced'
    <3>1. \A j \in WriteIds : Cycle(j, "write") \in cycles' <=> Cycle(j, "write") \in cycles \/ j = h
      BY <1>7, <2>1, CyclesDiffer
    <3>2. Settling(n, S)
      BY <1>1, <1>3, <1>5, <1>6, <2>2, <3>1 DEF Settling, Present, FailsAtOnce, WriteIds
    <3> QED BY <1>1, <3>2, PlacesKept
  <2>5. OneCycle'
    BY <1>4, <1>8, <2>1 DEF OneCycle
  <2> QED BY <2>2, <2>3, <2>4, <2>5 DEF SpInv
<1> QED BY <1>9, <1>10

(* A write or a drain fails: failed is the write, or nothing.              *)
LEMMA FlushKeeps ==
  ASSUME SpInv, NEW n \in 0..MaxWrites, NEW k \in WriteIds, NEW phase \in {"write", "drain"},
         Cycle(k, phase) \in cycles, UNCHANGED spState,
         FlushWithError(IF phase = "write" THEN {k} ELSE {}, cycles \ {Cycle(k, phase)}, n)
  PROVE  SpInv'
<1> DEFINE failed == IF phase = "write" THEN {k} ELSE {}
           rest == cycles \ {Cycle(k, phase)}
           S == failed \cup Queued_(writeQueue) \cup FailsAtOnce(n)
<1>1. /\ MadeBy(n) /\ wrote' \in 0..MaxWrites
      /\ n = 0 \/ (n \in WriteIds /\ ~Present(n) /\ n # 0)
  BY FreshWrite DEF FlushWithError, Present, WriteIds
<1>2. SpTypeOK /\ NoneTwice(writeQueue) /\ OneCycle /\ WritesPlaced
  BY DEF SpInv
<1>3. \A j \in WriteIds : j \in Queued_(writeQueue) => Cycle(j, "write") \notin cycles
  BY <1>2 DEF WritesPlaced, Placed
<1>4. /\ CallBack(S) /\ writeQueue' = <<>>
      /\ IF n # 0 /\ spState = "connected"
         THEN /\ cycles' = rest \cup {Cycle(n, "write")} /\ isDraining' \in BOOLEAN
              /\ refilled' = (refilled \/ ~isDraining')
         ELSE cycles' = rest /\ isDraining' = FALSE /\ UNCHANGED refilled
  BY DEF FlushWithError
<1>5. /\ settled' \in [WriteIds -> Nat]
      /\ \A j \in WriteIds : settled'[j] = IF j \in S THEN settled[j] + 1 ELSE settled[j]
  BY <1>4, CallBackTyped
<1>6. writeQueue' \in Seq(WriteIds) /\ NoneTwice(writeQueue') /\ Queued_(writeQueue)' = {}
  BY <1>4 DEF NoneTwice, Queued_
<1>7. /\ \A j \in WriteIds : Cycle(j, "write") \in rest <=> Cycle(j, "write") \in cycles /\ j \notin failed
      /\ k \in failed => Cycle(k, "write") \in cycles
  BY CyclesDiffer
<1>8. ~refilled /\ spState # "destroyed" => rest = {}
  BY <1>2 DEF OneCycle
<1>9. failed \subseteq {k}
  OBVIOUS
<1> HIDE DEF failed, rest
<1>10. SpTypeOK'
  <2>1. rest \subseteq [id : WriteIds, phase : {"write", "drain"}]
    BY <1>2 DEF SpTypeOK, rest
  <2>2. cycles' \subseteq [id : WriteIds, phase : {"write", "drain"}]
    BY <1>1, <1>4, <2>1, CycleTyped
  <2>3. isDraining' \in BOOLEAN /\ refilled' \in BOOLEAN
    BY <1>2, <1>4 DEF SpTypeOK
  <2> QED BY <1>1, <1>2, <1>5, <1>6, <2>2, <2>3 DEF SpTypeOK
<1>11. WritesPlaced'
  <2>1. \A j \in WriteIds : Cycle(j, "write") \in cycles' <=>
          (Cycle(j, "write") \in cycles /\ j \notin failed) \/ (j = n /\ spState = "connected")
    BY <1>1, <1>4, <1>7, CyclesDiffer DEF WriteIds
  <2>2. Settling(n, S)
    BY <1>1, <1>3, <1>5, <1>6, <1>7, <1>9, <2>1 DEF Settling, Present, FailsAtOnce, WriteIds
  <2> QED BY <1>1, <2>2, PlacesKept
<1>12. OneCycle'
  BY <1>4, <1>8, <1>6 DEF OneCycle
<1> QED BY <1>6, <1>10, <1>11, <1>12 DEF SpInv

LEMMA PortClosedKeeps ==
  ASSUME SpInv, PortClosed
  PROVE  SpInv'
<1>1. SpTypeOK /\ NoneTwice(writeQueue) /\ WritesPlaced
  BY DEF SpInv
<1>2. /\ CallBack(Queued_(writeQueue)) /\ writeQueue' = <<>> /\ isDraining' = FALSE
      /\ spState' = "destroyed" /\ UNCHANGED <<cycles, wrote, refilled>>
  BY DEF PortClosed
<1>3. /\ settled' \in [WriteIds -> Nat]
      /\ \A k \in WriteIds : settled'[k] = IF k \in Queued_(writeQueue) THEN settled[k] + 1 ELSE settled[k]
  BY <1>2, CallBackTyped
<1>4. writeQueue' \in Seq(WriteIds) /\ NoneTwice(writeQueue') /\ Queued_(writeQueue)' = {}
  BY <1>2 DEF NoneTwice, Queued_
<1>5. SpTypeOK'
  BY <1>1, <1>2, <1>3, <1>4 DEF SpTypeOK
<1>6. WritesPlaced'
  <2>1. MadeBy(0)
    BY <1>1, <1>2, SerialAssumption DEF MadeBy, SpTypeOK
  <2>2. \A k \in WriteIds : k # 0
    BY DEF WriteIds
  <2>3. \A k \in WriteIds : k \in Queued_(writeQueue) => Cycle(k, "write") \notin cycles
    BY <1>1 DEF WritesPlaced, Placed
  <2>4. Settling(0, Queued_(writeQueue))
    BY <1>2, <1>3, <1>4, <2>2, <2>3 DEF Settling, Present
  <2> QED BY <2>1, <2>4, PlacesKept
<1>7. OneCycle'
  BY <1>2 DEF OneCycle
<1> QED BY <1>4, <1>5, <1>6, <1>7 DEF SpInv

LEMMA StutterKeeps ==
  ASSUME SpInv, UNCHANGED <<isDraining, writeQueue, cycles, wrote, settled, refilled>>,
         spState' \in {"connected", "destroying", "destroyed"}, spState = "destroyed" => spState' = "destroyed"
  PROVE  SpInv'
<1>1. SpTypeOK /\ NoneTwice(writeQueue) /\ OneCycle /\ WritesPlaced
  BY DEF SpInv
<1>2. SpTypeOK'
  BY <1>1 DEF SpTypeOK
<1>3. WritesPlaced' /\ NoneTwice(writeQueue)'
  BY <1>1 DEF WritesPlaced, Placed, Queued_, NoneTwice
<1>4. OneCycle'
  BY <1>1 DEF OneCycle
<1> QED BY <1>2, <1>3, <1>4 DEF SpInv

LEMMA StepKeeps == SpInv /\ [SpNext]_spVars => SpInv'
<1> SUFFICES ASSUME SpInv, [SpNext]_spVars PROVE SpInv'
  OBVIOUS
<1>0. spState \in {"connected", "destroying", "destroyed"}
  BY DEF SpInv, SpTypeOK
<1>1. CASE Destroy
  BY <1>0, <1>1, StutterKeeps DEF Destroy
<1>2. CASE PortClosed
  BY <1>2, PortClosedKeeps
<1>3. ASSUME NEW n \in 0..MaxWrites, Write(n) PROVE SpInv'
  BY <1>3, WriteKeeps
<1>4. ASSUME NEW n \in 0..MaxWrites, NEW k \in WriteIds, WriteTaken(k, n) PROVE SpInv'
  BY <1>4, WriteTakenKeeps
<1>5. ASSUME NEW n \in 0..MaxWrites, NEW k \in WriteIds, Drained(k, n) PROVE SpInv'
  BY <1>5, DrainedKeeps
<1>6. ASSUME NEW n \in 0..MaxWrites, NEW k \in WriteIds, WriteFails(k, n) PROVE SpInv'
  <2>1. FlushWithError(IF "write" = "write" THEN {k} ELSE {}, cycles \ {Cycle(k, "write")}, n)
    BY <1>6 DEF WriteFails
  <2>2. Cycle(k, "write") \in cycles /\ UNCHANGED spState
    BY <1>6 DEF WriteFails
  <2> QED BY <2>1, <2>2, FlushKeeps
<1>7. ASSUME NEW n \in 0..MaxWrites, NEW k \in WriteIds, DrainFails(k, n) PROVE SpInv'
  <2>1. FlushWithError(IF "drain" = "write" THEN {k} ELSE {}, cycles \ {Cycle(k, "drain")}, n)
    BY <1>7 DEF DrainFails
  <2>2. Cycle(k, "drain") \in cycles /\ UNCHANGED spState
    BY <1>7 DEF DrainFails
  <2> QED BY <2>1, <2>2, FlushKeeps
<1>8. CASE UNCHANGED spVars
  BY <1>0, <1>8, StutterKeeps DEF spVars
<1> QED BY <1>1, <1>2, <1>3, <1>4, <1>5, <1>6, <1>7, <1>8 DEF SpNext
-----------------------------------------------------------------------------
(* Among the places of a write and its callback there is one of it: the    *)
(* sum of its occurrences is 1.                                            *)
LEMMA OnePlace ==
  ASSUME SpInv, NEW k \in 1..wrote
  PROVE  settled[k] + Cardinality({i \in DOMAIN writeQueue : writeQueue[i] = k})
                    + Cardinality({c \in cycles : c = Cycle(k, "write")}) = 1
<1> DEFINE I == {i \in DOMAIN writeQueue : writeQueue[i] = k}
           C == {c \in cycles : c = Cycle(k, "write")}
<1>1. k \in WriteIds /\ k <= wrote
  BY SerialAssumption DEF SpInv, SpTypeOK, WriteIds
<1>2. Placed(k \in Queued_(writeQueue), Cycle(k, "write") \in cycles, settled[k], k)
  BY <1>1 DEF SpInv, WritesPlaced
<1>3. k \notin Queued_(writeQueue) => Cardinality(I) = 0
  <2>1. k \notin Queued_(writeQueue) => I = {}
    BY DEF Queued_
  <2> QED BY <2>1, FS_EmptySet
<1>4. k \in Queued_(writeQueue) => Cardinality(I) = 1
  <2> SUFFICES ASSUME k \in Queued_(writeQueue) PROVE Cardinality(I) = 1
    OBVIOUS
  <2>1. PICK i \in DOMAIN writeQueue : writeQueue[i] = k
    BY DEF Queued_
  <2>2. I = {i}
    BY <2>1 DEF SpInv, NoneTwice
  <2> QED BY <2>2, FS_Singleton
<1>5. Cycle(k, "write") \notin cycles => Cardinality(C) = 0
  <2>1. Cycle(k, "write") \notin cycles => C = {}
    OBVIOUS
  <2> QED BY <2>1, FS_EmptySet
<1>6. Cycle(k, "write") \in cycles => Cardinality(C) = 1
  <2>1. Cycle(k, "write") \in cycles => C = {Cycle(k, "write")}
    OBVIOUS
  <2> QED BY <2>1, FS_Singleton
<1> HIDE DEF I, C
<1>7. CASE settled[k] = 1 /\ k \notin Queued_(writeQueue) /\ Cycle(k, "write") \notin cycles
  <2>1. Cardinality(I) = 0 /\ Cardinality(C) = 0
    BY <1>3, <1>5, <1>7
  <2> QED BY <2>1, <1>7 DEF I, C
<1>8. CASE settled[k] = 0 /\ (k \in Queued_(writeQueue) <=> Cycle(k, "write") \notin cycles)
  <2>1. Cardinality(I) + Cardinality(C) = 1
    BY <1>3, <1>4, <1>5, <1>6, <1>8
  <2> QED BY <2>1, <1>3, <1>4, <1>5, <1>6, <1>8 DEF I, C
<1> QED BY <1>1, <1>2, <1>7, <1>8 DEF Placed

LEMMA InvGivesOneCycle == SpInv => OneCycleAtATime
<1> SUFFICES ASSUME SpInv PROVE OneCycleAtATime
  OBVIOUS
<1>1. ASSUME ~refilled, spState # "destroyed"
      PROVE  Cardinality(cycles) <= 1 /\ (isDraining <=> cycles # {}) /\ (writeQueue # <<>> => isDraining)
  <2>1. /\ IF isDraining THEN \E c \in cycles : cycles = {c} ELSE cycles = {}
        /\ writeQueue # <<>> => isDraining
    BY <1>1 DEF SpInv, OneCycle
  <2>2. CASE isDraining
    <3>1. PICK c \in cycles : cycles = {c}
      BY <2>1, <2>2
    <3>2. Cardinality(cycles) = 1
      BY <3>1, FS_Singleton
    <3> QED BY <2>2, <3>1, <3>2
  <2>3. CASE ~isDraining
    <3>1. cycles = {} /\ Cardinality(cycles) = 0
      BY <2>1, <2>3, FS_EmptySet
    <3>2. writeQueue # <<>> => isDraining
      BY <2>1
    <3> QED BY <2>3, <3>1, <3>2
  <2> QED BY <2>2, <2>3
<1> QED BY <1>1, OnePlace DEF OneCycleAtATime

(* The state of a serial pipeline has its types: the queue and the cycles  *)
(* hold writes that were made.                                             *)
THEOREM SerialTypeCorrect == SpSpec => []SpTypeOK
<1>1. SpInv => SpTypeOK
  BY DEF SpInv
<1> QED BY <1>1, InitHolds, StepKeeps, PTL DEF SpSpec

(* Every write is settled once or is yet to be, in the queue or in the     *)
(* port; and one cycle is in the port while a write waits, except after a  *)
(* failed write's own callback has written.                                *)
THEOREM SerialOneCycle == SpSpec => []OneCycleAtATime
BY InitHolds, StepKeeps, InvGivesOneCycle, PTL DEF SpSpec
=============================================================================
