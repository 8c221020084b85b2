----------------------------- MODULE Transport -----------------------------
(***************************************************************************)
(* The physical layers of src/plugins and the pipelines they own: open()   *)
(* and close() with their lists of pending callbacks, the connections a    *)
(* server accepts under its limits, the idle timers, and destroy().  The   *)
(* TCP, TLS and UDP clients differ in their sockets only and are one kind  *)
(* here; a serial port is a client whose close may fail.  A client is a    *)
(* layer with one connection whose end is the end of the layer.            *)
(*                                                                         *)
(* Sockets, servers and ports are external: endpoint and conn are what     *)
(* Node tells of them.  A server's 'close' comes when every connection has *)
(* been destroyed, which may be before the sockets' own 'close'.           *)
(***************************************************************************)
EXTENDS Naturals, FiniteSets

CONSTANTS
  Kinds,     \* physical layers, a subset of the five below
  MaxCalls,  \* bound on the calls of open, close and destroy
  Conns,     \* connections or UDP peers
  Blocked,   \* connections from addresses outside the whitelist
  SameIp,    \* connections from one address, the others have one each
  MaxConns,  \* maxConnections
  MaxPerIp   \* maxConnectionsPerIp

ASSUME TransportAssumption ==
  /\ Kinds \subseteq {"client", "serial", "tcpServer", "tlsServer", "udpServer"}
  /\ MaxCalls \in Nat /\ MaxConns \in Nat \ {0} /\ MaxPerIp \in Nat \ {0}
  /\ Blocked \subseteq Conns /\ SameIp \subseteq Conns

VARIABLES
  phKind,      \* which layer, read only
  phState,     \* _state
  endpoint,    \* the socket, server or port: none, opening, open or closing
  openCbs,     \* _pendingOpenCbs
  closeCbs,    \* _pendingCloseCbs
  conn,        \* what has become of each connection
  tracked,     \* _pipelines, and with it _pipelinesByIp
  subscribed,  \* connections whose 'close' the layer listens to
  idle,        \* connections with an idle timer armed
  destroyCbs,  \* _pendingDestroyCbs of each pipeline
  asked,       \* history: calls made so far
  answers,     \* history: how often the callback of each call has run
  lost,        \* history: calls made by the callback of a failed open
  unclosable,  \* history: the layer closes with a pipeline nobody destroys
  outlived     \* history: connections that outlived their server's close

lifecycle == <<phState, endpoint, openCbs, closeCbs>>
pipelines == <<conn, tracked, subscribed, idle, destroyCbs>>
calls_ == <<asked, answers, lost>>
trVars == <<phKind, lifecycle, pipelines, calls_, unclosable, outlived>>

CallIds == 1..MaxCalls
IsServer == phKind \in {"tcpServer", "tlsServer", "udpServer"}
(* free, handshake, refused, connected, ending (by the peer: the pipeline  *)
(* does not know yet), destroying, stuck (its port does not close), gone   *)
Open == {"connected", "ending"}
Live == {c \in Conns : conn[c] \in Open \cup {"destroying", "stuck"}}
Neighbours(c) == IF c \in SameIp THEN SameIp ELSE {c}

TrInit ==
  /\ phKind \in Kinds /\ phState = "closed" /\ endpoint = "none"
  /\ openCbs = {} /\ closeCbs = {}
  /\ conn = [c \in Conns |-> "free"]
  /\ tracked = {} /\ subscribed = {} /\ idle = {}
  /\ destroyCbs = [c \in Conns |-> {}]
  /\ asked = 0 /\ answers = [k \in CallIds |-> 0] /\ lost = {}
  /\ unclosable = FALSE /\ outlived = {}
-----------------------------------------------------------------------------
(* The callbacks of the calls in S run.                                    *)
Run(S) == answers' = [k \in CallIds |-> IF k \in S THEN answers[k] + 1 ELSE answers[k]]

(* The next call; one callback of a handler may make it (n), or none (0).  *)
NextCall(k) == k = asked + 1 /\ k \in CallIds /\ asked' = k
Nested(n) == \/ n = 0 /\ UNCHANGED asked
             \/ NextCall(n)

(* Fault: a callback replaces those that wait.                             *)
WaitAlone(cbs, k) == {k}
(* A callback joins those that wait.                                       *)
Wait(cbs, k) == cbs \cup {k}

(* open(), in each state of the layer.                                     *)
AskOpen(k) ==
  /\ NextCall(k)
  /\ \/ phState \in {"open", "closing"} /\ Run({k}) /\ UNCHANGED lifecycle
     \/ /\ phState = "opening" /\ openCbs' = Wait(openCbs, k)
        /\ UNCHANGED <<phState, endpoint, closeCbs, answers>>
     \/ /\ phState = "closed"
        /\ phState' = "opening" /\ endpoint' = "opening" /\ openCbs' = {k}
        /\ UNCHANGED <<closeCbs, answers>>
  /\ UNCHANGED <<phKind, pipelines, lost, unclosable, outlived>>

(* A pipeline of a UDP server has no socket of its own: destroyed, it is   *)
(* gone, and the server strikes it off.                                    *)
PeersGone(S) ==
  /\ conn' = [c \in Conns |-> IF c \in S THEN "gone" ELSE conn[c]]
  /\ idle' = idle \ S /\ tracked' = tracked \ S /\ subscribed' = subscribed \ S

(* destroy() of pipelines with a socket or a port, which has yet to close. *)
SocketsDestroyed(S) ==
  LET ended == {c \in S : conn[c] \in Open}
  IN /\ conn' = [c \in Conns |-> IF c \in ended THEN "destroying" ELSE conn[c]]
     /\ idle' = idle \ ended
     /\ UNCHANGED <<tracked, subscribed>>

(* close() ends the endpoint of a server and destroys the pipelines.       *)
Shutdown ==
  /\ endpoint' = IF IsServer THEN "closing" ELSE endpoint
  /\ IF phKind = "udpServer" THEN PeersGone(tracked) ELSE SocketsDestroyed(tracked)
  /\ UNCHANGED destroyCbs

(* close(), in each state of the layer.                                    *)
AskClose(k) ==
  /\ NextCall(k)
  /\ \/ phState \in {"closed", "opening"} /\ Run({k}) /\ UNCHANGED <<lifecycle, pipelines>>
     \/ /\ phState = "closing" /\ closeCbs' = Wait(closeCbs, k)
        /\ UNCHANGED <<phState, endpoint, openCbs, answers, pipelines>>
     \/ /\ phState = "open" /\ phState' = "closing" /\ closeCbs' = {k}
        /\ Shutdown
        /\ UNCHANGED <<openCbs, answers>>
  /\ UNCHANGED <<phKind, lost, unclosable, outlived>>

(* destroy() of a pipeline.                                                *)
AskDestroy(k, c) ==
  /\ NextCall(k)
  /\ \/ /\ conn[c] = "connected" /\ phKind = "udpServer"
        /\ PeersGone({c}) /\ Run({k}) /\ UNCHANGED destroyCbs
     \/ /\ conn[c] \in Open /\ phKind # "udpServer"
        /\ SocketsDestroyed({c}) /\ destroyCbs' = [destroyCbs EXCEPT ![c] = {k}]
        /\ UNCHANGED answers
     \/ /\ conn[c] \in {"destroying", "stuck"}
        /\ destroyCbs' = [destroyCbs EXCEPT ![c] = Wait(@, k)]
        /\ UNCHANGED <<answers, conn, tracked, subscribed, idle>>
     \/ /\ conn[c] = "gone" /\ Run({k})
        /\ UNCHANGED pipelines
  /\ UNCHANGED <<phKind, lifecycle, lost, unclosable, outlived>>
-----------------------------------------------------------------------------
(* The pipeline of a client or of a serial port.                           *)
ClientPipeline(c) ==
  /\ conn[c] = "free" /\ c \notin Blocked /\ conn' = [conn EXCEPT ![c] = "connected"]
  /\ tracked' = tracked \cup {c} /\ subscribed' = subscribed \cup {c}
  /\ UNCHANGED <<idle, destroyCbs>>

(* The endpoint is open.  The callbacks run before the pipeline of a client*)
(* is made: a close() they call finds none to destroy.                     *)
Opened(n) ==
  /\ endpoint = "opening"
  /\ Nested(n) /\ Run(openCbs) /\ openCbs' = {}
  /\ IF n = 0 THEN phState' = "open" /\ UNCHANGED closeCbs
              ELSE phState' = "closing" /\ closeCbs' = {n}
  /\ endpoint' = IF n # 0 /\ IsServer THEN "closing" ELSE "open"
  /\ IF IsServer
     THEN UNCHANGED <<pipelines, unclosable>>
     ELSE (\E c \in Conns : ClientPipeline(c)) /\ unclosable' = (n # 0)
  /\ UNCHANGED <<phKind, lost, outlived>>

(* The endpoint cannot be opened.  The list of callbacks is emptied after  *)
(* they have run, an open() they have called included.                     *)
OpenFails(n) ==
  /\ endpoint = "opening"
  /\ Nested(n) /\ Run(openCbs) /\ openCbs' = {}
  /\ IF n = 0 THEN phState' = "closed" /\ endpoint' = "none" /\ UNCHANGED lost
              ELSE phState' = "opening" /\ endpoint' = "opening" /\ lost' = lost \cup {n}
  /\ UNCHANGED <<phKind, closeCbs, pipelines, unclosable, outlived>>

(* The layer is closed: S are the callbacks that run.                      *)
LayerClosed(S, n) ==
  /\ Nested(n) /\ Run(S \cup closeCbs) /\ closeCbs' = {}
  /\ IF n = 0 THEN phState' = "closed" /\ endpoint' = "none" /\ UNCHANGED openCbs
              ELSE phState' = "opening" /\ endpoint' = "opening" /\ openCbs' = {n}
  /\ unclosable' = FALSE

(* A server has closed: it no longer listens to the 'close' of pipelines.  *)
ServerClosed(n) ==
  /\ IsServer /\ endpoint = "closing"
  /\ \A c \in Conns : conn[c] \notin {"handshake", "connected"}
  /\ LayerClosed({}, n)
  /\ subscribed' = {} /\ outlived' = outlived \cup Live
  /\ UNCHANGED <<phKind, conn, tracked, idle, destroyCbs, lost>>

(* The socket of a pipeline has closed.                                    *)
PipelineCloses(c, n) ==
  /\ c \in Live /\ conn[c] # "connected" /\ conn' = [conn EXCEPT ![c] = "gone"]
  /\ idle' = idle \ {c}
  /\ destroyCbs' = [destroyCbs EXCEPT ![c] = {}]
  /\ subscribed' = subscribed \ {c}
  /\ tracked' = IF c \in subscribed THEN tracked \ {c} ELSE tracked
  /\ IF IsServer
     THEN n = 0 /\ Run(destroyCbs[c]) /\ UNCHANGED <<lifecycle, asked, unclosable>>
     ELSE LayerClosed(destroyCbs[c], n)
  /\ UNCHANGED <<phKind, lost, outlived>>

(* A serial port cannot be closed: the callbacks of destroy() run, and     *)
(* neither pipeline nor layer ever leaves its closing state by itself.     *)
PortCloseFails(c) ==
  /\ phKind = "serial" /\ conn[c] = "destroying"
  /\ conn' = [conn EXCEPT ![c] = "stuck"]
  /\ Run(destroyCbs[c]) /\ destroyCbs' = [destroyCbs EXCEPT ![c] = {}]
  /\ unclosable' = TRUE
  /\ UNCHANGED <<phKind, lifecycle, tracked, subscribed, idle, asked, lost, outlived>>

(* The peer ends the connection, or the line fails.                        *)
PeerEnds(c) ==
  /\ phKind # "udpServer" /\ conn[c] = "connected"
  /\ conn' = [conn EXCEPT ![c] = "ending"]
  /\ UNCHANGED <<phKind, lifecycle, tracked, subscribed, idle, destroyCbs, calls_, unclosable, outlived>>
-----------------------------------------------------------------------------
OverLimit == Cardinality(tracked) >= MaxConns
OverIpLimit(c) == Cardinality(tracked \cap Neighbours(c)) >= MaxPerIp

(* Fault: the limit of an address is not looked at.                        *)
AcceptAnyIp(c) ==
  \/ /\ (c \in Blocked \/ OverLimit)
     /\ conn' = [conn EXCEPT ![c] = "refused"]
     /\ UNCHANGED <<tracked, subscribed, idle>>
  \/ /\ c \notin Blocked /\ ~OverLimit
     /\ conn' = [conn EXCEPT ![c] = "connected"]
     /\ tracked' = tracked \cup {c} /\ subscribed' = subscribed \cup {c} /\ idle' = idle \cup {c}

(* The handler of a connection or of a datagram from a peer without        *)
(* pipeline: it is refused or gets a pipeline, with its idle timer.        *)
Accept(c) ==
  \/ /\ (c \in Blocked \/ OverLimit \/ OverIpLimit(c))
     /\ conn' = [conn EXCEPT ![c] = "refused"]
     /\ UNCHANGED <<tracked, subscribed, idle>>
  \/ /\ c \notin Blocked /\ ~OverLimit /\ ~OverIpLimit(c)
     /\ conn' = [conn EXCEPT ![c] = "connected"]
     /\ tracked' = tracked \cup {c} /\ subscribed' = subscribed \cup {c} /\ idle' = idle \cup {c}

(* A TCP connection, and a datagram of a UDP peer without pipeline, which  *)
(* may be one that had a pipeline before.                                  *)
Connect(c) ==
  /\ phKind = "tcpServer" /\ endpoint = "open" /\ conn[c] = "free" /\ Accept(c)
  /\ UNCHANGED <<phKind, lifecycle, destroyCbs, calls_, unclosable, outlived>>
Datagram(c) ==
  /\ phKind = "udpServer" /\ endpoint = "open" /\ conn[c] \in {"free", "refused", "gone"}
  /\ Accept(c)
  /\ UNCHANGED <<phKind, lifecycle, destroyCbs, calls_, unclosable, outlived>>

(* A TLS connection: the handshake begins, and may end after close().      *)
HandshakeStarts(c) ==
  /\ phKind = "tlsServer" /\ endpoint = "open" /\ conn[c] = "free"
  /\ conn' = [conn EXCEPT ![c] = "handshake"]
  /\ UNCHANGED <<phKind, lifecycle, tracked, subscribed, idle, destroyCbs, calls_, unclosable, outlived>>
HandshakeEnds(c) ==
  /\ conn[c] = "handshake" /\ Accept(c)
  /\ unclosable' = (unclosable \/ (endpoint = "closing" /\ conn'[c] = "connected"))
  /\ UNCHANGED <<phKind, lifecycle, destroyCbs, calls_, outlived>>
HandshakeFails(c) ==
  /\ conn[c] = "handshake" /\ conn' = [conn EXCEPT ![c] = "refused"]
  /\ UNCHANGED <<phKind, lifecycle, tracked, subscribed, idle, destroyCbs, calls_, unclosable, outlived>>

(* A listener of 'data' destroys the pipeline: the timer of a socket is    *)
(* armed again after it, that of a UDP peer before.                        *)
DataThenDestroy(c) ==
  /\ IsServer /\ conn[c] = "connected"
  /\ \/ phKind = "udpServer" /\ PeersGone({c})
     \/ /\ phKind # "udpServer" /\ conn' = [conn EXCEPT ![c] = "destroying"]
        /\ idle' = idle \cup {c} /\ UNCHANGED <<tracked, subscribed>>
  /\ UNCHANGED <<phKind, lifecycle, destroyCbs, calls_, unclosable, outlived>>

(* The idle timer calls destroy().                                         *)
IdleFires(c) ==
  /\ c \in idle
  /\ \/ phKind = "udpServer" /\ PeersGone({c})
     \/ /\ phKind # "udpServer" /\ idle' = idle \ {c}
        /\ conn' = [conn EXCEPT ![c] = IF @ \in Open THEN "destroying" ELSE @]
        /\ UNCHANGED <<tracked, subscribed>>
  /\ UNCHANGED <<phKind, lifecycle, destroyCbs, calls_, unclosable, outlived>>

(* A socket that is destroyed closes; a port that did not close may never. *)
SocketEnds(c) ==
  /\ conn[c] # "stuck"
  /\ \/ PortCloseFails(c)
     \/ \E n \in 0..MaxCalls : PipelineCloses(c, n)

TrNext ==
  \/ \E k \in CallIds : AskOpen(k) \/ AskClose(k) \/ \E c \in Conns : AskDestroy(k, c)
  \/ \E n \in 0..MaxCalls : \/ Opened(n) \/ OpenFails(n) \/ ServerClosed(n)
                            \/ \E c \in Conns : PipelineCloses(c, n)
  \/ \E c \in Conns :
       \/ PortCloseFails(c) \/ PeerEnds(c) \/ Connect(c) \/ Datagram(c)
       \/ HandshakeStarts(c) \/ HandshakeEnds(c) \/ HandshakeFails(c)
       \/ DataThenDestroy(c) \/ IdleFires(c)

(* What Node sees to: an endpoint opens or fails, a handshake ends or      *)
(* fails, a destroyed socket closes, and so does a server without any.     *)
TrFairness ==
  WF_trVars(\/ \E n \in 0..MaxCalls : Opened(n) \/ OpenFails(n) \/ ServerClosed(n)
            \/ \E c \in Conns : HandshakeEnds(c) \/ HandshakeFails(c) \/ SocketEnds(c))
TrSpec == TrInit /\ [][TrNext]_trVars /\ TrFairness
-----------------------------------------------------------------------------
(* However the layer is opened, closed and reopened, the connections a     *)
(* server has not yet rid itself of are within both limits and on the      *)
(* whitelist, and in the set that close() goes through.  What is gone holds*)
(* neither timer nor callback, and takes no place from others unless it    *)
(* outlived the close of its server, which no longer listens to it.        *)
ConnectionsAccounted ==
  /\ Live \subseteq tracked /\ tracked \ Live \subseteq outlived /\ Live \cap Blocked = {}
  /\ Cardinality(Live) <= MaxConns
  /\ IsServer => \A c \in Conns : Cardinality(Live \cap Neighbours(c)) <= MaxPerIp
  /\ \A c \in Conns : conn[c] = "gone" => c \notin idle \cup subscribed /\ destroyCbs[c] = {}

(* In the end the callback of every call of open(), close() and destroy()  *)
(* has run once, whatever else is called meanwhile; only finitely many are *)
(* made.  Two cases are apart: an open() called by the callback of a failed*)
(* one, and a layer that closes with a pipeline nobody destroys or a port  *)
(* that does not close.                                                    *)
CallbacksAnswered ==
  /\ [](\A k \in CallIds : answers[k] <= 1)
  /\ <>[](unclosable \/ \A k \in 1..asked : answers[k] = 1 \/ k \in lost)
=============================================================================
