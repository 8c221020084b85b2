SPECIFICATION PartsSpec
CONSTANTS
  Requests <- mcRequests
  Lists <- mcLists
  ServerIds <- mcServerIds
  CustomCode = 65
  Nothing = Nothing
  Tables <- mcTables
  Codes <- mcCodes
  Starts <- mcStarts
  Lines <- mcLines
  MaxTcp = 12
  MaxAscii = 12
  MaxRtu = 18
  CustomFc = 65
  MaxTimers = 6
  Threshold = 2
  Delays = {1, 2}
  MaxClock = 2
  MaxListeners = 4
  Kinds = {"client", "serial", "tcpServer", "tlsServer", "udpServer"}
  MaxCalls = 3
  Conns = {1, 2, 3, 4}
  Blocked = {}
  SameIp = {1, 2}
  MaxConns = 2
  MaxPerIp = 1
  MaxWrites = 5
INVARIANTS
  HandlerGetsRequest
  ResolvesWithAnswer
  WalkCompletes
  FramesAsSent
  CleanAfterSilence
  NoGapInside
  HeapOrdered
  ListenersServed
  ConnectionsAccounted
  OneCycleAtATime
PROPERTIES
  ImplementsTimers
  EveryTimerFires
  CallbacksAnswered
CHECK_DEADLOCK FALSE
