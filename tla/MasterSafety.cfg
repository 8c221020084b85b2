SPECIFICATION Spec
CONSTANTS
  r1 = r1
  r2 = r2
  r3 = r3
  Requests = {r1, r2, r3}
  NoReq = NoReq
  Broadcasts = {r3}
  Fingerprint <- MCFingerprint
  Strategies = {"concurrent", "fifo", "drop-stale", "deduplicate"}
  Protocols = {"TCP", "RTU"}
  MaxTid = 3
  MaxChunk = 2
  MaxArrivals = 2
INVARIANTS
  TypeOK
  Accounted
  SingleFlight
  WaitersMatch
  QueueServed
  OwnResponse
  DroppedForNewer
PROPERTIES
  ServedInOrder
  ImplementsContract
