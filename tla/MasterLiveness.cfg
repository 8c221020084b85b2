SPECIFICATION FairSpec
CONSTANTS
  r1 = r1
  r2 = r2
  r3 = r3
  Requests = {r1, r2, r3}
  NoReq = NoReq
  Broadcasts = {r3}
  Fingerprint <- MCFingerprint
  Strategies = {"concurrent", "deduplicate"}
  Protocols = {"TCP", "RTU"}
  MaxTid = 2
  MaxChunk = 1
  MaxArrivals = 1
INVARIANT
  NoCrossTalk
PROPERTY
  EveryRequestAnswered
