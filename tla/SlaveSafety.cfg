SPECIFICATION FairSpec
CONSTANTS
  f1 = f1
  f2 = f2
  f3 = f3
  u1 = u1
  u2 = u2
  Frames = {f1, f2, f3}
  NoFrame = NoFrame
  Broadcasts = {f3}
  Units = {u1, u2}
  UnitOf <- MCUnitOf
  Fingerprint <- MCFingerprint
  Strategies = {"concurrent", "fifo", "drop-stale", "deduplicate"}
  Removals = {FALSE, TRUE}
INVARIANTS
  TypeOK
  Accounted
  OneAtATime
  QueueServed
PROPERTIES
  ServedInOrder
  EveryFrameServed
CHECK_DEADLOCK FALSE
