SPECIFICATION Spec
CONSTANTS
  f1 = f1
  f2 = f2
  f3 = f3
  u1 = u1
  u2 = u2
  Frames = {f1, f2, f3}
  NoFrame = NoFrame
  Broadcasts = {f3}
  Units = {u1, u2}
  UnitOf <- MCUnitOf
  Fingerprint <- MCFingerprint
  Strategies = {"drop-stale"}
  Removals = {FALSE}
PROPERTY
  LastArrivedWins
CHECK_DEADLOCK FALSE
