SPECIFICATION Spec
CONSTANTS
  a1 = a1
  a2 = a2
  a3 = a3
  a4 = a4
  b1 = b1
  b2 = b2
  u1 = u1
  u2 = u2
  Jobs = {a1, a2, a3, a4, b1, b2}
  NoJob = NoJob
  Units = {u1, u2}
  NoUnit = NoUnit
  UnitOf <- MCUnitOf
  Spans <- MCSpans
  Reaches = {"own", "unit", "any"}
INVARIANTS
  TypeOK
  Exclusive
  InFlightSound
  PendingSound
  PendingIsBlocked
PROPERTIES
  SameRangeInOrder
  ImplementsLock
SYMMETRY MCSymmetry
