SPECIFICATION Spec
CONSTANTS
  MaxRanges = 2
  Hooks = {TRUE}
INVARIANT
  DeniesWhenAnyRejected
