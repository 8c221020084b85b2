SPECIFICATION FairSpec
CONSTANTS
  MaxRanges = 4
  Hooks = {FALSE, TRUE}
INVARIANTS
  OneVerdict
  GrantedWhenAllAllowed
PROPERTY
  EveryCheckAnswered
