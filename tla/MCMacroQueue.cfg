SPECIFICATION FairSpec
CONSTANTS
  a = a
  b = b
  Label = {a, b}
  Macro <- MCMacro
  Gap <- MCGap
  MaxRuns = 2
  MaxSince = 4
INVARIANTS
  Inv
PROPERTIES
  PausesKept
  EveryRunEnds
  ImplementsPlayback
CHECK_DEADLOCK FALSE
