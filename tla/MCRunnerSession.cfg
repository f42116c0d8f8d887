SPECIFICATION Spec
CONSTANTS
  key = key
  Pids = {1, 2}
  Keys = {key}
  Scripts <- Pairs
  MaxScripts <- Limits
  Faulty = {1}
INVARIANTS
  Inv
  KeysReachTheRunner
CHECK_DEADLOCK FALSE
PROPERTIES
  OnlyTheDeadArePurged
