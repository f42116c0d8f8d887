SPECIFICATION Spec
CONSTANTS
  key = key
  Pids = {1, 2}
  Keys = {key}
  Scripts <- Pairs
  MaxScripts <- Limits
  Faulty = {}
INVARIANT SignalsLeadToCleanup
CHECK_DEADLOCK FALSE
