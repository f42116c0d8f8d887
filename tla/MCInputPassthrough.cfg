CONSTANTS
  Devices <- MCDevices
  Pointers <- MCPointers
  KeysOf <- MCKeysOf
  Leader = "leader"
  Macros <- MCMacros
  Shifted = {"A"}
  Shift = "shift"
  MaxBacklog = 2
SPECIFICATION Spec
INVARIANTS
  SteadyEventsArriveOnce
  KeysComeUp
  Inv
CHECK_DEADLOCK FALSE
