CONSTANTS
  NONE = NONE
  Scripts <- MCScripts
  Editions <- MCEditions
  Granted <- MCGranted
SPECIFICATION Spec
INVARIANTS
  ReadAsLuaReads
  WrittenIsDone
  EveryFiredCallbackIsDefined
CHECK_DEADLOCK FALSE
