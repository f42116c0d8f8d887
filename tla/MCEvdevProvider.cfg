SPECIFICATION FairSpec
CONSTANTS
  mouse = mouse
  keyboard = keyboard
  Paths = {mouse, keyboard}
  Pointers = {mouse}
  Setups <- AnyGrabSetup
  MaxPlugs <- Replugs
INVARIANTS
  Inv
CHECK_DEADLOCK FALSE
PROPERTIES
  NoDeviceStarves
  UnpluggedIsNoticed
