SPECIFICATION Spec
CONSTANTS
  mouse = mouse
  other = other
  own = own
  link = link
  NoDevice = NoDevice
  NoNode = NoNode
  r1 = r1
  r2 = r2
  event0 = event0
  event1 = event1
  Runs = {r1, r2}
  Nodes = {event0, event1}
  Devices = {mouse, other, own}
  Own = own
  LinkOf <- MouseLink
  Kinds <- Startups
  Reads = {TRUE, FALSE}
  MaxChanges = 2
SYMMETRY Symmetry
INVARIANTS
  Inv
  CacheIsUsedWhole
  ReusedWhenNothingChanged
CHECK_DEADLOCK FALSE
