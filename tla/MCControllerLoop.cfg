SPECIFICATION FairSpec
CONSTANTS
  key = key
  button = button
  wheel = wheel
  Registration = {key, button, wheel}
  Hotkeys = {key}
  Presses = {button}
  Motion = {wheel}
  Looping = {wheel}
  LoopCallbacks <- WheelCallbacks
  RepeatOrder <- WheelOrder
  Interval <- WheelInterval
  Scoped = {key}
  MaxPending = 1
  Budget = 3
  Slices = {1, 3}
  Sleeps = {1}
  Waits = {1}
  Capacity = 1
INVARIANTS
  Inv
PROPERTIES
  TimeIsKept
  EveryCallbackEnds
  SignalStopsTheRunner
