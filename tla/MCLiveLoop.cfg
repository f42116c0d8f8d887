SPECIFICATION FairSpec
CONSTANTS
  key = key
  button = button
  wheel = wheel
  click = click
  MaxSince = 0
  Binding = {key}
  Presses = {button}
  Motion = {wheel, click}
  Looping = {wheel, click}
  RepeatOrder <- WheelOrder
  Interval <- WheelInterval
  MacroOf <- FullMacros
  Gap = 1
  Scoped = TRUE
  Capacity = 1
INVARIANTS
  Inv
PROPERTIES
  RepeatsKeepTheirInterval
  NeverSleepsPastWork
  SignalStopsTheRunner
