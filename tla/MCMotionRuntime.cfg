SPECIFICATION MotionSpec
CONSTANTS
  leader = leader
  click = click
  wheel = wheel
  double = double
  chord = chord
  triple = triple
  spin = spin
  Token = {leader, click, wheel}
  WheelToken = {wheel}
  Motion = {double, chord, triple, spin}
  Trigger <- MCTrigger
  RequiresHeld <- MCRequiresHeld
  WithinMs <- MCWithinMs
  WhileHeld <- MCWhileHeld
  MaxTime = 4
  MaxSkew = 1
INVARIANTS
  MotionInv
  TriggeredWasSpelled
PROPERTIES
  ImplementsMotionLoops
