CONSTANTS
  f = f
  g = g
  Factories = {f, g}
  Listed = {f}
  First = f
  MaxUnits = 4
  MaxFaults = 1
SPECIFICATION Spec
INVARIANTS
  DecisionsKept
  OpenIsHeld
