SPECIFICATION Spec
CONSTANTS
  Sources = {"rtu"}
  Layouts <- MCLayouts
  MaxTicks = 1
  MaxFaults = 0
INVARIANTS
  OneAtATime
CHECK_DEADLOCK FALSE
