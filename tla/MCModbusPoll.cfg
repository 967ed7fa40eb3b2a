SPECIFICATION FairSpec
CONSTANTS
  Sources = {"tcp", "rtu-tcp", "rtu"}
  Layouts <- MCLayouts
  MaxTicks = 2
  MaxFaults = 1
INVARIANTS
  TypeOK
  OwnAnswer
  RightRegisters
PROPERTIES
  RoundsEnd
CHECK_DEADLOCK FALSE
