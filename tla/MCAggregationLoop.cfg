SPECIFICATION FairSpec
CONSTANTS
  Updates = 8
  Levels = 2
  Capacity <- MCCapacity
  OutletSize = 1
INVARIANTS
  TypeOK
  SpareRoom
  NeverWedged
PROPERTIES
  EveryUpdateHandled
