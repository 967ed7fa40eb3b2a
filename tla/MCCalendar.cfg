SPECIFICATION CalendarSpec
CONSTANTS
  x = x
  y = y
  Absent = Absent
  TicksPerMs = 1
  UnitLength <- MCUnitLength
  MonthDays <- MCMonthDays
  Aggregators <- MCAggregators
  Horizon <- MCHorizon
  Series = {x, y}
  Observations <- MCObservations
  Late <- MCLate
  Requests <- MCRequests
INVARIANTS
  CalendarTypeOK
  RowInRange
  RowInShards
  MinimalShards
  SamePeriod
  PointsComplete
  GroupsInOrder
CHECK_DEADLOCK FALSE
