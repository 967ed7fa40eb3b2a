SPECIFICATION Spec
CONSTANTS
  m1 = m1
  m2 = m2
  m3 = m3
  Message = {m1, m2}
  Stamps <- MCStamps
  Moment <- MCMoment
  Levels = 2
  Shunk <- MCShunk
  Value <- MCValue
  Undefined = Undefined
  WriteSlots = 8
  ReadSlots = 4
  MaxCrashes = 1
INVARIANTS
  TopicOutlivesCrash
