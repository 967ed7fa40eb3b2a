SPECIFICATION FairSpec
CONSTANTS
  Messages = 3
  Setups <- MCSetups
  Slots = 2
  Prefetch = 3
  MaxRestarts = 1
INVARIANTS
  TypeOK
  Accounted
  AnsweredBeforeAcked
  LossIsBounded
PROPERTIES
  EveryBufferedSubmitted
CHECK_DEADLOCK FALSE
