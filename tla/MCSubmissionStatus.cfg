SPECIFICATION Spec
CONSTANTS
  Messages = 3
  Setups <- MCHttpSetups
  Slots = 2
  Prefetch = 3
  MaxRestarts = 1
INVARIANTS
  EmittedOnceTaken
CHECK_DEADLOCK FALSE
