SPECIFICATION Spec
CONSTANTS
  Ttl = 2
  Gap = 1
  Work = 0
  Waiting = 1
  Budget <- McBudget
  Submits = 1
  Sends = 3
  Others = 2
INVARIANTS
  UserIsTold
  UserCanWork
  NothingIsLeft
PROPERTIES
  LifeSpec
  RecordingEnds
\* A recording that has ended stops for good.
CHECK_DEADLOCK FALSE
