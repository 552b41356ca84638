SPECIFICATION FairSpec
CONSTANTS
  Jobs = {main, c1}
  Main = main
  MaxStates = 3
  Foreign = 1
  GenerateFlows = TRUE
  Budget <- McBudget
  Requests = 1
  Pauses = 0
  Aborts = 1
  Cancels = 1
  Crashes = 1
  Faults = 1
  Together = 3
CONSTRAINT AsDisturbed
INVARIANTS
  RunningIsDriven
  CompletedIsFinal
PROPERTIES
  RunningSettles
  AbortIsStamped
  LifeSpec
\* A settled session with no request left stops for good.
CHECK_DEADLOCK FALSE
