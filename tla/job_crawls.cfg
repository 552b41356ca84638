SPECIFICATION Spec
CONSTANTS
  Jobs = {main, c1, c2, c3}
  Main = main
  MaxStates = 3
  Foreign = 0
  GenerateFlows = TRUE
  Budget <- McBudget
  Requests = 2
  Pauses = 1
  Aborts = 0
  Cancels = 0
  Crashes = 0
  Faults = 0
  Together = 0
SYMMETRY McSymmetry
INVARIANTS
  TypeOK
  HandOverIsSafe
PROPERTIES
  LifeSpec
\* A settled session with no request left stops for good.
CHECK_DEADLOCK FALSE
