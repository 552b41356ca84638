SPECIFICATION Spec
CONSTANTS
  Unset = Unset
  MaxTaken = 10
  Nodes = 3
  MaxEdges = 4
  Inputs <- McInputs
  Options <- Settings
INVARIANTS
  FlowsCover
  FlowsReplay
PROPERTIES
  SelectionIsGreedy
  WithoutCutsItEnds
\* A generation that has ended stops for good.
CHECK_DEADLOCK FALSE
