SPECIFICATION Spec
CONSTANTS
  Unset = Unset
  MaxTaken = 10
  Nodes = 3
  MaxEdges = 3
  Inputs <- McInputs
  Options <- Cut
PROPERTIES
  GenerationEndsAlways
\* A generation that has ended stops for good.
CHECK_DEADLOCK FALSE
