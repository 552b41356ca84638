SPECIFICATION Spec
CONSTANTS
  Flows <- McFlows
  Graph <- McGraph
  Waiting = 2
  Frames = 2
  Budget <- McBudget
  Sends = 3
  Troubles = 2
INVARIANTS
  UserIsAnswered
  FramesAreCurrent
  NothingPilesUp
PROPERTIES
  EditorEnds
\* An editor that has ended stops for good.
CHECK_DEADLOCK FALSE
