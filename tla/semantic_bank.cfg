SPECIFICATION Spec
CONSTANTS
  Session = {s1, s2}
  State <- McState
  Initial = "home"
  Links <- McLinks
  Deferred = {"two"}
  Blank = {"blank"}
  Confidence <- McConfidence
  Alike <- McAlike
  Top = 3
  Bar = 2
  MaxSize = 2
  Batch = 1
  Failures = 1
  None = None
SYMMETRY McSymmetry
INVARIANTS
  VerdictsAreRight
PROPERTIES
  PenaltyIsKept
\* A session ends when no state is pending.
CHECK_DEADLOCK FALSE
