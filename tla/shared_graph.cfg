SPECIFICATION Spec
CONSTANTS
  Session = {s1, s2}
  Hash <- McHash
  Url = {1, 2, 3, 4}
  Base = 1
  Load <- McLoad
  Effect <- McEffect
  Stay = Stay
  None = None
  Actions <- McActions
  s1 = s1
  s2 = s2
  Flaky <- McFlaky
  One = 2
  Two = 1
INVARIANTS
  RecipesAreGood
  EdgesAreTrue
PROPERTIES
  RecipesImprove
\* Sessions end after their last action.
CHECK_DEADLOCK FALSE
