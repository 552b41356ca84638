SPECIFICATION Spec
CONSTANTS
  Crawlers = {c1, c2}
  States <- SmallStates
  Home = "h"
  Actions <- SmallActions
  Offered <- SmallOffered
  Leads <- SmallLeads
  Popups <- SmallPopups
  Url <- SmallUrl
  Risky = {}
  Login = "none"
  NoLogin = "none"
  KnownBefore = {"p"}
  MaxStates = 5
  MaxTransitions = 20
  MaxRepeats = 2
  DeferRisky = TRUE
  Nowhere = "nowhere"
  Budget <- McBudget
  Kills = 1
  Cancels = 0
  Replays = 0
  Faults = 0
  Together = 1
SYMMETRY McSymmetry
INVARIANTS
  TypeOK
  AtMostOnce
  NothingIsLost
