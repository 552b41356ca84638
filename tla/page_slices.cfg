SPECIFICATION FairSpec
CONSTANTS
  Crawlers = {c1}
  States <- DeepStates
  Home = "h"
  Actions <- DeepActions
  Offered <- DeepOffered
  Leads <- DeepLeads
  Popups <- DeepPopups
  Url <- DeepUrl
  Risky <- DeepRisky
  Login <- DeepLogin
  NoLogin = NoLogin
  Page <- DeepPage
  Forms <- SmallForms
  Hash <- McHash
  MaxElementsPerState = 2
  MaxSelectOptions = 1
  ClickNonHttpLinks = FALSE
  NonHttp = {"mailto:"}
  Keyworded = {"wipe"}
  NoText = ""
  KnownBefore = {}
  MaxStates = 3
  MaxTransitions = 20
  MaxRepeats = 1
  DeferRisky = TRUE
  Nowhere = "nowhere"
  Budget <- McBudget
  Kills = 1
  Cancels = 1
  Replays = 1
  Faults = 1
  Together = 2
CONSTRAINT AsDisturbed
INVARIANTS
  RepeatsAreCapped
  NothingIsLost
  TransitionsAreReal
  ExplorationIsThorough
PROPERTIES
  CrawlIsExhausted
  ExploredStays
