SPECIFICATION FairSpec
CONSTANTS
  Crawlers = {c1}
  States <- McStates
  Home = "h"
  Actions <- McActions
  Offered <- McOffered
  Leads <- McLeads
  Popups <- McPopups
  Url <- McUrl
  Risky = {"act"}
  Login = "none"
  NoLogin = "none"
  KnownBefore = {}
  MaxStates = 5
  MaxTransitions = 20
  MaxRepeats = 2
  DeferRisky = FALSE
  Nowhere = "nowhere"
  Budget <- McBudget
  Kills = 0
  Cancels = 0
  Replays = 0
  Faults = 0
  Together = 0
PROPERTY CrawlIsExhausted
