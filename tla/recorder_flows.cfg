SPECIFICATION FairSpec
CONSTANTS
  Pages <- McPages
  Home = "a"
  NoPage = "none"
  Url <- McUrl
  Leads <- McLeads
  Elements <- McElements
  Offers <- McOffers
  Nameless = {"back"}
  MaxActs = 2
  MaxDrifts = 1
  MaxRequests = 3
  Together = 5
CONSTRAINT AsExpected
INVARIANTS
  SegmentInBounds
  FlowsArePaths
  RecordingIsTrue
  ClientFollows
PROPERTIES
  RequestsEnd
\* A session in which nothing more is done stops for good.
CHECK_DEADLOCK FALSE
