SPECIFICATION FairSpec
CONSTANTS
  TextBytes = 3
  NumBlocks = 2
  Endpoint <- MCEndpoint
  NewNames <- MCNewNames
  EndpointFilters <- MCEndpointFilters
  BlockFilters <- MCBlockFilters
  Configurations <- MCConfigurations
  MaxAsks = 2
  MaxAnnouncements = 1
  MaxLosses = 2
CHECK_DEADLOCK FALSE
INVARIANT TypeOK
INVARIANT KnownIsTrue
INVARIANT QuietMeansAgreed
PROPERTY AskedIsLearned
