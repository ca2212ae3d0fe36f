SPECIFICATION FanFairSpec
CONSTANTS
  Relevant <- MCRelevant
  Addr = "a"
  Limit = 2
  NoError = NoError
INVARIANTS
  FanTypeOK
  WholeHistory
  CauseIsReported
PROPERTY
  FetchEnds
CHECK_DEADLOCK FALSE
