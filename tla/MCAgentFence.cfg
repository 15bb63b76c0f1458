CONSTANTS
  NumRuns = 1
  MaxAttempts = 3
  Days = 1
  Limit = 1
  Estimates = {1}
  Costs = {0}
  Handlers = {h1, h2}
SPECIFICATION FairSpec
INVARIANT TypeOK
INVARIANT FenceExclusive
INVARIANT FenceInv
PROPERTY NoRevival
PROPERTY AdmittedRunsEnd
CHECK_DEADLOCK FALSE
