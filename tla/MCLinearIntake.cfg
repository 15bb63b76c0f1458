CONSTANTS
  MaxJobs = 5
  MaxAttempts = 2
  Payloads = {d1, d2, 1, 2, 3}
  NoPayload = none
  Deliveries = {d1, d2}
  MaxEpics = 3
  MaxRuns = 3
  Faults = 2
SPECIFICATION FairSpec
INVARIANT OneEpic
INVARIANT OneRun
PROPERTY IssueImported
PROPERTY EpicRuns
PROPERTY JobsEnd
CHECK_DEADLOCK FALSE
