CONSTANTS
  MaxJobs = 2
  MaxAttempts = 2
  Payloads = {0,1,2,3}
  NoPayload = none
  NumPhases = 3
  PrPhase = 2
  Workers = {w1}
  Requests = {q1,q2}
  ResumeAt = {2}
  Faults = 1
SYMMETRY Symmetry
SPECIFICATION Spec
CONSTRAINT Undisturbed
INVARIANT TerminalTruth
INVARIANT ReviewMatchesPull
INVARIANT RunHasJob
INVARIANT CancelReleasesJobs
PROPERTY JobsStay
CHECK_DEADLOCK FALSE
