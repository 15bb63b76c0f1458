CONSTANTS
  MaxJobs = 1
  MaxAttempts = 2
  Payloads = {0,1,2,3}
  NoPayload = none
  NumPhases = 3
  PrPhase = 2
  Workers = {w1}
  Requests = {q1}
  ResumeAt = {2}
  Faults = 0
SPECIFICATION Spec
PROPERTY CancelledStays
CHECK_DEADLOCK FALSE
