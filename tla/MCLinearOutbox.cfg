CONSTANTS
  NumTickets = 2
  MaxTries = 1
  Faults = 1
  Releases = 1
SPECIFICATION FairSpec
INVARIANT OneSubIssue
INVARIANT SentMeansShown
INVARIANT DoneLast
PROPERTY StatusSent
PROPERTY OutboxDrains
PROPERTY ParentFollows
CHECK_DEADLOCK FALSE
