CONSTANTS
  NumRuns = 2
  MaxAttempts = 2
  Days = 2
  Limit = 1
  Estimates = {1}
  Costs = {1}
  Handlers = {h1, h2}
SYMMETRY HandlerSymmetry
SPECIFICATION Spec
CONSTRAINT Untorn
INVARIANT RunMatchesTask
INVARIANT ReservationsExact
INVARIANT SpendExact
PROPERTY TerminalStays
CHECK_DEADLOCK FALSE
