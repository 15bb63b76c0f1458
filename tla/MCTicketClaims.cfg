CONSTANTS
  Tickets = {t1, t2}
  Agents = {a1, a2}
  Handlers = {h1, h2}
  None = none
SYMMETRY Symmetry
SPECIFICATION Spec
CONSTRAINT Untorn
INVARIANT ClaimMatchesTicket
PROPERTY LeaseHonoured
PROPERTY ClosedForGood
CHECK_DEADLOCK FALSE
