CONSTANTS
  Titles = {1, 2, 3}
  Tickets = {1, 2, 3, 4, 5, 6}
  TitleOf <- MCTitles
  Paths = {"a", "b"}
  Plans <- MCPlans
  NoPlan = none
  Slots = 2
  Faults = 2
  Explicits = 1
SPECIFICATION FairSpec
INVARIANT OwnersApart
INVARIANT ClosedIsMerged
PROPERTY ImplementsWorkOrder
PROPERTY PhaseDone
PROPERTY CodeCompletes
CHECK_DEADLOCK FALSE
