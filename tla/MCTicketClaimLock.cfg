CONSTANTS
  Tickets = {t1}
  Agents = {a1, a2}
  Handlers = {h1, h2}
  None = none
SPECIFICATION Spec
PROPERTY ClaimLock
CHECK_DEADLOCK FALSE
