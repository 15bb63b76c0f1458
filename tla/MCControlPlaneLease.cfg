CONSTANTS
  Nobody = nobody
  Processes = {p1, p2, p3}
  Deployments = {1, 2}
  Beat = 1
  Drain = 3
  Ttl = 6
SPECIFICATION Spec
INVARIANT OneReplica
INVARIANT BriefOverlap
INVARIANT LeaseInv
CHECK_DEADLOCK FALSE
