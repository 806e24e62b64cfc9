SPECIFICATION Spec

CONSTANTS
  Firewall = {f1, f2}
  Agent = {a1}
  None = None
  ApiWorkers = 1
  MaxRequests = 3
  Hosting = {a1}
  PoolSize = 2
  MaxDriverErrors = 0
  MaxRpcFailures = 1
  MaxRemovals = 1
  MaxCrashes = 0

INVARIANTS
  TypeOK
  StatusIsEarned
  DeletedAnswerIsTrue

PROPERTIES
  FollowsLifecycle
  DeletionLasts

SYMMETRY Symmetry

\* Requests and faults are bounded, so the system comes to rest.
CHECK_DEADLOCK FALSE
