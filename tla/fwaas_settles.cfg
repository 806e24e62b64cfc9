SPECIFICATION FairSpec

CONSTANTS
  Firewall = {f1}
  Agent = {a1}
  None = None
  ApiWorkers = 1
  MaxRequests = 2
  Hosting = {a1}
  PoolSize = 2
  MaxDriverErrors = 1
  MaxRpcFailures = 1
  MaxRemovals = 0
  MaxCrashes = 1

PROPERTIES
  PendingResolves

\* Requests and faults are bounded, so the system comes to rest.
CHECK_DEADLOCK FALSE
