SPECIFICATION Spec

CONSTANTS
  Firewall = {f1}
  Agent = {a1}
  None = None
  ApiWorkers = 1
  MaxRequests = 3
  Hosting = {a1}
  PoolSize = 1
  MaxDriverErrors = 0
  MaxRpcFailures = 0
  MaxRemovals = 0
  MaxCrashes = 0

PROPERTIES
  DeletionIsFinal

\* Requests and faults are bounded, so the system comes to rest.
CHECK_DEADLOCK FALSE
