SPECIFICATION Spec

CONSTANTS
  Firewall = {f1}
  Agent = {a1, a2}
  None = None
  ApiWorkers = 1
  MaxRequests = 4
  Hosting = {a1, a2}
  PoolSize = 1
  MaxDriverErrors = 0
  MaxRpcFailures = 0
  MaxRemovals = 0
  MaxCrashes = 0

INVARIANTS
  GoneIsUninstalled
  QuietIsEnforced

SYMMETRY Symmetry

\* Requests and faults are bounded, so the system comes to rest.
CHECK_DEADLOCK FALSE
