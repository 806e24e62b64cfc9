SPECIFICATION FairSpec

CONSTANTS
  Routers = {r1}
  Agents = {a1, a2}
  Workers = {w1}
  None = None
  Operations = {"create", "change", "delete", "add_to_agent"}
  Serial = TRUE
  OthersUp = FALSE
  MaxRequests = 3
  CleanStale = TRUE
  MaxRpcFailures = 0
  MaxConfigFailures = 0
  MaxCrashes = 1
  MaxLateHeartbeats = 0

INVARIANTS
  QuietIsHosted

PROPERTIES
  FollowsHosting
  HostsCatchUp

\* Requests are bounded, so the system comes to rest.
CHECK_DEADLOCK FALSE
