SPECIFICATION Spec

CONSTANTS
  Routers = {r1, r2}
  Agents = {a1}
  Workers = {w1, w2}
  None = None
  Operations = {"create", "change", "delete",
                "add_to_agent", "remove_from_agent", "update_agent"}
  Serial = FALSE
  OthersUp = TRUE
  MaxRequests = 3
  CleanStale = TRUE
  MaxRpcFailures = 1
  MaxConfigFailures = 1
  MaxCrashes = 1
  MaxLateHeartbeats = 1

INVARIANTS
  TypeOK
  NoUpdateForgotten
  CopyIsStillThere

SYMMETRY Symmetry

\* Requests are bounded, so the system comes to rest.
CHECK_DEADLOCK FALSE
