SPECIFICATION Spec

CONSTANTS
  Router = {r1, r2}
  Device = {d1, d2}
  Port = {p1, p2}
  Net = {n1}
  Name = {a}
  Tenant = t
  None = None
  ApiWorkers = 1
  MaxRequests = 5
  MaxFaults = 0

INVARIANTS
  NoStaleInterface

SYMMETRY Symmetry

\* Requests are bounded, so the system comes to rest.
CHECK_DEADLOCK FALSE
