SPECIFICATION Spec

CONSTANTS
  Router = {r1, r2}
  Device = {d1, d2}
  Port = {p1}
  Net = {n1}
  Name = {a, b}
  Tenant = t
  None = None
  ApiWorkers = 2
  MaxRequests = 4
  MaxFaults = 1

INVARIANTS
  TypeOK
  RouterHasItsDevice
  TenantTagIsReservation
  RestIsCommitted

SYMMETRY Symmetry

\* Requests are bounded, so the system comes to rest.
CHECK_DEADLOCK FALSE
