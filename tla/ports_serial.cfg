SPECIFICATION MlSpec

CONSTANTS
  Subnets = {s1, s2}
  Ports = {p1, p2, p3}
  Workers = {w1}
  None = None
  AnyIp = AnyIp
  Last = 4
  MaxFixedIps = 1
  MaxRequests = 6
  Routers = {r1, r2}
  FaultyOps = {"compute", "delete"}
  MaxFaults = 2

INVARIANTS
  MlTypeOK
  NoStaleTag
  EveryPortIsKnown
  NothingUncommitted
  RangesAreFree

PROPERTIES
  RefusedMeansFull

SYMMETRY Symmetry

\* Requests are bounded, so the system comes to rest.
CHECK_DEADLOCK FALSE
