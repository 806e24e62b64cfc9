SPECIFICATION IpSpec

CONSTANTS
  Subnets = {s1}
  Ports = {p1, p2, p3}
  Workers = {w1, w2}
  None = None
  AnyIp = AnyIp
  Last = 4
  MaxFixedIps = 1
  MaxRequests = 6

INVARIANTS
  IpTypeOK
  AddressHasOnePort

SYMMETRY Symmetry

\* Requests are bounded, so the system comes to rest.
CHECK_DEADLOCK FALSE
