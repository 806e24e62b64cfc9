SPECIFICATION OvsFairSpec

CONSTANTS
  Ports = {p1, p2}
  Nets = {n1, n2}
  Vlans = {v1, v2}
  None = None
  Dead = Dead
  MaxEvents = 4
  MaxFaults = 1

INVARIANTS
  OvsTypeOK
  NothingForgotten
  Isolation

PROPERTIES
  Settles
  GoneIsNotActive
