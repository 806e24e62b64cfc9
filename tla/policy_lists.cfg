SPECIFICATION Spec

CONSTANTS
  Rule = {r1, r2, r3}
  Policy = {p1, p2}
  Firewall = {f1}
  None = None

INVARIANTS
  TypeOK
  PositionsAreDense
  NothingDangles

PROPERTIES
  AuditCoversContents
  InsertionIsLocal

SYMMETRY Symmetry
