SPECIFICATION Spec
CONSTANTS
  h1 = h1
  h2 = h2
  c1 = c1
  c2 = c2
  c3 = c3
  NoOrder = NoOrder
  Hosts = {h1, h2}
  Calls = {c1, c2, c3}
  HostOf <- MCHostOf
  Volume = 2
INVARIANTS
  RecordIsConsistent
  ReportedIsDurable
  OneFillPerCall
PROPERTIES
  RecordOnlyGrows
  ImplementsLifecycle
SYMMETRY MCSymmetry
CHECK_DEADLOCK FALSE
