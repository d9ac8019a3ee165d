SPECIFICATION Spec
CONSTANTS
  h1 = h1
  h2 = h2
  c1 = c1
  c2 = c2
  c3 = c3
  NoOrder = NoOrder
  Hosts = {h1, h2}
  Calls = {c1, c2}
  HostOf <- MCHostOf
  Volume = 2
INVARIANTS
  SubmitRaceReplaysWinner
CHECK_DEADLOCK FALSE
