SPECIFICATION Spec
CONSTANTS
  p1 = p1
  p2 = p2
  p3 = p3
  i1 = i1
  i2 = i2
  api1 = api1
  api2 = api2
  None = None
  Processes = {p1, p2, p3}
  Ids = {i1, i2}
  IdOf <- MCIdOf
  Steady = {p3}
  Commands = {1, 2, 3}
  ActionOf <- MCActionOf
  ClientOf <- MCClientOf
PROPERTIES
  EveryCommandEnds
CHECK_DEADLOCK FALSE
