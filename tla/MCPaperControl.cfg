SPECIFICATION Spec
CONSTANTS
  p1 = p1
  p2 = p2
  p3 = p3
  i1 = i1
  i2 = i2
  api1 = api1
  api2 = api2
  None = None
  Processes = {p1, p2, p3}
  Ids = {i1, i2}
  IdOf <- MCIdOf
  Steady = {}
  Commands = {1, 2, 3}
  ActionOf <- MCActionOf
  ClientOf <- MCClientOf
INVARIANTS
  OneCommandAtATime
  StoppedIsQuiet
  PollsAreAnswered
  SuccessIsEffective
PROPERTIES
  StatusMovesLegally
CHECK_DEADLOCK FALSE
