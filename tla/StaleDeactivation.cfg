SPECIFICATION Spec
CONSTANTS
  o1 = o1
  o2 = o2
  q1 = q1
  q2 = q2
  global = global
  symbol = symbol
  Free = Free
  Operators = {o1, o2}
  Submitters = {q1}
  Scopes = {global}
  References = {1}
  MaxTime = 3
  Rank <- MCRank
  ScopesOf <- MCScopesOf
PROPERTIES
  DeactivationSeesItsActivation
