SPECIFICATION Spec
CONSTANTS
  h1 = h1
  h2 = h2
  order1 = order1
  a1 = a1
  a2 = a2
  a3 = a3
  r1 = r1
  r2 = r2
  symbol = symbol
  NoRow = NoRow
  NoOwner = NoOwner
  Hosts = {h1, h2}
  Keys = {order1}
  Hashes = {0, 1}
  Scopes = {symbol}
  Calls = {a1}
  Recoveries = {r2}
  HostOf <- MCHostOf
  KeyOf <- MCKeyOf
  HashOf <- MCHashOf
  ScopesOf <- MCScopesOf
PROPERTIES
  FencedOwnerNeverPlaces
CHECK_DEADLOCK FALSE
