SPECIFICATION Spec
CONSTANTS
  gold = gold
  oil = oil
  f1 = f1
  f2 = f2
  f3 = f3
  f4 = f4
  f5 = f5
  m1 = m1
  m2 = m2
  m3 = m3
  None = None
  Instruments = {gold, oil}
  Fills = {f1, f2, f3, f4, f5}
  FillOf <- MCFillOf
  Marks = {m1, m2, m3}
  MarkOf <- MCMarkOf
  Scale = 2
  Initial = 100
INVARIANTS
  LedgerExplainsPositions
  CostIsConserved
  AccountAddsUp
CHECK_DEADLOCK FALSE
