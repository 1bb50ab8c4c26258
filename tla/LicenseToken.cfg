SPECIFICATION Spec
CONSTANTS
  None = None
  w1 = w1
  w2 = w2
  e1 = e1
  kid1 = kid1
  kid2 = kid2
  key1 = key1
  key2 = key2
  Improper = Improper
  Workers = {w1, w2}
  Executors = {e1}
  Kids = {kid1, kid2}
  Keys = {key1, key2}
  TokenLifetime = 4
  MaxTime = 2
  Budgets <- MCBudgets
SYMMETRY Symmetry
CHECK_DEADLOCK FALSE
INVARIANTS TokenIsUsedBriefly KeySettingHasKey
