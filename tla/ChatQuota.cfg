SPECIFICATION Spec
CONSTANTS
  q1 = q1
  q2 = q2
  q3 = q3
  i1 = i1
  i2 = i2
  i3 = i3
  NoId = NoId
  NoQuota = NoQuota
  Requests = {q1, q2, q3}
  Ids = {i1, i2, i3}
  Share = 2
  Limits = {0, 5}
  Tokens = {2}
  MaxCalls = 2
SYMMETRY Symmetric
INVARIANTS
  TypeOK
  BudgetIsKept
