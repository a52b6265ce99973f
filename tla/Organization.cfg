\* Two handlers at a time, and three commits.
SPECIFICATION OrgSpec
CONSTANTS
  corp = corp
  sales = sales
  ops = ops
  team = team
  desk = desk
  m1 = m1
  m2 = m2
  h1 = h1
  h2 = h2
  ann = ann
  NoUnit = NoUnit
  NoUser = NoUser
  Units = {corp, sales, ops, team, desk}
  InitialUnits = {corp, sales, ops, team}
  Level <- MCLevel
  Home <- MCHome
  Members = {m1, m2}
  Users = {ann}
  Sessions = {h1, h2}
  MaxWrites = 3
SYMMETRY Symmetric
CHECK_DEADLOCK FALSE
INVARIANTS
  OrgIsWellFormed
  TreeIsSound
  ContextIsFresh
