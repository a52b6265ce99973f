SPECIFICATION Spec
CONSTANTS
  w1 = w1
  w2 = w2
  w3 = w3
  p1 = p1
  p2 = p2
  v1 = v1
  c1 = c1
  c2 = c2
  None = None
  Writers = {w1, w2, w3}
  Processes = {p1, p2}
  Process <- MCProcess
  Verifiers = {v1}
  Contents = {c1, c2}
  Attempts = 2
  MaxLegacy = 2
  MaxLog = 3
SYMMETRY Symmetric
INVARIANTS
  TypeOK
  ChainIsIntact
  OnlyRacesFail
  ReportIsTrue
