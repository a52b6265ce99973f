\* Three calls on a table in which every statement finds something to change,
\* and two while another program changes it.
SPECIFICATION Spec
CONSTANTS
  k1 = k1
  k2 = k2
  q1 = q1
  q2 = q2
  q3 = q3
  open = open
  shut = shut
  blob = blob
  NoRow = NoRow
  NoRequest = NoRequest
  Keys = {k1, k2}
  Values = {open, shut, blob}
  Requests = {q1, q2, q3}
  Stored <- MCStored
  Initial <- OneTable
  Statements <- AllStatements
  MaxOutside = 1
SYMMETRY Symmetric
CONSTRAINT ThreeCallsAlone
INVARIANTS
  TypeOK
  WriteIsRecoverable
  RollbackRestores
  DeleteRollbackIsRecoverable
  RecordTellsTarget
