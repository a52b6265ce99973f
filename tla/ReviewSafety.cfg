SPECIFICATION Spec
CONSTANTS
  r1 = r1
  author = author
  alice = alice
  root = root
  ancestor = ancestor
  loop = loop
  console = console
  p1 = p1
  p2 = p2
  NoUser = NoUser
  Reviews = {r1}
  Users = {author, alice, root}
  Requests = {p1, p2}
  Repairers = {loop}
  Loop = loop
  Submitter <- MCSubmitter
  TwoPerson <- Always
  Snapshots <- Always
  Approvers = {alice}
  Admins = {root}
  Assignees = {alice}
  AncestorUsers = {}
  AuthEnabled = TRUE
  MultiTenant = TRUE
INVARIANTS
  TypeOK
  CommittedAtMostOnce
  SingleExecutor
  FourEyes
  StatusTellsTarget
  SagaTellsTarget
  CompletedNamesBackup
  ClosedSagaIsLogged
PROPERTIES
  DecisionsAreFinal
  KeepsPromise
