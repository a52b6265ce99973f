SPECIFICATION FairSpec
CONSTANTS
  r1 = r1
  author = author
  alice = alice
  root = root
  ancestor = ancestor
  loop = loop
  console = console
  p1 = p1
  p2 = p2
  NoUser = NoUser
  Reviews = {r1}
  Users = {author, alice, root, ancestor}
  Requests = {p1}
  Repairers = {loop, console}
  Loop = loop
  Submitter <- MCSubmitter
  TwoPerson <- Never
  Snapshots <- Never
  Approvers = {alice, ancestor}
  Admins = {root}
  Assignees = {alice}
  AncestorUsers = {ancestor}
  AuthEnabled = TRUE
  MultiTenant = FALSE
PROPERTY
  CommittedIsRepaired
