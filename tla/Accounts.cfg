\* Two calls and two starting processes, and three revocations; two requests, and
\* two edits of the policies.
SPECIFICATION Spec
CONSTANTS
  p1 = p1
  p2 = p2
  p3 = p3
  k1 = k1
  d1 = d1
  d2 = d2
  c1 = c1
  c2 = c2
  w1 = w1
  w2 = w2
  admin = admin
  bob = bob
  carl = carl
  Nobody = Nobody
  People = {p1, p2, p3}
  Migrated = {p1, p2}
  Names = {admin, bob, carl}
  AdminName = admin
  NameOf <- MCNameOf
  Payloads = {d1, d2}
  Keys = {k1}
  Workers = {w1, w2}
  Calls = {c1, c2}
  MaxRevocations = 3
  r1 = r1
  r2 = r2
  k2 = k2
  u1 = u1
  u2 = u2
  q1 = q1
  q2 = q2
  o1 = o1
  o2 = o2
  g1 = g1
  g2 = g2
  NoReview = NoReview
  NoStatement = NoStatement
  NoReviewKey = NoReviewKey
  NoPolicy = NoPolicy
  Reviews = {r1, r2}
  ReviewKeys = {k2}
  Statements = {u1, u2}
  Submitters = {q1, q2}
  Policies = {o1, o2}
  Admins = {g1, g2}
  RowCounts = {0, 1}
  Bodies <- MCBodies
  MaxSubmits = 2
  MaxPolicyChanges = 2
SYMMETRY Symmetric
CHECK_DEADLOCK FALSE
INVARIANTS
  AccountsAreWellFormed
  AdminRemains
  RevokedStaysRevoked
  SubmissionsAreSound
