\* One workspace of three people; the deletion of its owner looks at it once.
CONSTANTS
  u1 = u1  u2 = u2  u3 = u3  c1 = c1  c2 = c2  q1 = q1  q2 = q2
  p1 = p1  p2 = p2  p3 = p3
  People = {u1, u2, u3}
  Firms = {c1, c2}
  Requests = {q1, q2}
  MaxInvites = 2
  Scopes <- MembersScopes
  Persons = {p1, p2, p3}
  Spaces = {c1, c2}
  Calls = {q1, q2}
  Quota <- OneSpaceEach
  PeopleQuota = 1
  PlanScopes <- QuotaScopes
SPECIFICATION Spec
CHECK_DEADLOCK FALSE
SYMMETRY Symmetry
INVARIANT NobodyErasedAlong
