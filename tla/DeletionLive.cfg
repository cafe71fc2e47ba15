\* Liveness of the cancel link and of the erasure saga, with one failed call or crash.
CONSTANTS
  u1 = u1  r1 = r1  r2 = r2  s1 = s1  s2 = s2  a1 = a1  a2 = a2
  h1 = h1  h2 = h2  w1 = w1  w2 = w2
  Nil = Nil
  Users = {u1}
  Reqs = {r1}
  Services = {s1}
  Admins = {a1}
  MaxLinks = 4
  Handlers = {h1}
  Workers = {w1}
  Ops = {"request", "confirm", "worker", "ack"}
  ConfirmWindow = 1
  GracePeriod = 1
  ReminderLead = 0
  LegalHoldRecheck = 1
  AckBackoff <- OneStep
  PassSkew = 0
  OpSpan = 1
  MaxTime = 3
  MaxFaults = 1
SPECIFICATION FairSpec
CHECK_DEADLOCK FALSE
PROPERTIES
  PendingGetsLink PurgeFinishes
