\* One request from opening to the tombstone, with one failed call or crash.
CONSTANTS
  u1 = u1  r1 = r1  r2 = r2  s1 = s1  s2 = s2  a1 = a1  a2 = a2
  h1 = h1  h2 = h2  w1 = w1  w2 = w2
  Nil = Nil
  Users = {u1}
  Reqs = {r1}
  Services = {s1}
  Admins = {a1}
  MaxLinks = 3
  Handlers = {h1}
  Workers = {w1}
  Ops = {"request", "confirm", "cancel", "supportCancel", "worker", "ack"}
  ConfirmWindow = 1
  GracePeriod = 2
  ReminderLead = 1
  LegalHoldRecheck = 1
  AckBackoff <- OneStep
  PassSkew = 0
  OpSpan = 1
  MaxTime = 3
  MaxFaults = 1
SPECIFICATION Spec
CHECK_DEADLOCK FALSE
INVARIANTS
  TypeOK EraseOnlyCommitted SentLinkWorks NoLockWithoutLink OwedIsDue
PROPERTIES
  ImplementsLifecycle
