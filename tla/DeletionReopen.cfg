\* Two requests of one person, one after the other, and two workers.
CONSTANTS
  u1 = u1  r1 = r1  r2 = r2  s1 = s1  s2 = s2  a1 = a1  a2 = a2
  h1 = h1  h2 = h2  w1 = w1  w2 = w2
  Nil = Nil
  Users = {u1}
  Reqs = {r1, r2}
  Services = {}
  Admins = {a1}
  MaxLinks = 1
  Handlers = {h1}
  Workers = {w1, w2}
  Ops = {"request", "confirm", "cancel", "supportCancel", "worker"}
  ConfirmWindow = 1
  GracePeriod = 2
  ReminderLead = 1
  LegalHoldRecheck = 1
  AckBackoff <- OneStep
  PassSkew = 0
  OpSpan = 1
  MaxTime = 2
  MaxFaults = 0
SPECIFICATION Spec
CHECK_DEADLOCK FALSE
SYMMETRY WorkerSymmetry
INVARIANTS
  MarkerIffOpen PurgingStaysBlocked NoStrandedBlock
