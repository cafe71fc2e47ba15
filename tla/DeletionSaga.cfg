\* Two participants that answer late, twice or with a refusal, redrives and holds, one failed call or crash.
CONSTANTS
  u1 = u1  r1 = r1  r2 = r2  s1 = s1  s2 = s2  a1 = a1  a2 = a2
  h1 = h1  h2 = h2  w1 = w1  w2 = w2
  Nil = Nil
  Users = {u1}
  Reqs = {r1}
  Services = {s1, s2}
  Admins = {a1}
  MaxLinks = 1
  Handlers = {h1}
  Workers = {w1}
  Ops = {"request", "confirm", "worker", "ack", "refuse", "redrive", "hold"}
  ConfirmWindow = 1
  GracePeriod = 1
  ReminderLead = 0
  LegalHoldRecheck = 1
  AckBackoff <- OneStep
  PassSkew = 1
  OpSpan = 1
  MaxTime = 2
  MaxFaults = 1
SPECIFICATION Spec
CHECK_DEADLOCK FALSE
INVARIANTS
  PurgedAfterAcks
PROPERTIES
  AckIsFinal
