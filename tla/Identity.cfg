\* Two accounts an address may get, or one account and its second factors.
CONSTANTS
  i1 = i1  i2 = i2  g1 = g1  g2 = g2  v1 = v1  v2 = v2
  Ids = {i1, i2}
  Subs = {g1, g2}
  Visits = {v1, v2}
  AccountScopes <- SignUpScopes
  Doors = {v1, v2}
  MaxAttempts = 2
  MaxSecrets = 2
  MaxTickets = 2
  MaxOpened = 3
  SignInScopes <- FactorScopes
SPECIFICATION Spec
CHECK_DEADLOCK FALSE
SYMMETRY Symmetry
INVARIANTS
  MCTypeOK AddressHeldOnce AlwaysAWayIn OnlyLinkedEnter
  UsedOnce GuessesBounded ChangeEndsSessions
PROPERTIES
  SecondFactorAsked
