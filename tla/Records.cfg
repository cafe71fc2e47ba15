\* One ticket, two people under review, one person's export, or one resource server's scopes.
CONSTANTS
  k1 = k1  k2 = k2  c1 = c1  c2 = c2  o1 = o1  o2 = o2
  Callers = {k1, k2}
  Sockets = {1, 2}
  MaxWords = 6
  SupportScopes <- TicketScopes
  Holders = {k1, k2}
  CPFs = {c1, c2}
  Officers = {o1, o2}
  MaxFiles = 2
  MaxDocuments = 3
  KycScopes <- CheckScopes
  Jobs = {k1, k2}
  MaxExports = 2
  MaxTries = 2
  ExportScopes <- FileScopes
  Askers = {k1, k2}
  Names = {"read", "write", "inner"}
  Internal = {"inner"}
  Manifests <- ScopeManifests
  Seeded = {"read", "write", "inner"}
  MaxRevisions = 3
  GrantScopes <- AccessScopes
SPECIFICATION Spec
CHECK_DEADLOCK FALSE
SYMMETRY Symmetry
INVARIANTS
  MCTypeOK NoWordsStranded OneAccountPerCPF DocumentsRetained NothingBeyondGrant NoFileSurvivesPurge
PROPERTIES
  ClosedIsFinal ActiveNeverDropped
