----------------------------- MODULE MCRecords -----------------------------
\* Records for TLC: one support ticket, the identity checks of two people, one
\* person's data export, or the scopes of one resource server.  They share no row, so a
\* behaviour is about one of them and leaves the others as they were.
EXTENDS Support, Kyc, DataExport, Grants, TLC

CONSTANTS k1, k2, c1, c2, o1, o2

VARIABLE focus

\* What is asked for together: enough requests for each race, no more.
TicketScopes ==
  {[ops |-> {"create", "reply", "note", "status", "fault"}, calls |-> 4],
   [ops |-> {"create", "escalate", "status", "rate"}, calls |-> 4],
   [ops |-> {"create", "status", "reply", "delete", "fault"}, calls |-> 3],
   [ops |-> {"create", "status", "rate", "delete"}, calls |-> 3],
   [ops |-> {"create", "note", "listen"}, calls |-> 2]}

CheckScopes ==
  {[ops |-> {"basic", "delete", "fault"}, cases |-> 4],
   [ops |-> {"basic", "documents", "enhanced", "review"}, cases |-> 7],
   [ops |-> {"basic", "documents", "enhanced", "review", "delete", "fault"}, cases |-> 5]}

FileScopes ==
  {[ops |-> {"request", "discard", "purge"}, asks |-> 3],
   [ops |-> {"request", "ack", "fault"}, asks |-> 3],
   [ops |-> {"request", "ack", "status", "time"}, asks |-> 3],
   [ops |-> {"request", "fault", "time", "purge"}, asks |-> 2],
   [ops |-> {"request", "discard", "fault", "purge"}, asks |-> 2]}

Scope(status, visibility, m2m) == [status |-> status, visibility |-> visibility, m2m |-> m2m]

\* A first manifest, one that adds to it, one that deprecates, and one that declares an
\* internal scope public.
ScopeManifests ==
  {"read" :> Scope("active", "public", TRUE),
   "read" :> Scope("active", "public", TRUE) @@ "write" :> Scope("active", "public", FALSE)
     @@ "inner" :> Scope("active", "internal", FALSE),
   "read" :> Scope("deprecated", "public", TRUE) @@ "write" :> Scope("active", "public", FALSE),
   "inner" :> Scope("active", "public", FALSE)}

AccessScopes ==
  {[ops |-> {"provision", "publish", "restore", "ensure", "fault"}, turns |-> 5, own |-> FALSE],
   [ops |-> {"provision", "publish", "create", "machine"}, turns |-> 5, own |-> FALSE],
   [ops |-> {"provision", "publish", "create", "machine", "disabled"}, turns |-> 4, own |-> FALSE],
   [ops |-> {"create", "update", "delete", "secret", "machine"}, turns |-> 4, own |-> FALSE],
   [ops |-> {"create", "update", "consent", "authorize", "exchange", "expiry"}, turns |-> 5, own |-> FALSE],
   [ops |-> {"create", "consent", "revokeConsent", "authorize", "exchange", "locked", "disabled"}, turns |-> 5, own |-> FALSE],
   [ops |-> {"ensure", "authorize", "exchange"}, turns |-> 3, own |-> FALSE],
   [ops |-> {"service", "grant", "token"}, turns |-> 3, own |-> FALSE],
   [ops |-> {"provision", "publish", "key", "apiKey"}, turns |-> 4, own |-> FALSE],
   [ops |-> {"key", "revokeKey", "apiKey", "locked", "disabled"}, turns |-> 4, own |-> FALSE],
   [ops |-> {"boot", "fault"}, turns |-> 4, own |-> TRUE]}

Init ==
  /\ focus \in {"ticket", "check", "export", "grant"}
  /\ SupportInit /\ KycInit /\ ExportInit /\ GrantInit
  /\ focus # "ticket" => supScope = CHOOSE x \in SupportScopes : TRUE
  /\ focus # "check" => kycScope = CHOOSE x \in KycScopes : TRUE
  /\ focus # "export" => expScope = CHOOSE x \in ExportScopes : TRUE
  /\ focus # "grant" => grantScope = CHOOSE x \in GrantScopes : TRUE

Next ==
  \/ focus = "ticket" /\ SupportNext /\ UNCHANGED <<focus, kVars, xVars, gVars>>
  \/ focus = "check" /\ KycNext /\ UNCHANGED <<focus, uVars, xVars, gVars>>
  \/ focus = "export" /\ ExportNext /\ UNCHANGED <<focus, uVars, kVars, gVars>>
  \/ focus = "grant" /\ GrantNext /\ UNCHANGED <<focus, uVars, kVars, xVars>>

Spec == Init /\ [][Next]_<<focus, uVars, kVars, xVars, gVars>>

MCTypeOK == SupportTypeOK /\ KycTypeOK /\ ExportTypeOK /\ GrantTypeOK

Symmetry == Permutations({k1, k2}) \cup Permutations(CPFs) \cup Permutations(Officers)
=============================================================================
