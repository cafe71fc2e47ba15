----------------------------- MODULE MCIdentity -----------------------------
\* Identity for TLC: how one address gets its account, or how one account is
\* signed in to.  A behaviour is about one of them and leaves the other as it was.
EXTENDS Accounts, SignIn, TLC

CONSTANTS i1, i2, g1, g2, v1, v2

VARIABLE focus

\* What is asked for together: enough requests for each race, no more.
SignUpScopes ==
  {[ops |-> {"register", "google", "purge"}, visits |-> 3],
   [ops |-> {"google", "initial", "unlinkG", "legacy", "register"}, visits |-> 3],
   [ops |-> {"register", "google", "fault", "purge"}, visits |-> 2]}

FactorScopes ==
  {[ops |-> {"login", "challenge"}, arrivals |-> 5],
   [ops |-> {"login", "challenge", "lock", "fault", "expire"}, arrivals |-> 4],
   [ops |-> {"enrol", "remove", "login"}, arrivals |-> 4],
   [ops |-> {"enrol", "stepUp", "remove"}, arrivals |-> 3],
   [ops |-> {"reset", "change", "login", "fault"}, arrivals |-> 4],
   [ops |-> {"passkey", "stepUp"}, arrivals |-> 4],
   [ops |-> {"login", "challenge", "remove"}, arrivals |-> 4]}

Init ==
  /\ focus \in {"account", "signIn"}
  /\ AccountsInit /\ SignInInit
  /\ focus # "account" => entryPoints = (CHOOSE x \in AccountScopes : TRUE) /\ legacy = {}
  /\ focus # "signIn" => /\ signScope = CHOOSE x \in SignInScopes : TRUE
                         /\ passkey = "none" /\ opened[1].proof

Next ==
  \/ focus = "account" /\ AccountsNext /\ UNCHANGED <<focus, sVars>>
  \/ focus = "signIn" /\ SignInNext /\ UNCHANGED <<focus, aVars>>

Spec == Init /\ [][Next]_<<focus, aVars, sVars>>

MCTypeOK == AccountsTypeOK /\ SignInTypeOK

Symmetry == Permutations(Ids) \cup Permutations(Subs) \cup Permutations({v1, v2})
=============================================================================
