------------------------------ MODULE Accounts ------------------------------
(***************************************************************************)
(* The accounts of one e-mail address: registration with a password,       *)
(* sign-up and sign-in with Google, linking and unlinking, the terms gate, *)
(* and the purge that frees the address (domain/user, handler/auth.go,     *)
(* social.go, terms.go and profile.go).                                    *)
(*                                                                         *)
(* The marker row makes the address unique; the e-mail index, which every  *)
(* lookup by address reads, lags behind the table: lists is what it shows, *)
(* old attributes included.  A request reads and writes in steps of its    *)
(* own.  Second factors are in SignIn.                                     *)
(***************************************************************************)
EXTENDS Integers, FiniteSets

CONSTANTS
  Ids,           \* account ids a creation may draw
  Subs,          \* Google identities whose verified address is this one
  Visits,        \* requests in progress
  AccountScopes  \* entry points, and a bound of the requests; a behaviour exercises one

NoId == "no id"
NoSub == "no sub"

ASSUME AccountsAssumption ==
  /\ NoId \notin Ids /\ NoSub \notin Subs
  /\ \A x \in AccountScopes : x.visits \in Nat

VARIABLES
  entryPoints,  \* the scope in use
  marker,       \* the e-mail marker row exists
  users,        \* id -> user row
  lists,        \* id -> the row as the e-mail index shows it
  evTokens,     \* accounts with a live e-mail verification link
  termsTokens,  \* accounts with a live accept-terms token
  visits,       \* request -> where it is and what it read
  visitsLeft,
  signedIn,     \* accounts with a session
  \* What happened, for the properties only:
  entered,      \* <<account, Google identity>> of each session a Google login got
  linked,       \* <<account, Google identity>> bound by sign-up or by its signed-in owner
  legacy,       \* accounts from before Google identities were stored
  stranded,     \* a creation stopped, or failed, between marker and user
  doubled       \* a user row was written although the write was reported as failed

aVars == <<entryPoints, marker, users, lists, evTokens, termsTokens, visits, visitsLeft, signedIn,
           entered, linked, legacy, stranded, doubled>>
aSeen == <<entered, linked, legacy, stranded, doubled>>
links == <<evTokens, termsTokens>>

-----------------------------------------------------------------------------
(* State *)

NoUser == [state |-> "none", pass |-> FALSE, sub |-> NoSub, verified |-> FALSE, terms |-> FALSE]
UserRow == [state: {"none", "live", "locked", "purged"}, pass: BOOLEAN, sub: Subs \cup {NoSub},
            verified: BOOLEAN, terms: BOOLEAN]
\* The attributes of a tombstone: nothing to sign in with, and no e-mail.
Tombstone(u) == [NoUser EXCEPT !.state = "purged", !.terms = u.terms]

VisitSteps == {"idle", "lookup", "mark", "put", "rollback", "verifyMail", "mintTerms", "bind",
               "link", "terms", "session", "setPassword", "unlink"}
NoVisit == [pc |-> "idle", op |-> "none", id |-> NoId, sub |-> NoSub, read |-> NoUser]
Visit == [pc: VisitSteps, op: {"none", "register", "google", "initial", "unlinkG", "accept"},
          id: Ids \cup {NoId}, sub: Subs \cup {NoSub}, read: UserRow]

AccountsTypeOK ==
  /\ entryPoints \in AccountScopes /\ marker \in BOOLEAN
  /\ users \in [Ids -> UserRow] /\ lists \in [Ids -> UserRow]
  /\ evTokens \subseteq Ids /\ termsTokens \subseteq Ids
  /\ visits \in [Visits -> Visit] /\ visitsLeft \in 0..entryPoints.visits
  /\ signedIn \subseteq Ids /\ legacy \subseteq Ids
  /\ entered \subseteq Ids \X Subs /\ linked \subseteq Ids \X Subs
  /\ stranded \in BOOLEAN /\ doubled \in BOOLEAN

\* An address nobody uses, or one with an account Google opened before its identity
\* was stored with it.
AccountsInit ==
  /\ entryPoints \in AccountScopes
  /\ \E old \in {{}} \cup (IF "legacy" \in entryPoints.ops THEN {{i} : i \in Ids} ELSE {}) :
       /\ marker = (old # {}) /\ legacy = old
       /\ users = [i \in Ids |-> IF i \in old
                                 THEN [NoUser EXCEPT !.state = "live", !.verified = TRUE, !.terms = TRUE]
                                 ELSE NoUser]
  /\ lists = users
  /\ evTokens = {} /\ termsTokens = {}
  /\ visits = [v \in Visits |-> NoVisit] /\ visitsLeft = entryPoints.visits
  /\ signedIn = {} /\ entered = {} /\ linked = {}
  /\ stranded = FALSE /\ doubled = FALSE

-----------------------------------------------------------------------------
(* Requests *)

HasAddress(u) == u.state \in {"live", "locked"}

Arrive(v, op, pc, i, g) ==
  /\ visits[v].pc = "idle" /\ op \in entryPoints.ops
  /\ visitsLeft > 0 /\ visitsLeft' = visitsLeft - 1
  /\ visits' = [visits EXCEPT ![v] = [NoVisit EXCEPT !.pc = pc, !.op = op, !.id = i, !.sub = g]]

Proceed(v, pc) == visits' = [visits EXCEPT ![v] = [@ EXCEPT !.pc = pc]]
Leave(v) == visits' = [visits EXCEPT ![v] = NoVisit]
ProceedWith(v, pc, i, row) == visits' = [visits EXCEPT ![v] = [@ EXCEPT !.pc = pc, !.id = i, !.read = row]]

\* repository.Update writes some attributes of a row, whatever the row is by then.
Update(i, row) == users' = [users EXCEPT ![i] = row]

-----------------------------------------------------------------------------
(* Registration and sign-up *)

Register(v) ==
  /\ Arrive(v, "register", "lookup", NoId, NoSub)
  /\ UNCHANGED <<entryPoints, marker, users, lists, links, signedIn, aSeen>>

\* GetByEmail: one of the rows the index shows.
RegisterLookup(v) ==
  /\ visits[v].pc = "lookup" /\ visits[v].op = "register"
  /\ IF \E i \in Ids : HasAddress(lists[i]) THEN Leave(v) ELSE Proceed(v, "mark")
  /\ UNCHANGED <<entryPoints, marker, users, lists, links, visitsLeft, signedIn, aSeen>>

\* The id that uuid.New draws.
Fresh(i) == users[i] = NoUser /\ \A v \in Visits : visits[v].id # i

BugAddressFree == TRUE
AddressFree == ~marker

\* Create claims the address with a conditional write of the marker ...
CreateMarker(v) ==
  /\ visits[v].pc = "mark"
  /\ IF AddressFree
     THEN \E i \in Ids : /\ Fresh(i) /\ marker' = TRUE
                         /\ visits' = [visits EXCEPT ![v] = [@ EXCEPT !.pc = "put", !.id = i]]
     ELSE Leave(v) /\ UNCHANGED marker
  /\ UNCHANGED <<entryPoints, users, lists, links, visitsLeft, signedIn, aSeen>>

NewUser(v) ==
  IF visits[v].op = "register"
  THEN [NoUser EXCEPT !.state = "live", !.pass = TRUE, !.terms = TRUE]
  ELSE [NoUser EXCEPT !.state = "live", !.sub = visits[v].sub, !.verified = TRUE]

\* ... then puts the user.  A put reported as failed may have been applied.
CreatePut(v) ==
  LET x == visits[v] IN
  /\ x.pc = "put"
  /\ \/ /\ Update(x.id, NewUser(v))
        /\ Proceed(v, IF x.op = "register" THEN "verifyMail" ELSE "mintTerms")
        /\ linked' = IF x.op = "google" THEN linked \cup {<<x.id, x.sub>>} ELSE linked
        /\ UNCHANGED doubled
     \/ /\ "fault" \in entryPoints.ops
        /\ \/ UNCHANGED <<users, doubled, linked>>
           \/ /\ Update(x.id, NewUser(v)) /\ doubled' = TRUE
              /\ linked' = IF x.op = "google" THEN linked \cup {<<x.id, x.sub>>} ELSE linked
        /\ Proceed(v, "rollback")
  /\ UNCHANGED <<entryPoints, marker, lists, links, visitsLeft, signedIn, entered, legacy, stranded>>

\* Best effort: the rollback of the marker may fail too.
Rollback(v) ==
  /\ visits[v].pc = "rollback"
  /\ \/ marker' = FALSE /\ UNCHANGED stranded
     \/ stranded' = TRUE /\ UNCHANGED marker
  /\ Leave(v)
  /\ UNCHANGED <<entryPoints, users, lists, links, visitsLeft, signedIn, entered, linked, legacy, doubled>>

\* sendVerificationEmail; sign-ups with Google are verified, and owe the terms.
SendVerification(v) ==
  /\ visits[v].pc = "verifyMail"
  /\ evTokens' = evTokens \cup {visits[v].id}
  /\ Leave(v)
  /\ UNCHANGED <<entryPoints, marker, users, lists, termsTokens, visitsLeft, signedIn, aSeen>>

MintAcceptTerms(v) ==
  /\ visits[v].pc = "mintTerms"
  /\ termsTokens' = termsTokens \cup {visits[v].id}
  /\ Leave(v)
  /\ UNCHANGED <<entryPoints, marker, users, lists, evTokens, visitsLeft, signedIn, aSeen>>

\* resendVerification looks the address up again.
ResendVerification(i) ==
  /\ "register" \in entryPoints.ops
  /\ HasAddress(lists[i]) /\ ~lists[i].verified /\ i \notin evTokens
  /\ evTokens' = evTokens \cup {i}
  /\ UNCHANGED <<entryPoints, marker, users, lists, termsTokens, visits, visitsLeft, signedIn, aSeen>>

\* verifyEmail: the link works once; it marks the row, also one purged meanwhile.
VerifyEmail(i) ==
  /\ i \in evTokens
  /\ evTokens' = evTokens \ {i}
  /\ Update(i, [users[i] EXCEPT !.verified = TRUE])
  /\ UNCHANGED <<entryPoints, marker, lists, termsTokens, visits, visitsLeft, signedIn, aSeen>>

-----------------------------------------------------------------------------
(* Sign-in *)

\* Login: what the index shows must be live and verified, with the password.
PasswordLogin(i) ==
  /\ lists[i].state = "live" /\ lists[i].pass /\ lists[i].verified
  /\ signedIn' = signedIn \cup {i}
  /\ UNCHANGED <<entryPoints, marker, users, lists, links, visits, visitsLeft, aSeen>>

\* The callback of an anonymous browser, with a profile Google verified.
GoogleCallback(v, g) ==
  /\ Arrive(v, "google", "lookup", NoId, g)
  /\ UNCHANGED <<entryPoints, marker, users, lists, links, signedIn, aSeen>>

\* Mutant: a password account takes any Google identity with its address.
BugMayBind(u) == u.sub = NoSub
MayBind(u) == u.sub = NoSub /\ ~u.pass

\* FindOrCreateByGoogle: the same identity enters, a passwordless account is bound
\* to this one, any other account refuses, and a free address gets a new account.
FindOrCreateByGoogle(v) ==
  /\ visits[v].pc = "lookup" /\ visits[v].op = "google"
  /\ \/ \E i \in Ids : /\ HasAddress(lists[i])
                       /\ IF lists[i].sub = visits[v].sub THEN ProceedWith(v, "session", i, lists[i])
                          ELSE IF MayBind(lists[i]) THEN ProceedWith(v, "bind", i, lists[i])
                          ELSE Leave(v)
     \/ (\A i \in Ids : ~HasAddress(lists[i])) /\ Proceed(v, "mark")
  /\ UNCHANGED <<entryPoints, marker, users, lists, links, visitsLeft, signedIn, aSeen>>

Bind(v) ==
  LET x == visits[v] IN
  /\ x.pc = "bind"
  /\ Update(x.id, [users[x.id] EXCEPT !.sub = x.sub])
  /\ Proceed(v, "session")
  /\ UNCHANGED <<entryPoints, marker, lists, links, visitsLeft, signedIn, aSeen>>

\* issueSessionFromSocial: the deletion state is the one that was read.
SocialSession(v) ==
  LET x == visits[v] IN
  /\ x.pc = "session"
  /\ IF x.read.state = "live"
     THEN /\ signedIn' = signedIn \cup {x.id}
          /\ entered' = IF x.op = "google" THEN entered \cup {<<x.id, x.sub>>} ELSE entered
     ELSE UNCHANGED <<signedIn, entered>>
  /\ Leave(v)
  /\ UNCHANGED <<entryPoints, marker, users, lists, links, visitsLeft, linked, legacy, stranded, doubled>>

\* acceptTerms consumes the token and reads the user ...
AcceptTermsToken(v, i) ==
  /\ i \in termsTokens /\ termsTokens' = termsTokens \ {i}
  /\ visits[v].pc = "idle" /\ visits' = [visits EXCEPT ![v] = [NoVisit EXCEPT
         !.pc = "terms", !.op = "accept", !.id = i, !.read = users[i]]]
  /\ UNCHANGED <<entryPoints, marker, users, lists, evTokens, visitsLeft, signedIn, aSeen>>

\* ... then stamps what is pending; a box left open ends it, the token is gone.
AcceptPendingTerms(v) ==
  LET x == visits[v] IN
  /\ x.pc = "terms"
  /\ \/ x.read.terms /\ Proceed(v, "session") /\ UNCHANGED users
     \/ ~x.read.terms /\ Update(x.id, [users[x.id] EXCEPT !.terms = TRUE]) /\ Proceed(v, "session")
     \/ ~x.read.terms /\ Leave(v) /\ UNCHANGED users
  /\ UNCHANGED <<entryPoints, marker, lists, links, visitsLeft, signedIn, aSeen>>

-----------------------------------------------------------------------------
(* A signed-in person changes the ways in *)

\* The callback of a browser with a session: LinkGoogle reads ...
LinkGoogle(v, i, g) ==
  /\ i \in signedIn /\ HasAddress(users[i])
  /\ Arrive(v, "google", "link", i, g)
  /\ UNCHANGED <<entryPoints, marker, users, lists, links, signedIn, aSeen>>

\* ... refuses another identity than the bound one, and writes.
LinkRead(v) ==
  LET x == visits[v] IN
  /\ x.pc = "link" /\ x.read = NoUser
  /\ IF HasAddress(users[x.id]) /\ users[x.id].sub = NoSub
     THEN ProceedWith(v, "link", x.id, users[x.id]) ELSE Leave(v)
  /\ UNCHANGED <<entryPoints, marker, users, lists, links, visitsLeft, signedIn, aSeen>>

LinkWrite(v) ==
  LET x == visits[v] IN
  /\ x.pc = "link" /\ x.read # NoUser
  /\ Update(x.id, [users[x.id] EXCEPT !.sub = x.sub])
  /\ linked' = linked \cup {<<x.id, x.sub>>}
  /\ Leave(v)
  /\ UNCHANGED <<entryPoints, marker, lists, links, visitsLeft, signedIn, entered, legacy, stranded, doubled>>

\* SetInitialPassword refuses when the row has a password.
SetInitialPassword(v, i) ==
  /\ i \in signedIn /\ ~users[i].pass
  /\ Arrive(v, "initial", "setPassword", i, NoSub)
  /\ UNCHANGED <<entryPoints, marker, users, lists, links, signedIn, aSeen>>

WritePassword(v) ==
  /\ visits[v].pc = "setPassword"
  /\ Update(visits[v].id, [users[visits[v].id] EXCEPT !.pass = TRUE])
  /\ Leave(v)
  /\ UNCHANGED <<entryPoints, marker, lists, links, visitsLeft, signedIn, aSeen>>

\* resetPassword also gives a password to an account that had none.
ResetPasswordOf(i) ==
  /\ "initial" \in entryPoints.ops /\ HasAddress(lists[i]) /\ users[i].state # "none"
  /\ Update(i, [users[i] EXCEPT !.pass = TRUE])
  /\ signedIn' = signedIn \ {i}
  /\ UNCHANGED <<entryPoints, marker, lists, links, visits, visitsLeft, aSeen>>

BugCanUnlink(u) == TRUE
CanUnlink(u) == u.pass

\* UnlinkGoogle refuses an account without a password.
UnlinkGoogle(v, i) ==
  /\ i \in signedIn /\ CanUnlink(users[i])
  /\ Arrive(v, "unlinkG", "unlink", i, NoSub)
  /\ UNCHANGED <<entryPoints, marker, users, lists, links, signedIn, aSeen>>

WriteUnlink(v) ==
  /\ visits[v].pc = "unlink"
  /\ Update(visits[v].id, [users[visits[v].id] EXCEPT !.sub = NoSub])
  /\ Leave(v)
  /\ UNCHANGED <<entryPoints, marker, lists, links, visitsLeft, signedIn, aSeen>>

-----------------------------------------------------------------------------
(* Deletion, the index and the instance *)

LockAccount(i) ==
  /\ "purge" \in entryPoints.ops /\ users[i].state = "live"
  /\ Update(i, [users[i] EXCEPT !.state = "locked"])
  /\ signedIn' = signedIn \ {i}
  /\ UNCHANGED <<entryPoints, marker, lists, links, visits, visitsLeft, aSeen>>

\* Purge: the tombstone and the release of the marker are one transaction.
Purge(i) ==
  /\ users[i].state = "locked"
  /\ Update(i, Tombstone(users[i]))
  /\ marker' = FALSE
  /\ UNCHANGED <<entryPoints, lists, links, visits, visitsLeft, signedIn, aSeen>>

IndexCatchesUp(i) ==
  /\ lists[i] # users[i]
  /\ lists' = [lists EXCEPT ![i] = users[i]]
  /\ UNCHANGED <<entryPoints, marker, users, links, visits, visitsLeft, signedIn, aSeen>>

\* The instance stops, or a call fails without effect.
VisitDies(v) ==
  /\ "fault" \in entryPoints.ops /\ visits[v].pc # "idle"
  /\ stranded' = (stranded \/ visits[v].pc \in {"put", "rollback"})
  /\ Leave(v)
  /\ UNCHANGED <<entryPoints, marker, users, lists, links, visitsLeft, signedIn, entered, linked, legacy, doubled>>

AccountsNext ==
  \/ \E v \in Visits :
       \/ Register(v) \/ RegisterLookup(v) \/ CreateMarker(v) \/ CreatePut(v) \/ Rollback(v)
       \/ SendVerification(v) \/ MintAcceptTerms(v)
       \/ FindOrCreateByGoogle(v) \/ Bind(v) \/ SocialSession(v) \/ AcceptPendingTerms(v)
       \/ LinkRead(v) \/ LinkWrite(v) \/ WritePassword(v) \/ WriteUnlink(v) \/ VisitDies(v)
       \/ \E g \in Subs : GoogleCallback(v, g)
       \/ \E i \in Ids : AcceptTermsToken(v, i) \/ SetInitialPassword(v, i) \/ UnlinkGoogle(v, i)
       \/ \E i \in Ids, g \in Subs : LinkGoogle(v, i, g)
  \/ \E i \in Ids : \/ ResendVerification(i) \/ VerifyEmail(i) \/ PasswordLogin(i)
                    \/ ResetPasswordOf(i) \/ LockAccount(i) \/ Purge(i) \/ IndexCatchesUp(i)

AccountsSpec == AccountsInit /\ [][AccountsNext]_aVars

-----------------------------------------------------------------------------
(* Safety *)

Creating == \E v \in Visits : visits[v].pc \in {"put", "rollback"}

\* An address has at most one account at any time, however many registrations and
\* sign-ups race and however stale the index is, and it is taken exactly while it has
\* one or one is being created: a purge frees it.  Excepted are the creations whose
\* second write failed: the rollback is best effort.
AddressHeldOnce ==
  ~stranded /\ ~doubled =>
    LET holders == {i \in Ids : HasAddress(users[i])}
    IN Cardinality(holders) <= 1 /\ (marker <=> holders # {} \/ Creating)

\* Unlinking never leaves an account without a way in, whatever else changes its
\* ways in at the same time.
AlwaysAWayIn ==
  \A i \in Ids \ legacy : users[i].state = "live" => users[i].pass \/ users[i].sub # NoSub

\* A Google login enters an account only with an identity that opened the account or
\* that its signed-in owner linked: a password account is never merged with an
\* anonymous login, also when the index shows an older row.
OnlyLinkedEnter == \A e \in entered : e \in linked \/ e[1] \in legacy

\* What the callback's comment says: nobody is signed in before the terms are
\* accepted.
TermsBeforeSession == \A i \in signedIn : users[i].state = "live" => users[i].terms
=============================================================================
