--------------------------- MODULE IdentityProofs ---------------------------
(***************************************************************************)
(* The accounts of an address, and signing in to one account, for every    *)
(* number of ids, Google identities, tokens, sessions and requests.        *)
(*                                                                         *)
(* Accounts.  A request goes on with a row the lagging e-mail index showed *)
(* it, and creates an account in two writes.  The inductive invariant says *)
(* of each step what a request there may rely on whatever the row has      *)
(* become: an id belongs to an account, a password is given up by a purge  *)
(* only, an identity once linked was linked; and that the marker stands    *)
(* for one account or one creation in progress.                            *)
(*                                                                         *)
(* SignIn.  A token is live, in the hands of one request, or used; the     *)
(* counter of a token pays for the codes tried and for those about to be;  *)
(* and a session behind the password is about to end.                      *)
(***************************************************************************)
EXTENDS Accounts, SignIn, TLAPS, FiniteSetTheorems

Exists(i) == users[i].state # "none"

\* A row of i, also one the index shows: a way in, and no identity nobody linked.
RowSound(i, u) ==
  /\ u.state = "none" => u = NoUser
  /\ HasAddress(u) /\ i \notin legacy => u.pass \/ u.sub # NoSub
  /\ u.sub # NoSub => <<i, u.sub>> \in linked \/ i \in legacy

Rows ==
  \A i \in Ids : /\ RowSound(i, users[i]) /\ RowSound(i, lists[i])
                 /\ lists[i].state # "none" => Exists(i)

\* Links, tokens and sessions are of accounts that were created.
Handles == \A i \in evTokens \cup termsTokens \cup signedIn : Exists(i)

Creates(x) == x.pc \in {"put", "rollback"}

\* What a request x may rely on at its step.
VisitSound(x) ==
  /\ x.op = "google" => x.sub \in Subs
  /\ x.pc \in {"lookup", "mark", "put"} => x.op \in {"register", "google"}
  /\ x.pc \in {"bind", "link"} => x.op = "google"
  /\ x.pc = "terms" => x.op = "accept"
  /\ x.pc \in {"verifyMail", "mintTerms", "bind", "link", "terms", "session", "setPassword", "unlink"} =>
       x.id \in Ids /\ Exists(x.id)
  /\ x.pc = "put" => x.id \in Ids /\ users[x.id] = NoUser
  /\ x.pc = "bind" => x.id \in legacy
  /\ x.pc = "session" /\ x.op = "google" => <<x.id, x.sub>> \in linked \/ x.id \in legacy
  /\ x.pc = "unlink" => users[x.id].pass \/ users[x.id].state = "purged"

\* Two creations never drew the same id.
OwnIds ==
  \A v, w \in Visits : v # w /\ visits[v].pc = "put" /\ visits[w].pc = "put" => visits[v].id # visits[w].id

\* One account, or one creation in progress, or neither and no marker.
OneHolder ==
  ~stranded /\ ~doubled =>
    /\ \A i, j \in Ids : HasAddress(users[i]) /\ HasAddress(users[j]) => i = j
    /\ \A v, w \in Visits : Creates(visits[v]) /\ Creates(visits[w]) => v = w
    /\ \A i \in Ids, v \in Visits : ~(HasAddress(users[i]) /\ Creates(visits[v]))
    /\ marker <=> (\E i \in Ids : HasAddress(users[i])) \/ (\E v \in Visits : Creates(visits[v]))

AccountsInv ==
  /\ AccountsTypeOK /\ Rows /\ Handles
  /\ \A v \in Visits : VisitSound(visits[v])
  /\ OwnIds /\ OneHolder /\ OnlyLinkedEnter

-----------------------------------------------------------------------------
(* Rows and requests *)

\* What a step does at most to the rows, unless it creates or purges an account.
Grow ==
  /\ \A i \in Ids : /\ Exists(i) => Exists(i)'
                    /\ users[i].pass \/ users[i].state = "purged" => users'[i].pass \/ users'[i].state = "purged"
  /\ linked \subseteq linked' /\ legacy' = legacy

Still ==
  \A i \in Ids : /\ users[i] = NoUser => users'[i] = NoUser
                 /\ HasAddress(users'[i]) <=> HasAddress(users[i])

\* The requests that move are not creating an account.
Aside ==
  \A w \in Visits : \/ visits'[w] = visits[w]
                    \/ ~Creates(visits[w]) /\ ~Creates(visits'[w]) /\ (VisitSound(visits[w]))'

LEMMA VisitFacts ==
  /\ NoUser \in UserRow /\ NoUser.state = "none" /\ NoUser.sub = NoSub /\ ~NoUser.pass
  /\ NoVisit \in Visit /\ NoVisit.pc = "idle" /\ NoVisit.op = "none"
  /\ ~Creates(NoVisit)
<1>1. NoUser \in UserRow /\ NoUser.state = "none" /\ NoUser.sub = NoSub /\ ~NoUser.pass
  BY DEF NoUser, UserRow
<1>2. NoVisit \in Visit
  BY <1>1 DEF NoVisit, Visit, VisitSteps
<1>3. NoVisit.pc = "idle" /\ NoVisit.op = "none"
  BY DEF NoVisit
<1> QED BY <1>1, <1>2, <1>3 DEF Creates

LEMMA NoVisitSound == VisitSound(NoVisit) /\ VisitSound(NoVisit)'
BY VisitFacts DEF VisitSound

\* A request relies on nothing that another step takes away.
LEMMA VisitKept ==
  ASSUME NEW x, VisitSound(x), Grow, x.pc = "put" => users'[x.id] = NoUser
  PROVE  VisitSound(x)'
BY DEF VisitSound, Grow, Exists

\* A step that neither creates nor purges an account.
LEMMA Quiet ==
  ASSUME AccountsInv, Grow, Still, Aside, Rows',
         users' \in [Ids -> UserRow], lists' \in [Ids -> UserRow], visits' \in [Visits -> Visit],
         linked' \subseteq Ids \X Subs, visitsLeft' \in 0..entryPoints.visits,
         \A i \in evTokens' \cup termsTokens' \cup signedIn' : i \in Ids /\ Exists(i),
         \A e \in entered' : e \in entered \/ (e \in Ids \X Subs /\ (e \in linked \/ e[1] \in legacy)),
         UNCHANGED <<entryPoints, marker, stranded, doubled>>
  PROVE  AccountsInv'
<1>1. AccountsTypeOK'
  BY DEF AccountsInv, AccountsTypeOK, Grow
<1>2. Handles'
  BY DEF Handles, Grow
<1>3. \A v \in Visits : VisitSound(visits[v])'
  <2> SUFFICES ASSUME NEW v \in Visits PROVE VisitSound(visits[v])'
    OBVIOUS
  <2>1. CASE visits'[v] = visits[v]
    <3>1. PICK x : x = visits[v]
      OBVIOUS
    <3>2. x \in Visit /\ VisitSound(x)
      BY <3>1 DEF AccountsInv, AccountsTypeOK
    <3>3. x.pc = "put" => users'[x.id] = NoUser
      BY <3>2 DEF VisitSound, Still
    <3>4. VisitSound(x)'
      BY <3>2, <3>3, VisitKept
    <3> QED BY <3>1, <3>4, <2>1 DEF VisitSound, Exists
  <2>2. CASE visits'[v] # visits[v]
    BY <2>2 DEF Aside
  <2> QED BY <2>1, <2>2
<1>4. \A w \in Visits : /\ Creates(visits'[w]) <=> Creates(visits[w])
                        /\ Creates(visits'[w]) => visits'[w] = visits[w]
  BY DEF Aside
<1>5. OwnIds'
  BY <1>4 DEF AccountsInv, OwnIds, Creates
<1>6. OneHolder'
  BY <1>4 DEF AccountsInv, OneHolder, Still
<1>7. OnlyLinkedEnter'
  BY DEF AccountsInv, OnlyLinkedEnter, Grow
<1> QED BY <1>1, <1>2, <1>3, <1>5, <1>6, <1>7 DEF AccountsInv

\* A step that leaves the rows alone.
LEMMA RowsStay ==
  ASSUME AccountsInv, UNCHANGED <<users, lists, linked, legacy>>
  PROVE  /\ Grow /\ Still /\ Rows'
         /\ users' \in [Ids -> UserRow] /\ lists' \in [Ids -> UserRow] /\ linked' \subseteq Ids \X Subs
<1>1. Grow /\ Still
  BY DEF Grow, Still, Exists
<1>2. Rows'
  BY DEF AccountsInv, Rows, RowSound, Exists
<1> QED BY <1>1, <1>2 DEF AccountsInv, AccountsTypeOK

\* A step that writes some attributes of one row.
LEMMA RowWritten ==
  ASSUME AccountsInv, NEW i \in Ids, NEW row \in UserRow, Update(i, row), Exists(i), row.state # "none",
         HasAddress(row) <=> HasAddress(users[i]),
         users[i].pass \/ users[i].state = "purged" => row.pass \/ row.state = "purged",
         RowSound(i, row)', lists' = lists,
         linked \subseteq linked', linked' \subseteq Ids \X Subs, legacy' = legacy
  PROVE  /\ Grow /\ Still /\ Rows'
         /\ users' \in [Ids -> UserRow] /\ lists' \in [Ids -> UserRow] /\ linked' \subseteq Ids \X Subs
<1>1. users \in [Ids -> UserRow] /\ lists \in [Ids -> UserRow]
  BY DEF AccountsInv, AccountsTypeOK
<1>2. users' \in [Ids -> UserRow] /\ users'[i] = row /\ \A j \in Ids \ {i} : users'[j] = users[j]
  BY <1>1 DEF Update
<1>3. users[i] # NoUser
  BY VisitFacts DEF Exists
<1>4. Grow
  BY <1>2 DEF Grow, Exists
<1>5. Still
  BY <1>2, <1>3 DEF Still
<1>6. ASSUME NEW j \in Ids PROVE RowSound(j, users[j])'
  <2>1. CASE j = i
    BY <1>2, <2>1 DEF RowSound
  <2>2. CASE j # i
    BY <1>2, <2>2 DEF AccountsInv, Rows, RowSound
  <2> QED BY <2>1, <2>2
<1>7. ASSUME NEW j \in Ids PROVE RowSound(j, lists[j])' /\ (lists'[j].state # "none" => Exists(j)')
  BY <1>4 DEF AccountsInv, Rows, RowSound, Grow
<1>8. Rows'
  BY <1>6, <1>7 DEF Rows
<1> QED BY <1>1, <1>2, <1>4, <1>5, <1>8

\* A request that moves, and is not creating an account.
LEMMA Moved ==
  ASSUME AccountsInv, NEW v \in Visits, NEW x \in Visit, visits' = [visits EXCEPT ![v] = x],
         ~Creates(visits[v]), ~Creates(x), VisitSound(x)'
  PROVE  visits' \in [Visits -> Visit] /\ Aside
<1>1. visits \in [Visits -> Visit]
  BY DEF AccountsInv, AccountsTypeOK
<1>2. visits' \in [Visits -> Visit] /\ visits'[v] = x /\ \A w \in Visits \ {v} : visits'[w] = visits[w]
  BY <1>1
<1>3. Aside
  BY <1>2 DEF Aside, VisitSound, Exists
<1> QED BY <1>2, <1>3

\* What the requests and the tables hold.
LEMMA AsBefore ==
  ASSUME AccountsInv
  PROVE  /\ \A i \in evTokens \cup termsTokens \cup signedIn : i \in Ids /\ Exists(i)
         /\ visitsLeft \in 0..entryPoints.visits
         /\ users \in [Ids -> UserRow] /\ lists \in [Ids -> UserRow] /\ linked \subseteq Ids \X Subs
         /\ visits \in [Visits -> Visit] /\ \A v \in Visits : VisitSound(visits[v])
         /\ \A i \in Ids : /\ RowSound(i, users[i]) /\ RowSound(i, lists[i])
                           /\ lists[i].state # "none" => Exists(i)
BY DEF AccountsInv, AccountsTypeOK, Handles, Rows

\* A request moves and the rows stay.
LEMMA VisitMoves ==
  ASSUME AccountsInv, NEW v \in Visits, NEW x \in Visit, visits' = [visits EXCEPT ![v] = x],
         ~Creates(visits[v]), ~Creates(x), VisitSound(x),
         visitsLeft' \in 0..entryPoints.visits,
         \A i \in evTokens' \cup termsTokens' \cup signedIn' : i \in Ids /\ Exists(i),
         \A e \in entered' : e \in entered \/ (e \in Ids \X Subs /\ (e \in linked \/ e[1] \in legacy)),
         UNCHANGED <<entryPoints, marker, users, lists, linked, legacy, stranded, doubled>>
  PROVE  AccountsInv'
<1>1. /\ Grow /\ Still /\ Rows'
      /\ users' \in [Ids -> UserRow] /\ lists' \in [Ids -> UserRow] /\ linked' \subseteq Ids \X Subs
  BY RowsStay
<1>2. VisitSound(x)'
  BY <1>1, VisitKept DEF Creates
<1>3. visits' \in [Visits -> Visit] /\ Aside
  BY <1>2, Moved
<1> QED BY <1>1, <1>3, Quiet

\* A request moves, and writes some attributes of one row.
LEMMA VisitWrites ==
  ASSUME AccountsInv, NEW v \in Visits, NEW x \in Visit, visits' = [visits EXCEPT ![v] = x],
         ~Creates(visits[v]), ~Creates(x), VisitSound(x),
         NEW i \in Ids, NEW row \in UserRow, Update(i, row), Exists(i), row.state # "none",
         HasAddress(row) <=> HasAddress(users[i]),
         users[i].pass \/ users[i].state = "purged" => row.pass \/ row.state = "purged",
         RowSound(i, row)', linked \subseteq linked', linked' \subseteq Ids \X Subs,
         UNCHANGED <<entryPoints, marker, lists, links, visitsLeft, signedIn, entered, legacy, stranded, doubled>>
  PROVE  AccountsInv'
<1>1. /\ Grow /\ Still /\ Rows'
      /\ users' \in [Ids -> UserRow] /\ lists' \in [Ids -> UserRow] /\ linked' \subseteq Ids \X Subs
  BY RowWritten
<1>2. VisitSound(x)'
  BY <1>1, VisitKept DEF Creates
<1>3. visits' \in [Visits -> Visit] /\ Aside
  BY <1>2, Moved
<1>4. \A j \in evTokens' \cup termsTokens' \cup signedIn' : j \in Ids /\ Exists(j)
  BY AsBefore DEF links
<1> QED BY <1>1, <1>3, <1>4, AsBefore, Quiet

-----------------------------------------------------------------------------
(* How a request moves *)

LEMMA Arrives ==
  ASSUME AccountsInv, NEW v \in Visits, NEW op \in {"none", "register", "google", "initial", "unlinkG", "accept"},
         NEW pc \in VisitSteps, NEW i \in Ids \cup {NoId}, NEW g \in Subs \cup {NoSub}, Arrive(v, op, pc, i, g)
  PROVE  /\ ~Creates(visits[v]) /\ visitsLeft' \in 0..entryPoints.visits
         /\ \E x \in Visit : /\ visits' = [visits EXCEPT ![v] = x]
                             /\ x.pc = pc /\ x.op = op /\ x.id = i /\ x.sub = g
<1>1. PICK x : x = [NoVisit EXCEPT !.pc = pc, !.op = op, !.id = i, !.sub = g]
  OBVIOUS
<1>2. x \in Visit
  BY <1>1, VisitFacts DEF Visit
<1>3. x.pc = pc /\ x.op = op /\ x.id = i /\ x.sub = g
  BY <1>1, VisitFacts DEF Visit
<1>4. visits' = [visits EXCEPT ![v] = x] /\ ~Creates(visits[v])
  BY <1>1 DEF Arrive, Creates
<1>5. entryPoints.visits \in Nat /\ visitsLeft \in 0..entryPoints.visits
  BY AccountsAssumption DEF AccountsInv, AccountsTypeOK
<1>6. visitsLeft' \in 0..entryPoints.visits
  BY <1>5 DEF Arrive
<1> QED BY <1>2, <1>3, <1>4, <1>6

LEMMA Proceeds ==
  ASSUME AccountsInv, NEW v \in Visits, NEW pc \in VisitSteps, Proceed(v, pc)
  PROVE  \E x \in Visit : /\ visits' = [visits EXCEPT ![v] = x]
                          /\ x.pc = pc /\ x.op = visits[v].op /\ x.id = visits[v].id
                          /\ x.sub = visits[v].sub /\ x.read = visits[v].read
<1>1. visits[v] \in Visit /\ visits \in [Visits -> Visit]
  BY AsBefore
<1>2. PICK x : x = [visits[v] EXCEPT !.pc = pc]
  OBVIOUS
<1>3. /\ x \in Visit /\ x.pc = pc /\ x.op = visits[v].op /\ x.id = visits[v].id
      /\ x.sub = visits[v].sub /\ x.read = visits[v].read
  BY <1>1, <1>2 DEF Visit
<1>4. visits' = [visits EXCEPT ![v] = x]
  BY <1>1, <1>2 DEF Proceed
<1> QED BY <1>3, <1>4

LEMMA ProceedsWith ==
  ASSUME AccountsInv, NEW v \in Visits, NEW pc \in VisitSteps, NEW i \in Ids, NEW row \in UserRow,
         ProceedWith(v, pc, i, row)
  PROVE  \E x \in Visit : /\ visits' = [visits EXCEPT ![v] = x]
                          /\ x.pc = pc /\ x.op = visits[v].op /\ x.id = i /\ x.sub = visits[v].sub /\ x.read = row
<1>1. visits[v] \in Visit /\ visits \in [Visits -> Visit]
  BY AsBefore
<1>2. PICK x : x = [visits[v] EXCEPT !.pc = pc, !.id = i, !.read = row]
  OBVIOUS
<1>3. x \in Visit /\ x.pc = pc /\ x.op = visits[v].op /\ x.id = i /\ x.sub = visits[v].sub /\ x.read = row
  BY <1>1, <1>2 DEF Visit
<1>4. visits' = [visits EXCEPT ![v] = x]
  BY <1>1, <1>2 DEF ProceedWith
<1> QED BY <1>3, <1>4

\* The requests that leave, with what they changed on the way out.
LEMMA Leaves ==
  ASSUME AccountsInv, NEW v \in Visits, Leave(v), ~Creates(visits[v]),
         visitsLeft' \in 0..entryPoints.visits,
         \A i \in evTokens' \cup termsTokens' \cup signedIn' : i \in Ids /\ Exists(i),
         \A e \in entered' : e \in entered \/ (e \in Ids \X Subs /\ (e \in linked \/ e[1] \in legacy)),
         UNCHANGED <<entryPoints, marker, users, lists, linked, legacy, stranded, doubled>>
  PROVE  AccountsInv'
BY VisitFacts, NoVisitSound, VisitMoves DEF Leave

-----------------------------------------------------------------------------
(* Requests that read and move *)

LEMMA RegisterKept == ASSUME AccountsInv, NEW v \in Visits, Register(v) PROVE AccountsInv'
<1>1. Arrive(v, "register", "lookup", NoId, NoSub)
  BY DEF Register
<1>2. PICK x \in Visit : /\ visits' = [visits EXCEPT ![v] = x] /\ ~Creates(visits[v])
                         /\ x.pc = "lookup" /\ x.op = "register" /\ visitsLeft' \in 0..entryPoints.visits
  BY <1>1, Arrives DEF VisitSteps
<1>3. VisitSound(x) /\ ~Creates(x)
  BY <1>2 DEF VisitSound, Creates
<1> QED BY <1>2, <1>3, AsBefore, VisitMoves DEF Register, links, aSeen

LEMMA GoogleCallbackKept ==
  ASSUME AccountsInv, NEW v \in Visits, NEW g \in Subs, GoogleCallback(v, g) PROVE AccountsInv'
<1>1. Arrive(v, "google", "lookup", NoId, g)
  BY DEF GoogleCallback
<1>2. "lookup" \in VisitSteps
  BY DEF VisitSteps
<1>3. PICK x \in Visit : /\ visits' = [visits EXCEPT ![v] = x] /\ x.pc = "lookup" /\ x.op = "google" /\ x.sub = g
  BY <1>1, <1>2, Arrives
<1>4. ~Creates(visits[v]) /\ visitsLeft' \in 0..entryPoints.visits
  BY <1>1, <1>2, Arrives
<1>5. VisitSound(x) /\ ~Creates(x)
  BY <1>3 DEF VisitSound, Creates
<1> QED BY <1>3, <1>4, <1>5, AsBefore, VisitMoves DEF GoogleCallback, links, aSeen

LEMMA LinkGoogleKept ==
  ASSUME AccountsInv, NEW v \in Visits, NEW i \in Ids, NEW g \in Subs, LinkGoogle(v, i, g) PROVE AccountsInv'
<1>1. Arrive(v, "google", "link", i, g) /\ Exists(i)
  BY AsBefore DEF LinkGoogle
<1>2. PICK x \in Visit : /\ visits' = [visits EXCEPT ![v] = x] /\ ~Creates(visits[v])
                         /\ x.pc = "link" /\ x.op = "google" /\ x.id = i /\ x.sub = g
                         /\ visitsLeft' \in 0..entryPoints.visits
  BY <1>1, Arrives DEF VisitSteps
<1>3. VisitSound(x) /\ ~Creates(x)
  BY <1>1, <1>2 DEF VisitSound, Creates
<1> QED BY <1>2, <1>3, AsBefore, VisitMoves DEF LinkGoogle, links, aSeen

LEMMA SetInitialPasswordKept ==
  ASSUME AccountsInv, NEW v \in Visits, NEW i \in Ids, SetInitialPassword(v, i) PROVE AccountsInv'
<1>1. Arrive(v, "initial", "setPassword", i, NoSub) /\ Exists(i)
  BY AsBefore DEF SetInitialPassword
<1>2. PICK x \in Visit : /\ visits' = [visits EXCEPT ![v] = x] /\ ~Creates(visits[v])
                         /\ x.pc = "setPassword" /\ x.op = "initial" /\ x.id = i
                         /\ visitsLeft' \in 0..entryPoints.visits
  BY <1>1, Arrives DEF VisitSteps
<1>3. VisitSound(x) /\ ~Creates(x)
  BY <1>1, <1>2 DEF VisitSound, Creates
<1> QED BY <1>2, <1>3, AsBefore, VisitMoves DEF SetInitialPassword, links, aSeen

LEMMA UnlinkGoogleKept ==
  ASSUME AccountsInv, NEW v \in Visits, NEW i \in Ids, UnlinkGoogle(v, i) PROVE AccountsInv'
<1>1. Arrive(v, "unlinkG", "unlink", i, NoSub) /\ Exists(i) /\ users[i].pass
  BY AsBefore DEF UnlinkGoogle, CanUnlink
<1>2. PICK x \in Visit : /\ visits' = [visits EXCEPT ![v] = x] /\ ~Creates(visits[v])
                         /\ x.pc = "unlink" /\ x.op = "unlinkG" /\ x.id = i
                         /\ visitsLeft' \in 0..entryPoints.visits
  BY <1>1, Arrives DEF VisitSteps
<1>3. VisitSound(x) /\ ~Creates(x)
  BY <1>1, <1>2 DEF VisitSound, Creates
<1> QED BY <1>2, <1>3, AsBefore, VisitMoves DEF UnlinkGoogle, links, aSeen

LEMMA AcceptTermsTokenKept ==
  ASSUME AccountsInv, NEW v \in Visits, NEW i \in Ids, AcceptTermsToken(v, i) PROVE AccountsInv'
<1>1. PICK x : x = [NoVisit EXCEPT !.pc = "terms", !.op = "accept", !.id = i, !.read = users[i]]
  OBVIOUS
<1>2. users[i] \in UserRow /\ Exists(i)
  BY AsBefore DEF AcceptTermsToken
<1>3. x \in Visit /\ x.pc = "terms" /\ x.op = "accept" /\ x.id = i
  BY <1>1, <1>2, VisitFacts DEF Visit, VisitSteps
<1>4. visits' = [visits EXCEPT ![v] = x] /\ ~Creates(visits[v])
  BY <1>1 DEF AcceptTermsToken, Creates
<1>5. VisitSound(x) /\ ~Creates(x)
  BY <1>2, <1>3 DEF VisitSound, Creates
<1>6. \A j \in evTokens' \cup termsTokens' \cup signedIn' : j \in Ids /\ Exists(j)
  BY AsBefore DEF AcceptTermsToken
<1> QED BY <1>3, <1>4, <1>5, <1>6, AsBefore, VisitMoves DEF AcceptTermsToken, links, aSeen

LEMMA RegisterLookupKept == ASSUME AccountsInv, NEW v \in Visits, RegisterLookup(v) PROVE AccountsInv'
<1>0. ~Creates(visits[v]) /\ visits[v].op = "register"
  BY DEF RegisterLookup, Creates
<1>1. CASE Leave(v)
  BY <1>0, <1>1, AsBefore, Leaves DEF RegisterLookup, links, aSeen
<1>2. CASE Proceed(v, "mark")
  <2>1. PICK x \in Visit : visits' = [visits EXCEPT ![v] = x] /\ x.pc = "mark" /\ x.op = "register"
    BY <1>0, <1>2, Proceeds DEF VisitSteps
  <2>2. VisitSound(x) /\ ~Creates(x)
    BY <2>1 DEF VisitSound, Creates
  <2> QED BY <1>0, <2>1, <2>2, AsBefore, VisitMoves DEF RegisterLookup, links, aSeen
<1> QED BY <1>1, <1>2 DEF RegisterLookup

LEMMA FindOrCreateKept == ASSUME AccountsInv, NEW v \in Visits, FindOrCreateByGoogle(v) PROVE AccountsInv'
<1>0. ~Creates(visits[v]) /\ visits[v].op = "google" /\ visits[v].sub \in Subs /\ visits[v].sub # NoSub
  BY AsBefore, AccountsAssumption DEF FindOrCreateByGoogle, Creates, VisitSound
<1> DEFINE Rest == UNCHANGED <<entryPoints, marker, users, lists, links, visitsLeft, signedIn, aSeen>>
<1>1. Rest
  BY DEF FindOrCreateByGoogle
<1>2. ASSUME NEW i \in Ids, HasAddress(lists[i]), lists[i].sub = visits[v].sub, ProceedWith(v, "session", i, lists[i])
      PROVE  AccountsInv'
  <2>1. lists[i] \in UserRow /\ RowSound(i, lists[i]) /\ Exists(i)
    BY <1>2, AsBefore DEF HasAddress
  <2>2. PICK x \in Visit : /\ visits' = [visits EXCEPT ![v] = x] /\ x.pc = "session" /\ x.op = "google"
                           /\ x.id = i /\ x.sub = visits[v].sub
    BY <1>0, <1>2, <2>1, ProceedsWith DEF VisitSteps
  <2>3. VisitSound(x) /\ ~Creates(x)
    BY <1>0, <1>2, <2>1, <2>2 DEF VisitSound, Creates, RowSound
  <2> QED BY <1>0, <1>1, <2>2, <2>3, AsBefore, VisitMoves DEF links, aSeen
<1>3. ASSUME NEW i \in Ids, HasAddress(lists[i]), MayBind(lists[i]), ProceedWith(v, "bind", i, lists[i])
      PROVE  AccountsInv'
  <2>1. lists[i] \in UserRow /\ RowSound(i, lists[i]) /\ Exists(i)
    BY <1>3, AsBefore DEF HasAddress
  <2>2. PICK x \in Visit : /\ visits' = [visits EXCEPT ![v] = x] /\ x.pc = "bind" /\ x.op = "google"
                           /\ x.id = i /\ x.sub = visits[v].sub
    BY <1>0, <1>3, <2>1, ProceedsWith DEF VisitSteps
  <2>3. i \in legacy
    BY <1>3, <2>1 DEF RowSound, MayBind
  <2>4. VisitSound(x) /\ ~Creates(x)
    BY <1>0, <2>1, <2>2, <2>3 DEF VisitSound, Creates
  <2> QED BY <1>0, <1>1, <2>2, <2>4, AsBefore, VisitMoves DEF links, aSeen
<1>4. ASSUME Proceed(v, "mark") PROVE AccountsInv'
  <2>1. PICK x \in Visit : /\ visits' = [visits EXCEPT ![v] = x] /\ x.pc = "mark" /\ x.op = "google"
                           /\ x.sub = visits[v].sub
    BY <1>0, <1>4, Proceeds DEF VisitSteps
  <2>2. VisitSound(x) /\ ~Creates(x)
    BY <1>0, <2>1 DEF VisitSound, Creates
  <2> QED BY <1>0, <1>1, <2>1, <2>2, AsBefore, VisitMoves DEF links, aSeen
<1>5. ASSUME Leave(v) PROVE AccountsInv'
  BY <1>0, <1>1, <1>5, AsBefore, Leaves DEF links, aSeen
<1> QED BY <1>2, <1>3, <1>4, <1>5 DEF FindOrCreateByGoogle

LEMMA LinkReadKept == ASSUME AccountsInv, NEW v \in Visits, LinkRead(v) PROVE AccountsInv'
<1>0. ~Creates(visits[v]) /\ visits[v].pc = "link" /\ VisitSound(visits[v])
  BY AsBefore DEF LinkRead, Creates
<1>1. visits[v].op = "google" /\ visits[v].sub \in Subs /\ visits[v].id \in Ids /\ Exists(visits[v].id)
  BY <1>0 DEF VisitSound
<1>2. CASE Leave(v)
  BY <1>0, <1>2, AsBefore, Leaves DEF LinkRead, links, aSeen
<1>3. CASE ProceedWith(v, "link", visits[v].id, users[visits[v].id])
  <2>1. PICK x \in Visit : /\ visits' = [visits EXCEPT ![v] = x] /\ x.pc = "link" /\ x.op = "google"
                           /\ x.id = visits[v].id /\ x.sub = visits[v].sub
    BY <1>1, <1>3, AsBefore, ProceedsWith DEF VisitSteps
  <2>2. VisitSound(x) /\ ~Creates(x)
    BY <1>1, <2>1 DEF VisitSound, Creates
  <2> QED BY <1>0, <2>1, <2>2, AsBefore, VisitMoves DEF LinkRead, links, aSeen
<1> QED BY <1>2, <1>3 DEF LinkRead

LEMMA SendVerificationKept == ASSUME AccountsInv, NEW v \in Visits, SendVerification(v) PROVE AccountsInv'
<1>1. ~Creates(visits[v]) /\ visits[v].id \in Ids /\ Exists(visits[v].id)
  BY AsBefore DEF SendVerification, Creates, VisitSound
<1>2. \A i \in evTokens' \cup termsTokens' \cup signedIn' : i \in Ids /\ Exists(i)
  BY <1>1, AsBefore DEF SendVerification
<1> QED BY <1>1, <1>2, AsBefore, Leaves DEF SendVerification, aSeen

LEMMA MintAcceptTermsKept == ASSUME AccountsInv, NEW v \in Visits, MintAcceptTerms(v) PROVE AccountsInv'
<1>1. ~Creates(visits[v]) /\ visits[v].id \in Ids /\ Exists(visits[v].id)
  BY AsBefore DEF MintAcceptTerms, Creates, VisitSound
<1>2. \A i \in evTokens' \cup termsTokens' \cup signedIn' : i \in Ids /\ Exists(i)
  BY <1>1, AsBefore DEF MintAcceptTerms
<1> QED BY <1>1, <1>2, AsBefore, Leaves DEF MintAcceptTerms, aSeen

LEMMA SocialSessionKept == ASSUME AccountsInv, NEW v \in Visits, SocialSession(v) PROVE AccountsInv'
<1>1. /\ ~Creates(visits[v]) /\ visits[v].id \in Ids /\ Exists(visits[v].id)
      /\ visits[v].op = "google" => /\ <<visits[v].id, visits[v].sub>> \in Ids \X Subs
                                    /\ <<visits[v].id, visits[v].sub>> \in linked \/ visits[v].id \in legacy
  BY AsBefore DEF SocialSession, Creates, VisitSound
<1>2. \A i \in evTokens' \cup termsTokens' \cup signedIn' : i \in Ids /\ Exists(i)
  BY <1>1, AsBefore DEF SocialSession, links
<1>3. \A e \in entered' : e \in entered \/ (e \in Ids \X Subs /\ (e \in linked \/ e[1] \in legacy))
  BY <1>1 DEF SocialSession
<1>4. /\ Leave(v) /\ visitsLeft' \in 0..entryPoints.visits
      /\ UNCHANGED <<entryPoints, marker, users, lists, linked, legacy, stranded, doubled>>
  BY AsBefore DEF SocialSession
<1> QED BY <1>1, <1>2, <1>3, <1>4, Leaves

-----------------------------------------------------------------------------
(* Requests that write a row *)

LEMMA BindKept == ASSUME AccountsInv, NEW v \in Visits, Bind(v) PROVE AccountsInv'
<1>0. PICK i : i = visits[v].id
  OBVIOUS
<1>1. /\ ~Creates(visits[v]) /\ i \in Ids /\ Exists(i) /\ i \in legacy
      /\ visits[v].op = "google" /\ visits[v].sub \in Subs
  BY <1>0, AsBefore DEF Bind, Creates, VisitSound
<1>2. PICK row : row = [users[i] EXCEPT !.sub = visits[v].sub]
  OBVIOUS
<1>3. users[i] \in UserRow /\ RowSound(i, users[i])
  BY <1>1, AsBefore
<1>4. row \in UserRow /\ row.state = users[i].state /\ row.pass = users[i].pass /\ row.sub = visits[v].sub
  BY <1>1, <1>2, <1>3 DEF UserRow
<1>5. Update(i, row) /\ Proceed(v, "session")
  BY <1>0, <1>2 DEF Bind
<1>6. PICK x \in Visit : visits' = [visits EXCEPT ![v] = x] /\ x.pc = "session" /\ x.id = i /\ x.op = "google"
                         /\ x.sub = visits[v].sub
  BY <1>0, <1>1, <1>5, Proceeds DEF VisitSteps
<1>7. VisitSound(x) /\ ~Creates(x)
  BY <1>1, <1>6 DEF VisitSound, Creates
<1>8. row.state # "none" /\ (HasAddress(row) <=> HasAddress(users[i]))
  BY <1>1, <1>4 DEF HasAddress, Exists
<1>9. UNCHANGED <<entryPoints, marker, lists, links, visitsLeft, signedIn, entered, linked, legacy, stranded, doubled>>
  BY DEF Bind, aSeen
<1>10. RowSound(i, row)'
  BY <1>1, <1>8, <1>9 DEF RowSound
<1>11. linked' = linked /\ linked' \subseteq Ids \X Subs
  BY <1>9, AsBefore
<1>12. users[i].pass \/ users[i].state = "purged" => row.pass \/ row.state = "purged"
  BY <1>4
<1> QED BY <1>1, <1>4, <1>5, <1>6, <1>7, <1>8, <1>9, <1>10, <1>11, <1>12, VisitWrites

LEMMA AcceptPendingTermsKept == ASSUME AccountsInv, NEW v \in Visits, AcceptPendingTerms(v) PROVE AccountsInv'
<1>0. PICK i : i = visits[v].id
  OBVIOUS
<1>1. ~Creates(visits[v]) /\ i \in Ids /\ Exists(i) /\ visits[v].op = "accept"
  BY <1>0, AsBefore DEF AcceptPendingTerms, Creates, VisitSound
<1>2. UNCHANGED <<entryPoints, marker, lists, links, visitsLeft, signedIn, aSeen>>
  BY DEF AcceptPendingTerms
<1>3. ASSUME Proceed(v, "session")
      PROVE  \E x \in Visit : /\ visits' = [visits EXCEPT ![v] = x]
                              /\ VisitSound(x) /\ ~Creates(x)
  <2>1. PICK x \in Visit : visits' = [visits EXCEPT ![v] = x] /\ x.pc = "session" /\ x.id = i /\ x.op = "accept"
    BY <1>0, <1>1, <1>3, Proceeds DEF VisitSteps
  <2>2. VisitSound(x) /\ ~Creates(x)
    BY <1>1, <2>1 DEF VisitSound, Creates
  <2> QED BY <2>1, <2>2
<1>4. CASE Proceed(v, "session") /\ UNCHANGED users
  BY <1>1, <1>2, <1>3, <1>4, AsBefore, VisitMoves DEF links, aSeen
<1>5. CASE Update(i, [users[i] EXCEPT !.terms = TRUE]) /\ Proceed(v, "session")
  <2>1. PICK row : row = [users[i] EXCEPT !.terms = TRUE]
    OBVIOUS
  <2>2. users[i] \in UserRow /\ RowSound(i, users[i])
    BY <1>1, AsBefore
  <2>3. row \in UserRow /\ row.state = users[i].state /\ row.pass = users[i].pass /\ row.sub = users[i].sub
    BY <2>1, <2>2 DEF UserRow
  <2>4. row.state # "none" /\ (HasAddress(row) <=> HasAddress(users[i]))
    BY <1>1, <2>3 DEF HasAddress, Exists
  <2>5. RowSound(i, row)'
    BY <1>2, <2>2, <2>3, <2>4 DEF RowSound, HasAddress, aSeen
  <2>6. Update(i, row)
    BY <1>5, <2>1
  <2>7. linked' = linked /\ linked' \subseteq Ids \X Subs
    BY <1>2, AsBefore DEF aSeen
  <2>8. users[i].pass \/ users[i].state = "purged" => row.pass \/ row.state = "purged"
    BY <2>3
  <2> QED BY <1>1, <1>2, <1>3, <1>5, <2>3, <2>4, <2>5, <2>6, <2>7, <2>8, VisitWrites DEF aSeen
<1>6. CASE Leave(v) /\ UNCHANGED users
  BY <1>1, <1>2, <1>6, AsBefore, Leaves DEF links, aSeen
<1> QED BY <1>0, <1>4, <1>5, <1>6 DEF AcceptPendingTerms

\* The last write of a request.
LEMMA WritesAndLeaves ==
  ASSUME AccountsInv, NEW v \in Visits, Leave(v), ~Creates(visits[v]),
         NEW i \in Ids, NEW row \in UserRow, Update(i, row), Exists(i),
         row.state = users[i].state, users[i].pass \/ users[i].state = "purged" => row.pass \/ row.state = "purged",
         RowSound(i, row)', linked \subseteq linked', linked' \subseteq Ids \X Subs,
         UNCHANGED <<entryPoints, marker, lists, links, visitsLeft, signedIn, entered, legacy, stranded, doubled>>
  PROVE  AccountsInv'
<1>1. row.state # "none" /\ (HasAddress(row) <=> HasAddress(users[i]))
  BY DEF HasAddress, Exists
<1>2. NoVisit \in Visit /\ visits' = [visits EXCEPT ![v] = NoVisit] /\ ~Creates(NoVisit) /\ VisitSound(NoVisit)
  BY VisitFacts, NoVisitSound DEF Leave
<1> QED BY <1>1, <1>2, VisitWrites

LEMMA LinkWriteKept == ASSUME AccountsInv, NEW v \in Visits, LinkWrite(v) PROVE AccountsInv'
<1>0. PICK i, g : i = visits[v].id /\ g = visits[v].sub
  OBVIOUS
<1>1. ~Creates(visits[v]) /\ i \in Ids /\ Exists(i) /\ g \in Subs
  BY <1>0, AsBefore DEF LinkWrite, Creates, VisitSound
<1>2. PICK row : row = [users[i] EXCEPT !.sub = g]
  OBVIOUS
<1>3. users[i] \in UserRow /\ RowSound(i, users[i])
  BY <1>1, AsBefore
<1>4. row \in UserRow /\ row.state = users[i].state /\ row.pass = users[i].pass /\ row.sub = g
  BY <1>1, <1>2, <1>3 DEF UserRow
<1>5. /\ Update(i, row) /\ Leave(v) /\ linked' = linked \cup {<<i, g>>}
      /\ UNCHANGED <<entryPoints, marker, lists, links, visitsLeft, signedIn, entered, legacy, stranded, doubled>>
  BY <1>0, <1>2 DEF LinkWrite
<1>6. linked \subseteq linked' /\ linked' \subseteq Ids \X Subs
  BY <1>1, <1>5, AsBefore
<1>7. RowSound(i, row)'
  BY <1>1, <1>4, <1>5, AccountsAssumption DEF RowSound, Exists
<1>8. users[i].pass \/ users[i].state = "purged" => row.pass \/ row.state = "purged"
  BY <1>4
<1> QED BY <1>1, <1>4, <1>5, <1>6, <1>7, <1>8, WritesAndLeaves

LEMMA WritePasswordKept == ASSUME AccountsInv, NEW v \in Visits, WritePassword(v) PROVE AccountsInv'
<1>0. PICK i : i = visits[v].id
  OBVIOUS
<1>1. ~Creates(visits[v]) /\ i \in Ids /\ Exists(i)
  BY <1>0, AsBefore DEF WritePassword, Creates, VisitSound
<1>2. PICK row : row = [users[i] EXCEPT !.pass = TRUE]
  OBVIOUS
<1>3. users[i] \in UserRow /\ RowSound(i, users[i])
  BY <1>1, AsBefore
<1>4. row \in UserRow /\ row.state = users[i].state /\ row.pass /\ row.sub = users[i].sub
  BY <1>2, <1>3 DEF UserRow
<1>5. /\ Update(i, row) /\ Leave(v) /\ linked' = linked
      /\ UNCHANGED <<entryPoints, marker, lists, links, visitsLeft, signedIn, entered, legacy, stranded, doubled>>
  BY <1>0, <1>2 DEF WritePassword, aSeen
<1>6. linked' \subseteq Ids \X Subs
  BY <1>5, AsBefore
<1>7. RowSound(i, row)'
  BY <1>1, <1>3, <1>4, <1>5 DEF RowSound, Exists
<1> QED BY <1>1, <1>4, <1>5, <1>6, <1>7, WritesAndLeaves

LEMMA WriteUnlinkKept == ASSUME AccountsInv, NEW v \in Visits, WriteUnlink(v) PROVE AccountsInv'
<1>0. PICK i : i = visits[v].id
  OBVIOUS
<1>1. ~Creates(visits[v]) /\ i \in Ids /\ Exists(i) /\ (users[i].pass \/ users[i].state = "purged")
  BY <1>0, AsBefore DEF WriteUnlink, Creates, VisitSound
<1>2. PICK row : row = [users[i] EXCEPT !.sub = NoSub]
  OBVIOUS
<1>3. users[i] \in UserRow /\ RowSound(i, users[i])
  BY <1>1, AsBefore
<1>4. row \in UserRow /\ row.state = users[i].state /\ row.pass = users[i].pass /\ row.sub = NoSub
  BY <1>2, <1>3 DEF UserRow
<1>5. /\ Update(i, row) /\ Leave(v) /\ linked' = linked
      /\ UNCHANGED <<entryPoints, marker, lists, links, visitsLeft, signedIn, entered, legacy, stranded, doubled>>
  BY <1>0, <1>2 DEF WriteUnlink, aSeen
<1>6. linked' \subseteq Ids \X Subs
  BY <1>5, AsBefore
<1>7. RowSound(i, row)'
  BY <1>1, <1>3, <1>4, <1>5 DEF RowSound, Exists, HasAddress
<1>8. users[i].pass \/ users[i].state = "purged" => row.pass \/ row.state = "purged"
  BY <1>4
<1> QED BY <1>1, <1>4, <1>5, <1>6, <1>7, <1>8, WritesAndLeaves

-----------------------------------------------------------------------------
(* Creating an account *)

LEMMA CreateMarkerKept == ASSUME AccountsInv, NEW v \in Visits, CreateMarker(v) PROVE AccountsInv'
<1>0. /\ ~Creates(visits[v]) /\ visits[v].pc = "mark" /\ visits[v].op \in {"register", "google"}
      /\ visits[v].op = "google" => visits[v].sub \in Subs
  BY AsBefore DEF CreateMarker, Creates, VisitSound
<1>1. CASE ~AddressFree
  BY <1>0, <1>1, AsBefore, Leaves DEF CreateMarker, links, aSeen
<1>2. CASE AddressFree
  <2>1. PICK i \in Ids : /\ Fresh(i) /\ marker' = TRUE
                         /\ visits' = [visits EXCEPT ![v] = [@ EXCEPT !.pc = "put", !.id = i]]
    BY <1>2 DEF CreateMarker
  <2>2. PICK x : x = [visits[v] EXCEPT !.pc = "put", !.id = i]
    OBVIOUS
  <2>3. visits[v] \in Visit /\ visits \in [Visits -> Visit]
    BY AsBefore
  <2>4. x \in Visit /\ x.pc = "put" /\ x.id = i /\ x.op = visits[v].op /\ x.sub = visits[v].sub
    BY <2>2, <2>3 DEF Visit, VisitSteps
  <2>5. /\ visits' \in [Visits -> Visit] /\ visits'[v] = x
        /\ \A w \in Visits \ {v} : visits'[w] = visits[w]
    BY <2>1, <2>2, <2>3, <2>4
  <2>6. UNCHANGED <<entryPoints, users, lists, links, visitsLeft, signedIn, aSeen>>
    BY DEF CreateMarker
  <2>7. users[i] = NoUser /\ \A w \in Visits : visits[w].id # i
    BY <2>1 DEF Fresh
  <2>8. VisitSound(x)
    BY <1>0, <2>4, <2>7 DEF VisitSound
  <2>9. \A w \in Visits : VisitSound(visits[w])'
    <3>1. ASSUME NEW w \in Visits, w # v PROVE VisitSound(visits[w])'
      BY <2>5, <2>6, <3>1, AsBefore DEF VisitSound, Exists, aSeen
    <3>2. VisitSound(visits[v])'
      BY <2>5, <2>6, <2>8 DEF VisitSound, Exists, aSeen
    <3> QED BY <3>1, <3>2
  <2>10. AccountsTypeOK'
    BY <2>1, <2>5, <2>6 DEF AccountsInv, AccountsTypeOK, links, aSeen
  <2>11. Rows' /\ Handles' /\ OnlyLinkedEnter'
    BY <2>6 DEF AccountsInv, Rows, RowSound, Handles, OnlyLinkedEnter, Exists, links, aSeen
  <2>12. OwnIds'
    BY <2>4, <2>5, <2>7 DEF AccountsInv, OwnIds
  <2>13. OneHolder'
    <3>1. SUFFICES ASSUME ~stranded, ~doubled PROVE OneHolder'
      BY <2>6 DEF OneHolder, aSeen
    <3>2. ~marker
      BY <1>2 DEF AddressFree
    <3>3. (\A j \in Ids : ~HasAddress(users[j])) /\ (\A w \in Visits : ~Creates(visits[w]))
      BY <3>1, <3>2 DEF AccountsInv, OneHolder
    <3>4. Creates(visits'[v]) /\ \A w \in Visits : Creates(visits'[w]) => w = v
      BY <2>4, <2>5, <3>3 DEF Creates
    <3> QED BY <2>1, <2>6, <3>3, <3>4 DEF OneHolder
  <2> QED BY <2>9, <2>10, <2>11, <2>12, <2>13 DEF AccountsInv
<1> QED BY <1>1, <1>2

\* The row that is put is a sound one.
LEMMA NewUserSound ==
  ASSUME AccountsInv, NEW v \in Visits, visits[v].pc = "put"
  PROVE  /\ NewUser(v) \in UserRow /\ NewUser(v).state = "live"
         /\ visits[v].op = "register" => NewUser(v).pass /\ NewUser(v).sub = NoSub
         /\ visits[v].op # "register" => NewUser(v).sub = visits[v].sub
<1>1. visits[v] \in Visit /\ visits[v].sub \in Subs \cup {NoSub}
  BY AsBefore DEF Visit
<1>2. CASE visits[v].op = "register"
  <2>1. NewUser(v) = [NoUser EXCEPT !.state = "live", !.pass = TRUE, !.terms = TRUE]
    BY <1>2 DEF NewUser
  <2> QED BY <1>2, <2>1, VisitFacts DEF UserRow
<1>3. CASE visits[v].op # "register"
  <2>1. NewUser(v) = [NoUser EXCEPT !.state = "live", !.sub = visits[v].sub, !.verified = TRUE]
    BY <1>3 DEF NewUser
  <2> QED BY <1>1, <1>3, <2>1, VisitFacts DEF UserRow
<1> QED BY <1>2, <1>3

LEMMA CreatePutKept == ASSUME AccountsInv, NEW v \in Visits, CreatePut(v) PROVE AccountsInv'
<1>a. PICK i, row : i = visits[v].id /\ row = NewUser(v)
  OBVIOUS
<1>0. /\ visits[v].pc = "put" /\ i \in Ids /\ users[i] = NoUser /\ visits[v].op \in {"register", "google"}
      /\ visits[v].op = "google" => visits[v].sub \in Subs
  BY <1>a, AsBefore DEF CreatePut, VisitSound
<1>1. UNCHANGED <<entryPoints, marker, lists, links, visitsLeft, signedIn, entered, legacy, stranded>>
  BY DEF CreatePut
<1>2. /\ users \in [Ids -> UserRow] /\ visits \in [Visits -> Visit] /\ Creates(visits[v])
      /\ ~Exists(i) /\ ~users[i].pass /\ users[i].state # "purged"
  BY <1>0, AsBefore, VisitFacts DEF Creates, Exists
<1>3. /\ row \in UserRow /\ row.state = "live"
      /\ visits[v].op = "register" => row.pass /\ row.sub = NoSub
      /\ visits[v].op # "register" => row.sub = visits[v].sub
  BY <1>a, <1>0, NewUserSound
\* Whatever the put reported: what holds once the row is there.
<1>4. ASSUME Update(i, row),
             linked' = IF visits[v].op = "google" THEN linked \cup {<<i, visits[v].sub>>} ELSE linked,
             NEW x \in Visit, visits' = [visits EXCEPT ![v] = x], x.pc # "put",
             x.pc \in {"verifyMail", "mintTerms", "rollback"}, x.id = i, x.op = visits[v].op, x.sub = visits[v].sub,
             doubled' \in BOOLEAN
      PROVE  /\ AccountsTypeOK' /\ Rows' /\ Handles' /\ OwnIds' /\ OnlyLinkedEnter'
             /\ \A w \in Visits : VisitSound(visits[w])'
             /\ users'[i] = row /\ \A j \in Ids \ {i} : users'[j] = users[j]
             /\ visits'[v] = x /\ \A w \in Visits \ {v} : visits'[w] = visits[w]
  <2>1. users' \in [Ids -> UserRow] /\ users'[i] = row /\ \A j \in Ids \ {i} : users'[j] = users[j]
    BY <1>0, <1>2, <1>3, <1>4 DEF Update
  <2>2. visits' \in [Visits -> Visit] /\ visits'[v] = x /\ \A w \in Visits \ {v} : visits'[w] = visits[w]
    BY <1>2, <1>4
  <2>3. linked \subseteq linked' /\ linked' \subseteq Ids \X Subs
    BY <1>0, <1>4, AsBefore
  <2>4. Grow
    BY <1>1, <1>2, <1>3, <2>1, <2>3 DEF Grow, Exists
  <2>5. AccountsTypeOK'
    BY <1>1, <1>4, <2>1, <2>2, <2>3 DEF AccountsInv, AccountsTypeOK, links
  <2>6. Handles' /\ OnlyLinkedEnter'
    BY <1>1, <2>4, AsBefore DEF AccountsInv, Handles, OnlyLinkedEnter, Grow, links
  <2>7. RowSound(i, row)'
    BY <1>0, <1>3, <1>4, AccountsAssumption DEF RowSound
  <2>8. Rows'
    <3> SUFFICES ASSUME NEW j \in Ids
                 PROVE  RowSound(j, users[j])' /\ RowSound(j, lists[j])' /\ (lists'[j].state # "none" => Exists(j)')
      BY DEF Rows
    <3>1. RowSound(j, lists[j])' /\ (lists'[j].state # "none" => Exists(j)')
      BY <1>1, <2>4, AsBefore DEF RowSound, Grow
    <3>2. CASE j = i
      BY <2>1, <2>7, <3>1, <3>2 DEF RowSound
    <3>3. CASE j # i
      BY <2>1, <2>3, <1>1, <3>1, <3>3, AsBefore DEF RowSound
    <3> QED BY <3>1, <3>2, <3>3
  <2>9. OwnIds'
    BY <1>4, <2>2 DEF AccountsInv, OwnIds
  <2>10. ASSUME NEW w \in Visits, w # v PROVE VisitSound(visits[w])'
    <3>1. PICK y : y = visits[w]
      OBVIOUS
    <3>2. VisitSound(y) /\ (y.pc = "put" => y.id # i)
      BY <1>a, <1>0, <2>10, <3>1, AsBefore DEF AccountsInv, OwnIds
    <3>3. y.pc = "put" => users'[y.id] = NoUser
      BY <2>1, <3>2 DEF VisitSound
    <3>4. VisitSound(y)'
      BY <2>4, <3>2, <3>3, VisitKept
    <3> QED BY <2>2, <2>10, <3>1, <3>4 DEF VisitSound, Exists
  <2>11. VisitSound(visits[v])'
    BY <1>0, <1>3, <1>4, <2>1, <2>2 DEF VisitSound, Exists
  <2> QED BY <2>1, <2>2, <2>5, <2>6, <2>8, <2>9, <2>10, <2>11
<1>5. CASE /\ Update(i, row)
           /\ Proceed(v, IF visits[v].op = "register" THEN "verifyMail" ELSE "mintTerms")
           /\ linked' = IF visits[v].op = "google" THEN linked \cup {<<i, visits[v].sub>>} ELSE linked
           /\ UNCHANGED doubled
  <2>1. PICK x \in Visit : /\ visits' = [visits EXCEPT ![v] = x] /\ x.pc \in {"verifyMail", "mintTerms"}
                           /\ x.id = i /\ x.op = visits[v].op /\ x.sub = visits[v].sub
    BY <1>a, <1>5, Proceeds DEF VisitSteps
  <2>2. doubled' \in BOOLEAN
    BY <1>5 DEF AccountsInv, AccountsTypeOK
  <2>3. /\ AccountsTypeOK' /\ Rows' /\ Handles' /\ OwnIds' /\ OnlyLinkedEnter'
        /\ \A w \in Visits : VisitSound(visits[w])'
        /\ users'[i] = row /\ \A j \in Ids \ {i} : users'[j] = users[j]
        /\ visits'[v] = x /\ \A w \in Visits \ {v} : visits'[w] = visits[w]
    BY <1>4, <1>5, <2>1, <2>2
  <2>4. OneHolder'
    <3>1. SUFFICES ASSUME ~stranded, ~doubled PROVE OneHolder'
      BY <1>1, <1>5 DEF OneHolder
    <3>2. /\ \A w \in Visits : Creates(visits[w]) => w = v
          /\ \A j \in Ids : ~HasAddress(users[j])
          /\ marker
      BY <1>2, <3>1 DEF AccountsInv, OneHolder
    <3>3. \A w \in Visits : ~Creates(visits'[w])
      BY <2>1, <2>3, <3>2 DEF Creates
    <3>4. HasAddress(users'[i]) /\ \A j \in Ids : HasAddress(users'[j]) => j = i
      BY <1>3, <2>3, <3>2 DEF HasAddress
    <3>5. marker'
      BY <1>1, <3>2
    <3> QED BY <1>0, <3>3, <3>4, <3>5 DEF OneHolder
  <2> QED BY <2>3, <2>4 DEF AccountsInv
<1>6. CASE UNCHANGED <<users, doubled, linked>> /\ Proceed(v, "rollback")
  <2>1. PICK x \in Visit : /\ visits' = [visits EXCEPT ![v] = x] /\ x.pc = "rollback"
                           /\ x.id = i /\ x.op = visits[v].op /\ x.sub = visits[v].sub
    BY <1>a, <1>6, Proceeds DEF VisitSteps
  <2>2. visits' \in [Visits -> Visit] /\ visits'[v] = x /\ \A w \in Visits \ {v} : visits'[w] = visits[w]
    BY <1>2, <2>1
  <2>3. /\ Grow /\ Still /\ Rows'
        /\ users' \in [Ids -> UserRow] /\ lists' \in [Ids -> UserRow] /\ linked' \subseteq Ids \X Subs
    BY <1>1, <1>6, RowsStay
  <2>4. \A w \in Visits : VisitSound(visits[w])'
    <3>1. ASSUME NEW w \in Visits, w # v PROVE VisitSound(visits[w])'
      BY <1>1, <1>6, <2>2, <3>1, AsBefore DEF VisitSound, Exists
    <3>2. VisitSound(visits[v])'
      BY <1>0, <2>1, <2>2 DEF VisitSound
    <3> QED BY <3>1, <3>2
  <2>5. AccountsTypeOK'
    BY <1>1, <1>6, <2>2, <2>3 DEF AccountsInv, AccountsTypeOK, links
  <2>6. Handles' /\ OnlyLinkedEnter'
    BY <1>1, <1>6 DEF AccountsInv, Handles, OnlyLinkedEnter, Exists, links
  <2>7. OwnIds'
    BY <2>1, <2>2 DEF AccountsInv, OwnIds
  <2>8. \A w \in Visits : Creates(visits'[w]) <=> Creates(visits[w])
    BY <1>2, <2>1, <2>2 DEF Creates
  <2>9. OneHolder'
    BY <1>1, <1>6, <2>8 DEF AccountsInv, OneHolder
  <2> QED BY <2>3, <2>4, <2>5, <2>6, <2>7, <2>9 DEF AccountsInv
<1>7. CASE /\ Update(i, row) /\ doubled' = TRUE
           /\ linked' = IF visits[v].op = "google" THEN linked \cup {<<i, visits[v].sub>>} ELSE linked
           /\ Proceed(v, "rollback")
  <2>1. PICK x \in Visit : /\ visits' = [visits EXCEPT ![v] = x] /\ x.pc = "rollback"
                           /\ x.id = i /\ x.op = visits[v].op /\ x.sub = visits[v].sub
    BY <1>a, <1>7, Proceeds DEF VisitSteps
  <2>2. /\ AccountsTypeOK' /\ Rows' /\ Handles' /\ OwnIds' /\ OnlyLinkedEnter'
        /\ \A w \in Visits : VisitSound(visits[w])'
    BY <1>4, <1>7, <2>1
  <2>3. OneHolder'
    BY <1>7 DEF OneHolder
  <2> QED BY <2>2, <2>3 DEF AccountsInv
<1> QED BY <1>a, <1>5, <1>6, <1>7 DEF CreatePut

\* A creation that ends without an account.
LEMMA CreationEnds ==
  ASSUME AccountsInv, NEW v \in Visits, Leave(v), OneHolder',
         UNCHANGED <<entryPoints, users, lists, links, visitsLeft, signedIn, entered, linked, legacy, doubled>>,
         marker' \in BOOLEAN, stranded' \in BOOLEAN
  PROVE  AccountsInv'
<1>1. visits \in [Visits -> Visit] /\ NoVisit \in Visit /\ NoVisit.pc = "idle"
  BY AsBefore, VisitFacts
<1>2. visits' \in [Visits -> Visit] /\ visits'[v] = NoVisit /\ \A w \in Visits \ {v} : visits'[w] = visits[w]
  BY <1>1 DEF Leave
<1>3. AccountsTypeOK'
  BY <1>2 DEF AccountsInv, AccountsTypeOK, links
<1>4. Rows' /\ Handles' /\ OnlyLinkedEnter'
  BY DEF AccountsInv, Rows, RowSound, Handles, OnlyLinkedEnter, Exists, links
<1>5. ASSUME NEW w \in Visits PROVE VisitSound(visits[w])'
  <2>1. CASE w = v
    BY <1>2, <2>1, NoVisitSound DEF VisitSound, Exists
  <2>2. CASE w # v
    BY <1>2, <2>2, AsBefore DEF VisitSound, Exists
  <2> QED BY <2>1, <2>2
<1>6. OwnIds'
  BY <1>1, <1>2 DEF AccountsInv, OwnIds
<1> QED BY <1>3, <1>4, <1>5, <1>6 DEF AccountsInv

LEMMA RollbackKept == ASSUME AccountsInv, NEW v \in Visits, Rollback(v) PROVE AccountsInv'
<1>0. /\ Creates(visits[v]) /\ Leave(v)
      /\ UNCHANGED <<entryPoints, users, lists, links, visitsLeft, signedIn, entered, linked, legacy, doubled>>
  BY DEF Rollback, Creates
<1>1. marker' \in BOOLEAN /\ stranded' \in BOOLEAN
  BY DEF Rollback, AccountsInv, AccountsTypeOK
<1>2. CASE stranded' = TRUE
  BY <1>0, <1>1, <1>2, CreationEnds DEF OneHolder
<1>3. CASE marker' = FALSE /\ UNCHANGED stranded
  <2>1. SUFFICES ASSUME ~stranded, ~doubled PROVE OneHolder'
    BY <1>0, <1>1, <1>3, CreationEnds DEF OneHolder
  <2>2. (\A w \in Visits : Creates(visits[w]) => w = v) /\ \A j \in Ids : ~HasAddress(users[j])
    BY <1>0, <2>1 DEF AccountsInv, OneHolder
  <2>3. \A w \in Visits : ~Creates(visits'[w])
    BY <1>0, <2>2, AsBefore, VisitFacts DEF Leave
  <2> QED BY <1>0, <1>3, <2>2, <2>3 DEF OneHolder
<1> QED BY <1>2, <1>3 DEF Rollback

LEMMA VisitDiesKept == ASSUME AccountsInv, NEW v \in Visits, VisitDies(v) PROVE AccountsInv'
<1>0. /\ Leave(v) /\ stranded' = (stranded \/ Creates(visits[v]))
      /\ UNCHANGED <<entryPoints, marker, users, lists, links, visitsLeft, signedIn, entered, linked, legacy, doubled>>
  BY DEF VisitDies, Creates
<1>1. CASE Creates(visits[v])
  <2>1. OneHolder' /\ marker' \in BOOLEAN /\ stranded' \in BOOLEAN
    BY <1>0, <1>1 DEF OneHolder, AccountsInv, AccountsTypeOK
  <2> QED BY <1>0, <2>1, CreationEnds
<1>2. CASE ~Creates(visits[v])
  <2>1. stranded' = stranded
    BY <1>0, <1>2 DEF AccountsInv, AccountsTypeOK
  <2> QED BY <1>0, <1>2, <2>1, AsBefore, Leaves DEF links
<1> QED BY <1>1, <1>2

-----------------------------------------------------------------------------
(* The links, the index and the deletion *)

\* A step that no request takes, and that leaves the rows alone.
LEMMA TablesMove ==
  ASSUME AccountsInv, UNCHANGED <<entryPoints, marker, users, lists, visits, visitsLeft, aSeen>>,
         \A i \in evTokens' \cup termsTokens' \cup signedIn' : i \in Ids /\ Exists(i)
  PROVE  AccountsInv'
<1>1. /\ Grow /\ Still /\ Rows'
      /\ users' \in [Ids -> UserRow] /\ lists' \in [Ids -> UserRow] /\ linked' \subseteq Ids \X Subs
  BY RowsStay DEF aSeen
<1>2. visits' \in [Visits -> Visit] /\ Aside
  BY AsBefore DEF Aside
<1> QED BY <1>1, <1>2, AsBefore, Quiet DEF aSeen

\* A step that no request takes, and that writes some attributes of one row.
LEMMA RowMoves ==
  ASSUME AccountsInv, NEW i \in Ids, NEW row \in UserRow, Update(i, row), Exists(i), row.state # "none",
         HasAddress(row) <=> HasAddress(users[i]),
         users[i].pass \/ users[i].state = "purged" => row.pass \/ row.state = "purged",
         row.sub = users[i].sub,
         \A j \in evTokens' \cup termsTokens' \cup signedIn' : j \in Ids /\ Exists(j),
         UNCHANGED <<entryPoints, marker, lists, visits, visitsLeft, aSeen>>
  PROVE  AccountsInv'
<1>1. RowSound(i, users[i]) /\ users[i] \in UserRow /\ linked' = linked /\ legacy' = legacy /\ linked \subseteq Ids \X Subs
  BY AsBefore DEF aSeen
<1>2. HasAddress(users[i]) /\ users[i].pass => row.pass
  BY DEF HasAddress
<1>3. RowSound(i, row)'
  BY <1>1, <1>2 DEF RowSound
<1>4. /\ Grow /\ Still /\ Rows'
      /\ users' \in [Ids -> UserRow] /\ lists' \in [Ids -> UserRow] /\ linked' \subseteq Ids \X Subs
  BY <1>1, <1>3, RowWritten
<1>5. visits' \in [Visits -> Visit] /\ Aside
  BY AsBefore DEF Aside
<1> QED BY <1>4, <1>5, AsBefore, Quiet DEF aSeen

LEMMA ResendVerificationKept == ASSUME AccountsInv, NEW i \in Ids, ResendVerification(i) PROVE AccountsInv'
<1>1. Exists(i)
  BY AsBefore DEF ResendVerification, HasAddress
<1>2. \A j \in evTokens' \cup termsTokens' \cup signedIn' : j \in Ids /\ Exists(j)
  BY <1>1, AsBefore DEF ResendVerification
<1> QED BY <1>2, TablesMove DEF ResendVerification

LEMMA PasswordLoginKept == ASSUME AccountsInv, NEW i \in Ids, PasswordLogin(i) PROVE AccountsInv'
<1>1. Exists(i)
  BY AsBefore DEF PasswordLogin
<1>2. \A j \in evTokens' \cup termsTokens' \cup signedIn' : j \in Ids /\ Exists(j)
  BY <1>1, AsBefore DEF PasswordLogin, links
<1> QED BY <1>2, TablesMove DEF PasswordLogin

LEMMA VerifyEmailKept == ASSUME AccountsInv, NEW i \in Ids, VerifyEmail(i) PROVE AccountsInv'
<1>1. Exists(i) /\ users[i] \in UserRow
  BY AsBefore DEF VerifyEmail
<1>2. PICK row : row = [users[i] EXCEPT !.verified = TRUE]
  OBVIOUS
<1>3. row \in UserRow /\ row.state = users[i].state /\ row.pass = users[i].pass /\ row.sub = users[i].sub
  BY <1>1, <1>2 DEF UserRow
<1>4. row.state # "none" /\ (HasAddress(row) <=> HasAddress(users[i]))
  BY <1>1, <1>3 DEF HasAddress, Exists
<1>5. Update(i, row)
  BY <1>2 DEF VerifyEmail
<1>6. \A j \in evTokens' \cup termsTokens' \cup signedIn' : j \in Ids /\ Exists(j)
  BY AsBefore DEF VerifyEmail
<1> QED BY <1>1, <1>3, <1>4, <1>5, <1>6, RowMoves DEF VerifyEmail

LEMMA ResetPasswordKept == ASSUME AccountsInv, NEW i \in Ids, ResetPasswordOf(i) PROVE AccountsInv'
<1>1. Exists(i) /\ users[i] \in UserRow
  BY AsBefore DEF ResetPasswordOf, Exists
<1>2. PICK row : row = [users[i] EXCEPT !.pass = TRUE]
  OBVIOUS
<1>3. row \in UserRow /\ row.state = users[i].state /\ row.pass /\ row.sub = users[i].sub
  BY <1>1, <1>2 DEF UserRow
<1>4. row.state # "none" /\ (HasAddress(row) <=> HasAddress(users[i]))
  BY <1>1, <1>3 DEF HasAddress, Exists
<1>5. Update(i, row)
  BY <1>2 DEF ResetPasswordOf
<1>6. \A j \in evTokens' \cup termsTokens' \cup signedIn' : j \in Ids /\ Exists(j)
  BY AsBefore DEF ResetPasswordOf, links
<1> QED BY <1>1, <1>3, <1>4, <1>5, <1>6, RowMoves DEF ResetPasswordOf

LEMMA LockAccountKept == ASSUME AccountsInv, NEW i \in Ids, LockAccount(i) PROVE AccountsInv'
<1>1. Exists(i) /\ users[i] \in UserRow /\ users[i].state = "live"
  BY AsBefore DEF LockAccount, Exists
<1>2. PICK row : row = [users[i] EXCEPT !.state = "locked"]
  OBVIOUS
<1>3. row \in UserRow /\ row.state = "locked" /\ row.pass = users[i].pass /\ row.sub = users[i].sub
  BY <1>1, <1>2 DEF UserRow
<1>4. row.state # "none" /\ (HasAddress(row) <=> HasAddress(users[i]))
  BY <1>1, <1>3 DEF HasAddress
<1>5. Update(i, row)
  BY <1>2 DEF LockAccount
<1>6. \A j \in evTokens' \cup termsTokens' \cup signedIn' : j \in Ids /\ Exists(j)
  BY AsBefore DEF LockAccount, links
<1> QED BY <1>1, <1>3, <1>4, <1>5, <1>6, RowMoves DEF LockAccount

LEMMA IndexCatchesUpKept == ASSUME AccountsInv, NEW i \in Ids, IndexCatchesUp(i) PROVE AccountsInv'
<1>1. users' = users /\ linked' = linked /\ legacy' = legacy
  BY DEF IndexCatchesUp, aSeen
<1>2. Grow /\ Still
  BY <1>1 DEF Grow, Still, Exists
<1>3. lists' \in [Ids -> UserRow] /\ \A j \in Ids : lists'[j] = lists[j] \/ lists'[j] = users[j]
  BY AsBefore DEF IndexCatchesUp
<1>4. Rows'
  BY <1>1, <1>3, AsBefore DEF Rows, RowSound, Exists
<1>5. visits' \in [Visits -> Visit] /\ Aside
  BY AsBefore DEF Aside, IndexCatchesUp
<1> QED BY <1>1, <1>2, <1>3, <1>4, <1>5, AsBefore, Quiet DEF IndexCatchesUp, links, aSeen

LEMMA PurgeKept == ASSUME AccountsInv, NEW i \in Ids, Purge(i) PROVE AccountsInv'
<1>0. UNCHANGED <<entryPoints, lists, links, visits, visitsLeft, signedIn, aSeen>> /\ marker' = FALSE
  BY DEF Purge
<1>1. users \in [Ids -> UserRow] /\ users[i].state = "locked" /\ users[i] \in UserRow
  BY AsBefore DEF Purge
<1>2. PICK row : row = Tombstone(users[i])
  OBVIOUS
<1>3. row \in UserRow /\ row.state = "purged" /\ row.sub = NoSub
  BY <1>1, <1>2, VisitFacts DEF Tombstone, UserRow
<1>4. users' \in [Ids -> UserRow] /\ users'[i] = row /\ \A j \in Ids \ {i} : users'[j] = users[j]
  BY <1>1, <1>2, <1>3 DEF Purge, Update
<1>5. Grow
  BY <1>0, <1>3, <1>4 DEF Grow, Exists, aSeen
<1>6. users[i] # NoUser
  BY <1>1, VisitFacts
<1>7. AccountsTypeOK'
  BY <1>0, <1>4 DEF AccountsInv, AccountsTypeOK, links, aSeen
<1>8. RowSound(i, row)'
  BY <1>3 DEF RowSound, HasAddress
<1>9. Rows'
  <2> SUFFICES ASSUME NEW j \in Ids
               PROVE  RowSound(j, users[j])' /\ RowSound(j, lists[j])' /\ (lists'[j].state # "none" => Exists(j)')
    BY DEF Rows
  <2>1. RowSound(j, lists[j])' /\ (lists'[j].state # "none" => Exists(j)')
    BY <1>0, <1>5, AsBefore DEF RowSound, Grow, aSeen
  <2>2. CASE j = i
    BY <1>4, <1>8, <2>1, <2>2 DEF RowSound
  <2>3. CASE j # i
    BY <1>0, <1>4, <2>1, <2>3, AsBefore DEF RowSound, aSeen
  <2> QED BY <2>1, <2>2, <2>3
<1>10. Handles' /\ OnlyLinkedEnter'
  BY <1>0, <1>5, AsBefore DEF AccountsInv, Handles, OnlyLinkedEnter, Grow, links, aSeen
<1>13. OwnIds'
  BY <1>0 DEF AccountsInv, OwnIds
<1>11. ASSUME NEW w \in Visits PROVE VisitSound(visits[w])'
  <2>1. PICK y : y = visits[w]
    OBVIOUS
  <2>2. VisitSound(y)
    BY <2>1, AsBefore
  <2>3. y.pc = "put" => users'[y.id] = NoUser
    BY <1>4, <1>6, <2>2 DEF VisitSound
  <2>4. VisitSound(y)'
    BY <1>5, <2>2, <2>3, VisitKept
  <2> QED BY <1>0, <2>1, <2>4 DEF VisitSound, Exists
<1>12. OneHolder'
  <2>1. SUFFICES ASSUME ~stranded, ~doubled PROVE OneHolder'
    BY <1>0 DEF OneHolder, aSeen
  <2>2. HasAddress(users[i])
    BY <1>1 DEF HasAddress
  <2>3. (\A j \in Ids : HasAddress(users[j]) => j = i) /\ \A w \in Visits : ~Creates(visits[w])
    BY <2>1, <2>2 DEF AccountsInv, OneHolder
  <2>4. \A j \in Ids : ~HasAddress(users'[j])
    BY <1>3, <1>4, <2>3 DEF HasAddress
  <2> QED BY <1>0, <2>3, <2>4 DEF OneHolder
<1> QED BY <1>7, <1>9, <1>10, <1>11, <1>12, <1>13 DEF AccountsInv

-----------------------------------------------------------------------------
(* The theorems about accounts *)

LEMMA AccountsStart == AccountsInit => AccountsInv
<1> SUFFICES ASSUME AccountsInit PROVE AccountsInv
  OBVIOUS
<1>1. PICK old \in {{}} \cup {{i} : i \in Ids} :
        /\ marker = (old # {}) /\ legacy = old
        /\ users = [i \in Ids |-> IF i \in old
                                  THEN [NoUser EXCEPT !.state = "live", !.verified = TRUE, !.terms = TRUE]
                                  ELSE NoUser]
  BY DEF AccountsInit
<1>2. PICK first : first = [NoUser EXCEPT !.state = "live", !.verified = TRUE, !.terms = TRUE]
  OBVIOUS
<1>3. first \in UserRow /\ first.state = "live" /\ first.sub = NoSub
  BY <1>2, VisitFacts DEF UserRow
<1>4. /\ users \in [Ids -> UserRow] /\ lists = users
      /\ \A i \in Ids : IF i \in old THEN users[i] = first ELSE users[i] = NoUser
  BY <1>1, <1>2, <1>3, VisitFacts DEF AccountsInit
<1>5. /\ old \subseteq Ids /\ marker \in BOOLEAN /\ (marker <=> \E i \in Ids : i \in old)
      /\ \A i, j \in Ids : i \in old /\ j \in old => i = j
  BY <1>1
<1>6. /\ \A v \in Visits : visits[v] = NoVisit
      /\ visits \in [Visits -> Visit] /\ visitsLeft = entryPoints.visits /\ entryPoints \in AccountScopes
  BY VisitFacts DEF AccountsInit
<1>7. entryPoints.visits \in Nat /\ visitsLeft \in 0..entryPoints.visits
  BY <1>6, AccountsAssumption
<1>8. AccountsTypeOK
  BY <1>1, <1>4, <1>5, <1>6, <1>7 DEF AccountsTypeOK, AccountsInit
<1>9. Rows
  BY <1>1, <1>3, <1>4, VisitFacts DEF Rows, RowSound, HasAddress, Exists
<1>10. Handles /\ OnlyLinkedEnter /\ OwnIds
  BY <1>6, VisitFacts DEF Handles, OnlyLinkedEnter, OwnIds, AccountsInit
<1>11. \A v \in Visits : VisitSound(visits[v]) /\ ~Creates(visits[v])
  BY <1>6, NoVisitSound, VisitFacts
<1>12. \A i \in Ids : HasAddress(users[i]) <=> i \in old
  BY <1>3, <1>4, VisitFacts DEF HasAddress
<1>13. OneHolder
  BY <1>5, <1>11, <1>12 DEF OneHolder
<1> QED BY <1>8, <1>9, <1>10, <1>11, <1>13 DEF AccountsInv

LEMMA AccountsKept == AccountsInv /\ [AccountsNext]_aVars => AccountsInv'
<1> SUFFICES ASSUME AccountsInv, [AccountsNext]_aVars PROVE AccountsInv'
  OBVIOUS
<1>1. CASE UNCHANGED aVars
  <2>1. \A i \in evTokens' \cup termsTokens' \cup signedIn' : i \in Ids /\ Exists(i)
    BY <1>1, AsBefore DEF aVars
  <2> QED BY <1>1, <2>1, TablesMove DEF aVars, aSeen
<1>2. ASSUME NEW v \in Visits,
             \/ Register(v) \/ RegisterLookup(v) \/ CreateMarker(v) \/ CreatePut(v) \/ Rollback(v)
             \/ SendVerification(v) \/ MintAcceptTerms(v)
             \/ FindOrCreateByGoogle(v) \/ Bind(v) \/ SocialSession(v) \/ AcceptPendingTerms(v)
             \/ LinkRead(v) \/ LinkWrite(v) \/ WritePassword(v) \/ WriteUnlink(v) \/ VisitDies(v)
      PROVE  AccountsInv'
  BY <1>2, RegisterKept, RegisterLookupKept, CreateMarkerKept, CreatePutKept, RollbackKept, SendVerificationKept,
     MintAcceptTermsKept, FindOrCreateKept, BindKept, SocialSessionKept, AcceptPendingTermsKept, LinkReadKept,
     LinkWriteKept, WritePasswordKept, WriteUnlinkKept, VisitDiesKept
<1>3. ASSUME NEW v \in Visits, NEW g \in Subs, GoogleCallback(v, g) PROVE AccountsInv'
  BY <1>3, GoogleCallbackKept
<1>4. ASSUME NEW v \in Visits, NEW i \in Ids,
             AcceptTermsToken(v, i) \/ SetInitialPassword(v, i) \/ UnlinkGoogle(v, i)
      PROVE  AccountsInv'
  BY <1>4, AcceptTermsTokenKept, SetInitialPasswordKept, UnlinkGoogleKept
<1>5. ASSUME NEW v \in Visits, NEW i \in Ids, NEW g \in Subs, LinkGoogle(v, i, g) PROVE AccountsInv'
  BY <1>5, LinkGoogleKept
<1>6. ASSUME NEW i \in Ids, \/ ResendVerification(i) \/ VerifyEmail(i) \/ PasswordLogin(i)
                            \/ ResetPasswordOf(i) \/ LockAccount(i) \/ Purge(i) \/ IndexCatchesUp(i)
      PROVE  AccountsInv'
  BY <1>6, ResendVerificationKept, VerifyEmailKept, PasswordLoginKept, ResetPasswordKept, LockAccountKept,
     PurgeKept, IndexCatchesUpKept
<1> QED BY <1>1, <1>2, <1>3, <1>4, <1>5, <1>6 DEF AccountsNext

\* What the invariant says of the holders, as the property counts them.
LEMMA HeldOnce == AccountsInv => AddressHeldOnce
<1> SUFFICES ASSUME AccountsInv, ~stranded, ~doubled
             PROVE  LET holders == {i \in Ids : HasAddress(users[i])}
                    IN  Cardinality(holders) <= 1 /\ (marker <=> holders # {} \/ Creating)
  BY DEF AddressHeldOnce
<1> DEFINE holders == {i \in Ids : HasAddress(users[i])}
<1>1. \A i, j \in holders : i = j
  BY DEF AccountsInv, OneHolder
<1>2. marker <=> holders # {} \/ Creating
  BY DEF AccountsInv, OneHolder, Creating, Creates
<1>3. CASE holders = {}
  <2>1. Cardinality(holders) = 0
    BY <1>3, FS_EmptySet
  <2> QED BY <1>2, <2>1
<1>4. CASE holders # {}
  <2>1. PICK i : i \in holders
    BY <1>4
  <2>2. holders = {i}
    BY <1>1, <2>1
  <2>3. Cardinality({i}) = 1
    BY FS_Singleton
  <2> QED BY <1>2, <2>2, <2>3
<1> QED BY <1>3, <1>4

THEOREM AccountsInvariant == AccountsSpec => []AccountsInv
<1> QED BY AccountsStart, AccountsKept, PTL DEF AccountsSpec

\* The rows of the accounts and the requests in progress are well typed (domain/user).
THEOREM AccountsTypeCorrect == AccountsSpec => []AccountsTypeOK
<1>1. AccountsInv => AccountsTypeOK
  BY DEF AccountsInv
<1> QED BY <1>1, AccountsInvariant, PTL

\* user.Create and Purge: the address has one account at most, and its marker stands for
\* one account or one creation in progress, whatever registrations and sign-ups race.
THEOREM AddressCorrect == AccountsSpec => []AddressHeldOnce
<1> QED BY HeldOnce, AccountsInvariant, PTL

\* UnlinkGoogle and what writes rows with it: every account keeps a way in.
THEOREM WayInCorrect == AccountsSpec => []AlwaysAWayIn
<1>1. AccountsInv => AlwaysAWayIn
  BY AsBefore DEF AlwaysAWayIn, RowSound, HasAddress
<1> QED BY <1>1, AccountsInvariant, PTL

\* FindOrCreateByGoogle: a Google login enters only with an identity that opened the
\* account or that its owner linked, however old the row the index showed.
THEOREM EnterCorrect == AccountsSpec => []OnlyLinkedEnter
<1>1. AccountsInv => OnlyLinkedEnter
  BY DEF AccountsInv
<1> QED BY <1>1, AccountsInvariant, PTL

-----------------------------------------------------------------------------
(* Signing in *)

\* The request x has taken the token k and not used it yet.
InHand(x, k) == x.ticket = k /\ x.pc \in {"clear", "user", "create", "touch", "record", "putKey", "setPassword"}

TicketsSound ==
  \A k \in Tickets :
    /\ uses[k] <= 1
    /\ tickets[k].live => k < nextTicket /\ uses[k] = 0
    /\ k >= nextTicket => uses[k] = 0 /\ guesses[k] = 0
    /\ \A d \in Doors : InHand(doors[d], k) => uses[k] = 0 /\ ~tickets[k].live
    /\ \A d, e \in Doors : InHand(doors[d], k) /\ InHand(doors[e], k) => d = e

\* The requests that were counted and are about to try a code on token k.
Trying(k) == {d \in Doors : doors[d].pc = "validate" /\ doors[d].ticket = k}

TriesSound ==
  \A k \in Tickets :
    tickets[k].live /\ k \notin resetKey =>
      /\ IsFiniteSet(Trying(k))
      /\ guesses[k] + Cardinality(Trying(k)) <= tries[k]
      /\ guesses[k] + Cardinality(Trying(k)) <= MaxAttempts

\* Where a request may be with its operation; a password login that goes on without a
\* factor has seen a moment without one.
DoorSound(x) ==
  /\ x.ticket < nextTicket
  /\ x.pc = "totpGet" => x.op = "login"
  /\ x.op = "login" => x.pc \in {"totpGet", "create"} /\ (x.pc = "create" \/ ~IsSetup(totp) => x.off)
  /\ x.pc \in {"setPassword", "list", "revoke"} => x.op \in {"reset", "change"}
  /\ x.pc \in {"incr", "dropToken", "dropCounter", "claim", "clear"} => x.op = "challenge"
  /\ x.pc = "validate" => x.op \in {"challenge", "stepUp"}
  /\ (x.op = "challenge" => x.ticket # 0) /\ (x.op \in {"login", "stepUp"} => x.ticket = 0)

\* A change of the password is about to end session s.
Ends(x, s) == (x.pc = "list" /\ s # x.by) \/ (x.pc = "revoke" /\ s \in x.listed)

ChangeSound ==
  ~cutShort => \A s \in Opened : opened[s].live /\ opened[s].born # pw => \E d \in Doors : Ends(doors[d], s)

SignInInv ==
  /\ SignInTypeOK /\ TicketsSound /\ TriesSound /\ ChangeSound
  /\ \A d \in Doors : DoorSound(doors[d])

-----------------------------------------------------------------------------
(* Rows and requests *)

LEMMA HomeFacts ==
  /\ Wrong \in Guesses /\ NoTOTP \in TOTPSecret
  /\ NoTOTP.codes = {} /\ ~NoTOTP.verified /\ ~NoTOTP.row
  /\ Home \in Door /\ Home.pc = "idle" /\ Home.op = "none" /\ Home.ticket = 0 /\ Home.by = 0
<1>1. Wrong \in Guesses
  BY DEF Guesses
<1>2. NoTOTP \in TOTPSecret /\ NoTOTP.codes = {} /\ ~NoTOTP.verified /\ ~NoTOTP.row
  BY SignInAssumption DEF NoTOTP, TOTPSecret
<1>3. Home \in Door
  BY <1>1, <1>2, SignInAssumption DEF Home, Door, DoorSteps, DoorOps
<1>4. Home.pc = "idle" /\ Home.op = "none" /\ Home.ticket = 0 /\ Home.by = 0
  BY DEF Home
<1> QED BY <1>1, <1>2, <1>3, <1>4

LEMMA HomeSound ==
  ASSUME SignInInv
  PROVE  /\ DoorSound(Home) /\ \A k : ~InHand(Home, k)
         /\ \A s : ~Ends(Home, s)
<1>1. 0 < nextTicket
  BY SignInAssumption DEF SignInInv, SignInTypeOK
<1> QED BY <1>1, HomeFacts DEF DoorSound, InHand, Ends

\* What the tables and the requests hold.
LEMMA Tables ==
  ASSUME SignInInv
  PROVE  /\ doors \in [Doors -> Door] /\ totp \in TOTPSecret
         /\ tickets \in [Tickets -> Ticket] /\ tries \in [Tickets -> 0..(MaxAttempts + 1)]
         /\ uses \in [Tickets -> Nat] /\ guesses \in [Tickets -> Nat] /\ resetKey \subseteq Tickets
         /\ opened \in [Opened -> OpenedRow] /\ pw \in Nat /\ nextSet \in 1..3
         /\ nextTicket \in 1..(MaxTickets + 1) /\ nextOpened \in 1..(MaxOpened + 1)
         /\ arrivals \in 0..signScope.arrivals /\ MaxTickets \in Nat
         /\ \A d \in Doors : /\ doors[d].pc \in DoorSteps /\ doors[d].op \in DoorOps
                             /\ doors[d].ticket \in 0..MaxTickets /\ doors[d].by \in 0..MaxOpened
                             /\ doors[d].totp \in TOTPSecret /\ DoorSound(doors[d])
<1>1. doors \in [Doors -> Door]
  BY DEF SignInInv, SignInTypeOK
<1>2. \A d \in Doors : /\ doors[d].pc \in DoorSteps /\ doors[d].op \in DoorOps
                       /\ doors[d].ticket \in 0..MaxTickets /\ doors[d].by \in 0..MaxOpened
                       /\ doors[d].totp \in TOTPSecret
  BY <1>1 DEF Door
<1> QED BY <1>1, <1>2, SignInAssumption DEF SignInInv, SignInTypeOK

\* A knock takes one of the arrivals.
LEMMA Knocks ==
  ASSUME SignInInv, NEW d \in Doors, NEW op, Knock(d, op)
  PROVE  doors[d].pc = "idle" /\ arrivals' \in 0..signScope.arrivals
<1>1. signScope.arrivals \in Nat /\ arrivals \in 0..signScope.arrivals
  BY SignInAssumption DEF SignInInv, SignInTypeOK
<1> QED BY <1>1 DEF Knock

LEMMA Steps ==
  ASSUME SignInInv, NEW d \in Doors, NEW pc \in DoorSteps, StepTo(d, pc)
  PROVE  \E y \in Door : /\ doors' = [doors EXCEPT ![d] = y] /\ y.pc = pc
                         /\ y.op = doors[d].op /\ y.by = doors[d].by /\ y.ticket = doors[d].ticket
                         /\ y.guess = doors[d].guess /\ y.totp = doors[d].totp /\ y.off = doors[d].off
<1>1. doors[d] \in Door /\ doors \in [Doors -> Door]
  BY Tables
<1>2. PICK y : y = [doors[d] EXCEPT !.pc = pc]
  OBVIOUS
<1>3. /\ y \in Door /\ y.pc = pc
      /\ y.op = doors[d].op /\ y.by = doors[d].by /\ y.ticket = doors[d].ticket
      /\ y.guess = doors[d].guess /\ y.totp = doors[d].totp /\ y.off = doors[d].off
  BY <1>1, <1>2 DEF Door
<1>4. doors' = [doors EXCEPT ![d] = y]
  BY <1>1, <1>2 DEF StepTo
<1> QED BY <1>3, <1>4

-----------------------------------------------------------------------------
(* What a step leaves in place *)

\* One request moves, and what requests read stays.
LEMMA DoorsKept ==
  ASSUME SignInInv, NEW d \in Doors, NEW y \in Door, doors' = [doors EXCEPT ![d] = y],
         DoorSound(y)', UNCHANGED totp,
         nextTicket' \in Int, nextTicket <= nextTicket'
  PROVE  /\ doors' \in [Doors -> Door] /\ doors'[d] = y /\ \A e \in Doors \ {d} : doors'[e] = doors[e]
         /\ \A e \in Doors : DoorSound(doors[e])'
<1>1. doors' \in [Doors -> Door] /\ doors'[d] = y /\ \A e \in Doors \ {d} : doors'[e] = doors[e]
  BY Tables
<1>2. ASSUME NEW e \in Doors PROVE DoorSound(doors[e])'
  <2>1. CASE e = d
    BY <1>1, <2>1 DEF DoorSound
  <2>2. CASE e # d
    <3>1. doors'[e] = doors[e] /\ DoorSound(doors[e])
      BY <1>1, <2>2, Tables
    <3>2. doors[e].ticket < nextTicket'
      BY <3>1, Tables DEF DoorSound
    <3> QED BY <3>1, <3>2 DEF DoorSound
  <2> QED BY <2>1, <2>2
<1> QED BY <1>1, <1>2

\* No token comes to life, is used or gets into other hands.
LEMMA TicketsKept ==
  ASSUME SignInInv, \A e \in Doors, k \in Tickets : InHand(doors'[e], k) => InHand(doors[e], k),
         \A k \in Tickets : /\ tickets'[k].live => tickets[k].live
                            /\ k >= nextTicket => guesses'[k] = guesses[k],
         UNCHANGED <<uses, nextTicket>>
  PROVE  TicketsSound'
BY DEF SignInInv, TicketsSound

\* No request is counted, and no attempt is forgotten.
LEMMA TriesKept ==
  ASSUME SignInInv,
         \A e \in Doors : doors'[e].pc = "validate" /\ doors'[e].ticket # 0 =>
                            doors[e].pc = "validate" /\ doors[e].ticket = doors'[e].ticket,
         \A k \in Tickets : tickets'[k].live /\ k \notin resetKey' =>
                              /\ tickets[k].live /\ k \notin resetKey
                              /\ guesses'[k] = guesses[k] /\ tries'[k] \in Nat /\ tries'[k] >= tries[k]
  PROVE  TriesSound'
<1> SUFFICES ASSUME NEW k \in Tickets, tickets'[k].live, k \notin resetKey'
             PROVE  /\ IsFiniteSet(Trying(k)')
                    /\ guesses'[k] + Cardinality(Trying(k)') <= tries'[k]
                    /\ guesses'[k] + Cardinality(Trying(k)') <= MaxAttempts
  BY DEF TriesSound
<1>1. /\ IsFiniteSet(Trying(k)) /\ guesses[k] + Cardinality(Trying(k)) <= tries[k]
      /\ guesses[k] + Cardinality(Trying(k)) <= MaxAttempts
      /\ guesses[k] \in Nat /\ tries[k] \in Nat /\ guesses'[k] = guesses[k] /\ tries'[k] \in Nat /\ tries'[k] >= tries[k]
  BY Tables DEF SignInInv, TriesSound
<1>2. Trying(k)' \subseteq Trying(k)
  BY DEF Trying, Tickets
<1>3. IsFiniteSet(Trying(k)') /\ Cardinality(Trying(k)') <= Cardinality(Trying(k))
  BY <1>1, <1>2, FS_Subset
<1>4. Cardinality(Trying(k)') \in Nat /\ Cardinality(Trying(k)) \in Nat
  BY <1>1, <1>3, FS_CardinalityType
<1> QED BY <1>1, <1>3, <1>4, SignInAssumption

\* No session falls behind the password.
LEMMA ChangeKept ==
  ASSUME SignInInv, \A e \in Doors, s \in Opened : Ends(doors[e], s) => Ends(doors'[e], s),
         \A s \in Opened : opened'[s].live => \/ opened[s].live /\ opened'[s].born = opened[s].born
                                             \/ opened'[s].born = pw,
         UNCHANGED <<pw, cutShort>>
  PROVE  ChangeSound'
BY DEF SignInInv, ChangeSound

\* A request moves on, and touches none of the tables.
LEMMA DoorMoves ==
  ASSUME SignInInv, NEW d \in Doors, NEW y \in Door, doors' = [doors EXCEPT ![d] = y],
         DoorSound(y), doors[d].pc \notin {"list", "revoke"},
         y.pc = "validate" => y.ticket = 0, \A k \in Tickets : InHand(y, k) => InHand(doors[d], k),
         UNCHANGED <<signScope, pw, totp, nextSecret, nextSet, tickets, tries, nextTicket, opened, nextOpened, uses,
                     guesses, resetKey, cutShort>>,
         arrivals' \in 0..signScope.arrivals, away' \in BOOLEAN, passkey' \in {"none", "usable", "empty"}
  PROVE  SignInInv'
<1>1. DoorSound(y)'
  BY DEF DoorSound
<1>2. /\ doors' \in [Doors -> Door] /\ doors'[d] = y /\ \A e \in Doors \ {d} : doors'[e] = doors[e]
      /\ \A e \in Doors : DoorSound(doors[e])'
  <2>1. nextTicket' \in Int /\ nextTicket <= nextTicket'
    BY Tables
  <2> QED BY <1>1, <2>1, DoorsKept
<1>3. SignInTypeOK'
  BY <1>2 DEF SignInInv, SignInTypeOK
<1>4. \A e \in Doors, k \in Tickets : InHand(doors'[e], k) => InHand(doors[e], k)
  BY <1>2
<1>5. TicketsSound'
  BY <1>4, TicketsKept
<1>6. \A e \in Doors : doors'[e].pc = "validate" /\ doors'[e].ticket # 0 =>
                         doors[e].pc = "validate" /\ doors[e].ticket = doors'[e].ticket
  BY <1>2
<1>7. TriesSound'
  BY <1>6, TriesKept, Tables
<1>8. \A e \in Doors, s \in Opened : Ends(doors[e], s) => Ends(doors'[e], s)
  BY <1>2 DEF Ends
<1>9. ChangeSound'
  BY <1>8, ChangeKept
<1> QED BY <1>2, <1>3, <1>5, <1>7, <1>9 DEF SignInInv

\* A request ends without a trace.
LEMMA GoesHome ==
  ASSUME SignInInv, NEW d \in Doors, GoHome(d), doors[d].pc \notin {"list", "revoke"},
         UNCHANGED <<signScope, pw, totp, nextSecret, nextSet, tickets, tries, nextTicket, opened, nextOpened, uses,
                     guesses, resetKey, cutShort>>,
         arrivals' \in 0..signScope.arrivals, away' \in BOOLEAN, passkey' \in {"none", "usable", "empty"}
  PROVE  SignInInv'
BY HomeFacts, HomeSound, DoorMoves DEF GoHome

-----------------------------------------------------------------------------
(* Requests that arrive or end *)

LEMMA LoginKept == ASSUME SignInInv, NEW d \in Doors, Login(d) PROVE SignInInv'
<1>1. doors[d].pc = "idle" /\ arrivals' \in 0..signScope.arrivals
  BY Knocks DEF Login
<1>2. PICK y : y = [Home EXCEPT !.pc = "totpGet", !.op = "login", !.off = ~IsSetup(totp)]
  OBVIOUS
<1>3. y \in Door /\ y.pc = "totpGet" /\ y.op = "login" /\ y.ticket = 0 /\ (~IsSetup(totp) => y.off)
  BY <1>2, HomeFacts DEF Door, DoorSteps, DoorOps
<1>4. doors' = [doors EXCEPT ![d] = y]
  BY <1>2 DEF Login, EnterAs
<1>5. DoorSound(y) /\ \A k \in Tickets : ~InHand(y, k)
  BY <1>3, Tables DEF DoorSound, InHand
<1> QED BY <1>1, <1>3, <1>4, <1>5, DoorMoves DEF Login, enrolment, cacheKeys, sessionsOpen, SignInInv, SignInTypeOK

LEMMA MFAChallengeKept ==
  ASSUME SignInInv, NEW d \in Doors, NEW k \in Tickets, NEW g \in Guesses, MFAChallenge(d, k, g) PROVE SignInInv'
<1>1. doors[d].pc = "idle" /\ arrivals' \in 0..signScope.arrivals
  BY Knocks DEF MFAChallenge
<1>2. PICK y : y = [Home EXCEPT !.pc = "incr", !.op = "challenge", !.ticket = k, !.guess = g]
  OBVIOUS
<1>3. k \in 0..MaxTickets /\ k # 0 /\ k < nextTicket
  BY Tables DEF MFAChallenge, Ticket, SignInInv, TicketsSound, Tickets
<1>4. y \in Door /\ y.pc = "incr" /\ y.op = "challenge" /\ y.ticket = k
  BY <1>2, <1>3, HomeFacts DEF Door, DoorSteps, DoorOps
<1>5. doors' = [doors EXCEPT ![d] = y]
  BY <1>2 DEF MFAChallenge, EnterAs
<1>6. DoorSound(y) /\ \A j \in Tickets : ~InHand(y, j)
  BY <1>3, <1>4 DEF DoorSound, InHand
<1> QED BY <1>1, <1>4, <1>5, <1>6, DoorMoves DEF MFAChallenge, enrolment, cacheKeys, sessionsOpen, SignInInv, SignInTypeOK

LEMMA TOTPSetupKept ==
  ASSUME SignInInv, NEW d \in Doors, NEW s \in Opened, TOTPSetup(d, s) PROVE SignInInv'
<1>1. doors[d].pc = "idle" /\ arrivals' \in 0..signScope.arrivals
  BY Knocks DEF TOTPSetup
<1>2. PICK y : y = [Home EXCEPT !.pc = "put", !.op = "setup", !.by = s]
  OBVIOUS
<1>3. s \in 0..MaxOpened
  BY SignInAssumption DEF Opened
<1>4. y \in Door /\ y.pc = "put" /\ y.op = "setup" /\ y.ticket = 0
  BY <1>2, <1>3, HomeFacts DEF Door, DoorSteps, DoorOps
<1>5. doors' = [doors EXCEPT ![d] = y]
  BY <1>2 DEF TOTPSetup, EnterAs
<1>6. DoorSound(y) /\ \A k \in Tickets : ~InHand(y, k)
  BY <1>4, Tables DEF DoorSound, InHand
<1> QED BY <1>1, <1>4, <1>5, <1>6, DoorMoves DEF TOTPSetup, enrolment, cacheKeys, sessionsOpen, SignInInv, SignInTypeOK

LEMMA TOTPConfirmKept ==
  ASSUME SignInInv, NEW d \in Doors, NEW s \in Opened, NEW n \in Secrets, TOTPConfirm(d, s, n) PROVE SignInInv'
<1>1. doors[d].pc = "idle" /\ arrivals' \in 0..signScope.arrivals
  BY Knocks DEF TOTPConfirm
<1>2. PICK y : y = [Home EXCEPT !.pc = "confirm", !.op = "confirm", !.by = s, !.totp = totp]
  OBVIOUS
<1>3. s \in 0..MaxOpened
  BY SignInAssumption DEF Opened
<1>4. y \in Door /\ y.pc = "confirm" /\ y.op = "confirm" /\ y.ticket = 0
  BY <1>2, <1>3, HomeFacts, Tables DEF Door, DoorSteps, DoorOps
<1>5. doors' = [doors EXCEPT ![d] = y]
  BY <1>2 DEF TOTPConfirm, EnterAs
<1>6. DoorSound(y) /\ \A k \in Tickets : ~InHand(y, k)
  BY <1>4, Tables DEF DoorSound, InHand
<1> QED BY <1>1, <1>4, <1>5, <1>6, DoorMoves DEF TOTPConfirm, enrolment, cacheKeys, sessionsOpen, SignInInv, SignInTypeOK

LEMMA RegenerateKept ==
  ASSUME SignInInv, NEW d \in Doors, NEW s \in Opened, RegenerateBackupCodes(d, s) PROVE SignInInv'
<1>1. doors[d].pc = "idle" /\ arrivals' \in 0..signScope.arrivals
  BY Knocks DEF RegenerateBackupCodes
<1>2. PICK y : y = [Home EXCEPT !.pc = "replace", !.op = "regenerate", !.by = s]
  OBVIOUS
<1>3. s \in 0..MaxOpened
  BY SignInAssumption DEF Opened
<1>4. y \in Door /\ y.pc = "replace" /\ y.op = "regenerate" /\ y.ticket = 0
  BY <1>2, <1>3, HomeFacts DEF Door, DoorSteps, DoorOps
<1>5. doors' = [doors EXCEPT ![d] = y]
  BY <1>2 DEF RegenerateBackupCodes, EnterAs
<1>6. DoorSound(y) /\ \A k \in Tickets : ~InHand(y, k)
  BY <1>4, Tables DEF DoorSound, InHand
<1> QED BY <1>1, <1>4, <1>5, <1>6, DoorMoves
        DEF RegenerateBackupCodes, enrolment, cacheKeys, sessionsOpen, SignInInv, SignInTypeOK

LEMMA StepUpKept ==
  ASSUME SignInInv, NEW d \in Doors, NEW s \in Opened, NEW g \in Guesses, StepUp(d, s, g) PROVE SignInInv'
<1>1. doors[d].pc = "idle" /\ arrivals' \in 0..signScope.arrivals
  BY Knocks DEF StepUp
<1>2. PICK y : y = [Home EXCEPT !.pc = "validate", !.op = "stepUp", !.by = s, !.guess = g]
  OBVIOUS
<1>3. s \in 0..MaxOpened
  BY SignInAssumption DEF Opened
<1>4. y \in Door /\ y.pc = "validate" /\ y.op = "stepUp" /\ y.ticket = 0
  BY <1>2, <1>3, HomeFacts DEF Door, DoorSteps, DoorOps
<1>5. doors' = [doors EXCEPT ![d] = y]
  BY <1>2 DEF StepUp, EnterAs
<1>6. DoorSound(y) /\ \A k \in Tickets : ~InHand(y, k)
  BY <1>4, Tables DEF DoorSound, InHand
<1> QED BY <1>1, <1>4, <1>5, <1>6, DoorMoves DEF StepUp, enrolment, cacheKeys, sessionsOpen, SignInInv, SignInTypeOK

LEMMA ChangePasswordKept ==
  ASSUME SignInInv, NEW d \in Doors, NEW s \in Opened, ChangePassword(d, s) PROVE SignInInv'
<1>1. doors[d].pc = "idle" /\ arrivals' \in 0..signScope.arrivals
  BY Knocks DEF ChangePassword
<1>2. PICK y : y = [Home EXCEPT !.pc = "setPassword", !.op = "change", !.by = s]
  OBVIOUS
<1>3. s \in 0..MaxOpened
  BY SignInAssumption DEF Opened
<1>4. y \in Door /\ y.pc = "setPassword" /\ y.op = "change" /\ y.ticket = 0
  BY <1>2, <1>3, HomeFacts DEF Door, DoorSteps, DoorOps
<1>5. doors' = [doors EXCEPT ![d] = y]
  BY <1>2 DEF ChangePassword, EnterAs
<1>6. DoorSound(y) /\ \A k \in Tickets : ~InHand(y, k)
  BY <1>4, Tables DEF DoorSound, InHand, Tickets
<1> QED BY <1>1, <1>4, <1>5, <1>6, DoorMoves
        DEF ChangePassword, enrolment, cacheKeys, sessionsOpen, SignInInv, SignInTypeOK

LEMMA ReadUserKept == ASSUME SignInInv, NEW d \in Doors, ReadUser(d) PROVE SignInInv'
<1>1. doors[d].pc = "user" /\ DoorSound(doors[d])
  BY Tables DEF ReadUser
<1>2. CASE GoHome(d)
  BY <1>1, <1>2, GoesHome DEF ReadUser, enrolment, cacheKeys, sessionsOpen, SignInInv, SignInTypeOK
<1>3. CASE StepTo(d, "create")
  <2>1. PICK y \in Door : /\ doors' = [doors EXCEPT ![d] = y] /\ y.pc = "create" /\ y.op = doors[d].op
                          /\ y.ticket = doors[d].ticket
    BY <1>3, Steps DEF DoorSteps
  <2>2. DoorSound(y) /\ \A k \in Tickets : InHand(y, k) => InHand(doors[d], k)
    BY <1>1, <2>1 DEF DoorSound, InHand
  <2> QED BY <1>1, <2>1, <2>2, DoorMoves DEF ReadUser, enrolment, cacheKeys, sessionsOpen, SignInInv, SignInTypeOK
<1> QED BY <1>2, <1>3 DEF ReadUser

LEMMA UpdateLastUsedKept == ASSUME SignInInv, NEW d \in Doors, UpdateLastUsed(d) PROVE SignInInv'
<1>1. doors[d].pc = "touch" /\ DoorSound(doors[d])
  BY Tables DEF UpdateLastUsed
<1>2. PICK pc \in {"user", "record"} : StepTo(d, pc)
  BY DEF UpdateLastUsed
<1>3. PICK y \in Door : /\ doors' = [doors EXCEPT ![d] = y] /\ y.pc = pc /\ y.op = doors[d].op
                        /\ y.ticket = doors[d].ticket
  BY <1>2, Steps DEF DoorSteps
<1>4. DoorSound(y) /\ \A k \in Tickets : InHand(y, k) => InHand(doors[d], k)
  BY <1>1, <1>3 DEF DoorSound, InHand
<1>5. passkey' \in {"none", "usable", "empty"}
  BY DEF UpdateLastUsed, SignInInv, SignInTypeOK
<1> QED BY <1>1, <1>3, <1>4, <1>5, DoorMoves
        DEF UpdateLastUsed, enrolment, cacheKeys, sessionsOpen, SignInInv, SignInTypeOK

\* A step of no request that touches neither the tokens nor the enrolment.
LEMMA OthersMove ==
  ASSUME SignInInv, UNCHANGED <<signScope, pw, totp, nextSecret, nextSet, tickets, tries, nextTicket, nextOpened,
                                doors, uses, guesses, resetKey, cutShort>>,
         opened' \in [Opened -> OpenedRow],
         \A s \in Opened : opened'[s].live => opened[s].live /\ opened'[s].born = opened[s].born,
         arrivals' \in 0..signScope.arrivals, away' \in BOOLEAN, passkey' \in {"none", "usable", "empty"}
  PROVE  SignInInv'
<1>1. SignInTypeOK'
  BY DEF SignInInv, SignInTypeOK
<1>2. TicketsSound'
  BY TicketsKept
<1>3. TriesSound'
  BY TriesKept, Tables
<1>4. ChangeSound'
  BY ChangeKept
<1>5. \A e \in Doors : DoorSound(doors[e])'
  BY Tables DEF DoorSound
<1> QED BY <1>1, <1>2, <1>3, <1>4, <1>5 DEF SignInInv

LEMMA DeletePasskeyKept ==
  ASSUME SignInInv, NEW d \in Doors, NEW s \in Opened, DeletePasskey(d, s) PROVE SignInInv'
<1>1. arrivals' \in 0..signScope.arrivals
  BY Knocks DEF DeletePasskey
<1> QED BY <1>1, OthersMove, Tables DEF DeletePasskey, enrolment, cacheKeys, sessionsOpen, SignInInv, SignInTypeOK

LEMMA ProofAgesKept == ASSUME SignInInv, NEW s \in Opened, ProofAges(s) PROVE SignInInv'
<1>1. /\ opened' \in [Opened -> OpenedRow]
      /\ \A i \in Opened : opened'[i].live => opened[i].live /\ opened'[i].born = opened[i].born
  BY Tables DEF ProofAges, OpenedRow
<1> QED BY <1>1, OthersMove DEF ProofAges, enrolment, cacheKeys, SignInInv, SignInTypeOK

LEMMA LockOutKept == ASSUME SignInInv, LockOut PROVE SignInInv'
<1>1. /\ opened' \in [Opened -> OpenedRow]
      /\ \A i \in Opened : opened'[i].live => opened[i].live /\ opened'[i].born = opened[i].born
  BY Tables DEF LockOut, OpenedRow
<1> QED BY <1>1, OthersMove DEF LockOut, enrolment, cacheKeys, SignInInv, SignInTypeOK

-----------------------------------------------------------------------------
(* Requests that work on tokens *)

\* A step of one request that leaves the enrolment alone.
LEMMA TokenMoves ==
  ASSUME SignInInv, NEW d \in Doors, NEW y \in Door, doors' = [doors EXCEPT ![d] = y], DoorSound(y)',
         nextTicket <= nextTicket',
         UNCHANGED <<signScope, away, totp, nextSecret, nextSet>>,
         arrivals' \in 0..signScope.arrivals, pw' \in Nat, passkey' \in {"none", "usable", "empty"},
         tickets' \in [Tickets -> Ticket], tries' \in [Tickets -> 0..(MaxAttempts + 1)],
         nextTicket' \in 1..(MaxTickets + 1), uses' \in [Tickets -> Nat], guesses' \in [Tickets -> Nat],
         resetKey' \subseteq Tickets, opened' \in [Opened -> OpenedRow], nextOpened' \in 1..(MaxOpened + 1),
         cutShort' \in BOOLEAN, TicketsSound', TriesSound', ChangeSound'
  PROVE  SignInInv'
<1>1. nextTicket' \in Int
  BY SignInAssumption
<1>2. doors' \in [Doors -> Door] /\ \A e \in Doors : DoorSound(doors[e])'
  BY <1>1, DoorsKept
<1>3. SignInTypeOK'
  BY <1>2 DEF SignInInv, SignInTypeOK
<1> QED BY <1>2, <1>3 DEF SignInInv

LEMMA OwnTicket ==
  ASSUME SignInInv, NEW d \in Doors, doors[d].ticket # 0
  PROVE  doors[d].ticket \in Tickets /\ doors[d].ticket < nextTicket
BY Tables DEF Tickets, DoorSound

LEMMA Taken ==
  ASSUME SignInInv, NEW k \in Tickets, Take(k)
  PROVE  tickets' \in [Tickets -> Ticket] /\ ~tickets'[k].live /\ \A j \in Tickets \ {k} : tickets'[j] = tickets[j]
<1>1. tickets \in [Tickets -> Ticket] /\ tickets[k] \in Ticket
  BY Tables
<1>2. PICK x : x = [tickets[k] EXCEPT !.live = FALSE]
  OBVIOUS
<1>3. x \in Ticket /\ ~x.live
  BY <1>1, <1>2 DEF Ticket
<1>4. tickets' = [tickets EXCEPT ![k] = x]
  BY <1>1, <1>2 DEF Take
<1> QED BY <1>1, <1>3, <1>4

\* The request that takes a live token is the only one that has it.
LEMMA TakenOnce ==
  ASSUME SignInInv, NEW k \in Tickets, tickets[k].live, Take(k), NEW d \in Doors,
         \A e \in Doors, j \in Tickets : InHand(doors'[e], j) => InHand(doors[e], j) \/ (e = d /\ j = k),
         UNCHANGED <<uses, guesses, nextTicket>>
  PROVE  TicketsSound'
<1>1. ~tickets'[k].live /\ \A j \in Tickets \ {k} : tickets'[j] = tickets[j]
  BY Taken
<1>2. TicketsSound /\ \A e \in Doors : ~InHand(doors[e], k)
  BY DEF SignInInv, TicketsSound
<1>3. uses[k] = 0
  BY <1>2 DEF TicketsSound
<1> SUFFICES ASSUME NEW j \in Tickets
             PROVE  /\ uses[j] <= 1
                    /\ tickets'[j].live => j < nextTicket /\ uses[j] = 0
                    /\ j >= nextTicket => uses[j] = 0 /\ guesses[j] = 0
                    /\ \A e \in Doors : InHand(doors'[e], j) => uses[j] = 0 /\ ~tickets'[j].live
                    /\ \A e, f \in Doors : InHand(doors'[e], j) /\ InHand(doors'[f], j) => e = f
  BY DEF TicketsSound, InHand
<1>4. CASE j = k
  BY <1>1, <1>2, <1>3, <1>4 DEF TicketsSound
<1>5. CASE j # k
  BY <1>1, <1>2, <1>5 DEF TicketsSound
<1> QED BY <1>4, <1>5

\* A token in the hands of a request takes effect, and is out of them.
LEMMA UsesItsTicket ==
  ASSUME SignInInv, NEW d \in Doors, UsedBy(doors[d]),
         doors[d].ticket # 0 => InHand(doors[d], doors[d].ticket),
         \A e \in Doors, j \in Tickets : InHand(doors'[e], j) => InHand(doors[e], j) /\ e # d,
         UNCHANGED <<tickets, guesses, nextTicket>>
  PROVE  TicketsSound' /\ uses' \in [Tickets -> Nat]
<1>1. TicketsSound /\ uses \in [Tickets -> Nat]
  BY Tables DEF SignInInv
<1>2. CASE doors[d].ticket = 0
  BY <1>1, <1>2, TicketsKept DEF UsedBy
<1>3. CASE doors[d].ticket # 0
  <2> DEFINE k == doors[d].ticket
  <2>1. k \in Tickets /\ k < nextTicket /\ InHand(doors[d], k)
    BY <1>3, OwnTicket
  <2>2. uses[k] = 0 /\ ~tickets[k].live
    BY <1>1, <2>1 DEF TicketsSound
  <2>3. uses' = [uses EXCEPT ![k] = 1]
    BY <1>1, <1>3, <2>1, <2>2 DEF UsedBy
  <2>4. uses' \in [Tickets -> Nat] /\ uses'[k] = 1 /\ \A j \in Tickets \ {k} : uses'[j] = uses[j]
    BY <1>1, <2>1, <2>3
  <2>5. \A e \in Doors : ~InHand(doors'[e], k)
    BY <1>1, <2>1 DEF TicketsSound
  <2>6. ASSUME NEW j \in Tickets
        PROVE  /\ uses'[j] <= 1
               /\ tickets[j].live => j < nextTicket /\ uses'[j] = 0
               /\ j >= nextTicket => uses'[j] = 0 /\ guesses[j] = 0
               /\ \A e \in Doors : InHand(doors'[e], j) => uses'[j] = 0 /\ ~tickets[j].live
               /\ \A e, f \in Doors : InHand(doors'[e], j) /\ InHand(doors'[f], j) => e = f
    <3>1. CASE j = k
      <4> HIDE DEF k
      <4>1. k \in Int /\ nextTicket \in Int
        BY <2>1, Tables DEF Tickets
      <4> QED BY <2>1, <2>2, <2>4, <2>5, <3>1, <4>1
    <3>2. CASE j # k
      BY <1>1, <2>4, <3>2 DEF TicketsSound
    <3> QED BY <3>1, <3>2
  <2>7. TicketsSound'
    BY <2>6 DEF TicketsSound, InHand
  <2> QED BY <2>4, <2>7
<1> QED BY <1>2, <1>3

\* A token that is new is in nobody's hands, and nobody has tried a code on it.
LEMMA NewTicketKept ==
  ASSUME SignInInv, NEW kind \in {"mfa", "reset"} \cup Flows, NewTicket(kind),
         \A e \in Doors : doors'[e] \in {doors[e], Home}, UNCHANGED <<uses, tries, guesses, resetKey>>
  PROVE  /\ tickets' \in [Tickets -> Ticket] /\ nextTicket' \in 1..(MaxTickets + 1) /\ nextTicket' = nextTicket + 1
         /\ TicketsSound' /\ TriesSound'
<1>1. nextTicket \in Tickets /\ nextTicket' \in 1..(MaxTickets + 1) /\ nextTicket' = nextTicket + 1
  BY Tables DEF NewTicket, Tickets
<1>2. PICK x : x = [kind |-> kind, live |-> TRUE]
  OBVIOUS
<1>3. x \in Ticket /\ x.live
  BY <1>2 DEF Ticket, Flows
<1>4. /\ tickets' \in [Tickets -> Ticket] /\ tickets'[nextTicket].live
      /\ \A j \in Tickets \ {nextTicket} : tickets'[j] = tickets[j]
  BY <1>1, <1>2, <1>3, Tables DEF NewTicket
<1>5. \A e \in Doors : doors[e].ticket \in Int /\ doors[e].ticket < nextTicket
  BY Tables DEF DoorSound
<1>6. /\ \A e \in Doors, k \in Tickets : InHand(doors'[e], k) => InHand(doors[e], k) /\ k < nextTicket
      /\ \A k \in Tickets : Trying(k)' \subseteq Trying(k) /\ (k = nextTicket => Trying(k)' = {})
  <2>1. ASSUME NEW e \in Doors, NEW k \in Tickets
        PROVE  /\ InHand(doors'[e], k) => InHand(doors[e], k) /\ k < nextTicket
               /\ doors'[e].pc = "validate" => doors'[e] = doors[e]
    BY <1>5, HomeSound, HomeFacts DEF InHand
  <2>2. \A k \in Tickets : Trying(k)' \subseteq Trying(k)
    BY <2>1 DEF Trying
  <2>3. Trying(nextTicket) = {}
    BY <1>5, Tables DEF Trying
  <2> QED BY <1>1, <2>1, <2>2, <2>3
<1>7. TicketsSound'
  <2>1. TicketsSound /\ \A k \in Tickets : k \in Int /\ nextTicket \in Int
    BY Tables DEF SignInInv, Tickets
  <2> SUFFICES ASSUME NEW j \in Tickets
               PROVE  /\ uses[j] <= 1
                      /\ tickets'[j].live => j < nextTicket' /\ uses[j] = 0
                      /\ j >= nextTicket' => uses[j] = 0 /\ guesses[j] = 0
                      /\ \A e \in Doors : InHand(doors'[e], j) => uses[j] = 0 /\ ~tickets'[j].live
                      /\ \A e, f \in Doors : InHand(doors'[e], j) /\ InHand(doors'[f], j) => e = f
    BY DEF TicketsSound, InHand
  <2>2. CASE j = nextTicket
    BY <1>1, <1>4, <1>6, <2>1, <2>2 DEF TicketsSound
  <2>3. CASE j # nextTicket
    BY <1>1, <1>4, <1>6, <2>1, <2>3 DEF TicketsSound
  <2> QED BY <2>2, <2>3
<1>8. TriesSound'
  <2> SUFFICES ASSUME NEW j \in Tickets, tickets'[j].live, j \notin resetKey
               PROVE  /\ IsFiniteSet(Trying(j)') /\ guesses[j] + Cardinality(Trying(j)') <= tries[j]
                      /\ guesses[j] + Cardinality(Trying(j)') <= MaxAttempts
    BY DEF TriesSound
  <2>1. guesses[j] \in Nat /\ tries[j] \in Nat /\ MaxAttempts \in Nat /\ j \in Int /\ nextTicket \in Int
    BY Tables, SignInAssumption DEF Tickets
  <2>2. CASE j = nextTicket
    <3>1. Trying(j)' = {} /\ guesses[j] = 0
      BY <1>6, <2>1, <2>2 DEF SignInInv, TicketsSound
    <3> QED BY <2>1, <3>1, FS_EmptySet
  <2>3. CASE j # nextTicket
    <3>1. /\ IsFiniteSet(Trying(j)) /\ guesses[j] + Cardinality(Trying(j)) <= tries[j]
          /\ guesses[j] + Cardinality(Trying(j)) <= MaxAttempts /\ Trying(j)' \subseteq Trying(j)
      BY <1>4, <1>6, <2>3 DEF SignInInv, TriesSound
    <3>2. IsFiniteSet(Trying(j)') /\ Cardinality(Trying(j)') <= Cardinality(Trying(j))
      BY <3>1, FS_Subset
    <3>3. Cardinality(Trying(j)') \in Nat /\ Cardinality(Trying(j)) \in Nat
      BY <3>1, <3>2, FS_CardinalityType
    <3> QED BY <2>1, <3>1, <3>2, <3>3
  <2> QED BY <2>2, <2>3
<1> QED BY <1>1, <1>4, <1>7, <1>8

LEMMA LoginFactorKept == ASSUME SignInInv, NEW d \in Doors, LoginFactor(d) PROVE SignInInv'
<1>1. /\ doors[d].pc = "totpGet" /\ doors[d].op = "login" /\ (~IsSetup(totp) => doors[d].off)
      /\ doors[d].ticket = 0 /\ 0 < nextTicket
  BY Tables DEF LoginFactor, DoorSound
<1>2. CASE GoHome(d) /\ NewTicket("mfa")
  <2>1. \A e \in Doors : doors'[e] \in {doors[e], Home}
    BY <1>2, Tables DEF GoHome
  <2>2. /\ tickets' \in [Tickets -> Ticket] /\ nextTicket' \in 1..(MaxTickets + 1) /\ nextTicket' = nextTicket + 1
        /\ TicketsSound' /\ TriesSound'
    BY <1>2, <2>1, NewTicketKept DEF LoginFactor
  <2>3. DoorSound(Home)' /\ Home \in Door /\ nextTicket <= nextTicket'
    BY <2>2, HomeSound, HomeFacts, Tables DEF DoorSound
  <2>4. ChangeSound'
    BY <1>1, <1>2, ChangeKept, Tables DEF LoginFactor, sessionsOpen, GoHome, Ends
  <2> QED BY <1>2, <2>2, <2>3, <2>4, TokenMoves, Tables
          DEF LoginFactor, GoHome, enrolment, sessionsOpen, SignInInv, SignInTypeOK
<1>3. CASE StepTo(d, "create") /\ ~IsSetup(totp) /\ UNCHANGED <<tickets, nextTicket>>
  <2>1. PICK y \in Door : /\ doors' = [doors EXCEPT ![d] = y] /\ y.pc = "create" /\ y.op = doors[d].op
                          /\ y.ticket = doors[d].ticket /\ y.off = doors[d].off
    BY <1>3, Steps DEF DoorSteps
  <2>2. DoorSound(y)
    BY <1>1, <1>3, <2>1 DEF DoorSound
  <2>3. \A k \in Tickets : ~InHand(y, k)
    BY <1>1, <2>1 DEF InHand, Tickets
  <2> QED BY <1>1, <1>3, <2>1, <2>2, <2>3, DoorMoves DEF LoginFactor, enrolment, sessionsOpen, SignInInv, SignInTypeOK
<1> QED BY <1>2, <1>3 DEF LoginFactor, AsksSecondFactor

\* A request that has a token, or needs none, reaches its effect and ends.
LEMMA TakesEffect ==
  ASSUME SignInInv, NEW d \in Doors, doors[d].pc \in {"create", "record", "putKey"}, UsedBy(doors[d]), GoHome(d),
         UNCHANGED <<signScope, arrivals, pw, away, enrolment, cacheKeys, cutShort>>,
         passkey' \in {"none", "usable", "empty"}, opened' \in [Opened -> OpenedRow],
         nextOpened' \in 1..(MaxOpened + 1),
         \A s \in Opened : opened'[s].live => \/ opened[s].live /\ opened'[s].born = opened[s].born
                                             \/ opened'[s].born = pw
  PROVE  SignInInv'
<1>1. /\ doors' = [doors EXCEPT ![d] = Home] /\ doors'[d] = Home /\ \A e \in Doors \ {d} : doors'[e] = doors[e]
      /\ DoorSound(Home) /\ Home \in Door
  BY HomeSound, HomeFacts, Tables DEF GoHome
<1>2. \A e \in Doors, k \in Tickets : InHand(doors'[e], k) => InHand(doors[e], k) /\ e # d
  BY <1>1, HomeSound
<1>3. TicketsSound' /\ uses' \in [Tickets -> Nat]
  BY <1>2, UsesItsTicket DEF InHand, cacheKeys
<1>4. TriesSound'
  BY <1>1, HomeFacts, TriesKept, Tables DEF cacheKeys
<1>5. \A e \in Doors, s \in Opened : Ends(doors[e], s) => Ends(doors'[e], s)
  BY <1>1 DEF Ends
<1>6. ChangeSound'
  BY <1>5, ChangeKept
<1>7. DoorSound(Home)' /\ nextTicket <= nextTicket'
  BY <1>1, Tables DEF DoorSound, enrolment, cacheKeys
<1> QED BY <1>1, <1>3, <1>4, <1>6, <1>7, TokenMoves, Tables DEF enrolment, cacheKeys, SignInInv, SignInTypeOK

LEMMA CreateSessionKept == ASSUME SignInInv, NEW d \in Doors, CreateSession(d) PROVE SignInInv'
<1>1. PICK proof \in BOOLEAN : OpenSession(proof)
  BY DEF CreateSession
<1>2. PICK x : x = [live |-> TRUE, born |-> pw, proof |-> proof]
  OBVIOUS
<1>3. x \in OpenedRow /\ x.born = pw
  BY <1>2, Tables DEF OpenedRow
<1>4. opened' = [opened EXCEPT ![nextOpened] = x]
  BY <1>1, <1>2 DEF OpenSession
<1>5. nextOpened' \in 1..(MaxOpened + 1)
  BY <1>1, SignInAssumption, Tables DEF OpenSession
<1>6. opened' \in [Opened -> OpenedRow] /\ \A s \in Opened : opened'[s] = opened[s] \/ opened'[s] = x
  BY <1>3, <1>4, Tables
<1> QED BY <1>3, <1>5, <1>6, TakesEffect DEF CreateSession, SignInInv, SignInTypeOK

LEMMA RecordMFAKept == ASSUME SignInInv, NEW d \in Doors, RecordMFA(d) PROVE SignInInv'
<1>1. /\ opened' \in [Opened -> OpenedRow]
      /\ \A i \in Opened : opened'[i].live => opened[i].live /\ opened'[i].born = opened[i].born
  BY ZenonT(30), Tables DEF RecordMFA, OpenedRow
<1> QED BY <1>1, TakesEffect DEF RecordMFA, SignInInv, SignInTypeOK

LEMMA FinishRegistrationKept == ASSUME SignInInv, NEW d \in Doors, FinishRegistration(d) PROVE SignInInv'
BY TakesEffect, Tables DEF FinishRegistration, sessionsOpen

\* A request is answered with a new token.
LEMMA StoresToken ==
  ASSUME SignInInv, NEW d \in Doors, NEW op, Knock(d, op), NEW kind \in {"mfa", "reset"} \cup Flows, NewTicket(kind),
         UNCHANGED <<signScope, pw, away, enrolment, tries, guesses, resetKey, passkey, sessionsOpen, doors, uses,
                     cutShort>>
  PROVE  SignInInv'
<1>1. arrivals' \in 0..signScope.arrivals
  BY Knocks
<1>2. /\ tickets' \in [Tickets -> Ticket] /\ nextTicket' \in 1..(MaxTickets + 1) /\ nextTicket' = nextTicket + 1
      /\ TicketsSound' /\ TriesSound'
  BY NewTicketKept
<1>3. PICK y : y = doors[d]
  OBVIOUS
<1>4. doors' = [doors EXCEPT ![d] = y] /\ y \in Door /\ DoorSound(y)
  BY <1>3, Tables
<1>5. DoorSound(y)' /\ nextTicket <= nextTicket'
  BY <1>2, <1>3, <1>4, Tables DEF DoorSound, enrolment
<1>6. ChangeSound'
  BY ChangeKept DEF sessionsOpen
<1> QED BY <1>1, <1>2, <1>4, <1>5, <1>6, TokenMoves, Tables DEF enrolment, sessionsOpen, SignInInv, SignInTypeOK

\* A step of the MFA challenge on its token.
LEMMA ChallengeMoves ==
  ASSUME SignInInv, NEW d \in Doors, NEW y \in Door, doors' = [doors EXCEPT ![d] = y], DoorSound(y),
         doors[d].pc \notin {"list", "revoke"},
         UNCHANGED <<signScope, arrivals, pw, away, enrolment, nextTicket, passkey, sessionsOpen, uses, cutShort>>,
         tickets' \in [Tickets -> Ticket], tries' \in [Tickets -> 0..(MaxAttempts + 1)],
         guesses' \in [Tickets -> Nat], resetKey' \subseteq Tickets, TicketsSound', TriesSound'
  PROVE  SignInInv'
<1>1. DoorSound(y)'
  BY DEF DoorSound, enrolment
<1>2. \A e \in Doors, s \in Opened : Ends(doors[e], s) => Ends(doors'[e], s)
  BY Tables DEF Ends
<1>3. ChangeSound'
  BY <1>2, ChangeKept DEF sessionsOpen
<1>4. /\ nextTicket <= nextTicket' /\ nextTicket' \in 1..(MaxTickets + 1) /\ arrivals' \in 0..signScope.arrivals
      /\ pw' \in Nat /\ passkey' \in {"none", "usable", "empty"} /\ uses' \in [Tickets -> Nat]
      /\ opened' \in [Opened -> OpenedRow] /\ nextOpened' \in 1..(MaxOpened + 1) /\ cutShort' \in BOOLEAN
  BY Tables DEF sessionsOpen, SignInInv, SignInTypeOK
<1> QED BY <1>1, <1>3, <1>4, TokenMoves DEF enrolment

LEMMA CountAttemptKept == ASSUME SignInInv, NEW d \in Doors, CountAttempt(d) PROVE SignInInv'
<1> DEFINE k == doors[d].ticket
<1>1. doors[d].pc = "incr" /\ doors[d].op = "challenge" /\ k \in Tickets /\ k < nextTicket /\ k # 0
  BY OwnTicket, Tables DEF CountAttempt, DoorSound
<1>2. tries[k] \in 0..(MaxAttempts + 1) /\ MaxAttempts \in Nat
  BY <1>1, SignInAssumption, Tables
<1>3. PICK n : n = IF tries[k] > MaxAttempts THEN tries[k] ELSE tries[k] + 1
  OBVIOUS
<1>4. /\ n \in 0..(MaxAttempts + 1) /\ n \in Nat /\ n >= tries[k]
      /\ n <= MaxAttempts => n = tries[k] + 1
  BY <1>2, <1>3
<1>5. /\ tries' = [tries EXCEPT ![k] = n] /\ tries' \in [Tickets -> 0..(MaxAttempts + 1)] /\ tries'[k] = n
      /\ \A j \in Tickets \ {k} : tries'[j] = tries[j]
  BY <1>1, <1>3, <1>4, Tables DEF CountAttempt
<1>6. PICK pc \in {"dropToken", "validate"} : StepTo(d, pc) /\ (pc = "validate" => n <= MaxAttempts)
  <2>1. n > MaxAttempts \/ n <= MaxAttempts
    BY <1>2, <1>4
  <2> QED BY <1>2, <1>4, <1>5, <2>1 DEF CountAttempt, Exhausted
<1>7. PICK y \in Door : /\ doors' = [doors EXCEPT ![d] = y] /\ y.pc = pc /\ y.op = doors[d].op /\ y.ticket = k
  BY <1>6, Steps DEF DoorSteps
<1>8. doors'[d] = y /\ \A e \in Doors \ {d} : doors'[e] = doors[e]
  BY <1>7, Tables
<1>9. DoorSound(y) /\ \A j \in Tickets : ~InHand(y, j)
  BY <1>1, <1>7 DEF DoorSound, InHand
<1>10. TicketsSound'
  <2>1. \A e \in Doors, j \in Tickets : InHand(doors'[e], j) => InHand(doors[e], j)
    BY <1>8, <1>9
  <2> QED BY <2>1, TicketsKept DEF CountAttempt
<1>11. TriesSound'
  <2> SUFFICES ASSUME NEW j \in Tickets, tickets[j].live, j \notin resetKey
               PROVE  /\ IsFiniteSet(Trying(j)') /\ guesses[j] + Cardinality(Trying(j)') <= tries'[j]
                      /\ guesses[j] + Cardinality(Trying(j)') <= MaxAttempts
    BY DEF TriesSound, CountAttempt
  <2>1. /\ IsFiniteSet(Trying(j)) /\ guesses[j] + Cardinality(Trying(j)) <= tries[j]
        /\ guesses[j] + Cardinality(Trying(j)) <= MaxAttempts
    BY DEF SignInInv, TriesSound
  <2>2. guesses[j] \in Nat /\ tries[j] \in Nat /\ Cardinality(Trying(j)) \in Nat
    BY <2>1, FS_CardinalityType, Tables
  <2>3. CASE j = k /\ pc = "validate"
    <3>1. Trying(j)' = Trying(j) \cup {d} /\ d \notin Trying(j)
      BY <1>1, <1>7, <1>8, <2>3 DEF Trying
    <3>2. IsFiniteSet(Trying(j)') /\ Cardinality(Trying(j)') = Cardinality(Trying(j)) + 1
      BY <2>1, <3>1, FS_AddElement
    <3>3. tries'[j] = tries[j] + 1 /\ tries[j] + 1 <= MaxAttempts
      BY <1>4, <1>5, <1>6, <2>3
    <3> QED BY <1>2, <2>1, <2>2, <3>2, <3>3
  <2>4. CASE ~(j = k /\ pc = "validate")
    <3>1. Trying(j)' = Trying(j)
      BY <1>1, <1>7, <1>8, <2>4 DEF Trying
    <3>2. tries'[j] >= tries[j] /\ tries'[j] \in Nat
      BY <1>4, <1>5, <2>2
    <3> QED BY <2>1, <2>2, <3>1, <3>2
  <2> QED BY <2>3, <2>4
<1> HIDE DEF k
<1> QED BY <1>1, <1>5, <1>7, <1>9, <1>10, <1>11, ChallengeMoves, Tables DEF CountAttempt

LEMMA DropTokenKept == ASSUME SignInInv, NEW d \in Doors, DropToken(d) PROVE SignInInv'
<1>1. doors[d].pc = "dropToken" /\ doors[d].op = "challenge" /\ doors[d].ticket \in Tickets /\ DoorSound(doors[d])
  BY OwnTicket, Tables DEF DropToken, DoorSound
<1>2. tickets' \in [Tickets -> Ticket] /\ \A k \in Tickets : tickets'[k].live => tickets[k].live
  <2>1. CASE Take(doors[d].ticket)
    BY <1>1, <2>1, Taken
  <2>2. CASE UNCHANGED tickets
    BY <2>2, Tables
  <2> QED BY <2>1, <2>2 DEF DropToken
<1>3. PICK y \in Door : /\ doors' = [doors EXCEPT ![d] = y] /\ y.pc = "dropCounter" /\ y.op = doors[d].op
                        /\ y.ticket = doors[d].ticket
  BY Steps DEF DropToken, DoorSteps
<1>4. doors'[d] = y /\ \A e \in Doors \ {d} : doors'[e] = doors[e]
  BY <1>3, Tables
<1>5. DoorSound(y) /\ \A j \in Tickets : ~InHand(y, j)
  BY <1>1, <1>3 DEF DoorSound, InHand
<1>6. TicketsSound'
  <2>1. \A e \in Doors, j \in Tickets : InHand(doors'[e], j) => InHand(doors[e], j)
    BY <1>4, <1>5
  <2> QED BY <1>2, <2>1, TicketsKept DEF DropToken
<1>7. TriesSound'
  <2>1. \A e \in Doors : doors'[e].pc = "validate" /\ doors'[e].ticket # 0 =>
                           doors[e].pc = "validate" /\ doors[e].ticket = doors'[e].ticket
    BY <1>3, <1>4
  <2> QED BY <1>2, <2>1, TriesKept, Tables DEF DropToken
<1> QED BY <1>1, <1>2, <1>3, <1>5, <1>6, <1>7, ChallengeMoves, Tables DEF DropToken

LEMMA DropCounterKept == ASSUME SignInInv, NEW d \in Doors, DropCounter(d) PROVE SignInInv'
<1> DEFINE k == doors[d].ticket
<1>1. doors[d].pc = "dropCounter" /\ k \in Tickets
  BY OwnTicket, Tables DEF DropCounter, DoorSound
<1>2. /\ tries' \in [Tickets -> 0..(MaxAttempts + 1)] /\ \A j \in Tickets \ {k} : tries'[j] = tries[j]
      /\ resetKey \subseteq resetKey' /\ resetKey' \subseteq Tickets /\ (tickets[k].live => k \in resetKey')
  <2>1. 0 \in 0..(MaxAttempts + 1)
    BY SignInAssumption
  <2> QED BY <1>1, <2>1, Tables DEF DropCounter
<1>3. /\ doors' = [doors EXCEPT ![d] = Home] /\ \A e \in Doors : doors'[e] = IF e = d THEN Home ELSE doors[e]
      /\ DoorSound(Home) /\ Home \in Door
  BY HomeSound, HomeFacts, Tables DEF DropCounter, GoHome
<1>4. TicketsSound'
  <2>1. \A e \in Doors, j \in Tickets : InHand(doors'[e], j) => InHand(doors[e], j)
    BY <1>3, HomeSound
  <2> QED BY <2>1, TicketsKept DEF DropCounter
<1>5. TriesSound'
  <2>1. \A e \in Doors : doors'[e].pc = "validate" /\ doors'[e].ticket # 0 =>
                           doors[e].pc = "validate" /\ doors[e].ticket = doors'[e].ticket
    BY <1>3, HomeFacts
  <2>2. \A j \in Tickets : tickets'[j].live /\ j \notin resetKey' =>
                             /\ tickets[j].live /\ j \notin resetKey
                             /\ guesses'[j] = guesses[j] /\ tries'[j] \in Nat /\ tries'[j] >= tries[j]
    BY <1>2, Tables DEF DropCounter
  <2> QED BY <2>1, <2>2, TriesKept
<1> HIDE DEF k
<1> QED BY <1>1, <1>2, <1>3, <1>4, <1>5, ChallengeMoves, Tables DEF DropCounter

LEMMA ClearCounterKept == ASSUME SignInInv, NEW d \in Doors, ClearCounter(d) PROVE SignInInv'
<1> DEFINE k == doors[d].ticket
<1>1. doors[d].pc = "clear" /\ doors[d].op = "challenge" /\ k \in Tickets /\ k < nextTicket /\ k # 0
  BY OwnTicket, Tables DEF ClearCounter, DoorSound
<1>2. ~tickets[k].live
  BY <1>1 DEF SignInInv, TicketsSound, InHand
<1>3. tries' \in [Tickets -> 0..(MaxAttempts + 1)] /\ \A j \in Tickets \ {k} : tries'[j] = tries[j]
  <2>1. 0 \in 0..(MaxAttempts + 1)
    BY SignInAssumption
  <2> QED BY <1>1, <2>1, Tables DEF ClearCounter
<1>4. PICK y \in Door : /\ doors' = [doors EXCEPT ![d] = y] /\ y.pc = "user" /\ y.op = doors[d].op
                        /\ y.ticket = k
  BY Steps DEF ClearCounter, DoorSteps
<1>5. \A e \in Doors : doors'[e] = IF e = d THEN y ELSE doors[e]
  BY <1>4, Tables
<1>6. DoorSound(y) /\ \A j \in Tickets : InHand(y, j) => InHand(doors[d], j)
  BY <1>1, <1>4 DEF DoorSound, InHand
<1>7. TicketsSound'
  <2>1. \A e \in Doors, j \in Tickets : InHand(doors'[e], j) => InHand(doors[e], j)
    BY <1>5, <1>6
  <2> QED BY <2>1, TicketsKept DEF ClearCounter
<1>8. TriesSound'
  <2>1. \A e \in Doors : doors'[e].pc = "validate" /\ doors'[e].ticket # 0 =>
                           doors[e].pc = "validate" /\ doors[e].ticket = doors'[e].ticket
    BY <1>4, <1>5
  <2>2. \A j \in Tickets : tickets'[j].live /\ j \notin resetKey' =>
                             /\ tickets[j].live /\ j \notin resetKey
                             /\ guesses'[j] = guesses[j] /\ tries'[j] \in Nat /\ tries'[j] >= tries[j]
    BY <1>2, <1>3, Tables DEF ClearCounter
  <2> QED BY <2>1, <2>2, TriesKept
<1> HIDE DEF k
<1> QED BY <1>1, <1>3, <1>4, <1>6, <1>7, <1>8, ChallengeMoves, Tables DEF ClearCounter

LEMMA ClaimKept == ASSUME SignInInv, NEW d \in Doors, Claim(d) PROVE SignInInv'
<1> DEFINE k == doors[d].ticket
<1>1. doors[d].pc = "claim" /\ doors[d].op = "challenge" /\ k \in Tickets /\ k < nextTicket /\ k # 0
  BY OwnTicket, Tables DEF Claim, DoorSound
<1>2. CASE tickets[k].live /\ Take(k) /\ StepTo(d, "clear")
  <2>1. tickets' \in [Tickets -> Ticket] /\ \A j \in Tickets : tickets'[j].live => tickets[j].live
    BY <1>1, <1>2, Taken
  <2>2. PICK y \in Door : /\ doors' = [doors EXCEPT ![d] = y] /\ y.pc = "clear" /\ y.op = doors[d].op /\ y.ticket = k
    BY <1>2, Steps DEF DoorSteps
  <2>3. \A e \in Doors : doors'[e] = IF e = d THEN y ELSE doors[e]
    BY <2>2, Tables
  <2>4. DoorSound(y) /\ \A j \in Tickets : InHand(y, j) => j = k
    BY <1>1, <2>2 DEF DoorSound, InHand
  <2>5. TicketsSound'
    <3>1. \A e \in Doors, j \in Tickets : InHand(doors'[e], j) => InHand(doors[e], j) \/ (e = d /\ j = k)
      BY <2>3, <2>4
    <3> HIDE DEF k
    <3> QED BY <1>1, <1>2, <3>1, TakenOnce DEF Claim
  <2>6. TriesSound'
    <3>1. \A e \in Doors : doors'[e].pc = "validate" /\ doors'[e].ticket # 0 =>
                             doors[e].pc = "validate" /\ doors[e].ticket = doors'[e].ticket
      BY <2>2, <2>3
    <3> QED BY <2>1, <3>1, TriesKept, Tables DEF Claim
  <2> HIDE DEF k
  <2> QED BY <1>1, <2>1, <2>2, <2>4, <2>5, <2>6, ChallengeMoves, Tables DEF Claim
<1>3. CASE GoHome(d) /\ UNCHANGED tickets
  BY <1>1, <1>3, GoesHome, Tables DEF Claim, enrolment, sessionsOpen, SignInInv, SignInTypeOK
<1> QED BY <1>2, <1>3 DEF Claim, Found

\* Where a request goes once its code was looked at.
LEMMA Validated ==
  ASSUME SignInInv, NEW d \in Doors, Validate(d)
  PROVE  \E y \in Door : /\ doors' = [doors EXCEPT ![d] = y] /\ DoorSound(y)
                         /\ y.pc # "validate" /\ \A k \in Tickets : ~InHand(y, k)
<1>1. /\ doors[d].pc = "validate" /\ doors[d].op \in {"challenge", "stepUp"} /\ DoorSound(doors[d])
      /\ doors[d] \in Door /\ doors \in [Doors -> Door]
  BY Tables DEF Validate, DoorSound
<1>2. CASE GoHome(d)
  BY <1>2, HomeSound, HomeFacts DEF GoHome
<1>3. CASE StepTo(d, Accepted(doors[d].op))
  <2>1. PICK pc \in DoorSteps : pc = Accepted(doors[d].op)
    BY DEF Accepted, DoorSteps
  <2>2. PICK y \in Door : doors' = [doors EXCEPT ![d] = y] /\ y.pc = pc /\ y.op = doors[d].op /\ y.ticket = doors[d].ticket
    BY <1>3, <2>1, Steps
  <2>3. DoorSound(y) /\ y.pc # "validate"
    BY <1>1, <2>1, <2>2 DEF Accepted, DoorSound
  <2>4. \A k \in Tickets : ~InHand(y, k)
    BY <1>1, <2>1, <2>2 DEF Accepted, DoorSound, InHand, Tickets
  <2> QED BY <2>2, <2>3, <2>4
<1> QED BY <1>2, <1>3 DEF Validate

LEMMA ValidateKept == ASSUME SignInInv, NEW d \in Doors, Validate(d) PROVE SignInInv'
<1> DEFINE k == doors[d].ticket
<1>1. PICK y \in Door : /\ doors' = [doors EXCEPT ![d] = y] /\ DoorSound(y)
                        /\ y.pc # "validate" /\ \A j \in Tickets : ~InHand(y, j)
  BY Validated
<1>2. doors[d].pc = "validate" /\ \A e \in Doors : doors'[e] = IF e = d THEN y ELSE doors[e]
  BY <1>1, Tables DEF Validate
<1>3. /\ guesses' \in [Tickets -> Nat]
      /\ \A j \in Tickets : guesses'[j] = IF j = k /\ tickets[k].live THEN guesses[j] + 1 ELSE guesses[j]
  <2>1. CASE k \in Tickets /\ tickets[k].live
    <3>1. PICK n \in Nat : n = guesses[k] + 1
      BY <2>1, Tables
    <3>2. k # 0 /\ guesses' = [guesses EXCEPT ![k] = n]
      BY <2>1, <3>1, Tables DEF Validate, Tickets
    <3> QED BY <2>1, <3>1, <3>2, Tables
  <2>2. CASE ~(k \in Tickets /\ tickets[k].live)
    BY <2>2, OwnTicket, Tables DEF Validate
  <2> QED BY <2>1, <2>2
<1>4. TicketsSound'
  <2>1. \A e \in Doors, j \in Tickets : InHand(doors'[e], j) => InHand(doors[e], j)
    BY <1>1, <1>2
  <2>2. \A j \in Tickets : j >= nextTicket => guesses'[j] = guesses[j]
    <3>1. \A j \in Tickets : tickets[j].live => j < nextTicket
      BY DEF SignInInv, TicketsSound
    <3>2. \A j \in Tickets : j \in Int /\ nextTicket \in Int
      BY Tables DEF Tickets
    <3> QED BY <1>3, <3>1, <3>2
  <2> QED BY <2>1, <2>2, TicketsKept DEF Validate
<1>5. TriesSound'
  <2> SUFFICES ASSUME NEW j \in Tickets, tickets[j].live, j \notin resetKey
               PROVE  /\ IsFiniteSet(Trying(j)') /\ guesses'[j] + Cardinality(Trying(j)') <= tries[j]
                      /\ guesses'[j] + Cardinality(Trying(j)') <= MaxAttempts
    BY DEF TriesSound, Validate
  <2>1. /\ IsFiniteSet(Trying(j)) /\ guesses[j] + Cardinality(Trying(j)) <= tries[j]
        /\ guesses[j] + Cardinality(Trying(j)) <= MaxAttempts
    BY DEF SignInInv, TriesSound
  <2>2. guesses[j] \in Nat /\ tries[j] \in Nat /\ Cardinality(Trying(j)) \in Nat /\ MaxAttempts \in Nat
    BY <2>1, FS_CardinalityType, Tables, SignInAssumption
  <2>3. Trying(j)' = Trying(j) \ {d} /\ (d \in Trying(j) <=> j = k)
    BY <1>1, <1>2 DEF Trying
  <2>4. /\ IsFiniteSet(Trying(j)')
        /\ Cardinality(Trying(j)') = IF d \in Trying(j) THEN Cardinality(Trying(j)) - 1 ELSE Cardinality(Trying(j))
    BY <2>1, <2>3, FS_RemoveElement
  <2>5. guesses'[j] = IF d \in Trying(j) THEN guesses[j] + 1 ELSE guesses[j]
    BY <1>3, <2>3
  <2> QED BY <2>1, <2>2, <2>4, <2>5
<1> QED BY <1>1, <1>2, <1>3, <1>4, <1>5, ChallengeMoves, Tables DEF Validate

-----------------------------------------------------------------------------
(* Tokens that are taken *)

\* A step that takes a live token and hands it to the request y.
LEMMA TakesToken ==
  ASSUME SignInInv, NEW d \in Doors, NEW k \in Tickets, tickets[k].live, Take(k), NEW y \in Door,
         doors' = [doors EXCEPT ![d] = y], DoorSound(y), doors[d].pc \notin {"list", "revoke"},
         y.pc = "validate" => y = doors[d], \A j \in Tickets : InHand(y, j) => j = k \/ InHand(doors[d], j),
         arrivals' \in 0..signScope.arrivals,
         UNCHANGED <<signScope, pw, away, enrolment, tries, nextTicket, guesses, resetKey, passkey, sessionsOpen,
                     uses, cutShort>>
  PROVE  SignInInv'
<1>1. tickets' \in [Tickets -> Ticket] /\ \A j \in Tickets : tickets'[j].live => tickets[j].live
  BY Taken
<1>2. \A e \in Doors : doors'[e] = IF e = d THEN y ELSE doors[e]
  BY Tables
<1>3. TicketsSound'
  <2>1. \A e \in Doors, j \in Tickets : InHand(doors'[e], j) => InHand(doors[e], j) \/ (e = d /\ j = k)
    BY <1>2
  <2> QED BY <2>1, TakenOnce
<1>4. TriesSound'
  <2>1. \A e \in Doors : doors'[e].pc = "validate" /\ doors'[e].ticket # 0 =>
                           doors[e].pc = "validate" /\ doors[e].ticket = doors'[e].ticket
    BY <1>2
  <2> QED BY <1>1, <2>1, TriesKept, Tables
<1>5. \A e \in Doors, s \in Opened : Ends(doors[e], s) => Ends(doors'[e], s)
  BY <1>2 DEF Ends
<1>6. ChangeSound'
  BY <1>5, ChangeKept DEF sessionsOpen
<1>7. DoorSound(y)'
  BY DEF DoorSound, enrolment
<1>8. /\ nextTicket <= nextTicket' /\ nextTicket' \in 1..(MaxTickets + 1) /\ pw' \in Nat
      /\ passkey' \in {"none", "usable", "empty"} /\ uses' \in [Tickets -> Nat] /\ guesses' \in [Tickets -> Nat]
      /\ tries' \in [Tickets -> 0..(MaxAttempts + 1)] /\ resetKey' \subseteq Tickets
      /\ opened' \in [Opened -> OpenedRow] /\ nextOpened' \in 1..(MaxOpened + 1) /\ cutShort' \in BOOLEAN
  BY Tables DEF sessionsOpen, SignInInv, SignInTypeOK
<1> QED BY <1>1, <1>3, <1>4, <1>6, <1>7, <1>8, TokenMoves DEF enrolment

LEMMA LiveTicket ==
  ASSUME SignInInv, NEW k \in Tickets, tickets[k].live
  PROVE  k \in 0..MaxTickets /\ k # 0 /\ k < nextTicket
BY Tables DEF SignInInv, TicketsSound, Tickets

LEMMA TicketExpiresKept == ASSUME SignInInv, NEW k \in Tickets, TicketExpires(k) PROVE SignInInv'
<1>1. tickets' \in [Tickets -> Ticket] /\ \A j \in Tickets : tickets'[j].live => tickets[j].live
  BY Taken DEF TicketExpires
<1>2. TicketsSound'
  BY <1>1, TicketsKept DEF TicketExpires
<1>3. TriesSound'
  BY <1>1, TriesKept, Tables DEF TicketExpires
<1>4. ChangeSound'
  BY ChangeKept DEF TicketExpires, sessionsOpen
<1>5. SignInTypeOK'
  BY <1>1 DEF TicketExpires, enrolment, sessionsOpen, SignInInv, SignInTypeOK
<1>6. \A e \in Doors : DoorSound(doors[e])'
  BY Tables DEF TicketExpires, enrolment, DoorSound
<1> QED BY <1>2, <1>3, <1>4, <1>5, <1>6 DEF TicketExpires, enrolment, SignInInv

\* The challenge is lost, or the request goes on with it in hand.
LEMMA ConsumeChallengeKept ==
  ASSUME SignInInv, NEW d \in Doors, NEW k \in Tickets, NEW flow \in Flows, NEW by \in 0..MaxOpened,
         NEW valid \in BOOLEAN, NEW pc \in {"touch", "putKey"}, ConsumeChallenge(d, k, flow, by, valid, pc)
  PROVE  SignInInv'
<1>1. doors[d].pc = "idle" /\ arrivals' \in 0..signScope.arrivals /\ tickets[k].live
  BY Knocks DEF ConsumeChallenge, Found
<1>2. k \in 0..MaxTickets /\ k # 0 /\ k < nextTicket
  BY <1>1, LiveTicket
<1>3. CASE EnterAs(d, [Home EXCEPT !.pc = pc, !.op = flow, !.by = by, !.ticket = k])
  <2>1. PICK y : y = [Home EXCEPT !.pc = pc, !.op = flow, !.by = by, !.ticket = k]
    OBVIOUS
  <2>2. pc \in DoorSteps /\ flow \in DoorOps /\ flow \notin {"login", "challenge", "stepUp"}
    BY DEF DoorSteps, DoorOps, Flows
  <2>3. y \in Door /\ y.pc = pc /\ y.op = flow /\ y.ticket = k
    BY <1>2, <2>1, <2>2, HomeFacts DEF Door
  <2>4. doors' = [doors EXCEPT ![d] = y]
    BY <1>3, <2>1 DEF EnterAs
  <2>5. DoorSound(y) /\ \A j \in Tickets : InHand(y, j) => j = k
    BY <1>2, <2>2, <2>3 DEF DoorSound, InHand
  <2> QED BY <1>1, <2>3, <2>4, <2>5, TakesToken DEF ConsumeChallenge
<1>4. CASE UNCHANGED doors
  <2>1. PICK y : y = doors[d]
    OBVIOUS
  <2>2. y \in Door /\ doors' = [doors EXCEPT ![d] = y] /\ DoorSound(y)
    BY <1>4, <2>1, Tables
  <2> QED BY <1>1, <2>1, <2>2, TakesToken DEF ConsumeChallenge
<1> QED BY <1>3, <1>4 DEF ConsumeChallenge

LEMMA BeginKept ==
  ASSUME SignInInv, NEW d \in Doors, NEW s \in Opened, AuthenticateBegin(d) \/ RegisterBegin(d, s) \/ StepUpBegin(d, s)
  PROVE  SignInInv'
<1>1. "keyLogin" \in Flows /\ "keyStepUp" \in Flows /\ "keyRegister" \in Flows
  BY DEF Flows
<1> QED BY <1>1, StoresToken DEF AuthenticateBegin, RegisterBegin, StepUpBegin, StoreChallenge

LEMMA CompleteKept ==
  ASSUME SignInInv, NEW d \in Doors, NEW k \in Tickets, NEW s \in Opened,
         AuthenticateComplete(d, k) \/ StepUpComplete(d, k, s) \/ RegisterComplete(d, k, s)
  PROVE  SignInInv'
<1>1. s \in 0..MaxOpened /\ 0 \in 0..MaxOpened
  BY SignInAssumption DEF Opened
<1>2. "keyLogin" \in Flows /\ "keyStepUp" \in Flows /\ "keyRegister" \in Flows
  BY DEF Flows
<1>3. CASE AuthenticateComplete(d, k)
  BY <1>1, <1>2, <1>3, ConsumeChallengeKept DEF AuthenticateComplete
<1>4. CASE StepUpComplete(d, k, s)
  BY <1>1, <1>2, <1>4, ConsumeChallengeKept DEF StepUpComplete
<1>5. CASE RegisterComplete(d, k, s)
  BY <1>1, <1>2, <1>5, ConsumeChallengeKept DEF RegisterComplete
<1> QED BY <1>3, <1>4, <1>5

LEMMA ForgotPasswordKept == ASSUME SignInInv, NEW d \in Doors, ForgotPassword(d) PROVE SignInInv'
BY StoresToken DEF ForgotPassword

LEMMA ResetKept ==
  ASSUME SignInInv, NEW d \in Doors, NEW k \in Tickets, ResetPassword(d, k) PROVE SignInInv'
<1>1. doors[d].pc = "idle" /\ arrivals' \in 0..signScope.arrivals /\ tickets[k].live
  BY Knocks DEF ResetPassword, Found
<1>2. k \in 0..MaxTickets /\ k # 0 /\ k < nextTicket
  BY <1>1, LiveTicket
<1>3. PICK y : y = [Home EXCEPT !.pc = "setPassword", !.op = "reset", !.ticket = k]
  OBVIOUS
<1>4. y \in Door /\ y.pc = "setPassword" /\ y.op = "reset" /\ y.ticket = k
  BY <1>2, <1>3, HomeFacts DEF Door, DoorSteps, DoorOps
<1>5. doors' = [doors EXCEPT ![d] = y]
  BY <1>3 DEF ResetPassword, EnterAs
<1>6. DoorSound(y) /\ \A j \in Tickets : InHand(y, j) => j = k
  BY <1>2, <1>4 DEF DoorSound, InHand
<1> QED BY <1>1, <1>4, <1>5, <1>6, TakesToken DEF ResetPassword

-----------------------------------------------------------------------------
(* Changes of the password *)

\* A step of a change on the sessions.
LEMMA RevocationMoves ==
  ASSUME SignInInv, NEW d \in Doors, NEW y \in Door, doors' = [doors EXCEPT ![d] = y], DoorSound(y),
         y.pc \notin {"validate", "create", "record", "putKey", "setPassword", "clear", "user", "touch"},
         UNCHANGED <<signScope, arrivals, away, enrolment, cacheKeys, passkey, nextOpened, uses>>,
         pw' \in Nat, opened' \in [Opened -> OpenedRow], cutShort' \in BOOLEAN, ChangeSound'
  PROVE  SignInInv'
<1>1. \A e \in Doors : doors'[e] = IF e = d THEN y ELSE doors[e]
  BY Tables
<1>2. TicketsSound'
  <2>1. \A e \in Doors, j \in Tickets : InHand(doors'[e], j) => InHand(doors[e], j)
    BY <1>1 DEF InHand
  <2> QED BY <2>1, TicketsKept DEF cacheKeys
<1>3. TriesSound'
  <2>1. \A e \in Doors : doors'[e].pc = "validate" /\ doors'[e].ticket # 0 =>
                           doors[e].pc = "validate" /\ doors[e].ticket = doors'[e].ticket
    BY <1>1
  <2> QED BY <2>1, TriesKept, Tables DEF cacheKeys
<1>4. DoorSound(y)'
  BY DEF DoorSound, enrolment, cacheKeys
<1>5. /\ nextTicket <= nextTicket' /\ nextTicket' \in 1..(MaxTickets + 1) /\ arrivals' \in 0..signScope.arrivals
      /\ passkey' \in {"none", "usable", "empty"} /\ uses' \in [Tickets -> Nat] /\ guesses' \in [Tickets -> Nat]
      /\ tickets' \in [Tickets -> Ticket] /\ tries' \in [Tickets -> 0..(MaxAttempts + 1)]
      /\ resetKey' \subseteq Tickets /\ nextOpened' \in 1..(MaxOpened + 1)
  BY Tables DEF cacheKeys, SignInInv, SignInTypeOK
<1> QED BY <1>2, <1>3, <1>4, <1>5, TokenMoves DEF enrolment

LEMMA WritePasswordHashKept == ASSUME SignInInv, NEW d \in Doors, WritePasswordHash(d) PROVE SignInInv'
<1>1. /\ doors[d].pc = "setPassword" /\ doors[d].op \in {"reset", "change"} /\ DoorSound(doors[d])
      /\ pw' \in Nat /\ doors[d].by \in 0..MaxOpened
  BY Tables DEF WritePasswordHash, DoorSound
<1>2. PICK y \in Door : /\ doors' = [doors EXCEPT ![d] = y] /\ y.pc = "list" /\ y.op = doors[d].op
                        /\ y.ticket = doors[d].ticket /\ y.by = doors[d].by
  BY Steps DEF WritePasswordHash, AfterPassword, DoorSteps
<1>3. \A e \in Doors : doors'[e] = IF e = d THEN y ELSE doors[e]
  BY <1>2, Tables
<1>4. DoorSound(y) /\ \A k \in Tickets : ~InHand(y, k)
  BY <1>1, <1>2 DEF DoorSound, InHand
<1>5. TicketsSound' /\ uses' \in [Tickets -> Nat]
  <2>1. \A e \in Doors, j \in Tickets : InHand(doors'[e], j) => InHand(doors[e], j) /\ e # d
    BY <1>3, <1>4
  <2>2. InHand(doors[d], doors[d].ticket)
    BY <1>1 DEF InHand
  <2> QED BY <2>1, <2>2, UsesItsTicket DEF WritePasswordHash, cacheKeys
<1>6. TriesSound'
  <2>1. \A e \in Doors : doors'[e].pc = "validate" /\ doors'[e].ticket # 0 =>
                           doors[e].pc = "validate" /\ doors[e].ticket = doors'[e].ticket
    BY <1>2, <1>3
  <2> QED BY <2>1, TriesKept, Tables DEF WritePasswordHash, cacheKeys
<1>7. /\ opened' \in [Opened -> OpenedRow]
      /\ \A s \in Opened : opened'[s].live /\ opened'[s].born # pw' => s # doors[d].by
  <2>1. CASE doors[d].by = 0
    <3>1. \A s \in Opened : s # 0
      BY DEF Opened
    <3> QED BY <2>1, <3>1, Tables DEF WritePasswordHash
  <2>2. CASE doors[d].by # 0
    <3>1. doors[d].by \in Opened
      BY <1>1, <2>2, SignInAssumption DEF Opened
    <3>2. PICK x : x = [opened[doors[d].by] EXCEPT !.born = pw']
      OBVIOUS
    <3>3. x \in OpenedRow /\ x.born = pw'
      BY <1>1, <3>1, <3>2, Tables DEF OpenedRow
    <3>4. opened' = [opened EXCEPT ![doors[d].by] = x]
      BY <2>2, <3>1, <3>2, Tables DEF WritePasswordHash
    <3> QED BY <3>1, <3>3, <3>4, Tables
  <2> QED BY <2>1, <2>2
<1>8. ChangeSound'
  <2>1. \A s \in Opened : opened'[s].live /\ opened'[s].born # pw' => Ends(doors'[d], s)
    BY <1>2, <1>3, <1>7 DEF Ends
  <2> QED BY <2>1 DEF ChangeSound, Ends
<1>9. DoorSound(y)' /\ nextTicket <= nextTicket'
  BY <1>4, Tables DEF DoorSound, WritePasswordHash, enrolment, cacheKeys
<1>10. /\ nextTicket' \in 1..(MaxTickets + 1) /\ arrivals' \in 0..signScope.arrivals
       /\ passkey' \in {"none", "usable", "empty"} /\ guesses' \in [Tickets -> Nat]
       /\ tickets' \in [Tickets -> Ticket] /\ tries' \in [Tickets -> 0..(MaxAttempts + 1)]
       /\ resetKey' \subseteq Tickets /\ nextOpened' \in 1..(MaxOpened + 1) /\ cutShort' \in BOOLEAN
  BY Tables DEF WritePasswordHash, cacheKeys, SignInInv, SignInTypeOK
<1> QED BY <1>1, <1>2, <1>4, <1>5, <1>6, <1>7, <1>8, <1>9, <1>10, TokenMoves DEF WritePasswordHash, enrolment

LEMMA ListSessionsKept == ASSUME SignInInv, NEW d \in Doors, ListSessions(d) PROVE SignInInv'
<1>1. /\ doors[d].pc = "list" /\ doors[d].op \in {"reset", "change"} /\ DoorSound(doors[d]) /\ doors[d] \in Door
  BY Tables DEF ListSessions, DoorSound
<1>2. PICK L : L = {s \in Opened : opened[s].live} \ {doors[d].by}
  OBVIOUS
<1>3. PICK y : y = [doors[d] EXCEPT !.pc = "revoke", !.listed = L]
  OBVIOUS
<1>4. /\ y \in Door /\ y.pc = "revoke" /\ y.listed = L /\ y.op = doors[d].op /\ y.ticket = doors[d].ticket
  BY <1>1, <1>2, <1>3 DEF Door, DoorSteps
<1>5. doors' = [doors EXCEPT ![d] = y]
  BY <1>2, <1>3 DEF ListSessions, EnterAs
<1>6. DoorSound(y)
  BY <1>1, <1>4 DEF DoorSound
<1>7. \A e \in Doors : doors'[e] = IF e = d THEN y ELSE doors[e]
  BY <1>5, Tables
<1>8. ChangeSound'
  <2> SUFFICES ASSUME ~cutShort, NEW s \in Opened, opened[s].live, opened[s].born # pw
               PROVE  \E e \in Doors : Ends(doors'[e], s)
    BY DEF ListSessions, sessionsOpen, ChangeSound, Ends
  <2>1. PICK e \in Doors : Ends(doors[e], s)
    BY DEF SignInInv, ChangeSound
  <2>2. Ends(doors'[e], s)
    BY <1>1, <1>2, <1>4, <1>7, <2>1 DEF Ends
  <2> QED BY <2>2
<1>9. pw' \in Nat /\ opened' \in [Opened -> OpenedRow] /\ cutShort' \in BOOLEAN
  BY Tables DEF ListSessions, sessionsOpen, SignInInv, SignInTypeOK
<1> QED BY <1>4, <1>5, <1>6, <1>8, <1>9, RevocationMoves DEF ListSessions, sessionsOpen

LEMMA RevokeListedKept == ASSUME SignInInv, NEW d \in Doors, RevokeListed(d) PROVE SignInInv'
<1>1. /\ doors' = [doors EXCEPT ![d] = Home] /\ \A e \in Doors : doors'[e] = IF e = d THEN Home ELSE doors[e]
      /\ DoorSound(Home) /\ Home \in Door /\ doors[d].pc = "revoke"
  BY HomeSound, HomeFacts, Tables DEF RevokeListed, GoHome
<1>2. /\ opened' \in [Opened -> OpenedRow]
      /\ \A s \in Opened : opened'[s].born = opened[s].born
                           /\ (opened'[s].live => opened[s].live /\ s \notin doors[d].listed)
  BY Tables DEF RevokeListed, OpenedRow
<1>3. ChangeSound'
  <2> SUFFICES ASSUME ~cutShort, NEW s \in Opened, opened'[s].live, opened'[s].born # pw
               PROVE  \E e \in Doors : Ends(doors'[e], s)
    BY DEF RevokeListed, ChangeSound, Ends
  <2>1. PICK e \in Doors : Ends(doors[e], s)
    BY <1>2 DEF SignInInv, ChangeSound
  <2>2. Ends(doors'[e], s)
    BY <1>1, <1>2, <2>1 DEF Ends
  <2> QED BY <2>2
<1>4. pw' \in Nat /\ cutShort' \in BOOLEAN
  BY Tables DEF RevokeListed, SignInInv, SignInTypeOK
<1> QED BY <1>1, <1>2, <1>3, <1>4, RevocationMoves, HomeFacts DEF RevokeListed

LEMMA DoorFailsKept == ASSUME SignInInv, NEW d \in Doors, DoorFails(d) PROVE SignInInv'
<1>1. CASE doors[d].pc \in {"list", "revoke"}
  <2>1. cutShort' = TRUE
    BY <1>1 DEF DoorFails
  <2>2. ChangeSound'
    BY <2>1 DEF ChangeSound
  <2>3. doors' = [doors EXCEPT ![d] = Home] /\ DoorSound(Home) /\ Home \in Door
    BY HomeSound, HomeFacts DEF DoorFails, GoHome
  <2>4. pw' \in Nat /\ opened' \in [Opened -> OpenedRow]
    BY Tables DEF DoorFails, sessionsOpen
  <2> QED BY <2>1, <2>2, <2>3, <2>4, RevocationMoves, HomeFacts DEF DoorFails, sessionsOpen
<1>2. CASE doors[d].pc \notin {"list", "revoke"}
  <2>1. cutShort' = cutShort
    BY <1>2 DEF DoorFails, SignInInv, SignInTypeOK
  <2> QED BY <1>2, <2>1, GoesHome, Tables DEF DoorFails, enrolment, cacheKeys, sessionsOpen, SignInInv, SignInTypeOK
<1> QED BY <1>1, <1>2

-----------------------------------------------------------------------------
(* Changes of the second factor *)

\* The same request: only what it has seen of the second factor may have grown.
Alike(x, y) ==
  /\ y.pc = x.pc /\ y.op = x.op /\ y.by = x.by /\ y.ticket = x.ticket /\ y.guess = x.guess /\ y.totp = x.totp
  /\ y.listed = x.listed /\ (x.off => y.off)

\* What NoteOff does to a table of requests ds.
LEMMA Noted ==
  ASSUME NEW ds \in [Doors -> Door], NEW n, n = NoteOff(ds)
  PROVE  /\ n \in [Doors -> Door]
         /\ \A e \in Doors : /\ Alike(ds[e], n[e])
                             /\ ds[e].pc # "idle" /\ ~IsSetup(totp') => n[e].off
<1> SUFFICES ASSUME NEW e \in Doors
             PROVE  /\ n[e] \in Door /\ Alike(ds[e], n[e])
                    /\ ds[e].pc # "idle" /\ ~IsSetup(totp') => n[e].off
  BY DEF NoteOff
<1>1. ds[e] \in Door
  OBVIOUS
<1>2. CASE ds[e].pc = "idle"
  BY <1>1, <1>2 DEF NoteOff, Alike
<1>3. CASE ds[e].pc # "idle"
  <2>1. PICK b \in BOOLEAN : b = (ds[e].off \/ ~IsSetup(totp'))
    OBVIOUS
  <2>2. n[e] = [ds[e] EXCEPT !.off = b]
    BY <1>3, <2>1 DEF NoteOff
  <2> QED BY <1>1, <2>1, <2>2 DEF Door, Alike
<1> QED BY <1>2, <1>3

\* A step that changes the row: the request d goes on as y, and the others stay where
\* they are.
LEMMA EnrolmentMoves ==
  ASSUME SignInInv, NEW d \in Doors, NEW y \in Door, DoorSound(y), doors[d].pc \notin {"list", "revoke"},
         y.pc = "validate" => y = doors[d], \A k \in Tickets : InHand(y, k) => InHand(doors[d], k),
         doors' \in [Doors -> Door], Alike(y, doors'[d]), \A e \in Doors \ {d} : Alike(doors[e], doors'[e]),
         \A e \in Doors : doors'[e].op = "login" /\ ~IsSetup(totp') => doors'[e].off,
         totp' \in TOTPSecret, \E k \in Sets : totp'.codes \subseteq {k},
         nextSecret' \in 1..(MaxSecrets + 1), nextSet' \in 1..3, arrivals' \in 0..signScope.arrivals,
         UNCHANGED <<signScope, pw, away, cacheKeys, passkey, sessionsOpen, uses, cutShort>>
  PROVE  SignInInv'
<1>1. SignInTypeOK'
  BY DEF cacheKeys, sessionsOpen, SignInInv, SignInTypeOK
<1>2. TicketsSound'
  <2>1. \A e \in Doors, k \in Tickets : InHand(doors'[e], k) => InHand(doors[e], k)
    BY DEF Alike, InHand
  <2> QED BY <2>1, TicketsKept DEF cacheKeys
<1>3. TriesSound'
  <2>1. \A e \in Doors : doors'[e].pc = "validate" /\ doors'[e].ticket # 0 =>
                           doors[e].pc = "validate" /\ doors[e].ticket = doors'[e].ticket
    BY DEF Alike
  <2> QED BY <2>1, TriesKept, Tables DEF cacheKeys
<1>4. ChangeSound'
  <2>1. \A e \in Doors, s \in Opened : Ends(doors[e], s) => Ends(doors'[e], s)
    BY DEF Alike, Ends
  <2> QED BY <2>1, ChangeKept DEF sessionsOpen
<1>5. ASSUME NEW e \in Doors PROVE DoorSound(doors[e])'
  <2>1. PICK x : x = IF e = d THEN y ELSE doors[e]
    OBVIOUS
  <2>2. DoorSound(x) /\ Alike(x, doors'[e]) /\ (doors'[e].op = "login" /\ ~IsSetup(totp') => doors'[e].off)
    BY <2>1, Tables
  <2> QED BY <2>2 DEF DoorSound, Alike, cacheKeys
<1> QED BY <1>1, <1>2, <1>3, <1>4, <1>5 DEF SignInInv

\* A new row, without codes or a factor.
LEMMA EnrolmentRestarts ==
  ASSUME SignInInv, NEW d \in Doors, NEW y \in {doors[d], Home}, NEW ds, ds = [doors EXCEPT ![d] = y],
         doors[d].pc \notin {"list", "revoke"}, doors' = NoteOff(ds),
         totp' \in TOTPSecret, totp'.codes = {}, ~totp'.verified,
         nextSecret' \in 1..(MaxSecrets + 1), nextSet' = nextSet, arrivals' \in 0..signScope.arrivals,
         UNCHANGED <<signScope, pw, away, cacheKeys, passkey, sessionsOpen, uses, cutShort>>
  PROVE  SignInInv'
<1>1. /\ y \in Door /\ ds \in [Doors -> Door] /\ ds[d] = y /\ \A e \in Doors \ {d} : ds[e] = doors[e]
      /\ DoorSound(y) /\ (y.pc = "validate" => y = doors[d]) /\ \A k \in Tickets : InHand(y, k) => InHand(doors[d], k)
  <2>1. y \in Door /\ ds \in [Doors -> Door] /\ ds[d] = y /\ \A e \in Doors \ {d} : ds[e] = doors[e]
    BY HomeFacts, Tables
  <2>2. DoorSound(y) /\ (y.pc = "validate" => y = doors[d]) /\ \A k \in Tickets : InHand(y, k) => InHand(doors[d], k)
    BY HomeFacts, HomeSound, Tables
  <2> QED BY <2>1, <2>2
<1>2. /\ doors' \in [Doors -> Door]
      /\ \A e \in Doors : Alike(ds[e], doors'[e]) /\ (ds[e].pc # "idle" => doors'[e].off)
  <2>1. PICK n : n = NoteOff(ds)
    OBVIOUS
  <2>2. /\ n \in [Doors -> Door]
        /\ \A e \in Doors : Alike(ds[e], n[e]) /\ (ds[e].pc # "idle" => n[e].off)
    BY <1>1, <2>1, Noted DEF IsSetup
  <2> QED BY <2>1, <2>2
<1>3. ASSUME NEW e \in Doors, doors'[e].op = "login" PROVE doors'[e].off
  <2>1. ds[e] = IF e = d THEN y ELSE doors[e]
    BY <1>1
  <2>2. ds[e].op = "login" => ds[e].pc # "idle"
    BY <1>1, <2>1, Tables DEF DoorSound
  <2>3. ds[e].op = doors'[e].op
    BY <1>2 DEF Alike
  <2> QED BY <1>2, <1>3, <2>2, <2>3
<1>4. nextSet' \in 1..3 /\ \E k \in Sets : totp'.codes \subseteq {k}
  BY Tables DEF Sets
<1>5. Alike(y, doors'[d]) /\ \A e \in Doors \ {d} : Alike(doors[e], doors'[e])
  BY <1>1, <1>2
<1> QED BY <1>1, <1>2, <1>3, <1>4, <1>5, EnrolmentMoves

LEMMA GenerateKept == ASSUME SignInInv, NEW d \in Doors, Generate(d) PROVE SignInInv'
<1>1. PICK t : t = [NoTOTP EXCEPT !.row = TRUE, !.secret = nextSecret]
  OBVIOUS
<1>2. nextSecret \in 0..MaxSecrets /\ nextSecret' \in 1..(MaxSecrets + 1)
  BY SignInAssumption DEF Generate, SignInInv, SignInTypeOK
<1>3. t \in TOTPSecret /\ t.codes = {} /\ ~t.verified
  BY <1>1, <1>2, HomeFacts DEF TOTPSecret
<1>4. PICK ds : ds = [doors EXCEPT ![d] = Home]
  OBVIOUS
<1>5. totp' = t /\ doors' = NoteOff(ds)
  BY <1>1, <1>4 DEF Generate
<1> QED BY <1>2, <1>3, <1>4, <1>5, EnrolmentRestarts, Tables DEF Generate

LEMMA TOTPRemoveKept ==
  ASSUME SignInInv, NEW d \in Doors, NEW s \in Opened, TOTPRemove(d, s) PROVE SignInInv'
<1>1. doors[d].pc = "idle" /\ arrivals' \in 0..signScope.arrivals
  BY Knocks DEF TOTPRemove
<1>2. PICK ds : ds = [doors EXCEPT ![d] = doors[d]]
  OBVIOUS
<1>3. ds = doors
  BY <1>2, Tables
<1>4. totp' = NoTOTP /\ doors' = NoteOff(ds) /\ nextSet' = nextSet /\ nextSecret' \in 1..(MaxSecrets + 1)
  BY <1>3 DEF TOTPRemove, SignInInv, SignInTypeOK
<1> QED BY <1>1, <1>2, <1>4, EnrolmentRestarts, HomeFacts DEF TOTPRemove

\* A fresh set of codes in a row that is set up if it was before.
LEMMA FreshCodes ==
  ASSUME SignInInv, NEW d \in Doors, GoHome(d), doors[d].pc \in {"confirm", "replace"}, nextSet \in Sets,
         nextSet' = nextSet + 1, totp' \in TOTPSecret, totp'.codes = NewCodes, IsSetup(totp) => IsSetup(totp'),
         UNCHANGED <<signScope, arrivals, pw, away, nextSecret, cacheKeys, passkey, sessionsOpen, uses, cutShort>>
  PROVE  SignInInv'
<1>1. /\ doors' \in [Doors -> Door] /\ doors'[d] = Home /\ \A e \in Doors \ {d} : doors'[e] = doors[e]
  BY HomeFacts, Tables DEF GoHome
<1>2. \A e \in Doors : doors'[e].op = "login" /\ ~IsSetup(totp') => doors'[e].off
  BY <1>1, Tables, HomeFacts DEF DoorSound
<1>3. /\ Alike(Home, doors'[d]) /\ \A e \in Doors \ {d} : Alike(doors[e], doors'[e])
      /\ Home \in Door /\ DoorSound(Home) /\ (Home.pc = "validate" => Home = doors[d])
      /\ \A k \in Tickets : InHand(Home, k) => InHand(doors[d], k)
  BY <1>1, HomeFacts, HomeSound DEF Alike
<1>4. /\ nextSet' \in 1..3 /\ \E k \in Sets : totp'.codes \subseteq {k}
      /\ nextSecret' \in 1..(MaxSecrets + 1) /\ arrivals' \in 0..signScope.arrivals
  BY DEF Sets, NewCodes, SignInInv, SignInTypeOK
<1> QED BY <1>1, <1>2, <1>3, <1>4, EnrolmentMoves

LEMMA NewRow ==
  ASSUME SignInInv, nextSet \in Sets, NEW verified \in BOOLEAN, NEW t,
         t = [totp EXCEPT !.row = TRUE, !.verified = verified, !.codes = NewCodes]
  PROVE  t \in TOTPSecret /\ t.codes = NewCodes /\ t.row /\ t.verified = verified
<1>1. totp \in TOTPSecret /\ NewCodes \subseteq Sets
  BY Tables DEF NewCodes
<1> QED BY <1>1 DEF TOTPSecret

LEMMA ConfirmKept == ASSUME SignInInv, NEW d \in Doors, Confirm(d) PROVE SignInInv'
<1>1. doors[d].pc = "confirm"
  BY DEF Confirm
<1>2. CASE totp.verified
  BY <1>1, <1>2, GoesHome, Tables DEF Confirm, cacheKeys, sessionsOpen, SignInInv, SignInTypeOK
<1>3. CASE ~totp.verified
  <2>1. PICK t : t = [totp EXCEPT !.row = TRUE, !.verified = TRUE, !.codes = NewCodes]
    OBVIOUS
  <2>2. totp' = t /\ nextSet \in Sets
    BY <1>3, <2>1 DEF Confirm
  <2>3. t \in TOTPSecret /\ t.codes = NewCodes /\ IsSetup(t)
    BY <2>1, <2>2, NewRow DEF IsSetup
  <2> QED BY <1>1, <1>3, <2>2, <2>3, FreshCodes DEF Confirm
<1> QED BY <1>2, <1>3

LEMMA ReplaceBackupCodesKept == ASSUME SignInInv, NEW d \in Doors, ReplaceBackupCodes(d) PROVE SignInInv'
<1>1. PICK t : t = [totp EXCEPT !.row = TRUE, !.verified = totp.verified, !.codes = NewCodes]
  OBVIOUS
<1>2. totp' = t /\ nextSet \in Sets /\ totp.verified \in BOOLEAN
  BY <1>1, Tables DEF ReplaceBackupCodes, TOTPSecret
<1>3. /\ t \in TOTPSecret /\ t.codes = NewCodes /\ (IsSetup(totp) => IsSetup(t))
  BY <1>1, <1>2, NewRow DEF IsSetup
<1> QED BY <1>2, <1>3, FreshCodes DEF ReplaceBackupCodes

-----------------------------------------------------------------------------
(* The invariant *)

LEMMA SignInStart == SignInInit => SignInInv
<1> SUFFICES ASSUME SignInInit PROVE SignInInv
  OBVIOUS
<1>1. /\ doors \in [Doors -> Door] /\ \A d \in Doors : doors[d] = Home
  BY HomeFacts DEF SignInInit
<1>2. totp \in TOTPSecret /\ (\E k \in Sets : totp.codes \subseteq {k})
      /\ nextSecret \in 1..(MaxSecrets + 1) /\ nextSet \in 1..3
  <2>1. CASE totp = NoTOTP /\ nextSecret = 1 /\ nextSet = 1
    BY <2>1, HomeFacts, SignInAssumption DEF SignInInit, Sets
  <2>2. CASE /\ totp = [row |-> TRUE, secret |-> 1, verified |-> TRUE, codes |-> {1}]
             /\ nextSecret = 2 /\ nextSet = 2
    <3>1. 1 \in 0..MaxSecrets /\ 2 \in 1..(MaxSecrets + 1) /\ 1 \in Sets
      BY SignInAssumption DEF Sets
    <3>2. totp \in TOTPSecret /\ totp.codes = {1}
      BY <2>2, <3>1 DEF TOTPSecret
    <3> QED BY <2>2, <3>1, <3>2
  <2> QED BY <2>1, <2>2 DEF SignInInit
<1>3. /\ tickets \in [Tickets -> Ticket] /\ \A k \in Tickets : ~tickets[k].live
      /\ tries \in [Tickets -> 0..(MaxAttempts + 1)] /\ nextTicket \in 1..(MaxTickets + 1)
  BY SignInAssumption DEF SignInInit, Ticket, NoTicket
<1>4. /\ opened \in [Opened -> OpenedRow] /\ \A s \in Opened : opened[s].live => opened[s].born = 1
  BY DEF SignInInit, OpenedRow, NotOpen
<1>5. nextOpened \in 1..(MaxOpened + 1)
  BY SignInAssumption DEF SignInInit
<1>6. arrivals \in 0..signScope.arrivals
  BY SignInAssumption DEF SignInInit
<1>7. SignInTypeOK
  BY <1>1, <1>2, <1>3, <1>4, <1>5, <1>6 DEF SignInInit, SignInTypeOK
<1>8. TicketsSound
  BY <1>1, <1>3, HomeFacts DEF SignInInit, TicketsSound, InHand
<1>9. TriesSound
  BY <1>3 DEF TriesSound
<1>10. ChangeSound
  BY <1>4 DEF SignInInit, ChangeSound
<1>11. \A d \in Doors : DoorSound(doors[d])
  BY <1>1, HomeFacts DEF SignInInit, DoorSound
<1> QED BY <1>2, <1>7, <1>8, <1>9, <1>10, <1>11 DEF SignInInv

LEMMA SignInKept == SignInInv /\ [SignInNext]_sVars => SignInInv'
<1> SUFFICES ASSUME SignInInv, [SignInNext]_sVars PROVE SignInInv'
  OBVIOUS
<1>1. CASE UNCHANGED sVars
  <2>1. SignInTypeOK' /\ arrivals' \in 0..signScope.arrivals
    BY <1>1 DEF sVars, SignInInv, SignInTypeOK
  <2> QED BY <1>1, <2>1, OthersMove, Tables DEF sVars, SignInInv, SignInTypeOK
<1>2. ASSUME NEW d \in Doors,
             \/ Login(d) \/ LoginFactor(d) \/ CreateSession(d)
             \/ CountAttempt(d) \/ DropToken(d) \/ DropCounter(d) \/ Validate(d)
             \/ Claim(d) \/ ClearCounter(d) \/ ReadUser(d)
             \/ Generate(d) \/ Confirm(d) \/ ReplaceBackupCodes(d) \/ RecordMFA(d)
      PROVE  SignInInv'
  BY <1>2, LoginKept, LoginFactorKept, CreateSessionKept, CountAttemptKept, DropTokenKept, DropCounterKept,
     ValidateKept, ClaimKept, ClearCounterKept, ReadUserKept, GenerateKept, ConfirmKept,
     ReplaceBackupCodesKept, RecordMFAKept
<1>3. ASSUME NEW d \in Doors,
             \/ FinishRegistration(d) \/ UpdateLastUsed(d) \/ ForgotPassword(d) \/ WritePasswordHash(d)
             \/ ListSessions(d) \/ RevokeListed(d) \/ DoorFails(d)
             \/ \E k \in Tickets : ResetPassword(d, k)
             \/ \E k \in Tickets, g \in Guesses : MFAChallenge(d, k, g)
             \/ \E s \in Opened :
                  \/ TOTPSetup(d, s) \/ TOTPRemove(d, s) \/ RegenerateBackupCodes(d, s)
                  \/ DeletePasskey(d, s) \/ ChangePassword(d, s)
                  \/ \E n \in Secrets : TOTPConfirm(d, s, n)
                  \/ \E g \in Guesses : StepUp(d, s, g)
      PROVE  SignInInv'
  BY <1>3, FinishRegistrationKept, UpdateLastUsedKept, ForgotPasswordKept, WritePasswordHashKept, ListSessionsKept,
     RevokeListedKept, DoorFailsKept, ResetKept, MFAChallengeKept, TOTPSetupKept, TOTPRemoveKept, RegenerateKept,
     DeletePasskeyKept, ChangePasswordKept, TOTPConfirmKept, StepUpKept
<1>4. ASSUME NEW d \in Doors, \/ AuthenticateBegin(d)
                              \/ \E s \in Opened : RegisterBegin(d, s) \/ StepUpBegin(d, s)
                              \/ \E k \in Tickets : AuthenticateComplete(d, k)
                              \/ \E k \in Tickets, s \in Opened : StepUpComplete(d, k, s) \/ RegisterComplete(d, k, s)
      PROVE  SignInInv'
  <2>1. 1 \in Opened
    BY SignInAssumption DEF Opened
  <2> QED BY <1>4, <2>1, BeginKept, CompleteKept
<1>5. CASE (\E s \in Opened : ProofAges(s)) \/ (\E k \in Tickets : TicketExpires(k)) \/ LockOut
  BY <1>5, ProofAgesKept, TicketExpiresKept, LockOutKept
<1> QED BY <1>1, <1>2, <1>3, <1>4, <1>5 DEF SignInNext

THEOREM SignInInvariant == SignInSpec => []SignInInv
<1> QED BY SignInStart, SignInKept, PTL DEF SignInSpec

\* The rows of the second factor and the passkey, the keys of the cache and the requests
\* in progress are well typed (domain/mfa, handler/mfa.go).
THEOREM SignInTypeCorrect == SignInSpec => []SignInTypeOK
<1>1. SignInInv => SignInTypeOK
  BY DEF SignInInv
<1> QED BY <1>1, SignInInvariant, PTL

\* GetDel: an mfa token, a reset link and a passkey challenge have one effect at most, by
\* any number of requests that present the same one together.
THEOREM UsedCorrect == SignInSpec => []UsedOnce
<1>1. SignInInv => UsedOnce
  BY DEF SignInInv, TicketsSound, UsedOnce
<1> QED BY <1>1, SignInInvariant, PTL

\* The attempt counter of mfaChallenge: no number of requests tries more codes on a live
\* token than mfaMaxAttempts.
THEOREM GuessesCorrect == SignInSpec => []GuessesBounded
<1>1. SignInInv => GuessesBounded
  <2> SUFFICES ASSUME SignInInv, NEW k \in Tickets, tickets[k].live, k \notin resetKey
               PROVE  guesses[k] <= MaxAttempts
    BY DEF GuessesBounded
  <2>1. IsFiniteSet(Trying(k)) /\ guesses[k] + Cardinality(Trying(k)) <= MaxAttempts
    BY DEF SignInInv, TriesSound
  <2>2. Cardinality(Trying(k)) \in Nat /\ guesses[k] \in Nat /\ MaxAttempts \in Nat
    BY <2>1, FS_CardinalityType, Tables, SignInAssumption
  <2> QED BY <2>1, <2>2
<1> QED BY <1>1, SignInInvariant, PTL

\* changePassword and resetPassword: once the request that changed the password is done,
\* no session from before is left, unless its revocation failed.
THEOREM ChangeCorrect == SignInSpec => []ChangeEndsSessions
<1>1. SignInInv => ChangeEndsSessions
  <2> SUFFICES ASSUME SignInInv, ~cutShort, \A d \in Doors : doors[d].op \notin {"reset", "change"},
                      NEW s \in Opened, opened[s].live
               PROVE  opened[s].born = pw
    BY DEF ChangeEndsSessions
  <2>1. \A d \in Doors : ~Ends(doors[d], s)
    BY Tables DEF DoorSound, Ends
  <2> QED BY <2>1 DEF SignInInv, ChangeSound
<1> QED BY <1>1, SignInInvariant, PTL

\* Only createSession opens one.
LEMMA OpensOnly ==
  ASSUME SignInNext, nextOpened' # nextOpened
  PROVE  \E d \in Doors : CreateSession(d)
<1> USE DEF sessionsOpen
<1>1. ASSUME NEW d \in Doors,
             \/ Login(d) \/ LoginFactor(d) \/ CountAttempt(d) \/ DropToken(d) \/ DropCounter(d) \/ Validate(d)
             \/ Claim(d) \/ ClearCounter(d) \/ ReadUser(d)
      PROVE  FALSE
  BY <1>1 DEF Login, LoginFactor, CountAttempt, DropToken, DropCounter, Validate, Claim,
     ClearCounter, ReadUser
<1>2. ASSUME NEW d \in Doors,
             \/ Generate(d) \/ Confirm(d) \/ ReplaceBackupCodes(d) \/ RecordMFA(d) \/ FinishRegistration(d)
             \/ UpdateLastUsed(d) \/ AuthenticateBegin(d) \/ ForgotPassword(d) \/ WritePasswordHash(d)
             \/ ListSessions(d) \/ RevokeListed(d) \/ DoorFails(d)
      PROVE  FALSE
  BY <1>2 DEF Generate, Confirm, ReplaceBackupCodes, RecordMFA, FinishRegistration, UpdateLastUsed,
     AuthenticateBegin, StoreChallenge, ForgotPassword, WritePasswordHash, ListSessions, RevokeListed, DoorFails
<1>3. ASSUME NEW d \in Doors,
             \/ \E k \in Tickets : ResetPassword(d, k) \/ AuthenticateComplete(d, k)
             \/ \E k \in Tickets, g \in Guesses : MFAChallenge(d, k, g)
             \/ \E k \in Tickets, s \in Opened : StepUpComplete(d, k, s) \/ RegisterComplete(d, k, s)
             \/ \E s \in Opened :
                  \/ TOTPSetup(d, s) \/ TOTPRemove(d, s) \/ RegenerateBackupCodes(d, s)
                  \/ RegisterBegin(d, s) \/ StepUpBegin(d, s) \/ DeletePasskey(d, s) \/ ChangePassword(d, s)
                  \/ \E n \in Secrets : TOTPConfirm(d, s, n)
                  \/ \E g \in Guesses : StepUp(d, s, g)
      PROVE  FALSE
  BY <1>3 DEF ResetPassword, AuthenticateComplete, MFAChallenge, StepUpComplete, RegisterComplete, TOTPSetup,
     TOTPRemove, RegenerateBackupCodes, RegisterBegin, StepUpBegin, StoreChallenge, ConsumeChallenge, DeletePasskey,
     ChangePassword, TOTPConfirm, StepUp
<1>4. ASSUME (\E s \in Opened : ProofAges(s)) \/ (\E k \in Tickets : TicketExpires(k)) \/ LockOut PROVE FALSE
  BY <1>4 DEF ProofAges, TicketExpires, LockOut
<1> QED BY <1>1, <1>2, <1>3, <1>4 DEF SignInNext

\* login: without a code or a passkey a session is opened only for an account that had
\* no second factor at some moment since the password was presented.
THEOREM FactorCorrect == SignInSpec => SecondFactorAsked
<1>1. ASSUME SignInInv, SignInNext, NEW d \in Doors, doors[d].op = "login", nextOpened' # nextOpened,
             doors'[d] # doors[d]
      PROVE  doors[d].off
  <2>1. PICK e \in Doors : CreateSession(e)
    BY <1>1, OpensOnly
  <2>2. e = d
    BY <1>1, <2>1, Tables DEF CreateSession, GoHome
  <2> QED BY <1>1, <2>1, <2>2, Tables DEF CreateSession, DoorSound
<1>2. SignInInv /\ [SignInNext]_sVars =>
        [\A d \in Doors : doors[d].op = "login" /\ nextOpened' # nextOpened /\ doors'[d] # doors[d]
                            => doors[d].off]_sVars
  BY <1>1
<1> QED BY <1>2, SignInInvariant, PTL DEF SignInSpec, SecondFactorAsked
=============================================================================
