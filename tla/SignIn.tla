------------------------------- MODULE SignIn -------------------------------
(***************************************************************************)
(* Signing in to one account with a password, a second factor or a         *)
(* passkey, and changing those: the login and MFA-challenge handlers, TOTP *)
(* enrolment and backup codes, step-up, passkeys, and password change and  *)
(* reset (handler/auth.go, mfa.go, stepup.go, passkey.go, profile.go,      *)
(* domain/mfa, and the keys they keep in the cache).                       *)
(*                                                                         *)
(* Every call to the table or to the cache is a step.  What proves an      *)
(* identity is a number: a password, a TOTP secret (a code proves one      *)
(* secret), the set a backup code is of.  Opening a session and revoking   *)
(* several are single steps; Sessions takes them apart.  The lag of the    *)
(* e-mail index is in Accounts.                                            *)
(***************************************************************************)
EXTENDS Integers, FiniteSets

CONSTANTS
  Doors,         \* requests in progress
  MaxAttempts,   \* mfaMaxAttempts
  MaxSecrets,    \* bounds: TOTP secrets generated,
  MaxTickets,    \*   single-use tokens in the cache,
  MaxOpened,     \*   sessions,
  SignInScopes   \*   entry points and requests; a behaviour exercises one

ASSUME SignInAssumption ==
  /\ {MaxAttempts, MaxSecrets, MaxOpened} \subseteq Nat \ {0} /\ MaxTickets \in Nat
  /\ \A x \in SignInScopes : x.arrivals \in Nat

Secrets == 1..MaxSecrets
Tickets == 1..MaxTickets
Opened == 1..MaxOpened
Sets == 1..2                  \* sets of ten backup codes generated

VARIABLES
  signScope, arrivals,
  pw,          \* the current password
  away,        \* a deletion blocks the account
  totp,        \* the TOTP row
  nextSecret, nextSet,
  tickets,     \* token -> what the cache holds for it
  tries,       \* token -> its attempt counter, which has a key of its own
  nextTicket,
  passkey,     \* the credential row: none, usable, or a row without a credential
  opened,      \* session -> its row
  nextOpened,
  doors,       \* request -> where it is
  \* What happened, for the properties only:
  uses,        \* token -> how often it took effect
  guesses,     \* token -> codes tried on it while it was live
  resetKey,    \* tokens whose counter was dropped although they were not
  cutShort     \* a revocation after a password change failed

sVars == <<signScope, arrivals, pw, away, totp, nextSecret, nextSet, tickets, tries, nextTicket, passkey,
           opened, nextOpened, doors, uses, guesses, resetKey, cutShort>>
enrolment == <<totp, nextSecret, nextSet>>
cacheKeys == <<tickets, tries, nextTicket, guesses, resetKey>>
sessionsOpen == <<opened, nextOpened>>

-----------------------------------------------------------------------------
(* State *)

\* A row that an update brought back after its removal has no secret.
NoTOTP == [row |-> FALSE, secret |-> 0, verified |-> FALSE, codes |-> {}]
TOTPSecret == [row: BOOLEAN, secret: 0..MaxSecrets, verified: BOOLEAN, codes: SUBSET Sets]
IsSetup(t) == t.row /\ t.verified

NoTicket == [kind |-> "none", live |-> FALSE]
Flows == {"keyLogin", "keyStepUp", "keyRegister"}     \* what a passkey challenge is for
Ticket == [kind: {"none", "mfa", "reset"} \cup Flows, live: BOOLEAN]

\* born: the password when the session was opened, or last proved by it.  proof: its
\* access token claims a recent second factor; the token outlives the session.
NotOpen == [live |-> FALSE, born |-> 0, proof |-> FALSE]
OpenedRow == [live: BOOLEAN, born: Nat, proof: BOOLEAN]

\* What a code proves: a secret, a set of backup codes, or nothing.
Wrong == [kind |-> "wrong", secret |-> 0, set |-> 1]
Guesses == {Wrong} \cup {[Wrong EXCEPT !.kind = "totp", !.secret = n] : n \in Secrets}
             \cup {[Wrong EXCEPT !.kind = "backup", !.set = k] : k \in Sets}

DoorSteps == {"idle", "totpGet", "create", "incr", "dropToken", "dropCounter", "validate",
              "claim", "clear", "user", "setPassword", "list", "revoke", "put", "confirm", "replace",
              "remove", "record", "touch", "putKey"}
DoorOps == {"none", "login", "challenge", "setup", "confirm", "regenerate", "stepUp", "reset", "change"} \cup Flows

\* off: the second factor was not set up at some moment since the request arrived.
Home == [pc |-> "idle", op |-> "none", by |-> 0, ticket |-> 0, guess |-> Wrong, totp |-> NoTOTP,
         listed |-> {}, off |-> FALSE]
Door == [pc: DoorSteps, op: DoorOps, by: 0..MaxOpened, ticket: 0..MaxTickets, guess: Guesses, totp: TOTPSecret,
         listed: SUBSET Opened, off: BOOLEAN]

SignInTypeOK ==
  /\ signScope \in SignInScopes /\ arrivals \in 0..signScope.arrivals
  /\ pw \in Nat /\ away \in BOOLEAN
  /\ totp \in TOTPSecret /\ (\E k \in Sets : totp.codes \subseteq {k})
  /\ nextSecret \in 1..(MaxSecrets + 1) /\ nextSet \in 1..3
  /\ tickets \in [Tickets -> Ticket] /\ tries \in [Tickets -> 0..(MaxAttempts + 1)]
  /\ nextTicket \in 1..(MaxTickets + 1)
  /\ passkey \in {"none", "usable", "empty"}
  /\ opened \in [Opened -> OpenedRow] /\ nextOpened \in 1..(MaxOpened + 1)
  /\ doors \in [Doors -> Door]
  /\ uses \in [Tickets -> Nat] /\ guesses \in [Tickets -> Nat] /\ resetKey \subseteq Tickets
  /\ cutShort \in BOOLEAN

\* One session is open, before or after a step-up; TOTP is off, or on.
SignInInit ==
  /\ signScope \in SignInScopes /\ arrivals = signScope.arrivals
  /\ pw = 1 /\ away = FALSE
  /\ \/ totp = NoTOTP /\ nextSecret = 1 /\ nextSet = 1
     \/ /\ totp = [row |-> TRUE, secret |-> 1, verified |-> TRUE, codes |-> {1}]
        /\ nextSecret = 2 /\ nextSet = 2
  /\ tickets = [k \in Tickets |-> NoTicket] /\ tries = [k \in Tickets |-> 0] /\ nextTicket = 1
  /\ passkey \in (IF "passkey" \in signScope.ops THEN {"none", "usable"} ELSE {"none"})
  /\ \E proof \in BOOLEAN :
       opened = [s \in Opened |-> IF s = 1 THEN [live |-> TRUE, born |-> 1, proof |-> proof] ELSE NotOpen]
  /\ nextOpened = 2
  /\ doors = [d \in Doors |-> Home]
  /\ uses = [k \in Tickets |-> 0] /\ guesses = [k \in Tickets |-> 0] /\ resetKey = {}
  /\ cutShort = FALSE

-----------------------------------------------------------------------------
(* Requests, sessions, tokens *)

Knock(d, op) ==
  /\ doors[d].pc = "idle" /\ op \in signScope.ops
  /\ arrivals > 0 /\ arrivals' = arrivals - 1

\* RequireAuth, and RequireRecentMFA where stepUp guards the route.
Authenticated(s) == opened[s].born > 0 /\ ~away
SteppedUp(s) == Authenticated(s) /\ opened[s].proof

EnterAs(d, x) == doors' = [doors EXCEPT ![d] = x]
StepTo(d, pc) == doors' = [doors EXCEPT ![d] = [@ EXCEPT !.pc = pc]]
GoHome(d) == doors' = [doors EXCEPT ![d] = Home]

OpenSession(proof) ==
  /\ nextOpened <= MaxOpened
  /\ opened' = [opened EXCEPT ![nextOpened] = [live |-> TRUE, born |-> pw, proof |-> proof]]
  /\ nextOpened' = nextOpened + 1

NewTicket(kind) ==
  /\ nextTicket <= MaxTickets
  /\ tickets' = [tickets EXCEPT ![nextTicket] = [kind |-> kind, live |-> TRUE]]
  /\ nextTicket' = nextTicket + 1

\* GetDel finds a token and deletes it in one call: one of the requests that present it
\* gets it.  Mutant: the claim only deletes it, and trusts what was read before.
BugFound(k) == TRUE
Found(k) == tickets[k].live
Take(k) == tickets' = [tickets EXCEPT ![k] = [@ EXCEPT !.live = FALSE]]
\* What a request brought has its effect.
UsedBy(x) == uses' = IF x.ticket # 0 THEN [uses EXCEPT ![x.ticket] = @ + 1] ELSE uses

\* A token of the cache expires.
TicketExpires(k) ==
  /\ "expire" \in signScope.ops /\ tickets[k].live
  /\ Take(k)
  /\ UNCHANGED <<signScope, arrivals, pw, away, enrolment, tries, nextTicket, passkey, sessionsOpen, doors,
                 uses, guesses, resetKey, cutShort>>

\* A change of the TOTP row, as the requests in progress see it: off says that a second
\* factor was not set up at some moment since the request arrived.
NoteOff(ds) ==
  [d \in Doors |-> IF ds[d].pc # "idle" THEN [ds[d] EXCEPT !.off = @ \/ ~IsSetup(totp')] ELSE ds[d]]

-----------------------------------------------------------------------------
(* Password login *)

\* Login proved the password and that the account is enabled, verified and not blocked.
Login(d) ==
  /\ Knock(d, "login") /\ ~away
  /\ EnterAs(d, [Home EXCEPT !.pc = "totpGet", !.op = "login", !.off = ~IsSetup(totp)])
  /\ UNCHANGED <<signScope, pw, away, enrolment, cacheKeys, passkey, sessionsOpen, uses, cutShort>>

\* Mutant: the factor is asked for when a secret was generated, not when it is set up.
BugAsksSecondFactor(t) == t.row /\ ~t.verified
AsksSecondFactor(t) == IsSetup(t)

LoginFactor(d) ==
  /\ doors[d].pc = "totpGet"
  /\ IF AsksSecondFactor(totp)
     THEN NewTicket("mfa") /\ GoHome(d)
     ELSE StepTo(d, "create") /\ UNCHANGED <<tickets, nextTicket>>
  /\ UNCHANGED <<signScope, arrivals, pw, away, enrolment, tries, guesses, resetKey, passkey, sessionsOpen,
                 uses, cutShort>>

\* issueSession and its like, after the last check.
CreateSession(d) ==
  /\ doors[d].pc = "create"
  /\ OpenSession(doors[d].op # "login")
  /\ UsedBy(doors[d])
  /\ GoHome(d)
  /\ UNCHANGED <<signScope, arrivals, pw, away, enrolment, cacheKeys, passkey, cutShort>>

-----------------------------------------------------------------------------
(* The MFA challenge *)

\* A peek: a wrong code must not burn the token.
MFAChallenge(d, k, g) ==
  /\ Knock(d, "challenge")
  /\ tickets[k] = [kind |-> "mfa", live |-> TRUE]
  /\ EnterAs(d, [Home EXCEPT !.pc = "incr", !.op = "challenge", !.ticket = k, !.guess = g])
  /\ UNCHANGED <<signScope, pw, away, enrolment, cacheKeys, passkey, sessionsOpen, uses, cutShort>>

BugExhausted(n) == n > MaxAttempts + 1
Exhausted(n) == n > MaxAttempts

CountAttempt(d) ==
  LET k == doors[d].ticket IN
  /\ doors[d].pc = "incr"
  /\ tries' = [tries EXCEPT ![k] = IF @ > MaxAttempts THEN @ ELSE @ + 1]   \* more is not told apart
  /\ StepTo(d, IF Exhausted(tries'[k]) THEN "dropToken" ELSE "validate")
  /\ UNCHANGED <<signScope, arrivals, pw, away, enrolment, tickets, nextTicket, guesses, resetKey, passkey,
                 sessionsOpen, uses, cutShort>>

\* Too many: the token goes, then its counter; a failure of either is logged.
DropToken(d) ==
  /\ doors[d].pc = "dropToken"
  /\ \/ Take(doors[d].ticket)
     \/ "fault" \in signScope.ops /\ UNCHANGED tickets
  /\ StepTo(d, "dropCounter")
  /\ UNCHANGED <<signScope, arrivals, pw, away, enrolment, tries, nextTicket, guesses, resetKey, passkey,
                 sessionsOpen, uses, cutShort>>

DropCounter(d) ==
  LET k == doors[d].ticket IN
  /\ doors[d].pc = "dropCounter"
  /\ tries' = [tries EXCEPT ![k] = 0]
  /\ resetKey' = IF tickets[k].live THEN resetKey \cup {k} ELSE resetKey
  /\ GoHome(d)
  /\ UNCHANGED <<signScope, arrivals, pw, away, enrolment, tickets, nextTicket, guesses, passkey,
                 sessionsOpen, uses, cutShort>>

\* Where a request goes once its code is accepted.
Accepted(op) == IF op = "challenge" THEN "claim" ELSE "record"

\* Validate: ValidateCustom ends with an error for a code that has not six characters,
\* and Validate with a refusal.  A backup code has some twenty: the loop that would compare
\* and consume it is behind, and gets none but wrong TOTP codes.
\* A guess counts while its token is live.
Validate(d) ==
  LET x == doors[d] IN
  /\ x.pc = "validate"
  /\ guesses' = IF x.ticket # 0 /\ tickets[x.ticket].live THEN [guesses EXCEPT ![x.ticket] = @ + 1]
                ELSE guesses
  /\ IF IsSetup(totp) /\ x.guess.kind = "totp" /\ x.guess.secret = totp.secret
     THEN StepTo(d, Accepted(x.op)) ELSE GoHome(d)
  /\ UNCHANGED <<signScope, arrivals, pw, away, enrolment, tickets, tries, nextTicket, resetKey, passkey,
                 sessionsOpen, uses, cutShort>>

\* Only one request with the right code gets the token.
Claim(d) ==
  LET k == doors[d].ticket IN
  /\ doors[d].pc = "claim"
  /\ IF Found(k) THEN Take(k) /\ StepTo(d, "clear") ELSE GoHome(d) /\ UNCHANGED tickets
  /\ UNCHANGED <<signScope, arrivals, pw, away, enrolment, tries, nextTicket, guesses, resetKey, passkey,
                 sessionsOpen, uses, cutShort>>

ClearCounter(d) ==
  /\ doors[d].pc = "clear"
  /\ tries' = [tries EXCEPT ![doors[d].ticket] = 0]
  /\ StepTo(d, "user")
  /\ UNCHANGED <<signScope, arrivals, pw, away, enrolment, tickets, nextTicket, guesses, resetKey, passkey,
                 sessionsOpen, uses, cutShort>>

\* A deletion may have been confirmed since the password was checked.
ReadUser(d) ==
  /\ doors[d].pc = "user"
  /\ IF away THEN GoHome(d) ELSE StepTo(d, "create")
  /\ UNCHANGED <<signScope, arrivals, pw, away, enrolment, cacheKeys, passkey, sessionsOpen, uses, cutShort>>

-----------------------------------------------------------------------------
(* TOTP enrolment and backup codes *)

\* totpSetup refuses while a secret is set up ...
TOTPSetup(d, s) ==
  /\ Knock(d, "enrol") /\ Authenticated(s) /\ ~IsSetup(totp)
  /\ EnterAs(d, [Home EXCEPT !.pc = "put", !.op = "setup", !.by = s])
  /\ UNCHANGED <<signScope, pw, away, enrolment, cacheKeys, passkey, sessionsOpen, uses, cutShort>>

\* ... and Generate puts a new one, whatever the row is by then.
Generate(d) ==
  /\ doors[d].pc = "put" /\ nextSecret <= MaxSecrets
  /\ totp' = [NoTOTP EXCEPT !.row = TRUE, !.secret = nextSecret]
  /\ nextSecret' = nextSecret + 1
  /\ doors' = NoteOff([doors EXCEPT ![d] = Home])
  /\ UNCHANGED <<signScope, arrivals, pw, away, nextSet, cacheKeys, passkey, sessionsOpen, uses, cutShort>>

\* totpConfirm proves the secret it reads ...
TOTPConfirm(d, s, n) ==
  /\ Knock(d, "enrol") /\ Authenticated(s)
  /\ totp.row /\ ~totp.verified /\ totp.secret = n
  /\ EnterAs(d, [Home EXCEPT !.pc = "confirm", !.op = "confirm", !.by = s, !.totp = totp])
  /\ UNCHANGED <<signScope, pw, away, enrolment, cacheKeys, passkey, sessionsOpen, uses, cutShort>>

\* A fresh set in the place of the one before.
BugNewCodes == totp.codes \cup {nextSet}
NewCodes == {nextSet}

\* ... and Confirm marks the row, if it is not verified by then.
Confirm(d) ==
  /\ doors[d].pc = "confirm"
  /\ IF totp.verified
     THEN GoHome(d) /\ UNCHANGED <<totp, nextSet>>
     ELSE /\ nextSet \in Sets
          /\ totp' = [totp EXCEPT !.row = TRUE, !.verified = TRUE, !.codes = NewCodes]
          /\ nextSet' = nextSet + 1 /\ GoHome(d)
  /\ UNCHANGED <<signScope, arrivals, pw, away, nextSecret, cacheKeys, passkey, sessionsOpen, uses, cutShort>>

TOTPRemove(d, s) ==
  /\ Knock(d, "remove") /\ SteppedUp(s)
  /\ totp' = NoTOTP /\ doors' = NoteOff(doors)
  /\ UNCHANGED <<signScope, pw, away, nextSecret, nextSet, cacheKeys, passkey, sessionsOpen, uses, cutShort>>

\* RegenerateBackupCodes reads the row, hashes ten codes, and replaces the old ones.
RegenerateBackupCodes(d, s) ==
  /\ Knock(d, "remove") /\ SteppedUp(s) /\ IsSetup(totp)
  /\ EnterAs(d, [Home EXCEPT !.pc = "replace", !.op = "regenerate", !.by = s])
  /\ UNCHANGED <<signScope, pw, away, enrolment, cacheKeys, passkey, sessionsOpen, uses, cutShort>>

ReplaceBackupCodes(d) ==
  /\ doors[d].pc = "replace" /\ nextSet \in Sets
  /\ totp' = [totp EXCEPT !.row = TRUE, !.codes = NewCodes]
  /\ nextSet' = nextSet + 1
  /\ GoHome(d)
  /\ UNCHANGED <<signScope, arrivals, pw, away, nextSecret, cacheKeys, passkey, sessionsOpen, uses, cutShort>>

-----------------------------------------------------------------------------
(* Step-up *)

\* The challenge answers a session that has a second factor, and takes six digits only.
StepUp(d, s, g) ==
  /\ Knock(d, "stepUp") /\ Authenticated(s) /\ g.kind # "backup"
  /\ IsSetup(totp) \/ passkey # "none"
  /\ EnterAs(d, [Home EXCEPT !.pc = "validate", !.op = "stepUp", !.by = s, !.guess = g])
  /\ UNCHANGED <<signScope, pw, away, enrolment, cacheKeys, passkey, sessionsOpen, uses, cutShort>>

\* RecordMFA writes to a session that still exists.
RecordMFA(d) ==
  LET s == doors[d].by IN
  /\ doors[d].pc = "record"
  /\ opened' = IF opened[s].live THEN [opened EXCEPT ![s] = [@ EXCEPT !.proof = TRUE]] ELSE opened
  /\ UsedBy(doors[d])
  /\ GoHome(d)
  /\ UNCHANGED <<signScope, arrivals, pw, away, enrolment, cacheKeys, passkey, nextOpened, cutShort>>

ProofAges(s) ==
  /\ "stepUp" \in signScope.ops /\ opened[s].proof
  /\ opened' = [opened EXCEPT ![s] = [@ EXCEPT !.proof = FALSE]]
  /\ UNCHANGED <<signScope, arrivals, pw, away, enrolment, cacheKeys, passkey, nextOpened, doors, uses, cutShort>>

-----------------------------------------------------------------------------
(* Passkeys *)

\* A challenge is stored for one of the three flows.
StoreChallenge(d, flow) ==
  /\ Knock(d, "passkey") /\ NewTicket(flow)
  /\ UNCHANGED <<signScope, pw, away, enrolment, tries, guesses, resetKey, passkey, sessionsOpen, doors, uses,
                 cutShort>>

AuthenticateBegin(d) == StoreChallenge(d, "keyLogin")
RegisterBegin(d, s) == Authenticated(s) /\ StoreChallenge(d, "keyRegister")
\* The step-up needs a credential that can be read.
StepUpBegin(d, s) == Authenticated(s) /\ passkey = "usable" /\ StoreChallenge(d, "keyStepUp")

\* The challenge is consumed before it is looked at: one begun for another flow, or
\* answered wrongly, is lost.
ConsumeChallenge(d, k, flow, by, valid, pc) ==
  /\ Knock(d, "passkey") /\ tickets[k].kind \in Flows /\ Found(k)
  /\ Take(k)
  /\ IF tickets[k].kind = flow /\ valid
     THEN EnterAs(d, [Home EXCEPT !.pc = pc, !.op = flow, !.by = by, !.ticket = k])
     ELSE UNCHANGED doors
  /\ UNCHANGED <<signScope, pw, away, enrolment, tries, nextTicket, guesses, resetKey, passkey, sessionsOpen,
                 uses, cutShort>>

\* An assertion is made by a credential that is stored.
AuthenticateComplete(d, k) == ConsumeChallenge(d, k, "keyLogin", 0, passkey = "usable", "touch")
StepUpComplete(d, k, s) ==
  Authenticated(s) /\ ConsumeChallenge(d, k, "keyStepUp", s, passkey = "usable", "touch")
RegisterComplete(d, k, s) == Authenticated(s) /\ ConsumeChallenge(d, k, "keyRegister", s, TRUE, "putKey")

FinishRegistration(d) ==
  /\ doors[d].pc = "putKey"
  /\ passkey' = "usable" /\ UsedBy(doors[d])
  /\ GoHome(d)
  /\ UNCHANGED <<signScope, arrivals, pw, away, enrolment, cacheKeys, sessionsOpen, cutShort>>

\* UpdateLastUsed creates a row of its own when the credential was deleted meanwhile.
UpdateLastUsed(d) ==
  /\ doors[d].pc = "touch"
  /\ passkey' = IF passkey = "none" THEN "empty" ELSE passkey
  /\ StepTo(d, IF doors[d].op = "keyLogin" THEN "user" ELSE "record")
  /\ UNCHANGED <<signScope, arrivals, pw, away, enrolment, cacheKeys, sessionsOpen, uses, cutShort>>

DeletePasskey(d, s) ==
  /\ Knock(d, "passkey") /\ SteppedUp(s)
  /\ passkey' = "none"
  /\ UNCHANGED <<signScope, pw, away, enrolment, cacheKeys, sessionsOpen, doors, uses,
                 cutShort>>

-----------------------------------------------------------------------------
(* Passwords *)

ForgotPassword(d) ==
  /\ Knock(d, "reset")
  /\ NewTicket("reset")
  /\ UNCHANGED <<signScope, pw, away, enrolment, tries, guesses, resetKey, passkey, sessionsOpen, doors, uses,
                 cutShort>>

\* The link is consumed before anything is checked.
ResetPassword(d, k) ==
  /\ Knock(d, "reset") /\ tickets[k].kind = "reset" /\ Found(k)
  /\ Take(k)
  /\ EnterAs(d, [Home EXCEPT !.pc = "setPassword", !.op = "reset", !.ticket = k])
  /\ UNCHANGED <<signScope, pw, away, enrolment, tries, nextTicket, guesses, resetKey, passkey, sessionsOpen,
                 uses, cutShort>>

\* changePassword proves the current password; the session that asks is kept.
ChangePassword(d, s) ==
  /\ Knock(d, "change") /\ SteppedUp(s)
  /\ EnterAs(d, [Home EXCEPT !.pc = "setPassword", !.op = "change", !.by = s])
  /\ UNCHANGED <<signScope, pw, away, enrolment, cacheKeys, passkey, sessionsOpen, uses, cutShort>>

\* Mutant: the sessions are left alone.
BugAfterPassword == "idle"
AfterPassword == "list"

WritePasswordHash(d) ==
  LET x == doors[d] IN
  /\ x.pc = "setPassword"
  /\ pw' = pw + 1
  /\ UsedBy(x)
  /\ opened' = IF x.by # 0 THEN [opened EXCEPT ![x.by] = [@ EXCEPT !.born = pw']] ELSE opened
  /\ StepTo(d, AfterPassword)
  /\ UNCHANGED <<signScope, arrivals, away, enrolment, cacheKeys, passkey, nextOpened, cutShort>>

\* RevokeAll lists the sessions, then revokes each of them.
ListSessions(d) ==
  /\ doors[d].pc = "list"
  /\ EnterAs(d, [doors[d] EXCEPT !.pc = "revoke", !.listed = {s \in Opened : opened[s].live} \ {doors[d].by}])
  /\ UNCHANGED <<signScope, arrivals, pw, away, enrolment, cacheKeys, passkey, sessionsOpen, uses, cutShort>>

RevokeListed(d) ==
  /\ doors[d].pc = "revoke"
  /\ opened' = [s \in Opened |-> [opened[s] EXCEPT !.live = @ /\ s \notin doors[d].listed]]
  /\ GoHome(d)
  /\ UNCHANGED <<signScope, arrivals, pw, away, enrolment, cacheKeys, passkey, nextOpened, uses, cutShort>>

-----------------------------------------------------------------------------
(* The rest of the system *)

LockOut ==
  /\ "lock" \in signScope.ops /\ ~away
  /\ away' = TRUE /\ opened' = [s \in Opened |-> [opened[s] EXCEPT !.live = FALSE]]
  /\ UNCHANGED <<signScope, arrivals, pw, enrolment, cacheKeys, passkey, nextOpened, doors, uses, cutShort>>

\* The instance stops or a call fails; a revocation that fails is only logged.
DoorFails(d) ==
  /\ "fault" \in signScope.ops /\ doors[d].pc # "idle"
  /\ cutShort' = (cutShort \/ doors[d].pc \in {"list", "revoke"})
  /\ GoHome(d)
  /\ UNCHANGED <<signScope, arrivals, pw, away, enrolment, cacheKeys, passkey, sessionsOpen, uses>>

SignInNext ==
  \/ \E d \in Doors :
       \/ Login(d) \/ LoginFactor(d) \/ CreateSession(d)
       \/ CountAttempt(d) \/ DropToken(d) \/ DropCounter(d) \/ Validate(d)
       \/ Claim(d) \/ ClearCounter(d) \/ ReadUser(d)
       \/ Generate(d) \/ Confirm(d) \/ ReplaceBackupCodes(d) \/ RecordMFA(d)
       \/ FinishRegistration(d) \/ UpdateLastUsed(d)
       \/ AuthenticateBegin(d) \/ ForgotPassword(d) \/ WritePasswordHash(d) \/ ListSessions(d) \/ RevokeListed(d)
       \/ DoorFails(d)
       \/ \E k \in Tickets : ResetPassword(d, k) \/ AuthenticateComplete(d, k)
       \/ \E k \in Tickets, g \in Guesses : MFAChallenge(d, k, g)
       \/ \E k \in Tickets, s \in Opened : StepUpComplete(d, k, s) \/ RegisterComplete(d, k, s)
       \/ \E s \in Opened :
            \/ TOTPSetup(d, s) \/ TOTPRemove(d, s) \/ RegenerateBackupCodes(d, s)
            \/ RegisterBegin(d, s) \/ StepUpBegin(d, s) \/ DeletePasskey(d, s) \/ ChangePassword(d, s)
            \/ \E n \in Secrets : TOTPConfirm(d, s, n)
            \/ \E g \in Guesses : StepUp(d, s, g)
  \/ \E s \in Opened : ProofAges(s)
  \/ \E k \in Tickets : TicketExpires(k)
  \/ LockOut

SignInSpec == SignInInit /\ [][SignInNext]_sVars

-----------------------------------------------------------------------------
(* Safety *)

\* An mfa token, a reset link and a passkey challenge have one effect each, also when
\* several requests present the same one at the same time; the mfa token is read, then
\* counted, then validated with, and only then taken.
UsedOnce == \A k \in Tickets : uses[k] <= 1

\* A live mfa token is tried at most MaxAttempts times, by any number of requests;
\* excepted is a token that could not be deleted when its counter was.
GuessesBounded ==
  \A k \in Tickets : tickets[k].live /\ k \notin resetKey => guesses[k] <= MaxAttempts

\* A password alone opens a session only if TOTP was off at some moment since the
\* request arrived.
SecondFactorAsked ==
  [][\A d \in Doors : doors[d].op = "login" /\ nextOpened' # nextOpened /\ doors'[d] # doors[d]
                        => doors[d].off]_sVars

\* A session opened before the password was changed or reset does not outlive the
\* request that changed it, unless the revocation failed; the one that asked is kept.
ChangeEndsSessions ==
  ~cutShort /\ (\A d \in Doors : doors[d].op \notin {"reset", "change"}) =>
    \A s \in Opened : opened[s].live => opened[s].born = pw

\* What the comment of Verify says: it marks the secret whose code it has validated.
ProvenSecretOnly ==
  [][\A d \in Doors : doors[d].pc = "confirm" /\ totp'.verified /\ ~totp.verified
                        => totp'.secret = doors[d].totp.secret]_sVars

\* What the comment of Validate says: during login it takes a TOTP code or a backup code.
BackupCodeTaken ==
  [][\A d \in Doors : Validate(d) /\ IsSetup(totp)
                     /\ doors[d].guess.kind = "backup" /\ doors[d].guess.set \in totp.codes
                        => doors'[d].pc = Accepted(doors[d].op)]_sVars

\* What the comment on the routes says: turning TOTP off takes a recent proof.
TOTPOffNeedsProof ==
  [][IsSetup(totp) /\ ~IsSetup(totp') => \E s \in Opened : SteppedUp(s)]_sVars
=============================================================================
