# Verification of ctech-account

TLA+ models of the identity provider under `api/`, the TLC runs that check them
on small instances, and TLAPS proofs for every value of the constants. Line
numbers refer to the source tree; `PROJECT.json` maps every definition to the
lines it stands for.

## 1. The system

ctech-account is a stateless Go HTTP API over DynamoDB (single-table items,
conditional writes and transactions), SES e-mail, SNS events to other products
and a Valkey cache. Several instances run at once; each also runs one *worker
loop* that wakes every minute. Nothing is kept in memory between requests except
caches, so every race is a race between DynamoDB calls of different processes.

| component | state | operations | hard behaviour |
|---|---|---|---|
| account deletion (`domain/deletion`) | request row (META), open-request marker, one SVC row per participant, cancel links; the user's deletion block | open, confirm, cancel (link, support), worker step, ack, legal hold, redrive | several instances step the same request; whole-row saves from stale copies; crash between two effects; events and acks at least once, in any order |
| sessions and refresh tokens (`domain/session`) | session row, one refresh-token row per client, consumed-hash markers | create, issue, rotate with reuse detection, revoke (one, all, clients), MFA proof | two uses of one token; revocation racing an issue or a rotation; a list read before its rows are deleted |
| token endpoint, codes, consents, clients, API keys (`handler/token.go`, `domain/oauth`, `domain/apikey`) | authorization codes, consents, client rows, key rows | authorize, consent, redeem, refresh, client credentials, key exchange, revoke | a code redeemed twice; tokens minted after a lock check; read-modify-write of scope lists; a lagging index |
| login and MFA (`handler/auth.go`, `domain/mfa`) | single-use tokens and attempt counters in the cache, TOTP row with backup codes, passkey credentials | login, challenge, enrol, step-up, passkey, password change and reset | one token presented by several requests, counters under concurrency, enrolment racing a login |
| users (`domain/user`) | user row, address marker, deletion block, unlinked services | register, verify, Google sign-in and linking, purge | unique e-mail across two items, lookups on a lagging index |
| organizations, companies (`domain/organization`, `domain/company`) | META row, memberships, invitations, companies, tax-id locks, actors | create, invite, accept, role, transfer, leave, register, erase | rights read before a write; ownership across three rows; erasure of what was assessed earlier |
| plan limits (`domain/planlimit`, guards in `domain/organization`) | guard counters, dirty rows, levels at the billing service | guard a creation, report, drain, reconcile | count checked before a write; a report older than the one it replaces |
| KYC, data export, support (`domain/kyc`, `dataexport`, `support`) | tax-number claims, documents; export row and files; ticket and thread | submit / review / retain; request / collect / expire / erase; open / answer / close / redact | late results, retries, interrupted clean-ups |
| scope registry (`scopes`) | manifest with its history, cached catalogue | provision, publish, restore, bootstrap | racing publishers, stale cache |
| signing keys, middleware, audit, risk, e-mail, UI, infrastructure | — | — | request plumbing, append-only work, outside services |

What makes each correct, in one line: *deletion* — nothing is erased before the
person could have stopped it, nothing is purged before every participant
answered, nobody stays blocked by a request that is over, nothing is forgotten.
*sessions* — one live refresh token per client and session, a replayed token
kills its session, what was revoked stays revoked. *codes* — redeemed once.
*MFA* — a single-use token works once, and a code is asked for where TOTP is set
up. *users* — one account per address, always with a way in. *organizations* —
one owner, rights come from owners, limits hold. *clean-ups* — what must go is
gone and what must stay is kept, wherever they stop. *scopes* — no token exceeds
what was granted.

How parts interact: deletion locks an account through the user service
(`MarkPendingDeletion`), sessions (`RevokeAll`/`RevokeClients`), API keys and an
event to the products; it erases through events that products answer over HTTP;
it purges through the user service. The token endpoint reads codes, consents, the
deletion block and sessions. Login creates sessions. Workspaces report their
levels to billing. The purge of an account erases the workspaces owned alone,
moves KYC documents to a vault, erases exports and redacts tickets; each of
these is an action of the module that owns the rows.

## 2. Plan

Order: what cannot be undone first (deletion), then what decides who holds a
credential (sessions), then the rest of the state machines.

| module | part | state |
|---|---|---|
| `DeletionModel`, `Deletion`, `DeletionLifecycle` | account deletion, against its abstract lifecycle | done, every safety property of its runs proved, refinement included |
| `DueQueue` | the batch limit of the due index, which `Deletion` leaves out | done |
| `Sessions`, `TokenFamily` | sessions, refresh tokens, code and refresh grants, against the abstract token family | done, every safety property proved, refinement included |
| `Workspaces`, `SpacePlans` | organizations, invitations and companies with their erasure; plan guards and level reports | done, every property of both proved |
| `Accounts`, `SignIn` | the accounts of an address; second factors, passkeys and passwords of an account | done, every property proved |
| `Support`, `Kyc`, `DataExport` | one record each, with its clean-up when the account goes | done, every property proved |
| `Grants` | scope registry and catalogue, clients, consents, codes, machine tokens, API keys | done, every property proved |

Theorems left: none of the safety properties that a passing run checks; what TLC
alone checks is in section 10.

The project keeps to a dozen runs, so that checking all of it stays a matter of
minutes. Components that share no row are joined in one MC module: a variable
`focus`, chosen at the start, says which of them a behaviour is about, and the
others keep their initial state. Inside a component a *scope* (`Scopes`,
`PlanScopes`, ...), also chosen at the start, names the entry points a behaviour
uses and how many requests it makes. The scopes are listed in the MC modules:
they pair the entry points that write rows the others read, so that every race
the properties are about happens, and together they fire every action.

## 3. The deletion component

### Modules

* `DeletionModel` — the rows and the pure functions on them (`model.go`, and the
  helpers of `service.go` without I/O: `nextDue`, `scheduleNext`,
  `nextDispatch`, ...).
* `Deletion` — the processes. `procs[p]` is an operation in progress: its step
  (`pc`), the private copy of the request row it read (`loc`), the state its
  `Save` expects (`from`), and copies of SVC rows (`sts`). One action per
  DynamoDB call, e-mail or publication; the order is that of the source.
* `DeletionLifecycle` — the abstract specification: request states and their
  moves, one open request per person, erase orders only past cancelling.
* `MCDeletion` — instances for TLC.
* `DeletionProofs`, `DeletionSafety`, `DeletionErasure` — the theorems.

| code | model |
|---|---|
| META row, marker, SVC rows, user row | `rows`, `marker`, `svcs`, `users` |
| SNS events | `msgs`: a set that only grows, so delivery is at least once and unordered |
| e-mail | `confirmMailed`, `linksMailed`; `linksMade` counts generated tokens |
| `Create`, `Save` transactions | `PutNew`, `Put` with `CreateAllowed`, `SaveAllowed` |
| `SaveService` | `PutService`: skipped when the status changed |
| open / expireUnconfirmed | `OpenRequest`, `Create`, `ExpireUnconfirmed`, `SendConfirm` |
| Confirm | `Confirm`, `SaveConfirmed`, then the lock and the first link |
| Lock / applyLock | `MarkPendingDeletion`, `PublishLocked`, `SaveLock`, `Recheck` |
| sendCancelLink | `StoreLink`, `SendLink` |
| Cancel, SupportCancel, finishCancel | `Cancel`, `SupportCancel`, `SaveCancelled`, `ClearPendingDeletion`, `PublishUnlocked` |
| ProcessDue, step | `ProcessDue` with one `Step...` operator per request state |
| reconcile | `Reconcile`, `Redispatch`, `BumpService`, `Purge` |
| Ack, SetLegalHold, Redrive | `Ack`/`SaveAck`/`AckGet`, `SetLegalHold`, `Redrive`... |
| an instance stops | `Crash`: the process loses its place, nothing else |

A failing call is an alternative of the call's action: the effect may or may not
have happened. Consecutive reads that no later step relies on separately, and a
read followed at once by a conditional write whose failure takes the same path,
are one step; everything else is interleaved.

Data left out: texts, addresses, token bytes (a token is its number), audit rows,
the revocation of sessions and API keys inside `Lock` (idempotent, nothing in
this component reads them back; an error there is the fault of
`PublishLocked`). The blockers `assess` reports at the end of grace are a free
choice between `locked` and `blocked`.

### Bounds

`MaxTime` ticks of the clock, `MaxLinks` cancel links per request, `MaxFaults`
failed calls and crashes in total, `OpSpan` ticks one operation may straddle,
`PassSkew` how far a worker pass lags (it reads the clock once, at the start),
`Ops` the entry points a run exercises, and the sets of requests, processes and
participants. Periods are one or two ticks, so that confirming in time, too late,
the reminder, the end of grace and every back-off happen within `MaxTime`. Two
requests are enough for a reopen; two handlers or two workers for a race of a
kind with itself; one fault, because recovery restarts from the row and keeps no
memory of an earlier fault. Runs split the entry points by question: together
they fire every action. Deadlock checking is off because ids, links and the clock
are finite: a behaviour ends when all are used up.

### Runs

| run | instance | checks |
|---|---|---|
| `deletion_lifecycle` | 1 request, 1 handler, 1 worker, 1 fault | `TypeOK`, `EraseOnlyCommitted`, `SentLinkWorks`, `NoLockWithoutLink`, `OwedIsDue`, `ImplementsLifecycle` |
| `deletion_reopen` | 2 requests of one person, 1 handler, 2 workers, no fault | `MarkerIffOpen`, `PurgingStaysBlocked`, `NoStrandedBlock` |
| `deletion_saga` | 2 participants, refusals, redrive, hold, a lagging worker, 1 fault | `PurgedAfterAcks`, `AckIsFinal` |
| `deletion_live` | fair, 1 fault | `PendingGetsLink`, `PurgeFinishes` |

One further run shows where the code and what is written about it disagree; it
ends in a counterexample.

| run | property | what happens |
|---|---|---|
| `hold_lost` | `HoldNeedsAdmin` | the worker reads the row, an admin places a hold, the worker's whole-row `Save` (conditional on the state only) writes the row back without it |

Two more disagreements have no run of their own. `LockAppliedBlocks`
(`user/service.go:390-392`, "so a late unlock of an old request cannot free a
newer one"): `MarkPendingDeletion` is unconditional, so the lock of a cancelled
request that lands after a newer request's takes the block over, and its
compensation frees the newer one. And `NoStrandedBlock` fails with one fault
(`MaxFaults = 1` in `DeletionReopen.cfg`): the process stops between the late
lock and its compensation, and the cancelled request is no longer due.

`PurgingStaysBlocked` says how far the first goes: a stolen block is possible
while pending, but the step from locked re-applies the lock, and from purging on
the block is the request's own, whatever calls fail. It depends on no operation
lasting as long as the grace period (`OpSpan < GracePeriod`): an `open` that read
the user before the lock and wrote its row after the purge would block the
tombstone again. Once purged, the block can still be lost in one way, which the
property names (`OpenedSince`): another request was opened after the confirmation,
by a person who could sign in then because the block had been stolen and freed, or
had not been applied after a failed call. The marker lets that request be created
once the first is purged; its `MarkPendingDeletion`, unconditional, takes the
tombstone over. Without a failed call this needs three requests of one person, one
more than the run has. The property also lets a late lock of the purged request
itself set `deletion_state` back to pending: sign-in stays blocked.

Two things the model has and no property forbids, because the code does not:
the step of a locked request does not look at a hold (the overview of the
specification says a hold keeps it locked), and a link token saved by one process
can be dropped by the whole-row save of another (`SentLinkWorks` says that one
working link remains).

### Fairness

`FairSpec` assumes that an operation in progress goes on (`WF` of `Continue`: a
goroutine is not suspended for ever; a crash is a fault and counted), that a
request that is due again and again is eventually stepped (`SF` of `ProcessDue`
per request: the loop runs each minute and covers every request of its batch;
strong, because the request is not due, or the worker is busy, in between), that
participants eventually answer an order they keep receiving (`SF` of `Ack`: the
saga re-dispatches until they do; without it nothing can finish), and that time
passes. People are not assumed to do anything. The batch size (25 per state) is
not in this model: `DueQueue` (section 5) shows when it matters.

`PurgeFinishes` excludes a request whose next due time lies beyond the clock's
bound.

### Proofs

Assumptions on the constants: `SetsAssumption` (the empty value is none of the
ids), `TimesAssumption` (positive periods, a nonempty back-off list),
`ScopesAssumption`, `ProcsAssumption`. None bounds the number of users, requests,
participants, processes or faults.

* `TypeCorrect` (`DeletionProofs`): `Spec => []TypeOK`. `TypeOK` is not inductive:
  `NextReconcile` chooses a minimum of the dispatch times, which exists only while
  some participant is still dispatched, and a copied row must be a real one.
  `TypeInv` adds, per step, what a busy process is known to hold (`Busy`).
* `MarkerCorrect` (`DeletionSafety`): `Spec => []MarkerIffOpen`. `Save` trusts the
  process's copy: the proof must know that its user and scope are the row's, that
  the state it is conditional on is the one it read, and that it only makes legal
  moves. `SafeInv` is `TypeInv`, the marker invariant, `Knows` (what a copy keeps
  in common with its row for good), `Plans` (which moves each step may have
  prepared) and that requests have owners.
* `LifecycleCorrect` (`DeletionSafety`): `Spec => ImplementsLifecycle`, the
  refinement of `DeletionLifecycle`, from the same invariant: each action maps to
  one abstract move, an order, or a stutter.

* `DeletionErasure`: six properties from one inductive invariant, `EraseInv`, which
  is `SafeInv` with `SoundRows`, `SoundProcs`, `Orders` and `Tombstones`. None of
  the six is inductive, for one reason: `Save` replaces the whole row by a copy
  that may be old, so what must hold of rows must hold of every copy a process
  may still write. `Sound` says it once, for rows and copies alike. It can hold of
  old copies because it refers to the rest of the state only by facts that never
  become false: a link was mailed, a participant was asked or has answered, time
  has passed. `SoundStable` and `HoldsStable` carry it over a step, and each action
  then accounts for the one copy it changes. `Orders` ties erase orders to rows
  past cancelling, `Tombstones` a purged account to its answered request.
  The theorems are `EraseCorrect`, `PurgeCorrect`, `AckCorrect`, `LinkCorrect`,
  `NoLockCorrect` and `OwedCorrect`, for `EraseOnlyCommitted`, `PurgedAfterAcks`,
  `AckIsFinal`, `SentLinkWorks`, `NoLockWithoutLink` and `OwedIsDue`.

* `BlockCorrect` (`DeletionErasure`): `PurgingStaysBlocked`, assuming
  `OpSpan < GracePeriod`. An operation is one HTTP request (the server's
  timeouts are 15 seconds, `app/http.go:74-75`) or one step of a worker, and the grace
  period is seven days (`deletion/model.go:14`). The argument is about time, so it starts with
  `KeepInv`: `EraseInv` and what the copy of an operation keeps of the times of
  its row and of its own start, and that a block on a user belongs to a request of
  that user. On top of it one lemma per action says what a process may do to the
  rows, the users and itself (`Turn`); `NextTurn` collects them, and the two proofs
  about blocks reason about a `Turn` and never look at the actions again.
  `BlockInv` adds: a process about to lock started no later than the confirmation
  of any other request that is open or under way (`Marks`), so none is left when the
  grace period of that request has ended; a request open beside a purged one came
  after it (`Newer`); and the step that re-applied the lock still has the block when
  it records the purge (`Blocks`).
* `StrandedCorrect` (`DeletionErasure`): `NoStrandedBlock` in every state no call
  has failed before (`faults = 0`). `StrandInv` says of a cancelled request whose
  block is still there that a process is on its way to clear it, or that the request
  is due and nobody is about to take it out of the index.

Only model-checked: the liveness properties (fairness is out of the prover's
reach).

## 4. Sessions and refresh tokens

### Modules

* `Sessions` — the rows of one person and the requests that work on them.
  Partitions of different people never meet.
* `TokenFamily` — the abstract specification: sessions open once and end once;
  each session and client have at most one usable token, replaced only by a new
  one; nothing of an ended session is usable.
* `MCSessions` — instances for TLC.
* `SessionsProofs` — the theorems.

| code | model |
|---|---|
| SESSION rows, REFRESH rows, lookup rows | `sess`, `toks`, `lookups` |
| authorization codes in the cache | `codes` |
| `deletion_state` of the user | `blocked` |
| a token | its number; `nextHash` is the next one generated |
| login | `Login` (the checks), `Create` |
| `GET /authorize` | `Authorize` |
| authorization-code grant | `Exchange`, `ExchangeUser`, `ExchangeSession`, `IssueGet`, `IssuePut` |
| refresh grant | `Refresh`, `GetLookup`, `GetRow`, `GetConsumed`, `GetSession`, `Rotate`, `Mint` |
| `/revoke`, logout, sessions page | `RevokeClientToken`, `Revoke`, then `ListTokens`, `DeleteListed`, `DropSession`, `DropToken` |
| `RevokeAll`, `RevokeClients`, `Lock` | `RevokeAll`, `RevokeClients`, `Lock`, `Mark`, `ListByUserID` |
| step-up | `RecordMFA`, `UpdateMFA` |
| DynamoDB TTL, cache TTL | `Prune` |

`held`, `ended`, `cause` and `replayed` record what happened, for the properties;
no action reads them to decide what the code does, except that a request names a
token some client holds, or a session that exists or existed. `late` and
`barred` record, when a request arrives, that its session had ended or the person
was blocked.

Reads return the last write. The token and lookup rows are read with
`ConsistentRead`; the others through the shared table wrapper, whose read mode is
not part of this repository, and the hash index is only used for tokens older
than lookup rows. A failed read ends the request as `Crash` does. Consumed
markers of the format before lookup rows are not modelled: nothing writes them.
Scopes are left out except for which clients a product unlink touches
(`Product`).

### Bounds and runs

`MaxTokens` generated tokens, `MaxTime` ticks, `MaxFaults` failed calls and
crashes, `Ops` the entry points of a run (`"legacy"` starts with a token older
than lookup rows, `"ttl"` lets expired rows disappear). Two requests at a time
show every race of a kind with itself or another; three tokens are an old one and
two candidates for its successor. `SessionTTL` is one tick where a token can
outlive its session. Deadlock checking is off: tokens, time and session ids run
out.

The run `sessions` goes through six scenes (`AllScenes`): two clients of one
session; rows that expire and are pruned; one chain of three tokens with a failed
call or crash; and two sessions under logout, revoke-all, unlink, a deletion lock
and step-ups. Processes and session ids are symmetric.

| run | checks |
|---|---|
| `sessions` | `TypeOK`, `ChainSound` (a current token is found by its hash and was never consumed; a token is traded once), `ReplayEndsSession`, `ImplementsFamily`, `EndedGetsNothing`, `BarredGetsNothing` |
| `issue_logs_out` | counterexample to `EndsForCause`: a client signs in again while its refresh is in flight; the rotation's failed condition counts as reuse and the whole session is revoked |

Revocation and issuing are not atomic: a token written after `Revoke` listed the
tokens outlives its session as a row. `EndedGetsNothing` and `ImplementsFamily`
show why that is harmless (`GetSession` looks at the session again), and
`BarredGetsNothing` the same for a session created while a lock runs (`Mint` and
`ExchangeUser` look at the block). Both are about requests that arrive after the
session ended, or after the block; one already past its last check still gets its
answer.

`ReplayEndsSession` speaks of quiet states after no fault, because the code only
logs a revocation that fails; the next presentation of the token tries again.

An unlink that deletes the token a refresh is rotating ends the session the same
way as in `issue_logs_out`. The list of authentication methods on a session is
not modelled: two step-ups at the same time can each write back the list they
read.

### Proofs

`SessionsProofs` proves all six properties of the run for any number of sessions,
clients, tokens, requests and faults: `TypeCorrect`, `ChainCorrect`,
`ReplayCorrect`, `EndedCorrect`, `BarredCorrect`, and `FamilyCorrect`, the
refinement of `TokenFamily`. A request acts on what it read steps ago, so the
common inductive invariant `Inv` says what it may still rely on (`Good`): the
session it names has been open, the token it presents belongs to the chain it goes
on with, the token it traded is current nowhere. Of the rows it says that a token
belongs to one chain for good (`OwnedOnce`), that what is current is found by its
hash (`LookupsOK`), and that a traded token is never current again (`TradedOK`).
A late request names an ended session, which is never live again, and `GetSession`
refuses it. `ReplayEndsSession` needs two more facts: a consumed marker lives as
long as its session (`Remembered`), and while the session is live some request is
on its way to end it (`ReplayOK`).

`EndsForCause` is not a theorem: `issue_logs_out` refutes it.

## 5. The due index

`DueQueue` has one state of the due index, more requests than a page, and steps
that succeed or fail. `ListDue` takes the first `Batch` rows by due time, in any
order among equals. Fairness: the pass runs every minute and runs to its end
(`WF` of `ListDue`, of `Step` and of time); nothing says that a failing step ever
succeeds.

`due_starved` — as many failing requests as a page: `DueGetsTurn` fails, a later
due request is never listed. With `MaxBroken = 1`, fewer than a page, it holds,
which is what the strong fairness of `ProcessDue` in `Deletion` assumes. Three
requests and a page of two stand for any numbers with that relation: only whether
the failing ones fill a page matters.

## 6. Workspaces and plan limits

`Workspaces` is one workspace of either kind. `SpacePlans` is the accounting of
personal spaces: it takes for granted who may do what, and looks at counting.

| code | model |
|---|---|
| META, MEMBER, INVITE rows | `org`, `roles`, `invites` |
| COMPANY, TAXID, ACTOR rows | `firms`, `taxLock`, `actors` |
| a handler with its service call | an entry action that reads, then a `...Write` step: `SetRole`, `SetRoleTarget`, `SetRoleWrite` |
| `transferItems`, `AcceptInvitation`, `CreateWithOwner`, company `Create` | single steps with the conditions of their transactions |
| deletion: `Assess`, `EraseForOrganization`, `EraseOrganization` | `Assess`, `EraseForOrganization`, `EraseMembers`, `EraseInvitations`, `EraseOrganization` |
| guard counters | `spaceN`, `peopleN`; `GuardHolds` is the condition of `guardExpr` |
| membership index | `idx`, which follows `holder` in steps of its own |
| NOW and AT rows of the dirty queue | `marks`, `ats`, `due` |
| levels held by ctech-billing | `told` |
| `ProcessDue` of `planlimit` | `ProcessNow`, `ProcessAt`, `WorkerCount` ... `Done` |

Time appears once, as the assumption `reconcileSettle` is chosen by: thirty
seconds after a change was marked, the index shows what the table had by then and
the requests of that time are over (`waits`).

Bounds: three people (an owner, somebody with rights, somebody without), two
requests at a time, two invitation tokens, two companies under one tax id, two
spaces, a quota of one. Requests are lost at any step (`Crash`).

Run `workspaces` (778,251 states): `RowsAgree` (exactly the owner the row names, a
space without admins and companies, one company per tax id),
`AdminsComeFromOwners`, `SpacesWithinPlan`, `QuietMeansReported`. The last two
speak of what the code can promise:

* `SpacesWithinPlan` is about steps: nobody *gets* a space beyond the plan. Who has
  more keeps them (`docs/specs/2026-10-10-space-plan-limits.md`, section 3: a
  downgrade takes nothing away). It makes one exception, for an owner whose counter
  was set below the truth (`undercut`, kept per owner): the worker counts on an index
  that shows a former owner's space no more and the new one's not yet, or a
  decrement lands on a counter that never counted the space.
* `QuietMeansReported` excepts an owner whose last change left nothing that
  remembers it (`unmarked`): the mark failed and the failure was only logged, the
  instance stopped between commit and mark, an expiry was never scheduled, or
  `personalSpace` could not read the space and took it for an organization
  (`Untold`; `PutInvitationUnguarded` is the same for an invitation, which then
  also goes past its guard). A report has two meters, and one that fails may have
  delivered the first (`FailedReport`).

`WorkspacesProofs` proves `WorkspaceTypeCorrect`, `RowsCorrect` (`RowsAgree`) and
`AdminsCorrect` (`AdminsComeFromOwners`) for any number of people, companies,
invitations and requests. The invariant `WInv` adds what a request still knows
when it writes: the role it read may be gone, but the reader did own the
workspace, or was only allowed to give a lower role, and that does not become
false; an invitation, stored or in a request's hands, offers admin only if
somebody who owned the workspace sent it. Assumed of the constants: the values that
stand for nobody and for no company are none of them. `NobodyErasedAlong` is
refuted by the next run.

Its second part proves `PlansTypeCorrect`, `WithinPlanCorrect` (`SpacesWithinPlan`)
and `ReportedCorrect` (`QuietMeansReported`) for any people, spaces, requests and
quotas. Assumed: people and spaces are finite sets, a space is not a request, the
values that stand for nobody and no space are none of them, a quota is a natural
number or unlimited.

* `GuardInv`, under `WithinPlanCorrect`: the property says what a write may not do,
  but a write relies on a count made steps earlier on an index that lags. What makes
  the count good is the counter it was made against. `UncountedSeen`: an owner
  without a counter shows in the index with every space, since any write that makes
  the index lag also writes the counter. `CountedRight`: a counter, once written, is
  at least the number of spaces owned. `CheckRight`: a check in progress against an
  absent counter has counted enough, one against a counter that still stands where
  it was read is bounded by it. The guard of the write is then what carries the
  bound over the steps between.
* `ReportInv`, under `ReportedCorrect`: the property speaks of quiet states only, so
  the invariant says of every state who still knows of a difference. `Covered`: for
  each person, billing is right, or a mark stands, or something is owed (`Owed`: a
  request has still to mark, a scheduled row will come due or is due and not counted
  yet, or the change was lost for good), or the drain has the person in hand.
  `WorkerSound` says the same of the count the drain holds (`Sure`). For the
  drain to delete a mark rightly, its count must have been made on a settled index
  with no older report in the air: `LagNoted` (a space the index lags behind on is
  waited for by its owner's row), `SendNoted` (so is a request about to report),
  `PassedOver` (so is an invitation or a withdrawal that reports to the owner it
  read, when the space has a new one), `WaitsNew` (a row that waits was not
  read). This is where the settling time is needed, and the only place.

Both were checked as invariants by TLC first, on the plans part of this run with
`OneSpaceEach` (484,471 states) and with a quota of none for one person (327,799).
They found four errors of the model before any proof was tried: the exception of
`SpacesWithinPlan` was global instead of per owner; an owner already over the
plan, possible from the start, violated it as an invariant; a failed report was
all or nothing; and `personalSpace` never failed.

Run `erase_shared` ends in a counterexample to `NobodyErasedAlong`: the owner's
workspaces are assessed at the end of grace, an invitation sent earlier is
accepted, and the erasure takes the new member's row with it. The specification
of the deletion has invitations revoked at `pending_deletion`; the code does not.

## 7. Accounts and signing in

`Accounts` is one e-mail address: the marker row that makes it unique, the rows of
the accounts it may get, and the e-mail index, which shows older rows (`lists`).
`SignIn` is one account: what proves an identity is a number (a password, a TOTP
secret, a set of backup codes), what the cache holds is `tickets` (mfa token,
reset link, passkey challenge) and `tries` (attempt counters), and a session is
the password it was opened under. Opening and revoking sessions are single steps
here; `Sessions` takes them apart.

| code | model |
|---|---|
| `Create`: marker, then row, then rollback | `CreateMarker`, `CreatePut`, `Rollback` |
| `FindOrCreateByGoogle`, `LinkGoogle`, `UnlinkGoogle` | the actions of these names and `Bind`, `LinkRead`, `LinkWrite`, `WriteUnlink` |
| terms interstitial | `MintAcceptTerms`, `AcceptTermsToken`, `AcceptPendingTerms` |
| `login`, `mfaChallenge` | `Login`, `LoginFactor`, `MFAChallenge`, `CountAttempt`, `DropToken`, `DropCounter`, `Validate`, `Claim`, `ClearCounter`, `ReadUser`, `CreateSession` |
| TOTP setup, confirm, remove, regenerate | `TOTPSetup`, `Generate`, `TOTPConfirm`, `Confirm`, `TOTPRemove`, `RegenerateBackupCodes`, `ReplaceBackupCodes` |
| passkey begin / complete, three flows | `StoreChallenge`, `ConsumeChallenge` and one action per flow and half |
| password change and reset | `ChangePassword`, `ForgotPassword`, `ResetPassword`, `WritePasswordHash`, `ListSessions`, `RevokeListed` |

Bounds: two ids and two Google identities, two requests at a time, two secrets,
tickets and sets of codes, three sessions, two attempts. Two of each are enough
for one to be stale while the other is current.

Run `identity`: `AddressHeldOnce`, `AlwaysAWayIn`, `OnlyLinkedEnter`, `UsedOnce`,
`GuessesBounded`, `ChangeEndsSessions`, `SecondFactorAsked`. Their exceptions are
named in the modules and recorded by variables of their own: creations whose
second write failed, accounts older than stored Google identities, a counter
deleted without its token, a revocation that failed. `ChangeEndsSessions` is
about sessions open before the change: a login that had proved the old password
and creates its session after the revocation listed keeps it.

`UsedOnce` is about what the cache hands out: an mfa token, a reset link, a passkey
challenge. A request looks a token up, does something with it, and only then takes
it with `GetDel`; `Found` and `Take` are that one call, and a token that is taken
without being found again has its effect twice.

No backup code that is handed out passes a login. `Validate` calls
`totp.ValidateCustom` first, which answers a code that has not six characters with
an error, and returns false on an error before it comes to the backup codes; those
are `crypto.GenerateCode` values of some twenty characters. So the loop that
compares and consumes backup codes only ever sees six characters that are no TOTP
code, and finds nothing: `Validate` has it as a refusal, and consuming a code
(`validateBackupCode`, `ConsumeBackupCode` of the repository) is not an action. Its
race with removals and regenerations, which would matter once the length check
lets codes through, is therefore not checked. The sets of codes are still generated
and replaced (`codes` of the TOTP row), and a guess may be a backup code:
`BackupCodeTaken` says what the comment of `Validate` says of it, and TLC refutes it
(section 9). The test of the loop (`service_test.go:75-112`) passes because it stores
six-digit codes.

`IdentityProofs` proves the properties of both modules. Of `Accounts`,
`AccountsInv` adds what a request may rely on at each step (`VisitSound`) although
the row it goes on with came from a lagging index: the id is of an account that was
created, a password is given up only by a purge, an identity that was linked stays
one that was linked; and that no two creations drew the same id. `AddressHeldOnce`
follows from `OneHolder`: one account, or one creation in progress, or no marker.
Assumed: `NoId` and `NoSub` are not an id and not an identity. Of `SignIn`,
`SignInInv` adds: a token is live, or in the hands of at most one request, or used
(`TicketsSound`); the attempt counter of a live token is at least the codes tried
plus the requests counted and about to try (`TriesSound`); a session behind the
password is going to be listed, or is listed, by a change in progress
(`ChangeSound`). Assumed: the limits are positive, and there may be no token at all.

## 8. Support, identity checks, exports, grants

Four components that share no row, joined in `MCRecords`.

`Support` is one ticket: META row, thread, notes, metrics, the notification
stream, and the redaction when its owner is deleted. `ClosedIsFinal`: whatever was
in flight when a ticket was closed, it stays as it is, counted and surveyed once.
`NoWordsStranded`: the redaction finds tickets by owner and drops the owner last,
so that no interruption leaves words that cannot be found again.

`Kyc` is two accounts and two tax numbers, documents from presigning to the vault,
and the review. `OneAccountPerCPF`; `DocumentsRetained`: after the purge every
confirmed document that was not rejected since is in the vault and none under the
old prefix. The purge reads the user row (`ReadLeaver`) and moves the documents
named there (`papers`). The person is locked out by then, a reviewer is not: a
submission may be decided while the move runs. A rejection deletes the documents
it read, as it does at any other time, so these are no longer owed; when such a
document is gone before its copy, the copy fails and the purge starts over. One
of the scopes has review, purge and faults together.

`DataExport` is the export row of a person, the files, the message to one product
and its acks, the reconciliation by status reads, and the erasure.
`NoFileSurvivesPurge`: also files the row had stopped naming. That the ready
e-mail goes out once is part of its type invariant. Times are told apart as the
code does (`age`, `silent`, `over`).

`Grants` is one resource server (the Account's own or a product's), its manifest
and history, the cached catalogue, three clients (first-party UI, first-party
service, a developer's), one consent, codes, and one API key with its lagging
index. `ActiveNeverDropped`: whatever publishers race, an active scope leaves the
registry only through deprecation or an operator's restore. `NothingBeyondGrant`:
over a stale catalogue, a row revived by a late update, or an index that still
shows a revoked key, no token carries an internal scope, one the person never
approved, or one never published for machines, and none answers a request made
after the account was locked for its deletion, or, for a machine, after it was
disabled.

An account is barred in two ways (`Bars`), and the grants ask for different ones.
`CodeOwner` and `KeyOwner` look at the deletion state alone (`token.go:343`,
`pendingDeletionProblem`); only `ClientActive`, the machine's grant, looks at
`is_enabled` too (`user.IsActive`). A code or a key of an account that is disabled
but not locked therefore still gets its token, and the property does not exclude it:
it says of each grant what its check is to keep true while the lock lands between
two steps. The bars are set in any order and never taken off here; no code of the
repository turns `is_enabled` off, so that one is set on the row from outside. There is no
public client of a developer, no client bound to a publisher, and no refresh grant
(`Sessions` has it, without its scopes).

Bounds: two requests at a time; six messages; two documents, of the two types
required here (three in the code); two exports and two dispatches (the parts of an
export go in one step of `ClearFiles`); three scopes,
one of them internal, four manifests (first, extended, deprecating, invalid) and
three revisions. A purge comes days after the lock, so it starts when the person
has no request in progress.

Run `records` checks the seven properties above and the type invariants.

`RecordsProofs` proves five of them for every value of the constants.

* `ExportErased` (`NoFileSurvivesPurge`), from `ErasureAlone`: once the erasure runs,
  no job is in progress and the product's upload URLs are dead.
* `CPFCorrect` and `RetainedCorrect` (`OneAccountPerCPF`, `DocumentsRetained`), from
  `KycInv`. `Desks`: a number is only submitted for a row that has none, so the
  claim given up with it is never one that another account took since; about a
  leaver only a decision is under way. `Owners`: an object belongs to one account
  for good (so the release of an older number by a new submission, which the
  transaction provides for, does not happen from an empty start; a number is only
  released by the purge). `Owed`: at each step of the move, every owed document is either still
  stored and on the list or in the vault, also when the row has changed since it
  was read. Assumed: the values for no account and no number are none of them.
* `ClosedCorrect` and `WordsCorrect` (`ClosedIsFinal`, `NoWordsStranded`), from
  `SupportInv`. `Calls`: one request creates the ticket and one closes it, and once
  the account is gone only the holder of an anonymous token still adds words.
  `Counted`: the request that closes counts one resolution, and it alone may ask
  for the survey. `Words`: the owner is dropped when no words are left, and until
  then the index lists the ticket.

`GrantsProofs` proves the two properties of `Grants` from `GrantInv`. A request
goes on with a catalogue, a row or a manifest it read several steps ago, so the
invariant cannot compare that copy with the table. It says of each copy only what
can never become false again: a scope that a public catalogue lists is not
internal (`CleanCatalogue`), an approved scope was approved once, a machine's scope
was published for machines once, what bars an account stays, a revision number
is not used twice (`RegistrySound`). `HoldersSound` says it of consents, codes,
clients and the key, `AskSound` of a request at each of its steps. Every token is
minted from a copy of this kind, so the property follows at the mint.
`ActiveNeverDropped` follows from the check against the row that was read and the
revision that the write compares. Assumed: the given manifests are manifests, that
is, entries for some of the names.

## 9. Written claims that do not hold

Besides the four runs that end in a counterexample (`hold_lost`,
`issue_logs_out`, `due_starved`, `erase_shared`), the modules state these claims
of comments and documents. Added to the cfg of their component, TLC refutes each.

| definition | says | what happens |
|---|---|---|
| `Deletion.LockAppliedBlocks` | `user/service.go:390-392` | section 3 |
| `Workspaces.TokenSpentOnce` | `organization/repository.go:450` a token cannot be spent twice | accepted, removed, and accepted again by a request that read the invitation before: the condition is on the membership |
| `SpacePlans.PeopleWithinPlan` | `organization/counters.go:21` two requests cannot both write | an acceptance between the two lists of `peopleIn` is counted in neither |
| `Accounts.TermsBeforeSession` | `social.go:166-167` terms before any session exists | a new Google account that closes the interstitial signs in again as an existing one |
| `SignIn.ProvenSecretOnly` | `totp/service.go:55` | a secret generated between the proof and the write is marked verified |
| `SignIn.BackupCodeTaken` | `totp/service.go:100` "Validate checks a TOTP code (or backup code) during login" | lines 120-122 refuse any code that has not six characters before the backup codes are tried; those handed out (lines 74, 166) have some twenty |
| `SignIn.TOTPOffNeedsProof` | `mfa.go:38-39` | a setup that looked before a confirmation replaces the confirmed secret by an unverified one |
| `Support.NPSSetOnce` | `docs/specs/2026-08-22-support-tickets-design.md:87` | two ratings at once: the write has no condition |
| `Kyc.ExpiredMayResubmit` | `kyc/model.go:158-159` frozen until rejected or expired | an expired submission is shown as such and still refused |
| `Kyc.BasicImmutable` | `kyc/service.go:94-96` never regresses | two first submissions at once; the second write replaces the first's number |
| `DataExport.AckNotOverwritten` | `dataexport/service.go:176-178` | a re-dispatch by a status read writes back the part it read before the ack |
| `DataExport.DiscardKeepsInterval` | `dataexport/service.go:360-361` | a build that finishes after the discard turns the tombstone into a failed export, which may be replaced at once |
| `Grants.GrantsNeverRemoved` | `oauth/client/operator.go:191-194` | two reconciliations write back the lists they read |
| `Grants.ApprovalNeverDrops` | `oauth/consent/service.go:30-31` | two approvals at once; an approval that read before a revocation brings the old scopes back |
| `Grants.CatalogIsCurrent` | `scopes/service.go:71-72` | a catalogue loaded before the publication is cached after the invalidation |

Behaviours the models have that no statement of the repository forbids: the claim
of a tax number lost to a concurrent submission of the same account is never
released; the ten-document limit is checked before an unconditional append; an
update revives a deleted client, passkey or API key as a row that cannot be used;
a code or an API key of an account that is disabled, but not locked for deletion,
still gets tokens (`is_enabled` is asked of a machine's owner only); an
AT row scheduled before a transfer reports for the former owner; an agent's
connection keeps the internal channel after the role is taken; the address given
with a signed-in person's ticket is not removed by the redaction.

## 10. What is proved, and what is only model-checked

Proved by TLAPS, for every value of the constants allowed by the named assumptions
(the bounds of the runs, on requests, tokens, time and faults, are parameters
there, so no theorem depends on a small one):

| module | theorems | inductive invariant | checked first by TLC on |
|---|---|---|---|
| `DeletionProofs` | types | `TypeInv` | `deletion_lifecycle` |
| `DeletionSafety` | marker, refinement of the lifecycle | `SafeInv` | `deletion_lifecycle`, `deletion_reopen` |
| `DeletionErasure` | erase orders, purge, answers, links, due times | `EraseInv` | `deletion_lifecycle` (534,606 states), `deletion_saga` (624,870), `deletion_reopen` (1,045,093) |
| `DeletionErasure` | blocks of erases, blocks of cancelled requests | `BlockInv`, `StrandInv` | variants of `deletion_reopen`: a fault (1,077,686), three requests (1,184,850), two handlers (1,192,249) |
| `SessionsProofs` | types, chain, replay, ended, barred, refinement of the family | `Inv` | `sessions` (1,487,875) |
| `WorkspacesProofs` | types, rows, admins; types, spaces within the plan, levels reported | `WInv`; `GuardInv`, `ReportInv` | `workspaces` (722,704); its part about plans (484,471) |
| `RecordsProofs` | export files, tax numbers, documents, closed tickets, words | `ErasureAlone`, `KycInv`, `SupportInv` | `records` (806,242) |
| `GrantsProofs` | types, grants, active scopes | `GrantInv` | `records`, the part about grants (370,546) |
| `IdentityProofs` | types of both; address, way in, links; single use, attempts, password change, second factor | `AccountsInv`, `SignInInv` | `identity`: the part about accounts (777,900) and the part about signing in (39,494) |

Each invariant was an invariant of a TLC run on the instance named before it was
proved. Sections 3, 4, 6, 7 and 8 say what the invariants add and why the properties
alone are not inductive. The proofs have the same shape throughout: a predicate
on a request in progress per step it may be at; one lemma that this predicate
survives what other requests do; one lemma per action for the request that moves.
Leaves that a prover finds only near its default time limit name the prover and a
longer limit (`SMTT(20)`, `ZenonT(40)`), so that a slower machine checks them too.

Two attempts failed for a reason worth keeping. `PurgingStaysBlocked`, in an
earlier form, forbade every loss of the tombstone; that held only because the run
has two requests and no fault, and TLC refuted it with three requests. The
exception is now part of the property, which no longer depends on the absence of
faults (section 3). `DocumentsRetained`, in an earlier
form, counted documents that a reviewer rejects during the purge as owed, and the
model read the user row again at each copy where the code uses the row it read;
both were corrected in `Kyc`.

Only model-checked:

* liveness (`PendingGetsLink`, `PurgeFinishes`, `DueGetsTurn`): fairness is out of
  the prover's reach;
* the type invariants of the MC modules, conjunctions of those of their parts, each
  of which is proved.

Deadlock checking is off in all runs: requests, ids and clocks are bounded, and a
behaviour ends when they are used up.

## 11. Not modelled

Signing keys (their propagation through the parameter store is outside the
repository), the audit log (append-only, nothing decides on it), risk scoring and
geo lookup (pure scores), rate limits and idempotency keys of the middleware,
cryptographic primitives, storage and Turnstile clients, configuration, wiring
and read-only endpoints, generated code, one-shot tools, the web UI and the
deployment. E-mail and event delivery are represented by their users: a send is
delivered, fails, or fails after delivery; an event arrives at least once in any
order.

Left out of modelled components: the scopes a refresh keeps (`token.go:487-506`
cuts them to what was granted and the client still has), the consumption of a
backup code (section 7), names, texts, profile fields, redirect URIs,
audiences and claims, registry data of companies, eligibility checks before a
deletion is opened, and deletions support opens.
