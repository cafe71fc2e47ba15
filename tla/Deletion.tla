----------------------------- MODULE Deletion -----------------------------
(***************************************************************************)
(* The account-deletion component (api/internal/domain/deletion): the      *)
(* HTTP handlers and the due-worker of every instance, interleaved at each *)
(* read, conditional write, e-mail and publication.                        *)
(*                                                                         *)
(* A process keeps, like the code, a private copy of the request row it    *)
(* read (loc).  Save puts that whole copy back, conditional only on the    *)
(* state the row had, so two processes that save from the same state can   *)
(* overwrite each other's fields.  The steps of one operation run in the   *)
(* order of the source; between two of them any other process may run, and *)
(* the instance may crash.                                                 *)
(***************************************************************************)
EXTENDS DeletionModel

CONSTANTS
  Handlers, Workers,  \* goroutines that serve requests; the due-workers
  Ops,                \* the entry points this instance exercises
  PassSkew,           \* how far a worker pass lags the clock it read at its start
  OpSpan,             \* ticks one operation may straddle
  MaxFaults           \* failed calls and crashes, in total

VARIABLES
  rows,      \* request id -> META row
  marker,    \* user -> the open request, or Nil
  users,     \* user -> deletion_state, deletion_request_id, unlinked_services
  svcs,      \* request id -> participant -> SVC row
  msgs,      \* published <<type, request, participant>>: at least once, any order
  confirmMailed,  \* requests whose confirmation link reached the mailbox
  linksMade,      \* request id -> how many cancel tokens were generated
  linksMailed,    \* request id -> cancel tokens that reached the mailbox
  procs,     \* process -> its operation in progress
  now, faults

vars == <<rows, marker, users, svcs, msgs, confirmMailed, linksMade, linksMailed,
          procs, now, faults>>
mail == <<confirmMailed, linksMade, linksMailed>>

Procs == Handlers \cup Workers

ASSUME ProcsAssumption ==
  /\ Handlers \cap Workers = {} /\ Nil \notin Procs
  /\ PassSkew \in Nat /\ OpSpan \in Nat /\ MaxFaults \in Nat

Steps == {"idle", "create", "expireOpen", "createAgain", "confirmMail", "confirmSave",
          "mark", "publishLocked", "lockSave", "recheck", "clear", "publishUnlocked",
          "link", "linkMail", "cancelSave", "erase", "putServices", "reconcile",
          "redispatch", "bump", "purge", "ackSave", "ackGet", "redriveList",
          "redriveSave", "save"}

OpNames == {"request", "confirm", "cancel", "supportCancel", "worker", "ack", "hold", "redrive"}

Proc ==
  [op: OpNames \cup {"idle", "undoLock"}, pc: Steps, req: Reqs \cup {Nil},
   loc: Request, from: States \cup {"none"},  \* the copy, and the state Save expects
   sts: [Services -> ServiceStatus],          \* copies of the SVC rows
   todo: SUBSET Services,                     \* the rows a loop has left
   kind: LinkKinds \cup {Nil}, link: 0..MaxLinks,
   at: Nat, start: Nat]

Idle ==
  [op |-> "idle", pc |-> "idle", req |-> Nil, loc |-> NoRequest, from |-> "none",
   sts |-> [s \in Services |-> NoStatus], todo |-> {}, kind |-> Nil, link |-> 0,
   at |-> 0, start |-> 0]

UserBlock == [del: {"none", "pending", "purged"}, req: Reqs \cup {Nil},
              unlinked: SUBSET Services]

MsgTypes == {"locked", "unlocked", "erase"}

TypeOK ==
  /\ rows \in [Reqs -> Request]
  /\ marker \in [Users -> Reqs \cup {Nil}]
  /\ users \in [Users -> UserBlock]
  /\ svcs \in [Reqs -> [Services -> ServiceStatus]]
  /\ msgs \subseteq MsgTypes \X Reqs \X Services
  /\ confirmMailed \subseteq Reqs
  /\ linksMade \in [Reqs -> 0..MaxLinks]
  /\ linksMailed \in [Reqs -> SUBSET Links]
  /\ procs \in [Procs -> Proc]
  /\ now \in Nat
  /\ faults \in Nat

Init ==
  /\ rows = [r \in Reqs |-> NoRequest]
  /\ marker = [u \in Users |-> Nil]
  /\ users = [u \in Users |-> [del |-> "none", req |-> Nil, unlinked |-> {}]]
  /\ svcs = [r \in Reqs |-> [s \in Services |-> NoStatus]]
  /\ msgs = {}
  /\ confirmMailed = {}
  /\ linksMade = [r \in Reqs |-> 0]
  /\ linksMailed = [r \in Reqs |-> {}]
  /\ procs = [p \in Procs |-> Idle]
  /\ now = 0
  /\ faults = 0

-----------------------------------------------------------------------------
(* Processes *)

Goto(p, pc) == procs' = [procs EXCEPT ![p].pc = pc]
Return(p) == procs' = [procs EXCEPT ![p] = Idle]
Keep(p, pc, r) == procs' = [procs EXCEPT ![p].pc = pc, ![p].loc = r]

\* p starts operation op on request r, at step pc, with the copy row of it.
Begin(p, op, pc, r, row, from) ==
  procs' = [procs EXCEPT ![p] =
    [Idle EXCEPT !.op = op, !.pc = pc, !.req = r, !.loc = row, !.from = from,
                 !.at = now, !.start = now]]

Free(p, op) == p \in Handlers /\ procs[p].pc = "idle" /\ op \in Ops

\* A call fails: DynamoDB, SES or SNS answers with an error, or not at all.  What
\* the call was to do may have been done.
Fault == faults < MaxFaults /\ faults' = faults + 1
NoFault == faults' = faults

-----------------------------------------------------------------------------
(* The repository's conditional writes *)

BugReleases(p) == FALSE   \* mutant: the marker outlives the request
Releases(p) == Open(procs[p].from) /\ ~Open(procs[p].loc.state)

BugSaveAllowed(p) == TRUE \* mutant: an unconditional Put

SaveAllowed(p) ==
  /\ rows[procs[p].req].state = procs[p].from
  /\ Releases(p) => marker[procs[p].loc.user] = procs[p].req

\* Save's transaction: the whole copy, and the marker when the request closes.
Put(p) ==
  /\ SaveAllowed(p)
  /\ rows' = [rows EXCEPT ![procs[p].req] = procs[p].loc]
  /\ marker' = IF Releases(p) THEN [marker EXCEPT ![procs[p].loc.user] = Nil] ELSE marker

Unsaved == UNCHANGED <<rows, marker>>

\* The three outcomes of a Save: written, ErrStateChanged, or another error,
\* after which the write may or may not have happened.
Saved(p) == Put(p) /\ NoFault
StateChanged(p) == ~SaveAllowed(p) /\ Unsaved /\ NoFault
SaveFailed(p) == Fault /\ (Put(p) \/ Unsaved)

\* Mutant: SaveService without its condition.
BugPutService(r, s, st, from) == svcs' = [svcs EXCEPT ![r][s] = st]

\* SaveService: the whole SVC row st, conditional on its status.
PutService(r, s, st, from) ==
  svcs' = IF svcs[r][s].status = from THEN [svcs EXCEPT ![r][s] = st] ELSE svcs

Publish(p, type, names) ==
  msgs' = msgs \cup ({type} \X {procs[p].req} \X (names \cap ParticipantsFor(procs[p].loc)))

-----------------------------------------------------------------------------
(* Opening a request *)

\* open: the eligibility checks passed and a fresh id was drawn.
OpenRequest(p, u, scope, r) ==
  /\ Free(p, "request")
  /\ users[u].del = "none"   \* signed in: Lock blocks sign-in and revokes every token
  /\ rows[r] = NoRequest /\ \A q \in Procs : procs[q].req # r
  /\ Begin(p, "request", "create", r, NewRequest(u, scope, now), "none")
  /\ UNCHANGED <<rows, marker, users, svcs, msgs, mail, now, faults>>

CreateAllowed(p) ==
  marker[procs[p].loc.user] = Nil /\ rows[procs[p].req] = NoRequest

PutNew(p) ==
  /\ CreateAllowed(p)
  /\ rows' = [rows EXCEPT ![procs[p].req] = procs[p].loc]
  /\ marker' = [marker EXCEPT ![procs[p].loc.user] = procs[p].req]

\* Create: one transaction writes the marker and the row, both absent before.
\* On ErrOpenRequest the first attempt expires an unconfirmed request.
Create(p) ==
  /\ procs[p].pc \in {"create", "createAgain"}
  /\ \/ PutNew(p) /\ NoFault /\ Goto(p, "confirmMail")
     \/ /\ ~CreateAllowed(p) /\ Unsaved /\ NoFault
        /\ IF procs[p].pc = "create" THEN Goto(p, "expireOpen") ELSE Return(p)
     \/ (PutNew(p) \/ Unsaved) /\ Fault /\ Return(p)
  /\ UNCHANGED <<users, svcs, msgs, mail, now>>

\* expireUnconfirmed: only a request nobody confirmed gives way.  The read of
\* the marker, the read of its row and the conditional Save are one step: a Save
\* that loses a race returns the same way as a row already seen past awaiting.
ExpireUnconfirmed(p) ==
  /\ procs[p].pc = "expireOpen"
  /\ LET u == procs[p].loc.user
         o == marker[u]
         unconfirmed == o # Nil /\ rows[o].state = "awaiting_confirmation"
         expired == /\ unconfirmed
                    /\ rows' = [rows EXCEPT ![o] = Expire(@)]
                    /\ marker' = [marker EXCEPT ![u] = Nil]
     IN \/ expired /\ NoFault /\ Goto(p, "createAgain")
        \/ ~unconfirmed /\ Unsaved /\ NoFault /\ Return(p)
        \/ (expired \/ Unsaved) /\ Fault /\ Return(p)
  /\ UNCHANGED <<users, svcs, msgs, mail, now>>

\* The confirmation e-mail; when the call fails the request is released.  A
\* failed send may still have been delivered.
SendConfirm(p) ==
  /\ procs[p].pc = "confirmMail"
  /\ \/ /\ NoFault /\ confirmMailed' = confirmMailed \cup {procs[p].req} /\ Return(p)
     \/ /\ Fault /\ confirmMailed' \in {confirmMailed, confirmMailed \cup {procs[p].req}}
        /\ procs' = [procs EXCEPT ![p].pc = "save", ![p].loc = Expire(@),
                                  ![p].from = "awaiting_confirmation"]
  /\ UNCHANGED <<rows, marker, users, svcs, msgs, linksMade, linksMailed, now>>

-----------------------------------------------------------------------------
(* Confirm, and the lock it applies *)

Confirm(p, r) ==
  /\ Free(p, "confirm")
  /\ r \in confirmMailed
  /\ rows[r].state = "awaiting_confirmation" /\ now < rows[r].confirmBy
  /\ Begin(p, "confirm", "confirmSave", r, Confirmed(rows[r], now), "awaiting_confirmation")
  /\ UNCHANGED <<rows, marker, users, svcs, msgs, mail, now, faults>>

\* Lock starts by blocking sign-in, except when only a service is left.
LockStep(r) == IF r.scope = "account" THEN "mark" ELSE "publishLocked"
UnlockStep(r) == IF r.scope = "account" THEN "clear" ELSE "publishUnlocked"

SaveConfirmed(p) ==
  /\ procs[p].pc = "confirmSave"
  /\ \/ /\ Saved(p)
        /\ procs' = [procs EXCEPT ![p].pc = LockStep(procs[p].loc),
                                  ![p].from = "pending_deletion"]
     \/ (StateChanged(p) \/ SaveFailed(p)) /\ Return(p)
  /\ UNCHANGED <<users, svcs, msgs, mail, now>>

\* What follows applyLock, done or failed: Confirm goes on to e-mail the first
\* cancel link, the worker's step is over (a failed lock leaves the request due).
AfterLock(p) ==
  IF procs[p].op = "confirm"
  THEN procs' = [procs EXCEPT ![p].pc = "link", ![p].kind = "scheduled"]
  ELSE Return(p)

\* MarkPendingDeletion: an unconditional update of the user's row.
MarkPendingDeletion(p) ==
  /\ procs[p].pc = "mark"
  /\ LET marked == [users EXCEPT ![procs[p].loc.user].del = "pending",
                                 ![procs[p].loc.user].req = procs[p].req]
     IN \/ users' = marked /\ NoFault /\ Goto(p, "publishLocked")
        \/ users' \in {users, marked} /\ Fault /\ AfterLock(p)
  /\ UNCHANGED <<rows, marker, svcs, msgs, mail, now>>

\* The rest of Lock: sessions, API keys and access tokens are revoked and the
\* participants are told.  In a locked request the erase order comes next, in a
\* pending one the lock is recorded.
PublishLocked(p) ==
  /\ procs[p].pc = "publishLocked"
  /\ \/ /\ Publish(p, "locked", Services) /\ NoFault
        /\ IF procs[p].from = "locked" THEN Goto(p, "erase")
           ELSE Keep(p, "lockSave", LockRecorded(procs[p].loc, now))
     \/ (Publish(p, "locked", Services) \/ UNCHANGED msgs) /\ Fault /\ AfterLock(p)
  /\ UNCHANGED <<rows, marker, users, svcs, mail, now>>

SaveLock(p) ==
  /\ procs[p].pc = "lockSave"
  /\ \/ (Saved(p) \/ SaveFailed(p)) /\ AfterLock(p)
     \/ StateChanged(p) /\ Goto(p, "recheck")
  /\ UNCHANGED <<users, svcs, msgs, mail, now>>

\* Mutant: a lock that lost the race to a cancel is not undone.
BugRecheck(p) ==
  /\ procs[p].pc = "recheck" /\ NoFault /\ Return(p)
  /\ UNCHANGED <<rows, marker, users, svcs, msgs, mail, now>>

\* The row left pending while the lock was in flight: a cancel is compensated.
\* Any other state ends the operation (Confirm's next Save would be refused).
Recheck(p) ==
  /\ procs[p].pc = "recheck"
  /\ \/ /\ rows[procs[p].req].state = "cancelled" /\ NoFault
        /\ procs' = [procs EXCEPT ![p].op = "undoLock",
                                  ![p].pc = UnlockStep(rows[procs[p].req]),
                                  ![p].loc = rows[procs[p].req],
                                  ![p].from = "cancelled"]
     \/ rows[procs[p].req].state # "cancelled" /\ NoFault /\ Return(p)
     \/ Fault /\ Return(p)
  /\ UNCHANGED <<rows, marker, users, svcs, msgs, mail, now>>

-----------------------------------------------------------------------------
(* The cancel link *)

\* Mutant: the token is not stored before the e-mail.
BugStoreLink(p) ==
  /\ procs[p].pc = "link" /\ linksMade[procs[p].req] < MaxLinks
  /\ linksMade' = [linksMade EXCEPT ![procs[p].req] = @ + 1]
  /\ procs' = [procs EXCEPT ![p].pc = "linkMail", ![p].link = linksMade[procs[p].req] + 1,
                            ![p].from = procs[p].loc.state]
  /\ NoFault
  /\ UNCHANGED <<rows, marker, users, svcs, msgs, confirmMailed, linksMailed, now>>

\* sendCancelLink stores the token of a fresh link before it is e-mailed.
StoreLink(p) ==
  /\ procs[p].pc = "link"
  /\ linksMade[procs[p].req] < MaxLinks
  /\ LET k == linksMade[procs[p].req] + 1
         r == [procs[p].loc EXCEPT !.links = @ \cup {k}]
         stored == /\ rows[procs[p].req].state = procs[p].loc.state
                   /\ rows' = [rows EXCEPT ![procs[p].req] = r]
     IN /\ linksMade' = [linksMade EXCEPT ![procs[p].req] = k]
        /\ \/ /\ stored /\ NoFault
              /\ procs' = [procs EXCEPT ![p].pc = "linkMail", ![p].loc = r, ![p].link = k,
                                        ![p].from = r.state]
           \/ /\ rows[procs[p].req].state # procs[p].loc.state
              /\ UNCHANGED rows /\ NoFault /\ Return(p)
           \/ (stored \/ UNCHANGED rows) /\ Fault /\ Return(p)
  /\ UNCHANGED <<marker, users, svcs, msgs, confirmMailed, linksMailed, now>>

\* Mutant: a link that could not be e-mailed counts as sent.
BugSendLink(p) ==
  /\ procs[p].pc = "linkMail"
  /\ \/ NoFault /\ linksMailed' = [linksMailed EXCEPT ![procs[p].req] = @ \cup {procs[p].link}]
     \/ Fault /\ UNCHANGED linksMailed
  /\ Keep(p, "save", LinkSent(procs[p].loc, procs[p].kind, now))
  /\ UNCHANGED <<rows, marker, users, svcs, msgs, confirmMailed, linksMade, now>>

\* The e-mail goes out; only then the sent flag is set, by a second Save.
SendLink(p) ==
  /\ procs[p].pc = "linkMail"
  /\ LET r == procs[p].req
         delivered == [linksMailed EXCEPT ![r] = @ \cup {procs[p].link}]
     IN \/ /\ NoFault /\ linksMailed' = delivered
           /\ Keep(p, "save", LinkSent(procs[p].loc, procs[p].kind, now))
        \/ Fault /\ linksMailed' \in {linksMailed, delivered} /\ Return(p)
  /\ UNCHANGED <<rows, marker, users, svcs, msgs, confirmMailed, linksMade, now>>

-----------------------------------------------------------------------------
(* Cancel *)

CancelRow(p, op, r) ==
  /\ Free(p, op)
  /\ rows[r].state \in {"pending_deletion", "blocked"}
  /\ Begin(p, op, "cancelSave", r, Cancelled(rows[r], now), rows[r].state)
  /\ UNCHANGED <<rows, marker, users, svcs, msgs, mail, now, faults>>

\* A link of the mailbox works while its token is in the row.
Cancel(p, r) == linksMailed[r] \cap rows[r].links # {} /\ CancelRow(p, "cancel", r)
SupportCancel(p, r) == CancelRow(p, "supportCancel", r)

SaveCancelled(p) ==
  /\ procs[p].pc = "cancelSave"
  /\ \/ /\ Saved(p)
        /\ procs' = [procs EXCEPT ![p].pc = UnlockStep(procs[p].loc), ![p].from = "cancelled"]
     \/ (StateChanged(p) \/ SaveFailed(p)) /\ Return(p)
  /\ UNCHANGED <<users, svcs, msgs, mail, now>>

\* Unlock failed: applyLock makes the cancel due again, finishCancel leaves it due.
UnlockFailed(p) ==
  IF procs[p].op = "undoLock" THEN Keep(p, "save", SetDue(procs[p].loc, now)) ELSE Return(p)

\* ClearPendingDeletion: conditional on the block still belonging to the request.
ClearPendingDeletion(p) ==
  /\ procs[p].pc = "clear"
  /\ LET u == procs[p].loc.user
         cleared == IF users[u].req = procs[p].req
                    THEN [users EXCEPT ![u].del = "none", ![u].req = Nil] ELSE users
     IN \/ users' = cleared /\ NoFault /\ Goto(p, "publishUnlocked")
        \/ users' \in {users, cleared} /\ Fault /\ UnlockFailed(p)
  /\ UNCHANGED <<rows, marker, svcs, msgs, mail, now>>

\* Unlock's publication; finishCancel then clears the due marker.
PublishUnlocked(p) ==
  /\ procs[p].pc = "publishUnlocked"
  /\ \/ /\ Publish(p, "unlocked", Services) /\ NoFault
        /\ IF procs[p].op = "undoLock" THEN Return(p)
           ELSE Keep(p, "save", ClearDue(procs[p].loc))
     \/ (Publish(p, "unlocked", Services) \/ UNCHANGED msgs) /\ Fault /\ UnlockFailed(p)
  /\ UNCHANGED <<rows, marker, users, svcs, mail, now>>

-----------------------------------------------------------------------------
(* The due-worker.  A pass reads the clock once, at its start; it re-reads   *)
(* each listed request and acts when it is due by that reading.              *)

Take(w, r, t, pc, row, kind) ==
  procs' = [procs EXCEPT ![w] =
    [Idle EXCEPT !.op = "worker", !.pc = pc, !.req = r, !.loc = row, !.from = rows[r].state,
                 !.kind = kind, !.at = t, !.start = now]]

BugStepLocked(w, r, t) == Take(w, r, t, "erase", rows[r], Nil)  \* mutant: no second lock
StepAwaiting(w, r, t) == Take(w, r, t, "save", Expire(rows[r]), Nil)
StepCancelled(w, r, t) == Take(w, r, t, UnlockStep(rows[r]), rows[r], Nil)
StepBlocked(w, r, t) == Take(w, r, t, "link", rows[r], "blocked")
StepLocked(w, r, t) == Take(w, r, t, LockStep(rows[r]), rows[r], Nil)

\* The end of grace: held, blocked by what assess finds, or locked.
EndGrace(w, r, t) ==
  IF LegalHold(rows[r]) THEN Take(w, r, t, "save", SetDue(rows[r], t + LegalHoldRecheck), Nil)
  ELSE \E s \in {"blocked", "locked"} :
         Take(w, r, t, "save", SetDue([rows[r] EXCEPT !.state = s], t), Nil)

\* Mutant: the first cancel link is left to Confirm alone.
BugStepPending(w, r, t) ==
  LET row == rows[r]
  IN \/ ~row.lockApplied /\ Take(w, r, t, LockStep(row), row, Nil)
     \/ /\ row.lockApplied
        /\ \/ row.scheduledSent /\ ~row.reminded /\ t < row.graceUntil
              /\ Take(w, r, t, "link", row, "reminder")
           \/ t >= row.graceUntil /\ EndGrace(w, r, t)

StepPending(w, r, t) ==
  LET row == rows[r]
  IN \/ ~row.lockApplied /\ Take(w, r, t, LockStep(row), row, Nil)
     \/ row.lockApplied /\ ~row.scheduledSent /\ Take(w, r, t, "link", row, "scheduled")
     \/ /\ row.lockApplied /\ row.scheduledSent
        /\ \/ ~row.reminded /\ t < row.graceUntil /\ Take(w, r, t, "link", row, "reminder")
           \/ t >= row.graceUntil /\ EndGrace(w, r, t)

BugStepPurging(w, r, t) == Take(w, r, t, "purge", rows[r], Nil)  \* mutant: no acks awaited

StepPurging(w, r, t) ==
  IF LegalHold(rows[r]) THEN Take(w, r, t, "save", SetDue(rows[r], t + LegalHoldRecheck), Nil)
  ELSE Take(w, r, t, IF ParticipantsFor(rows[r]) = {} THEN "purge" ELSE "reconcile", rows[r], Nil)

ProcessDue(w, r) ==
  /\ w \in Workers /\ procs[w].pc = "idle" /\ "worker" \in Ops
  /\ \E t \in {x \in 0..now : now - x <= PassSkew} :
       /\ IsDue(rows[r], t)
       /\ \/ rows[r].state = "awaiting_confirmation" /\ StepAwaiting(w, r, t)
          \/ rows[r].state = "cancelled" /\ StepCancelled(w, r, t)
          \/ rows[r].state = "pending_deletion" /\ StepPending(w, r, t)
          \/ rows[r].state = "blocked" /\ StepBlocked(w, r, t)
          \/ rows[r].state = "locked" /\ StepLocked(w, r, t)
          \/ rows[r].state = "purging" /\ StepPurging(w, r, t)
  /\ UNCHANGED <<rows, marker, users, svcs, msgs, mail, now, faults>>

\* A Save that ends its operation whatever it answers.
Save(p) ==
  /\ procs[p].pc = "save"
  /\ Saved(p) \/ StateChanged(p) \/ SaveFailed(p)
  /\ Return(p)
  /\ UNCHANGED <<users, svcs, msgs, mail, now>>

-----------------------------------------------------------------------------
(* The erasure saga *)

PublishErase(p) ==
  /\ procs[p].pc = "erase"
  /\ \/ Publish(p, "erase", Services) /\ NoFault /\ Goto(p, "putServices")
     \/ (Publish(p, "erase", Services) \/ UNCHANGED msgs) /\ Fault /\ Return(p)
  /\ UNCHANGED <<rows, marker, users, svcs, mail, now>>

\* PutServices creates the missing SVC rows; an error can leave only some.
PutServices(p) ==
  /\ procs[p].pc = "putServices"
  /\ \E done \in SUBSET ParticipantsFor(procs[p].loc) :
       /\ svcs' = [svcs EXCEPT ![procs[p].req] = [s \in Services |->
                    IF s \in done /\ @[s].status = "none" THEN FirstDispatch(procs[p].at) ELSE @[s]]]
       /\ \/ /\ done = ParticipantsFor(procs[p].loc) /\ NoFault
             /\ Keep(p, "save", SetDue([procs[p].loc EXCEPT !.state = "purging"], procs[p].at))
          \/ Fault /\ Return(p)
  /\ UNCHANGED <<rows, marker, users, msgs, mail, now>>

\* Mutant: a request whose participants are silent is taken out of the due index.
BugReconcile(p) ==
  /\ procs[p].pc = "reconcile" /\ NoFault
  /\ IF \A s \in Services : svcs[procs[p].req][s].status = "acked" THEN Goto(p, "purge")
     ELSE Keep(p, "save", ClearDue(procs[p].loc))
  /\ UNCHANGED <<rows, marker, users, svcs, msgs, mail, now>>

\* reconcile reads every SVC row: a blocked one stalls the request, silent ones
\* whose back-off elapsed are dispatched again, and when all acked it is purged.
Reconcile(p) ==
  /\ procs[p].pc = "reconcile"
  /\ LET sts == svcs[procs[p].req]
         t == procs[p].at
         silent == Silent(sts, t)
     IN \/ /\ \E s \in Services : sts[s].status = "blocked"
           /\ Keep(p, "save", ClearDue([procs[p].loc EXCEPT !.state = "stalled"])) /\ NoFault
        \/ /\ \A s \in Services : sts[s].status # "blocked"
           /\ NoFault
           /\ \/ /\ \A s \in Services : sts[s].status # "dispatched"
                 /\ Goto(p, "purge")
              \/ /\ silent # {}
                 /\ procs' = [procs EXCEPT ![p].pc = "redispatch", ![p].sts = sts, ![p].todo = silent]
              \/ /\ silent = {} /\ \E s \in Services : sts[s].status = "dispatched"
                 /\ Keep(p, "save", SetDue(procs[p].loc, NextReconcile(sts, t)))
        \/ Fault /\ Return(p)
  /\ UNCHANGED <<rows, marker, users, svcs, msgs, mail, now>>

Redispatch(p) ==
  /\ procs[p].pc = "redispatch"
  /\ \/ Publish(p, "erase", procs[p].todo) /\ NoFault /\ Goto(p, "bump")
     \/ (Publish(p, "erase", procs[p].todo) \/ UNCHANGED msgs) /\ Fault /\ Return(p)
  /\ UNCHANGED <<rows, marker, users, svcs, mail, now>>

\* One SVC row per step; a row that changed meanwhile is skipped.
BumpService(p) ==
  /\ procs[p].pc = "bump"
  /\ \E s \in procs[p].todo :
       LET bumped == PutService(procs[p].req, s, Dispatched(procs[p].sts[s], procs[p].at), "dispatched")
       IN \/ /\ bumped /\ NoFault
             /\ IF procs[p].todo # {s} THEN procs' = [procs EXCEPT ![p].todo = @ \ {s}]
                ELSE Keep(p, "save", SetDue(procs[p].loc, NextReconcile(procs[p].sts, procs[p].at)))
          \/ (bumped \/ UNCHANGED svcs) /\ Fault /\ Return(p)
  /\ UNCHANGED <<rows, marker, users, msgs, mail, now>>

\* Purge writes the tombstone of an account whose block belongs to the request
\* (a tombstone is left alone); Finish records the service a person left.
Purge(p) ==
  /\ procs[p].pc = "purge"
  /\ LET u == procs[p].loc.user
         erased == IF procs[p].loc.scope = "account"
                   THEN /\ users[u].del = "purged" \/ users[u].req = procs[p].req
                        /\ users' = [users EXCEPT ![u].del = "purged", ![u].unlinked = {}]
                   ELSE users' = [users EXCEPT ![u].unlinked = @ \cup {procs[p].loc.scope}]
     IN \/ /\ erased /\ NoFault
           /\ Keep(p, "save", ClearDue([procs[p].loc EXCEPT !.state = "purged"]))
        \/ /\ procs[p].loc.scope = "account"   \* ErrPurgeConflict
           /\ users[u].del # "purged" /\ users[u].req # procs[p].req
           /\ UNCHANGED users /\ NoFault /\ Return(p)
        \/ (erased \/ UNCHANGED users) /\ Fault /\ Return(p)
  /\ UNCHANGED <<rows, marker, svcs, msgs, mail, now>>

-----------------------------------------------------------------------------
(* Participants and support *)

\* A participant that received the erase order answers, possibly many times and
\* late.  An answer before the SVC row exists is refused and redelivered.
Ack(p, r, s, result) ==
  /\ Free(p, "ack")
  /\ <<"erase", r, s>> \in msgs
  /\ result = "blocked" => "refuse" \in Ops
  /\ svcs[r][s].status = "dispatched"
  /\ procs' = [procs EXCEPT ![p] =
       [Idle EXCEPT !.op = "ack", !.pc = "ackSave", !.req = r, !.todo = {s}, !.start = now,
                    !.sts = [svcs[r] EXCEPT ![s].status = result]]]
  /\ UNCHANGED <<rows, marker, users, svcs, msgs, mail, now, faults>>

SaveAck(p) ==
  /\ procs[p].pc = "ackSave"
  /\ \E s \in procs[p].todo :
       LET acked == PutService(procs[p].req, s, procs[p].sts[s], "dispatched")
       IN \/ acked /\ NoFault /\ Goto(p, "ackGet")
          \/ (acked \/ UNCHANGED svcs) /\ Fault /\ Return(p)
  /\ UNCHANGED <<rows, marker, users, msgs, mail, now>>

\* The request is made due, when it is purging.
AckGet(p) ==
  /\ procs[p].pc = "ackGet"
  /\ LET row == rows[procs[p].req]
     IN \/ /\ row.state = "purging" /\ NoFault
           /\ procs' = [procs EXCEPT ![p].pc = "save", ![p].loc = SetDue(row, now),
                                     ![p].from = "purging"]
        \/ row.state # "purging" /\ NoFault /\ Return(p)
        \/ Fault /\ Return(p)
  /\ UNCHANGED <<rows, marker, users, svcs, msgs, mail, now>>

\* An admin places a hold, or lifts one another admin placed.
SetLegalHold(p, r, a, on) ==
  /\ Free(p, "hold")
  /\ rows[r].state # "none"
  /\ on \/ rows[r].hold # a
  /\ LET held == [rows[r] EXCEPT !.hold = IF on THEN a ELSE Nil]
         row == IF ~on /\ rows[r].state \in {"pending_deletion", "purging"}
                THEN SetDue(held, now) ELSE held
     IN Begin(p, "hold", "save", r, row, rows[r].state)
  /\ UNCHANGED <<rows, marker, users, svcs, msgs, mail, now, faults>>

Redrive(p, r, s) ==
  /\ Free(p, "redrive")
  /\ rows[r].state # "none"
  /\ procs' = [procs EXCEPT ![p] =
       [Idle EXCEPT !.op = "redrive", !.pc = "redriveList", !.req = r, !.loc = rows[r],
                    !.from = rows[r].state, !.todo = {s}, !.start = now]]
  /\ UNCHANGED <<rows, marker, users, svcs, msgs, mail, now, faults>>

\* After the SVC rows: a request read as stalled goes back to purging.
RedriveResume(p) ==
  IF procs[p].from = "stalled"
  THEN Keep(p, "save", SetDue([procs[p].loc EXCEPT !.state = "purging"], now))
  ELSE Return(p)

RedriveList(p) ==
  /\ procs[p].pc = "redriveList"
  /\ \E s \in procs[p].todo :
       \/ svcs[procs[p].req][s].status = "blocked" /\ NoFault /\ Goto(p, "redriveSave")
       \/ svcs[procs[p].req][s].status # "blocked" /\ NoFault /\ RedriveResume(p)
       \/ Fault /\ Return(p)
  /\ UNCHANGED <<rows, marker, users, svcs, msgs, mail, now>>

RedriveSave(p) ==
  /\ procs[p].pc = "redriveSave"
  /\ \E s \in procs[p].todo :
       LET blocked == svcs[procs[p].req][s].status = "blocked"
           redriven == PutService(procs[p].req, s, Redriven, "blocked")
       IN \/ redriven /\ blocked /\ NoFault /\ RedriveResume(p)
          \/ UNCHANGED svcs /\ ~blocked /\ NoFault /\ Return(p)
          \/ (redriven \/ UNCHANGED svcs) /\ Fault /\ Return(p)
  /\ UNCHANGED <<rows, marker, users, msgs, mail, now>>

-----------------------------------------------------------------------------
(* The environment *)

\* The instance running p stops: what p had not written is lost.
Crash(p) ==
  /\ procs[p].pc # "idle"
  /\ Fault /\ Return(p)
  /\ UNCHANGED <<rows, marker, users, svcs, msgs, mail, now>>

\* An operation straddles at most OpSpan ticks.
Tick ==
  /\ now < MaxTime
  /\ \A p \in Procs : procs[p].pc # "idle" => now - procs[p].start < OpSpan
  /\ now' = now + 1
  /\ UNCHANGED <<rows, marker, users, svcs, msgs, mail, procs, faults>>

\* The next step of an operation in progress.
Continue(p) ==
  \/ Create(p) \/ ExpireUnconfirmed(p) \/ SendConfirm(p)
  \/ SaveConfirmed(p) \/ MarkPendingDeletion(p) \/ PublishLocked(p) \/ SaveLock(p) \/ Recheck(p)
  \/ StoreLink(p) \/ SendLink(p)
  \/ SaveCancelled(p) \/ ClearPendingDeletion(p) \/ PublishUnlocked(p)
  \/ PublishErase(p) \/ PutServices(p) \/ Reconcile(p) \/ Redispatch(p) \/ BumpService(p) \/ Purge(p)
  \/ SaveAck(p) \/ AckGet(p) \/ RedriveList(p) \/ RedriveSave(p)
  \/ Save(p)

\* A new operation.
Start(p) ==
  \/ \E u \in Users, sc \in Scopes, r \in Reqs : OpenRequest(p, u, sc, r)
  \/ \E r \in Reqs : Confirm(p, r) \/ Cancel(p, r) \/ SupportCancel(p, r)
  \/ \E r \in Reqs : ProcessDue(p, r)
  \/ \E r \in Reqs, s \in Services, res \in {"acked", "blocked"} : Ack(p, r, s, res)
  \/ \E r \in Reqs, a \in Admins, on \in BOOLEAN : SetLegalHold(p, r, a, on)
  \/ \E r \in Reqs, s \in Services : Redrive(p, r, s)

Next == Tick \/ \E p \in Procs : Start(p) \/ Continue(p) \/ Crash(p)

Spec == Init /\ [][Next]_vars

-----------------------------------------------------------------------------
(* The component implements the lifecycle it promises. *)

Lifecycle == INSTANCE DeletionLifecycle WITH
  state   <- [r \in Reqs |-> rows[r].state],
  owner   <- [r \in Reqs |-> rows[r].user],
  ordered <- {r \in Reqs : \E s \in Services : <<"erase", r, s>> \in msgs}

\* Under every interleaving, stale copy, failed call and crash, a request only
\* makes the moves of the lifecycle, a person has one open request at a time, and
\* erase orders go out for requests that are past cancelling.
ImplementsLifecycle == Lifecycle!LSpec

-----------------------------------------------------------------------------
(* Safety *)

Committed == {"locked", "purging", "stalled", "purged"}

\* The marker row of a user names the one open request of that user: Create and
\* Save keep the marker and the request's state in step under every race between
\* opening, expiring, cancelling and purging.
MarkerIffOpen ==
  \A u \in Users, r \in Reqs :
    marker[u] = r <=> rows[r].user = u /\ Open(rows[r].state)

\* Participants are ordered to erase only when the grace period is over and the
\* request can no longer be cancelled, whatever cancel raced the worker.
EraseOnlyCommitted ==
  \A m \in msgs : m[1] = "erase" =>
    rows[m[2]].state \in Committed /\ rows[m[2]].graceUntil <= now

\* A request ends purged only after every participant it waits for reported the
\* data erased; an account is a tombstone only on behalf of such a request.
PurgedAfterAcks ==
  /\ \A r \in Reqs : rows[r].state = "purged" =>
       \A s \in ParticipantsFor(rows[r]) : svcs[r][s].status = "acked"
  /\ \A u \in Users : users[u].del = "purged" =>
       /\ rows[users[u].req].state \in {"purging", "stalled", "purged"}
       /\ \A s \in Services : svcs[users[u].req][s].status = "acked"

\* The user's row is blocked on behalf of r.
HasBlock(r) == users[rows[r].user].req = r /\ users[rows[r].user].del # "none"

\* q was asked for after r had been confirmed.
OpenedSince(q, r) ==
  /\ q # r /\ rows[q].state # "none" /\ rows[q].user = rows[r].user
  /\ rows[q].confirmBy - ConfirmWindow > rows[r].graceUntil - GracePeriod

\* While the erase is under way, sign-in stays blocked on behalf of the request:
\* no late lock or unlock of an older request takes the block over, and none
\* takes the tombstone over afterwards, unless another request got in before
\* the purge ended: one asked for after the confirmation.
PurgingStaysBlocked ==
  \A r \in Reqs : rows[r].scope = "account" =>
    /\ rows[r].state \in {"purging", "stalled"} => HasBlock(r)
    /\ rows[r].state = "purged" => HasBlock(r) \/ \E q \in Reqs : OpenedSince(q, r)

\* A request that recorded its first cancel link as sent can be cancelled with
\* some link that reached the mailbox: the token survives the whole-row saves
\* of other processes, or the flag is lost with it and the e-mail is sent again.
SentLinkWorks ==
  \A r \in Reqs : rows[r].scheduledSent => linksMailed[r] \cap rows[r].links # {}

\* Nobody's deletion becomes irrevocable before a cancel link was e-mailed.
NoLockWithoutLink ==
  \A r \in Reqs : rows[r].state \in Committed => linksMailed[r] # {}

\* A request with something left for the worker stays in its due index, so no
\* lost write or crash makes the worker forget it.
OwedIsDue ==
  \A r \in Reqs :
    \/ rows[r].state \in {"awaiting_confirmation", "pending_deletion", "locked", "purging"}
    \/ rows[r].state = "blocked" /\ ~rows[r].blockedNotified
    => rows[r].due # NotDue

\* A cancelled request the worker is finished with, and that no process is
\* working on, does not block its user's sign-in.
NoStrandedBlock ==
  \A r \in Reqs :
    /\ rows[r].state = "cancelled" /\ ~IsDue(rows[r], now)
    /\ \A p \in Procs : procs[p].req # r
    => users[rows[r].user].req # r

\* While a locked-in request is pending, its user cannot sign in.
LockAppliedBlocks ==
  \A r \in Reqs :
    /\ rows[r].state \in {"pending_deletion", "blocked"} /\ rows[r].lockApplied
    /\ rows[r].scope = "account"
    => users[rows[r].user].del # "none"

(* Actions *)

\* What a participant erased stays erased: a recorded ack is never overwritten by
\* a re-dispatch, a duplicate or contradicting answer, or a redrive.
AckIsFinal ==
  [][\A r \in Reqs, s \in Services :
       svcs[r][s].status = "acked" => svcs'[r][s] = svcs[r][s]]_vars

\* The legal hold of an open request ends only when an admin lifts it: no write
\* of the worker or of another handler drops it.
HoldNeedsAdmin ==
  [][\A r \in Reqs :
       LegalHold(rows[r]) /\ ~LegalHold(rows'[r]) /\ Open(rows'[r].state) =>
         \E p \in Procs : procs[p].op = "hold" /\ procs[p].req = r /\ procs[p].pc = "save"]_vars

-----------------------------------------------------------------------------
(* Liveness *)

\* An operation runs on until it returns; every due request gets its turn in the
\* workers' passes, which repeat each minute; participants answer; time passes.
Fairness ==
  /\ \A p \in Procs : WF_vars(Continue(p))
  /\ \A r \in Reqs : SF_vars(\E w \in Workers : ProcessDue(w, r))
  /\ \A r \in Reqs, s \in Services : SF_vars(\E p \in Handlers : Ack(p, r, s, "acked"))
  /\ WF_vars(Tick)

FairSpec == Spec /\ Fairness

\* A person who confirmed gets a cancel link that works, or the request is over.
PendingGetsLink ==
  \A r \in Reqs : rows[r].state = "pending_deletion" ~>
    (rows[r].state # "pending_deletion" \/ linksMailed[r] \cap rows[r].links # {})

\* An erase under way is finished once the participants answer, or the request is
\* next due beyond the bound of the clock.
PurgeFinishes ==
  \A r \in Reqs : rows[r].state \in {"locked", "purging"} ~>
    (rows[r].state = "purged" \/ rows[r].due > MaxTime)
=============================================================================
