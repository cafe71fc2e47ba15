--------------------------- MODULE DeletionModel ---------------------------
(***************************************************************************)
(* The rows of the account-deletion component and the pure functions on    *)
(* them (api/internal/domain/deletion/model.go and the helpers of          *)
(* service.go that do no I/O).  Times are ticks of an abstract clock.      *)
(***************************************************************************)
EXTENDS Integers, FiniteSets, Sequences

CONSTANTS
  Users, Reqs,        \* people, and the ids a request can be given
  Services,           \* the erasure participants (WithParticipants)
  Admins,             \* support admins
  MaxLinks,           \* bound of the cancel links generated for one request
  Nil,                \* the empty string of an optional field
  ConfirmWindow, GracePeriod, ReminderLead, LegalHoldRecheck,
  AckBackoff,         \* the back-off sequence of re-dispatches
  MaxTime             \* bound of the clock

ASSUME SetsAssumption ==
  Nil \notin Users \cup Reqs \cup Services \cup Admins

ASSUME TimesAssumption ==
  /\ ConfirmWindow \in Nat \ {0} /\ GracePeriod \in Nat \ {0}
  /\ ReminderLead \in 0..GracePeriod /\ LegalHoldRecheck \in Nat \ {0}
  /\ AckBackoff \in Seq(Nat \ {0}) /\ AckBackoff # << >>
  /\ MaxTime \in Nat /\ MaxLinks \in Nat

ASSUME ScopesAssumption == "account" \notin Services

-----------------------------------------------------------------------------
(* Request states.  "none" stands for the row that does not exist.         *)
States == {"awaiting_confirmation", "pending_deletion", "cancelled", "expired",
           "locked", "purging", "stalled", "blocked", "purged"}

\* Open: the state holds the user's single open-request marker.
Open(s) == s \in States \ {"cancelled", "expired", "purged"}

(* Scope is "account" or the service being left: Scope and Service of the   *)
(* code in one field.                                                       *)
Scopes == {"account"} \cup Services

NotDue == -1

(* The n-th cancel link of a request carries token n. *)
Links == 1..MaxLinks

(* The META row.  hold is LegalHold and LegalHoldBy in one field (the code  *)
(* sets both together); due is NextActionAt (DueState always equals State   *)
(* when it is set); links is CancelTokenHashes.                             *)
Request ==
  [user: Users \cup {Nil}, scope: Scopes, state: States \cup {"none"},
   links: SUBSET Links, lockApplied: BOOLEAN, scheduledSent: BOOLEAN,
   reminded: BOOLEAN, blockedNotified: BOOLEAN, hold: Admins \cup {Nil},
   confirmBy: Nat, graceUntil: Nat, due: Int]

NoRequest ==
  [user |-> Nil, scope |-> "account", state |-> "none", links |-> {},
   lockApplied |-> FALSE, scheduledSent |-> FALSE, reminded |-> FALSE,
   blockedNotified |-> FALSE, hold |-> Nil,
   confirmBy |-> 0, graceUntil |-> 0, due |-> NotDue]

LegalHold(r) == r.hold # Nil

SetDue(r, t) == [r EXCEPT !.due = t]
ClearDue(r) == [r EXCEPT !.due = NotDue]
IsDue(r, t) == r.due # NotDue /\ r.due <= t

\* A request just opened by user u at time t.
NewRequest(u, scope, t) ==
  [NoRequest EXCEPT !.user = u, !.scope = scope,
                    !.state = "awaiting_confirmation",
                    !.confirmBy = t + ConfirmWindow, !.due = t + ConfirmWindow]

Expire(r) == [r EXCEPT !.state = "expired", !.due = NotDue]

Confirmed(r, t) ==
  [r EXCEPT !.state = "pending_deletion", !.graceUntil = t + GracePeriod, !.due = t]

Cancelled(r, t) == [r EXCEPT !.state = "cancelled", !.due = t]

\* When the worker must next look at a pending request.
NextDue(r, t) ==
  CASE ~r.lockApplied \/ ~r.scheduledSent -> t
    [] r.lockApplied /\ r.scheduledSent /\ ~r.reminded -> r.graceUntil - ReminderLead
    [] OTHER -> r.graceUntil

\* Mutant: nothing scheduled once the reminder is out.
BugScheduleNext(r, t) == IF r.reminded THEN ClearDue(r) ELSE SetDue(r, NextDue(r, t))

\* The due time of a pending or blocked request after a side effect at time t.
ScheduleNext(r, t) ==
  IF r.state = "blocked"
  THEN IF r.blockedNotified THEN ClearDue(r) ELSE SetDue(r, t)
  ELSE SetDue(r, NextDue(r, t))

\* The request once the cancel link of kind k went out at time t.
LinkKinds == {"scheduled", "reminder", "blocked"}
LinkSent(r, k, t) ==
  ScheduleNext([r EXCEPT !.scheduledSent   = @ \/ k = "scheduled",
                         !.reminded        = @ \/ k = "reminder",
                         !.blockedNotified = @ \/ k = "blocked"], t)

LockRecorded(r, t) == ScheduleNext([r EXCEPT !.lockApplied = TRUE], t)

\* Who must ack the request.
ParticipantsFor(r) == IF r.scope = "account" THEN Services ELSE {r.scope}

-----------------------------------------------------------------------------
(* One participant's SVC row.  attempts saturates at the length of the      *)
(* back-off list, beyond which nextDispatch no longer tells it apart.       *)
ServiceStatus ==
  [status: {"none", "dispatched", "acked", "blocked"},
   attempts: 0..Len(AckBackoff), last: Nat]

NoStatus == [status |-> "none", attempts |-> 0, last |-> 0]

BugFirstDispatch(t) == [status |-> "dispatched", attempts |-> 2, last |-> t]  \* counted twice
FirstDispatch(t) == [status |-> "dispatched", attempts |-> 1, last |-> t]
Redriven == [status |-> "dispatched", attempts |-> 0, last |-> 0]
Dispatched(st, t) ==
  [st EXCEPT !.attempts = IF @ < Len(AckBackoff) THEN @ + 1 ELSE @, !.last = t]

\* nextDispatch; a redriven row (attempts 0) is due immediately.
NextDispatch(st) ==
  IF st.attempts = 0 THEN 0 ELSE st.last + AckBackoff[st.attempts]

\* The silent participants of sts whose back-off elapsed at time t.
Silent(sts, t) ==
  {s \in Services : sts[s].status = "dispatched" /\ NextDispatch(sts[s]) <= t}

\* The earliest later dispatch, once the silent ones have been dispatched at t.
NextReconcile(sts, t) ==
  LET after == [s \in Services |-> IF s \in Silent(sts, t) THEN Dispatched(sts[s], t)
                                                           ELSE sts[s]]
      times == {NextDispatch(after[s]) : s \in {x \in Services : sts[x].status = "dispatched"}}
  IN CHOOSE m \in times : \A x \in times : m <= x
=============================================================================
