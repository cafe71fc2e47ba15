----------------------------- MODULE SpacePlans -----------------------------
(***************************************************************************)
(* Plan limits on personal spaces: the guard counters that refuse one      *)
(* space or one person too many, and the queue that keeps ctech-billing    *)
(* told of every owner's levels (domain/organization/planlimit.go and      *)
(* counters.go, domain/planlimit, billingclient).                          *)
(*                                                                         *)
(* The membership index lags behind the tables: idx is what it shows.      *)
(* Time appears as one assumption, the one reconcileSettle is chosen by:   *)
(* thirty seconds after a change was marked, the index shows what it       *)
(* showed in the table by then and the requests of that time are over.     *)
(* Roles and rights are those of Workspaces; one count of the levels is    *)
(* one step, because a change that lands inside it is marked after it.     *)
(***************************************************************************)
EXTENDS Integers, FiniteSets, Sequences

CONSTANTS
  Persons,      \* accounts; an address is written as its account
  Spaces,       \* personal workspaces
  Calls,        \* requests in progress
  Quota,        \* person -> how many spaces the plan allows
  PeopleQuota,  \* how many people one space holds
  PlanScopes    \* entry points and a bound of the requests; a behaviour exercises one

Unlimited == -1

NoPerson == "no person"
NoSpace == "no space"

\* Ids of different kinds differ, and none of them is an empty value.
ASSUME SpacePlansAssumption ==
  /\ IsFiniteSet(Persons) /\ IsFiniteSet(Spaces) /\ Spaces \cap Calls = {}
  /\ NoPerson \notin Persons /\ NoSpace \notin Spaces
  /\ Quota \in [Persons -> Nat \cup {Unlimited}]
  /\ PeopleQuota \in Nat \cup {Unlimited}
  /\ \A x \in PlanScopes : x.requests \in Nat

Absent == -1       \* a counter never written
GuardAttempts == 3

VARIABLES
  planScope,    \* the entry points in use
  holder,       \* space -> owner, NoPerson before it is created
  idx,          \* space -> owner as the membership index shows it
  guests,       \* space -> members other than the owner
  pending,      \* space -> people with a live invitation
  spaceN,       \* person -> the spaces counter
  peopleN,      \* space -> people_n
  marks,        \* person -> the NOW row: none, new, or as the worker read it
  waits,        \* person -> what must settle before the NOW row is reported
  ats,          \* AT rows of invitations, <<owner, space, invited>>
  due,          \* AT rows that are due
  told,         \* person -> levels billing holds
  calls,        \* request -> where it is
  budget,       \* requests still to come
  worker,       \* the drain, under its lock
  \* What happened, for the properties only:
  undercut,     \* owners whose counter was set below the spaces they own
  unmarked      \* owners whose last change left no row

pVars == <<planScope, holder, idx, guests, pending, spaceN, peopleN, marks, waits, ats, due,
           told, calls, budget, worker, undercut, unmarked>>
scene == <<planScope, budget>>
tables == <<holder, idx, guests, pending>>
counters == <<spaceN, peopleN>>
queue == <<marks, waits, ats, due>>

-----------------------------------------------------------------------------
(* Counting *)

Allows(limit, used) == limit = Unlimited \/ used < limit

Larger(a, b) == IF a > b THEN a ELSE b

\* The index names the space, the row itself has the last word.
OwnedSpaces(u) == {s \in Spaces : idx[s] = u /\ holder[s] = u}
Truly(u) == {s \in Spaces : holder[s] = u}

PeopleOf(ss) == UNION {guests[s] \cup pending[s] : s \in ss}
Levels(u) == [spaces |-> Cardinality(OwnedSpaces(u)), people |-> Cardinality(PeopleOf(OwnedSpaces(u)))]
TrueLevels(u) == [spaces |-> Cardinality(Truly(u)), people |-> Cardinality(PeopleOf(Truly(u)))]
NoLevels == [spaces |-> 0, people |-> 0]

-----------------------------------------------------------------------------
(* State *)

Counts == Nat \cup {Absent}
LevelsType == [spaces: Nat, people: Nat]
Free == [pc |-> "idle", op |-> "none", u |-> NoPerson, s |-> NoSpace, g |-> NoPerson, tries |-> 0,
         used |-> 0, seen |-> Absent, tell |-> <<>>, counted |-> NoLevels]
Tells == {<<>>} \cup {<<u>> : u \in Persons} \cup {<<u, v>> : u, v \in Persons}
CallRecord ==
  [pc: {"idle", "owned", "counter", "write", "decrement", "existing", "guests", "pending", "peopleCounter",
        "putInvite", "join", "drop", "left", "mark", "count", "send", "schedule"},
   op: {"none", "create", "transfer", "invite", "accept", "remove", "revoke"},
   u: Persons \cup {NoPerson}, s: Spaces \cup {NoSpace}, g: Persons \cup {NoPerson},
   tries: 0..GuardAttempts, used: Nat, seen: Counts,
   tell: Tells, counted: LevelsType]

NowRow == <<>>     \* the worker drains the NOW row
AtRows == Persons \X Spaces \X (Persons \cup {NoPerson})
Rest == [pc |-> "idle", u |-> NoPerson, row |-> NowRow, real |-> 0, seen |-> Absent,
         counted |-> NoLevels]
WorkerRecord ==
  [pc: {"idle", "count", "send", "owned", "counter", "reconcile", "done"}, u: Persons \cup {NoPerson},
   row: AtRows \cup {NowRow}, real: Nat, seen: Counts, counted: LevelsType]

PlansTypeOK ==
  /\ planScope \in PlanScopes /\ budget \in 0..planScope.requests
  /\ holder \in [Spaces -> Persons \cup {NoPerson}] /\ idx \in [Spaces -> Persons \cup {NoPerson}]
  /\ guests \in [Spaces -> SUBSET Persons] /\ pending \in [Spaces -> SUBSET Persons]
  /\ spaceN \in [Persons -> Counts] /\ peopleN \in [Spaces -> Counts]
  /\ marks \in [Persons -> {"none", "new", "read"}]
  /\ waits \in [Persons -> SUBSET (Spaces \cup Calls)]
  /\ ats \subseteq Persons \X Spaces \X Persons /\ due \subseteq AtRows
  /\ told \in [Persons -> LevelsType]
  /\ calls \in [Calls -> CallRecord] /\ worker \in WorkerRecord
  /\ undercut \subseteq Persons /\ unmarked \subseteq Persons

\* No space yet, or one from before plan limits: settled, never counted.
PlansInit ==
  /\ planScope \in PlanScopes
  /\ \E old \in SUBSET Spaces, u, v \in Persons :
       /\ Cardinality(old) <= 1
       /\ holder = [s \in Spaces |-> IF s \in old THEN u ELSE NoPerson]
       /\ guests = [s \in Spaces |-> IF s \in old THEN {v} \ {u} ELSE {}]
       /\ told = [w \in Persons |-> IF w = u /\ old # {}
                                    THEN [spaces |-> 1, people |-> Cardinality({v} \ {u})] ELSE NoLevels]
  /\ idx = holder
  /\ pending = [s \in Spaces |-> {}]
  /\ spaceN = [u \in Persons |-> Absent] /\ peopleN = [s \in Spaces |-> Absent]
  /\ marks = [u \in Persons |-> "none"] /\ waits = [u \in Persons |-> {}]
  /\ ats = {} /\ due = {}
  /\ calls = [c \in Calls |-> Free] /\ budget = planScope.requests /\ worker = Rest
  /\ undercut = {} /\ unmarked = {}

-----------------------------------------------------------------------------
(* Requests *)

Open(c, op, pc, u, s, g) ==
  /\ calls[c].pc = "idle" /\ op \in planScope.ops
  /\ budget > 0 /\ budget' = budget - 1
  /\ calls' = [calls EXCEPT ![c] = [Free EXCEPT !.pc = pc, !.op = op, !.u = u, !.s = s, !.g = g]]

\* A call that ends, or moves on, settles nothing but itself.
Close(c) ==
  /\ calls' = [calls EXCEPT ![c] = Free]
  /\ waits' = [u \in Persons |-> waits[u] \ {c}]
Move(c, pc) == calls' = [calls EXCEPT ![c].pc = pc] /\ UNCHANGED waits

\* What follows the commit: LevelsChanged for these owners.
Tell(c, owners, pc) ==
  calls' = [calls EXCEPT ![c].pc = pc, ![c].tell = owners] /\ UNCHANGED waits

\* personalSpace takes a space it cannot read for an organization: no guard, no
\* report, and nothing that remembers one.
Untold(c) ==
  /\ "fault" \in planScope.ops
  /\ Close(c)
  /\ unmarked' = unmarked \cup {holder[calls[c].s]}

\* Recount and try again, three times; then ErrPlanBusy.
Retry(c, pc) ==
  IF calls[c].tries + 1 < GuardAttempts
  THEN calls' = [calls EXCEPT ![c].pc = pc, ![c].tries = @ + 1] /\ UNCHANGED waits
  ELSE Close(c)

\* The condition of guardExpr: the counter is what the check read.
BugGuardHolds(limit, counter, seen) == TRUE
GuardHolds(limit, counter, seen) == limit = Unlimited \/ counter = seen

-----------------------------------------------------------------------------
(* Spaces: createGuarded, transferGuarded *)

\* u's plan is read live; a billing that does not answer ends the request.
CreateSpace(c, u, s) ==
  /\ holder[s] = NoPerson /\ \A x \in Calls : ~(calls[x].op = "create" /\ calls[x].s = s)
  /\ Open(c, "create", "owned", u, s, NoPerson)
  /\ UNCHANGED <<planScope, tables, counters, queue, told, worker, undercut, unmarked>>

\* The new owner's plan counts: u is who receives the space, g who gives it.
TransferSpace(c, s, u) ==
  /\ holder[s] # NoPerson /\ u \in guests[s]
  /\ Open(c, "transfer", "owned", u, s, holder[s])
  /\ UNCHANGED <<planScope, tables, counters, queue, told, worker, undercut, unmarked>>

ReadOwned(c) ==
  /\ calls[c].pc = "owned"
  /\ calls' = [calls EXCEPT ![c].pc = "counter", ![c].used = Cardinality(OwnedSpaces(calls[c].u))]
  /\ UNCHANGED <<scene, tables, counters, queue, told, worker, undercut, unmarked>>

Used(real, counter) == Larger(real, counter)

\* spaceGuard: the larger of the count and the counter.
SpaceGuard(c) ==
  LET n == Used(calls[c].used, spaceN[calls[c].u]) IN
  /\ calls[c].pc = "counter"
  /\ IF Allows(Quota[calls[c].u], n)
     THEN /\ calls' = [calls EXCEPT ![c].pc = "write", ![c].used = n, ![c].seen = spaceN[calls[c].u]]
          /\ UNCHANGED waits
     ELSE Close(c)
  /\ UNCHANGED <<scene, tables, counters, marks, ats, due, told, worker, undercut, unmarked>>

CreateWithOwnerGuarded(c) ==
  LET x == calls[c] IN
  /\ x.pc = "write" /\ x.op = "create"
  /\ IF GuardHolds(Quota[x.u], spaceN[x.u], x.seen)
     THEN /\ holder' = [holder EXCEPT ![x.s] = x.u]
          /\ spaceN' = [spaceN EXCEPT ![x.u] = x.used + 1]
          /\ Tell(c, <<x.u>>, "mark")
     ELSE Retry(c, "owned") /\ UNCHANGED <<holder, spaceN>>
  /\ UNCHANGED <<scene, idx, guests, pending, peopleN, marks, ats, due, told, worker, undercut, unmarked>>

\* A failed condition of the transfer itself ends it; a moved counter retries.
TransferOwnershipGuarded(c) ==
  LET x == calls[c] IN
  /\ x.pc = "write" /\ x.op = "transfer"
  /\ \/ /\ GuardHolds(Quota[x.u], spaceN[x.u], x.seen)
        /\ holder[x.s] = x.g /\ x.u \in guests[x.s]
        /\ holder' = [holder EXCEPT ![x.s] = x.u]
        /\ guests' = [guests EXCEPT ![x.s] = (@ \ {x.u}) \cup {x.g}]
        /\ spaceN' = [spaceN EXCEPT ![x.u] = x.used + 1]
        /\ Tell(c, <<x.g, x.u>>, "decrement")
     \/ /\ ~GuardHolds(Quota[x.u], spaceN[x.u], x.seen)
        /\ Retry(c, "owned") /\ UNCHANGED <<holder, guests, spaceN>>
     \/ /\ GuardHolds(Quota[x.u], spaceN[x.u], x.seen)
        /\ ~(holder[x.s] = x.g /\ x.u \in guests[x.s])
        /\ Close(c) /\ UNCHANGED <<holder, guests, spaceN>>
  /\ UNCHANGED <<scene, idx, pending, peopleN, marks, ats, due, told, worker, undercut, unmarked>>

\* Mutant: the decrement without its condition.
BugLowered(n) == n - 1
Lowered(n) == IF n > 0 THEN n - 1 ELSE n

\* The former owner's counter; a failure schedules the worker's reconcile.
DecrementSpaceCounter(c) ==
  LET u == calls[c].g IN
  /\ calls[c].pc = "decrement"
  /\ \/ /\ spaceN' = [spaceN EXCEPT ![u] = Lowered(@)]
        /\ undercut' = IF spaceN[u] # Absent /\ Lowered(spaceN[u]) < Cardinality(Truly(u))
                       THEN undercut \cup {u} ELSE undercut
        /\ UNCHANGED due
     \/ /\ "fault" \in planScope.ops
        /\ due' = due \cup {<<u, calls[c].s, NoPerson>>}
        /\ UNCHANGED <<spaceN, undercut>>
  /\ Move(c, "mark")
  /\ UNCHANGED <<scene, tables, peopleN, marks, ats, told, worker, unmarked>>

-----------------------------------------------------------------------------
(* People: inviteGuarded, and what lowers the count *)

InviteGuest(c, s, g) ==
  /\ holder[s] # NoPerson /\ g # holder[s] /\ g \notin guests[s]
  /\ Open(c, "invite", "existing", holder[s], s, g)
  /\ UNCHANGED <<planScope, tables, counters, queue, told, worker, undercut, unmarked>>

\* A live invitation of the same address is replaced and counts nobody.
GetInvitation(c) ==
  LET x == calls[c] IN
  /\ x.pc = "existing"
  /\ IF x.g \in pending[x.s] THEN Tell(c, <<x.u>>, "mark") ELSE Move(c, "guests")
  /\ UNCHANGED <<scene, tables, counters, marks, ats, due, told, worker, undercut, unmarked>>

\* peopleIn: members, then invitations.
ListMembers(c) ==
  /\ calls[c].pc = "guests"
  /\ calls' = [calls EXCEPT ![c].pc = "pending", ![c].used = Cardinality(guests[calls[c].s])]
  /\ UNCHANGED <<scene, tables, counters, queue, told, worker, undercut, unmarked>>

ListInvitations(c) ==
  /\ calls[c].pc = "pending"
  /\ calls' = [calls EXCEPT ![c].pc = "peopleCounter", ![c].used = @ + Cardinality(pending[calls[c].s])]
  /\ UNCHANGED <<scene, tables, counters, queue, told, worker, undercut, unmarked>>

PeopleCounter(c) ==
  LET x == calls[c] IN
  /\ x.pc = "peopleCounter"
  /\ IF Allows(PeopleQuota, x.used)
     THEN calls' = [calls EXCEPT ![c].pc = "putInvite", ![c].seen = peopleN[x.s]] /\ UNCHANGED waits
     ELSE Close(c)
  /\ UNCHANGED <<scene, tables, counters, marks, ats, due, told, worker, undercut, unmarked>>

\* The row must be new, and the counter where the check found it.
PutInvitationGuarded(c) ==
  LET x == calls[c] IN
  /\ x.pc = "putInvite"
  /\ IF x.g \notin pending[x.s] /\ GuardHolds(PeopleQuota, peopleN[x.s], x.seen)
     THEN /\ pending' = [pending EXCEPT ![x.s] = @ \cup {x.g}]
          /\ peopleN' = [peopleN EXCEPT ![x.s] = x.used + 1]
          /\ Tell(c, <<x.u>>, "mark")
     ELSE Retry(c, "existing") /\ UNCHANGED <<pending, peopleN>>
  /\ UNCHANGED <<scene, holder, idx, guests, spaceN, marks, ats, due, told, worker, undercut, unmarked>>

\* The same write without the guard, when the space could not be read.
PutInvitationUnguarded(c) ==
  LET x == calls[c] IN
  /\ x.pc = "existing" /\ x.tries = 0
  /\ pending' = [pending EXCEPT ![x.s] = @ \cup {x.g}]
  /\ Untold(c)
  /\ UNCHANGED <<scene, holder, idx, guests, counters, marks, ats, due, told, worker, undercut>>

AcceptGuest(c, s, g) ==
  /\ g \in pending[s]
  /\ Open(c, "accept", "join", NoPerson, s, g)
  /\ UNCHANGED <<planScope, tables, counters, queue, told, worker, undercut, unmarked>>

\* Never refused: it was counted when sent.  The owner is read afterwards.
JoinSpace(c) ==
  LET x == calls[c] IN
  /\ x.pc = "join"
  /\ IF x.g \notin guests[x.s] /\ x.g # holder[x.s]
     THEN /\ guests' = [guests EXCEPT ![x.s] = @ \cup {x.g}]
          /\ pending' = [pending EXCEPT ![x.s] = @ \ {x.g}]
          /\ \/ Tell(c, <<holder[x.s]>>, "mark") /\ UNCHANGED unmarked
             \/ Untold(c)
     ELSE Close(c) /\ UNCHANGED <<guests, pending, unmarked>>
  /\ UNCHANGED <<scene, holder, idx, counters, marks, ats, due, told, worker, undercut>>

RemoveGuest(c, s, g) ==
  /\ g \in guests[s]
  /\ Open(c, "remove", "drop", NoPerson, s, g)
  /\ UNCHANGED <<planScope, tables, counters, queue, told, worker, undercut, unmarked>>

RemoveWrite(c) ==
  LET x == calls[c] IN
  /\ x.pc = "drop" /\ x.op = "remove"
  /\ IF x.g \in guests[x.s]
     THEN /\ guests' = [guests EXCEPT ![x.s] = @ \ {x.g}]
          /\ \/ Tell(c, <<holder[x.s]>>, "left") /\ UNCHANGED unmarked
             \/ Untold(c)
     ELSE Close(c) /\ UNCHANGED <<guests, unmarked>>
  /\ UNCHANGED <<scene, holder, idx, pending, counters, marks, ats, due, told, worker, undercut>>

\* The owner, and whether the invitation counted, are read before the delete;
\* one that did not count goes without any report.
RevokeGuest(c, s, g) ==
  /\ g \in pending[s]
  /\ Open(c, "revoke", "drop", holder[s], s, g)
  /\ UNCHANGED <<planScope, tables, counters, queue, told, worker, undercut, unmarked>>

RevokeWrite(c) ==
  LET x == calls[c] IN
  /\ x.pc = "drop" /\ x.op = "revoke"
  /\ pending' = [pending EXCEPT ![x.s] = @ \ {x.g}]
  /\ \/ Tell(c, <<x.u>>, "left") /\ UNCHANGED unmarked
     \/ Untold(c)
  /\ UNCHANGED <<scene, holder, idx, guests, counters, marks, ats, due, told, worker, undercut>>

\* afterPeopleLeft: best effort.
DecrementPeopleCounter(c) ==
  /\ calls[c].pc = "left"
  /\ peopleN' \in {peopleN, [peopleN EXCEPT ![calls[c].s] = Lowered(@)]}
  /\ Move(c, "mark")
  /\ UNCHANGED <<scene, tables, spaceN, marks, ats, due, told, worker, undercut, unmarked>>

\* From its expiry on an invitation counts nobody; its AT row is for whoever
\* owned the space when it was sent.
ExpireGuest(s, g) ==
  /\ g \in pending[s] /\ "expire" \in planScope.ops
  /\ pending' = [pending EXCEPT ![s] = @ \ {g}]
  /\ unmarked' = IF <<holder[s], s, g>> \in ats THEN unmarked ELSE unmarked \cup {holder[s]}
  /\ UNCHANGED <<scene, holder, idx, guests, counters, queue, told, calls, worker, undercut>>

-----------------------------------------------------------------------------
(* Reports: LevelsChanged, ScheduleLevels, and the index *)

Unsettled == {s \in Spaces : idx[s] # holder[s]} \cup {c \in Calls : calls[c].pc # "idle"}

\* MarkNow; the failure is only logged.
MarkNow(c) ==
  LET u == Head(calls[c].tell) IN
  /\ calls[c].pc = "mark"
  /\ \/ /\ marks' = [marks EXCEPT ![u] = "new"]
        /\ waits' = [waits EXCEPT ![u] = Unsettled]
        /\ unmarked' = unmarked \ {u}
     \/ /\ "fault" \in planScope.ops
        /\ unmarked' = unmarked \cup {u} /\ UNCHANGED <<marks, waits>>
  /\ calls' = [calls EXCEPT ![c].pc = "count"]
  /\ UNCHANGED <<scene, tables, counters, ats, due, told, worker, undercut>>

CountLevels(c) ==
  /\ calls[c].pc = "count"
  /\ calls' = [calls EXCEPT ![c].pc = "send", ![c].counted = Levels(Head(calls[c].tell))]
  /\ UNCHANGED <<scene, tables, counters, queue, told, worker, undercut, unmarked>>

\* Two meters, spaces and people: of a report that fails the first may arrive.
FailedReport(u, counted) ==
  told' \in {told, [told EXCEPT ![u].spaces = counted.spaces]}

\* The row stays, delivered or not.  An invitation schedules its expiry too.
ReportLevel(c) ==
  LET x == calls[c] IN
  /\ x.pc = "send"
  /\ \/ told' = [told EXCEPT ![Head(x.tell)] = x.counted]
     \/ "fault" \in planScope.ops /\ FailedReport(Head(x.tell), x.counted)
  /\ IF Len(x.tell) > 1 THEN Tell(c, Tail(x.tell), "mark")
     ELSE IF x.op = "invite" THEN Move(c, "schedule") ELSE Close(c)
  /\ UNCHANGED <<scene, tables, counters, marks, ats, due, worker, undercut, unmarked>>

ScheduleLevels(c) ==
  LET x == calls[c] IN
  /\ x.pc = "schedule"
  /\ \/ ats' = ats \cup {<<x.u, x.s, x.g>>}
     \/ "fault" \in planScope.ops /\ UNCHANGED ats
  /\ Close(c)
  /\ UNCHANGED <<scene, tables, counters, marks, due, told, worker, undercut, unmarked>>

\* The AT row of an invitation comes due as it expires; one that was spent,
\* replaced or withdrawn leaves a row that comes due for nothing.
AtRowDue(r) ==
  /\ r \in ats /\ r[3] \notin pending[r[2]] /\ r \notin due
  /\ ats' = ats \ {r} /\ due' = due \cup {r}
  /\ UNCHANGED <<scene, tables, counters, marks, waits, told, calls, worker, undercut, unmarked>>

IndexCatchesUp(s) ==
  /\ idx[s] # holder[s]
  /\ idx' = [idx EXCEPT ![s] = holder[s]]
  /\ waits' = [u \in Persons |-> waits[u] \ {s}]
  /\ UNCHANGED <<scene, holder, guests, pending, counters, marks, ats, due, told, calls, worker,
                 undercut, unmarked>>

\* Owners a request has changed something of and has not marked yet.
ToMark(x) ==
  {x.tell[i] : i \in CASE x.pc \in {"decrement", "left", "mark"} -> 1..Len(x.tell)
                       [] x.pc \in {"count", "send"} -> 2..Len(x.tell)
                       [] OTHER -> {}}

\* The instance stops.  After the commit and before the mark, nothing is left
\* that knows of the change.
CallCrash(c) ==
  /\ calls[c].pc # "idle" /\ "crash" \in planScope.ops
  /\ unmarked' = unmarked \cup ToMark(calls[c])
  /\ Close(c)
  /\ UNCHANGED <<scene, tables, counters, marks, ats, due, told, worker, undercut>>

-----------------------------------------------------------------------------
(* The worker: ProcessDue *)

\* Mutant: the row is reported as soon as it is read.
BugSettled(u) == TRUE
Settled(u) == waits[u] = {}

ProcessNow(u) ==
  /\ worker.pc = "idle" /\ marks[u] # "none" /\ Settled(u)
  /\ marks' = [marks EXCEPT ![u] = "read"]
  /\ worker' = [Rest EXCEPT !.pc = "count", !.u = u]
  /\ UNCHANGED <<scene, tables, counters, waits, ats, due, told, calls, undercut, unmarked>>

\* A scheduled row is due by definition.
ProcessAt(r) ==
  /\ worker.pc = "idle" /\ r \in due
  /\ worker' = [Rest EXCEPT !.pc = "count", !.u = r[1], !.row = r]
  /\ UNCHANGED <<scene, tables, counters, queue, told, calls, undercut, unmarked>>

WorkerCount ==
  /\ worker.pc = "count"
  /\ worker' = [worker EXCEPT !.pc = "send", !.counted = Levels(worker.u)]
  /\ UNCHANGED <<scene, tables, counters, queue, told, calls, undercut, unmarked>>

\* A report that fails keeps the row for the next tick.
WorkerReport ==
  /\ worker.pc = "send"
  /\ \/ told' = [told EXCEPT ![worker.u] = worker.counted] /\ worker' = [worker EXCEPT !.pc = "owned"]
     \/ worker' = Rest /\ FailedReport(worker.u, worker.counted)
  /\ UNCHANGED <<scene, tables, counters, queue, calls, undercut, unmarked>>

\* ReconcileSpaceCounter: the owned spaces, the counter, the conditional write;
\* a failure is only logged.
WorkerOwned ==
  /\ worker.pc = "owned"
  /\ \/ worker' = [worker EXCEPT !.pc = "counter", !.real = Cardinality(OwnedSpaces(worker.u))]
     \/ "fault" \in planScope.ops /\ worker' = [worker EXCEPT !.pc = "done"]
  /\ UNCHANGED <<scene, tables, counters, queue, told, calls, undercut, unmarked>>

WorkerCounter ==
  /\ worker.pc = "counter"
  /\ worker' = [worker EXCEPT !.seen = spaceN[worker.u],
                  !.pc = IF spaceN[worker.u] = worker.real THEN "done" ELSE "reconcile"]
  /\ UNCHANGED <<scene, tables, counters, queue, told, calls, undercut, unmarked>>

ReconcileSpaceCounter ==
  /\ worker.pc = "reconcile"
  /\ IF spaceN[worker.u] = worker.seen
     THEN /\ spaceN' = [spaceN EXCEPT ![worker.u] = worker.real]
          /\ undercut' = IF worker.real < Cardinality(Truly(worker.u))
                         THEN undercut \cup {worker.u} ELSE undercut
     ELSE UNCHANGED <<spaceN, undercut>>
  /\ worker' = [worker EXCEPT !.pc = "done"]
  /\ UNCHANGED <<scene, tables, peopleN, queue, told, calls, unmarked>>

\* The condition of Done: due_at is the one delivered.
StillRead(u) == marks[u] = "read"

Done ==
  /\ worker.pc = "done"
  /\ IF worker.row # NowRow THEN due' = due \ {worker.row} /\ UNCHANGED marks
     ELSE /\ marks' = IF StillRead(worker.u) THEN [marks EXCEPT ![worker.u] = "none"] ELSE marks
          /\ UNCHANGED due
  /\ worker' = Rest
  /\ UNCHANGED <<scene, tables, counters, waits, ats, told, calls, undercut, unmarked>>

\* The worker's instance stops, or a step of it fails; the row is still there.
WorkerCrash ==
  /\ worker.pc # "idle" /\ "crash" \in planScope.ops
  /\ worker' = Rest
  /\ UNCHANGED <<scene, tables, counters, queue, told, calls, undercut, unmarked>>

-----------------------------------------------------------------------------
CallStep(c) ==
  \/ ReadOwned(c) \/ SpaceGuard(c) \/ CreateWithOwnerGuarded(c) \/ TransferOwnershipGuarded(c)
  \/ DecrementSpaceCounter(c) \/ GetInvitation(c) \/ ListMembers(c) \/ ListInvitations(c)
  \/ PeopleCounter(c) \/ PutInvitationGuarded(c) \/ PutInvitationUnguarded(c)
  \/ JoinSpace(c) \/ RemoveWrite(c) \/ RevokeWrite(c) \/ DecrementPeopleCounter(c)
  \/ MarkNow(c) \/ CountLevels(c) \/ ReportLevel(c) \/ ScheduleLevels(c) \/ CallCrash(c)

WorkerStep ==
  \/ \E u \in Persons : ProcessNow(u)
  \/ \E r \in due : ProcessAt(r)
  \/ WorkerCount \/ WorkerReport \/ WorkerOwned \/ WorkerCounter \/ ReconcileSpaceCounter \/ Done
  \/ WorkerCrash

PlansNext ==
  \/ \E c \in Calls, u \in Persons, s \in Spaces :
       \/ CreateSpace(c, u, s) \/ TransferSpace(c, s, u) \/ InviteGuest(c, s, u)
       \/ AcceptGuest(c, s, u) \/ RemoveGuest(c, s, u) \/ RevokeGuest(c, s, u)
  \/ \E c \in Calls : CallStep(c)
  \/ \E s \in Spaces : IndexCatchesUp(s)
  \/ \E s \in Spaces, g \in Persons : ExpireGuest(s, g)
  \/ \E r \in ats : AtRowDue(r)
  \/ WorkerStep

PlansSpec == PlansInit /\ [][PlansNext]_pVars

-----------------------------------------------------------------------------
(* Properties *)

\* Who has more spaces than the plan allows keeps them and gets no other:
\* creations and transfers that race each other, on an index that lags, never
\* both pass the guard, unless that owner's counter was set below the truth.
SpacesWithinPlan ==
  [][\A u \in Persons \ undercut :
       (Quota[u] # Unlimited /\ Cardinality(Truly(u)') > Cardinality(Truly(u)))
       => Cardinality(Truly(u)') <= Quota[u]]_pVars

\* Once everything is quiet (no request, no row due, no drain) billing holds
\* the levels as they are, for everybody whose last change could be marked:
\* neither a lagging index, a failed report, a drain that overlaps a change nor
\* a crash of the worker leaves a stale level behind.
QuietMeansReported ==
  (/\ worker.pc = "idle" /\ due = {} /\ \A r \in ats : r[3] \in pending[r[2]]
   /\ \A c \in Calls : calls[c].pc = "idle")
  => \A u \in Persons : (marks[u] = "none" /\ u \notin unmarked) => told[u] = TrueLevels(u)

\* What the guard's comment promises of people: two requests that both saw the
\* last free place do not both write.
PeopleWithinPlan ==
  \A s \in Spaces : PeopleQuota = Unlimited \/ Cardinality(guests[s] \cup pending[s]) <= PeopleQuota
=============================================================================
