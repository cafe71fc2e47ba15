--------------------------- MODULE DeletionSafety ---------------------------
(***************************************************************************)
(* The marker names the open request, and the component implements the     *)
(* lifecycle it promises, for every value of the constants.                *)
(*                                                                         *)
(* Save trusts the private copy of its process for everything but the      *)
(* state.  The inductive invariant therefore says what each process may    *)
(* still rely on while others run: the request it copied exists and has    *)
(* the owner of the copy (Knows), and the pair (state expected, state of   *)
(* the copy) at each step is a move of the lifecycle (Plans).              *)
(***************************************************************************)
EXTENDS DeletionProofs

Creating == {"create", "createAgain", "expireOpen"}

\* The steps at which a process holds no copy of a stored request.
NoCopy == Creating \cup {"idle", "ackSave", "ackGet"}

\* What process x may rely on when the stored rows are R.
Knows(x, R) ==
  /\ x.pc \in Creating => x.loc.user \in Users /\ x.loc.state = "awaiting_confirmation"
  /\ x.pc \notin NoCopy => R[x.req].state # "none" /\ x.loc.user = R[x.req].user
  /\ x.pc # "idle" /\ x.from \in Committed => R[x.req].state \in Committed

\* The state x expects to find, and the state of its copy, at each step.
Plans(x) ==
  /\ x.pc = "confirmMail" => x.loc.state = "awaiting_confirmation"
  /\ x.pc = "confirmSave" => x.from = "awaiting_confirmation" /\ x.loc.state = "pending_deletion"
  /\ x.pc \in {"mark", "publishLocked"} =>
       /\ x.from = x.loc.state
       /\ x.from = "pending_deletion" \/ (x.from = "locked" /\ x.op # "confirm")
  /\ x.pc = "lockSave" => x.from = "pending_deletion" /\ x.loc.state = "pending_deletion"
  /\ x.pc \in {"clear", "publishUnlocked"} => x.from = "cancelled" /\ x.loc.state = "cancelled"
  /\ x.pc = "link" => x.loc.state \in {"pending_deletion", "blocked"}
  /\ x.pc = "linkMail" => x.from = x.loc.state /\ x.from \in {"pending_deletion", "blocked"}
  /\ x.pc = "cancelSave" => x.from \in {"pending_deletion", "blocked"} /\ x.loc.state = "cancelled"
  /\ x.pc \in {"erase", "putServices"} => x.from = "locked" /\ x.loc.state = "locked"
  /\ x.pc \in {"reconcile", "redispatch", "bump", "purge"} =>
       x.from = "purging" /\ x.loc.state = "purging"
  /\ x.pc \in {"redriveList", "redriveSave"} => x.from = x.loc.state /\ x.from \in States
  /\ x.pc = "save" => /\ x.from \in States
                      /\ x.from = x.loc.state \/ <<x.from, x.loc.state>> \in Lifecycle!Edges

Owned == \A r \in Reqs : rows[r].state # "none" => rows[r].user \in Users

SafeProcs == \A p \in Procs : Knows(procs[p], rows) /\ Plans(procs[p])

\* The inductive invariant.
SafeInv == TypeInv /\ MarkerIffOpen /\ Owned /\ SafeProcs

-----------------------------------------------------------------------------
(* How one row may change *)

\* A request row a may become b.
Advances(a, b) ==
  \/ b.state = a.state /\ b.user = a.user
  \/ <<a.state, b.state>> \in Lifecycle!Edges /\ b.user = a.user
  \/ a.state = "none" /\ b.state = "awaiting_confirmation"

RowsAdvance == \A r \in Reqs : Advances(rows[r], rows'[r])

\* Requests move inside States, past cancelling they stay past cancelling, and
\* no closed request opens again.
LEMMA EdgeFacts ==
  ASSUME NEW a, NEW b, <<a, b>> \in Lifecycle!Edges
  PROVE  /\ a \in States /\ b \in States /\ Open(a)
         /\ a \in Committed => b \in Committed
BY DEF Lifecycle!Edges, States, Open, Committed

\* What a process relies on survives every step of the others.
LEMMA KnowsStable ==
  ASSUME NEW x, Busy(x), Knows(x, rows), RowsAdvance
  PROVE  Knows(x, rows')
<1>1. ASSUME x.pc \notin NoCopy
      PROVE  rows'[x.req].state # "none" /\ x.loc.user = rows'[x.req].user
  <2>1. x.req \in Reqs /\ rows[x.req].state # "none" /\ x.loc.user = rows[x.req].user
    BY <1>1 DEF Knows, Busy, NoCopy
  <2>2. Advances(rows[x.req], rows'[x.req])
    BY <2>1 DEF RowsAdvance
  <2>3. <<rows[x.req].state, rows'[x.req].state>> \in Lifecycle!Edges => rows'[x.req].state # "none"
    BY EdgeFacts, StateNames
  <2> QED BY <2>1, <2>2, <2>3 DEF Advances
<1>2. ASSUME x.pc # "idle", x.from \in Committed
      PROVE  rows'[x.req].state \in Committed
  <2>1. x.req \in Reqs /\ rows[x.req].state \in Committed
    BY <1>2 DEF Knows, Busy
  <2>2. Advances(rows[x.req], rows'[x.req])
    BY <2>1 DEF RowsAdvance
  <2>3. rows[x.req].state # "none"
    BY <2>1 DEF Committed
  <2> QED BY <2>1, <2>2, <2>3, EdgeFacts DEF Advances
<1> QED BY <1>1, <1>2 DEF Knows

\* One process moves to x while the rows advance.
LEMMA SafeProcsStep ==
  ASSUME TypeInv, SafeProcs, RowsAdvance, NEW p \in Procs, NEW x,
         procs' = [procs EXCEPT ![p] = x], Knows(x, rows'), Plans(x)
  PROVE  SafeProcs'
<1>1. procs \in [Procs -> Proc] /\ \A q \in Procs : Busy(procs[q])
  BY DEF TypeInv, TypeOK
<1>2. ASSUME NEW q \in Procs PROVE Knows(procs'[q], rows') /\ Plans(procs'[q])
  <2>1. CASE q = p
    BY <1>1, <2>1
  <2>2. CASE q # p
    <3>1. procs'[q] = procs[q]
      BY <1>1, <2>2
    <3>2. Knows(procs[q], rows) /\ Plans(procs[q]) /\ Busy(procs[q])
      BY <1>1 DEF SafeProcs
    <3> QED BY <3>1, <3>2, KnowsStable
  <2> QED BY <2>1, <2>2
<1> QED BY <1>2 DEF SafeProcs, Knows, Plans

LEMMA IdleSafe == \A R : Knows(Idle, R) /\ Plans(Idle)
<1>1. Idle.pc = "idle"
  BY DEF Idle
<1> QED BY <1>1 DEF Knows, Plans, NoCopy, Creating

LEMMA SafeReturn ==
  ASSUME TypeInv, SafeProcs, RowsAdvance, NEW p \in Procs, Return(p)
  PROVE  SafeProcs'
BY IdleSafe, SafeProcsStep DEF Return

\* Steps that do not touch the rows.
LEMMA Stays ==
  ASSUME UNCHANGED rows
  PROVE  RowsAdvance
BY DEF RowsAdvance, Advances

\* The functions on a copy that leave its state and owner alone, and those that
\* set the state.
LEMMA CopyFields ==
  ASSUME NEW r \in Request, NEW t, NEW k
  PROVE  /\ SetDue(r, t).state = r.state /\ SetDue(r, t).user = r.user
         /\ ClearDue(r).state = r.state /\ ClearDue(r).user = r.user
         /\ ScheduleNext(r, t).state = r.state /\ ScheduleNext(r, t).user = r.user
         /\ Expire(r).state = "expired" /\ Expire(r).user = r.user
         /\ Confirmed(r, t).state = "pending_deletion" /\ Confirmed(r, t).user = r.user
         /\ Cancelled(r, t).state = "cancelled" /\ Cancelled(r, t).user = r.user
<1>1. /\ SetDue(r, t).state = r.state /\ SetDue(r, t).user = r.user
      /\ ClearDue(r).state = r.state /\ ClearDue(r).user = r.user
  BY DEF SetDue, ClearDue, Request
<1>2. \A d : SetDue(r, d).state = r.state /\ SetDue(r, d).user = r.user
  BY DEF SetDue, Request
<1>3. ScheduleNext(r, t).state = r.state /\ ScheduleNext(r, t).user = r.user
  BY <1>1, <1>2 DEF ScheduleNext
<1>4. Expire(r).state = "expired" /\ Expire(r).user = r.user
  BY DEF Expire, Request
<1>5. Confirmed(r, t).state = "pending_deletion" /\ Confirmed(r, t).user = r.user
  BY DEF Confirmed, Request
<1>6. Cancelled(r, t).state = "cancelled" /\ Cancelled(r, t).user = r.user
  BY DEF Cancelled, Request
<1> QED BY <1>1, <1>3, <1>4, <1>5, <1>6

LEMMA SentFields ==
  ASSUME NEW r \in Request, NEW t, NEW k
  PROVE  /\ LinkSent(r, k, t).state = r.state /\ LinkSent(r, k, t).user = r.user
         /\ LockRecorded(r, t).state = r.state /\ LockRecorded(r, t).user = r.user
<1> DEFINE q == [r EXCEPT !.scheduledSent   = r.scheduledSent \/ k = "scheduled",
                          !.reminded        = r.reminded \/ k = "reminder",
                          !.blockedNotified = r.blockedNotified \/ k = "blocked"]
           l == [r EXCEPT !.lockApplied = TRUE]
<1>1. /\ q \in Request /\ q.state = r.state /\ q.user = r.user
      /\ l \in Request /\ l.state = r.state /\ l.user = r.user
  BY ZenonT(40) DEF Request
<1>2. LinkSent(r, k, t) = ScheduleNext(q, t) /\ LockRecorded(r, t) = ScheduleNext(l, t)
  BY DEF LinkSent, LockRecorded
<1> HIDE DEF q, l
<1> QED BY <1>1, <1>2, CopyFields

\* A copy whose state is set, and due time set or cleared.
LEMMA MovedFields ==
  ASSUME NEW r \in Request, NEW s \in States, NEW t
  PROVE  /\ SetDue([r EXCEPT !.state = s], t).state = s
         /\ SetDue([r EXCEPT !.state = s], t).user = r.user
         /\ ClearDue([r EXCEPT !.state = s]).state = s
         /\ ClearDue([r EXCEPT !.state = s]).user = r.user
<1> DEFINE q == [r EXCEPT !.state = s]
<1>1. q \in Request /\ q.state = s /\ q.user = r.user
  BY WithState DEF Request
<1> HIDE DEF q
<1>2. /\ SetDue(q, t).state = s /\ SetDue(q, t).user = r.user
      /\ ClearDue(q).state = s /\ ClearDue(q).user = r.user
  BY <1>1, CopyFields
<1> QED BY <1>2 DEF q

-----------------------------------------------------------------------------
(* The writes *)

SaveSteps == {"confirmSave", "lockSave", "cancelSave", "save"}

\* The move a Save makes.
LEMMA SaveMove ==
  ASSUME SafeInv, NEW p \in Procs, procs[p].pc \in SaveSteps
  PROVE  /\ procs[p].from \in States
         /\ \/ procs[p].from = procs[p].loc.state
            \/ <<procs[p].from, procs[p].loc.state>> \in Lifecycle!Edges
<1>1. Plans(procs[p])
  BY DEF SafeInv, SafeProcs
<1>2. CASE procs[p].pc = "confirmSave"
  BY <1>1, <1>2 DEF Plans, Lifecycle!Edges, States
<1>3. CASE procs[p].pc = "lockSave"
  BY <1>1, <1>3 DEF Plans, States
<1>4. CASE procs[p].pc = "cancelSave"
  BY <1>1, <1>4 DEF Plans, Lifecycle!Edges, States
<1>5. CASE procs[p].pc = "save"
  BY <1>1, <1>5 DEF Plans
<1> QED BY <1>2, <1>3, <1>4, <1>5 DEF SaveSteps

\* Save's transaction advances the row and keeps the marker in step.
LEMMA PutSafe ==
  ASSUME SafeInv, NEW p \in Procs, procs[p].pc \in SaveSteps, Put(p)
  PROVE  RowsAdvance /\ MarkerIffOpen' /\ Owned'
<1> DEFINE r == procs[p].req
           c == procs[p].loc
           f == procs[p].from
<1>1. procs[p].pc # "idle" /\ procs[p].pc \notin NoCopy
  BY DEF SaveSteps, NoCopy, Creating
<1>2. /\ r \in Reqs /\ c \in Request /\ rows \in [Reqs -> Request]
      /\ marker \in [Users -> Reqs \cup {Nil}]
  BY <1>1, BusyFacts DEF SafeInv, TypeInv, TypeOK
<1>3. rows[r].state # "none" /\ c.user = rows[r].user /\ c.user \in Users
  BY <1>1, <1>2 DEF SafeInv, SafeProcs, Knows, Owned
<1>4. /\ rows[r].state = f
      /\ Releases(p) => marker[c.user] = r
      /\ rows' = [rows EXCEPT ![r] = c]
      /\ marker' = IF Releases(p) THEN [marker EXCEPT ![c.user] = Nil] ELSE marker
  BY DEF Put, SaveAllowed
<1>5. f \in States /\ (f = c.state \/ <<f, c.state>> \in Lifecycle!Edges)
  BY SaveMove
<1>6. Releases(p) <=> Open(f) /\ ~Open(c.state)
  BY DEF Releases
<1> HIDE DEF r, c, f
<1>7. /\ rows'[r] = c /\ \A q \in Reqs : q # r => rows'[q] = rows[q]
  BY <1>2, <1>4
<1>8. Advances(rows[r], c)
  BY <1>3, <1>4, <1>5 DEF Advances
<1>9. RowsAdvance
  BY <1>7, <1>8 DEF RowsAdvance, Advances
<1>10. Owned'
  BY <1>3, <1>7 DEF Owned, SafeInv
<1>11. ASSUME NEW u \in Users, NEW q \in Reqs
       PROVE  marker'[u] = q <=> rows'[q].user = u /\ Open(rows'[q].state)
  <2>1. marker[u] = q <=> rows[q].user = u /\ Open(rows[q].state)
    BY DEF SafeInv, MarkerIffOpen
  <2>2. marker[u] = r <=> rows[r].user = u /\ Open(f)
    BY <1>2, <1>4 DEF SafeInv, MarkerIffOpen
  <2>3. Nil \notin Reqs
    BY SetsAssumption
  <2>4. CASE Releases(p)
    BY <1>2, <1>3, <1>4, <1>6, <1>7, <2>1, <2>2, <2>3, <2>4
  <2>5. CASE ~Releases(p)
    <3>1. Open(f) <=> Open(c.state)
      BY <1>5, <1>6, <2>5, EdgeFacts
    <3> QED BY <1>2, <1>3, <1>4, <1>7, <2>1, <2>2, <2>5, <3>1
  <2> QED BY <2>4, <2>5
<1>12. MarkerIffOpen'
  BY <1>11 DEF MarkerIffOpen
<1> QED BY <1>9, <1>10, <1>12

LEMMA UnsavedSafe ==
  ASSUME SafeInv, Unsaved
  PROVE  RowsAdvance /\ MarkerIffOpen' /\ Owned'
BY Stays DEF SafeInv, Unsaved, MarkerIffOpen, Owned

LEMMA SaveSafe ==
  ASSUME SafeInv, NEW p \in Procs, procs[p].pc \in SaveSteps,
         Saved(p) \/ StateChanged(p) \/ SaveFailed(p)
  PROVE  RowsAdvance /\ MarkerIffOpen' /\ Owned'
<1>1. Put(p) \/ Unsaved
  BY DEF Saved, StateChanged, SaveFailed
<1> QED BY <1>1, PutSafe, UnsavedSafe

\* Create's transaction: the marker was free and the row absent.
LEMMA PutNewSafe ==
  ASSUME SafeInv, NEW p \in Procs, procs[p].pc \in Creating, PutNew(p)
  PROVE  /\ RowsAdvance /\ MarkerIffOpen' /\ Owned'
         /\ rows'[procs[p].req] = procs[p].loc
<1> DEFINE r == procs[p].req
           c == procs[p].loc
<1>1. procs[p].pc # "idle"
  BY DEF Creating
<1>2. /\ r \in Reqs /\ c \in Request /\ rows \in [Reqs -> Request]
      /\ marker \in [Users -> Reqs \cup {Nil}]
  BY <1>1, BusyFacts DEF SafeInv, TypeInv, TypeOK
<1>3. c.user \in Users /\ c.state = "awaiting_confirmation"
  BY DEF SafeInv, SafeProcs, Knows
<1>4. /\ marker[c.user] = Nil /\ rows[r].state = "none"
      /\ rows' = [rows EXCEPT ![r] = c] /\ marker' = [marker EXCEPT ![c.user] = r]
  BY DEF PutNew, CreateAllowed, NoRequest
<1> HIDE DEF r, c
<1>5. rows'[r] = c /\ \A q \in Reqs : q # r => rows'[q] = rows[q]
  BY <1>2, <1>4
<1>6. RowsAdvance
  BY <1>3, <1>4, <1>5 DEF RowsAdvance, Advances
<1>7. Owned'
  BY <1>3, <1>5 DEF Owned, SafeInv
<1>8. ~Open("none") /\ Open("awaiting_confirmation")
  BY DEF Open, States
<1>9. ASSUME NEW u \in Users, NEW q \in Reqs
      PROVE  marker'[u] = q <=> rows'[q].user = u /\ Open(rows'[q].state)
  <2>1. /\ marker[u] = q <=> rows[q].user = u /\ Open(rows[q].state)
        /\ marker[u] = r <=> rows[r].user = u /\ Open(rows[r].state)
    BY <1>2 DEF SafeInv, MarkerIffOpen
  <2>2. Nil \notin Reqs
    BY SetsAssumption
  <2> QED BY <1>2, <1>3, <1>4, <1>5, <1>8, <2>1, <2>2
<1>10. MarkerIffOpen'
  BY <1>9 DEF MarkerIffOpen
<1> QED BY <1>5, <1>6, <1>7, <1>10 DEF r, c

\* expireUnconfirmed frees the marker with the row it names.
LEMMA ExpireSafe ==
  ASSUME SafeInv, NEW u \in Users, marker[u] # Nil,
         rows[marker[u]].state = "awaiting_confirmation",
         rows' = [rows EXCEPT ![marker[u]] = Expire(@)],
         marker' = [marker EXCEPT ![u] = Nil]
  PROVE  RowsAdvance /\ MarkerIffOpen' /\ Owned'
<1> DEFINE o == marker[u]
<1>1. /\ o \in Reqs /\ rows \in [Reqs -> Request] /\ marker \in [Users -> Reqs \cup {Nil}]
      /\ rows[o] \in Request
  BY DEF SafeInv, TypeInv, TypeOK
<1>2. rows[o].user = u
  BY <1>1 DEF SafeInv, MarkerIffOpen
<1> HIDE DEF o
<1>3. Expire(rows[o]).state = "expired" /\ Expire(rows[o]).user = u
  BY <1>1, <1>2, CopyFields
<1>4. rows'[o] = Expire(rows[o]) /\ \A q \in Reqs : q # o => rows'[q] = rows[q]
  BY <1>1 DEF o
<1>5. rows[o].state = "awaiting_confirmation"
  BY DEF o
<1>6. Advances(rows[o], rows'[o])
  BY <1>2, <1>3, <1>4, <1>5 DEF Advances, Lifecycle!Edges
<1>7. RowsAdvance
  BY <1>4, <1>6 DEF RowsAdvance, Advances
<1>8. Owned'
  BY <1>3, <1>4 DEF Owned, SafeInv
<1>9. ~Open("expired")
  BY DEF Open
<1>10. ASSUME NEW v \in Users, NEW q \in Reqs
       PROVE  marker'[v] = q <=> rows'[q].user = v /\ Open(rows'[q].state)
  <2>1. /\ marker[v] = q <=> rows[q].user = v /\ Open(rows[q].state)
        /\ marker[u] = q <=> rows[q].user = u /\ Open(rows[q].state)
    BY DEF SafeInv, MarkerIffOpen
  <2>2. Nil \notin Reqs /\ marker[u] = o
    BY SetsAssumption DEF o
  <2>3. marker'[u] = Nil /\ (v # u => marker'[v] = marker[v])
    BY <1>1
  <2>4. CASE q = o
    BY <1>2, <1>3, <1>4, <1>9, <2>1, <2>2, <2>3, <2>4
  <2>5. CASE q # o
    BY <1>4, <2>1, <2>2, <2>3, <2>5
  <2> QED BY <2>4, <2>5
<1>11. MarkerIffOpen'
  BY <1>10 DEF MarkerIffOpen
<1> QED BY <1>7, <1>8, <1>11

\* sendCancelLink stores a copy with the state and owner of the row.
LEMMA StoreSafe ==
  ASSUME SafeInv, NEW r \in Reqs, NEW c, c.state = rows[r].state, c.user = rows[r].user,
         rows' = [rows EXCEPT ![r] = c], UNCHANGED marker
  PROVE  RowsAdvance /\ MarkerIffOpen' /\ Owned'
<1>1. rows'[r] = c /\ \A q \in Reqs : q # r => rows'[q] = rows[q]
  BY DEF SafeInv, TypeInv, TypeOK
<1>2. \A q \in Reqs : rows'[q].state = rows[q].state /\ rows'[q].user = rows[q].user
  BY <1>1
<1> QED BY <1>2 DEF SafeInv, RowsAdvance, Advances, MarkerIffOpen, Owned

-----------------------------------------------------------------------------
(* The processes *)

\* A process with a copy goes on with the same request and owner.
LEMMA SafeMove ==
  ASSUME SafeInv, RowsAdvance, NEW p \in Procs, procs[p].pc \notin NoCopy, NEW x,
         procs' = [procs EXCEPT ![p] = x], x.pc \notin NoCopy, x.req = procs[p].req,
         x.loc.user = procs[p].loc.user,
         x.from \in Committed => procs[p].from \in Committed, Plans(x)
  PROVE  SafeProcs'
<1>1. Busy(procs[p]) /\ Knows(procs[p], rows)
  BY DEF SafeInv, TypeInv, SafeProcs
<1>2. Knows(procs[p], rows')
  BY <1>1, KnowsStable
<1>3. procs[p].pc # "idle" /\ x.pc # "idle" /\ x.pc \notin Creating
  BY DEF NoCopy
<1>4. Knows(x, rows')
  BY <1>2, <1>3 DEF Knows
<1> QED BY <1>4, SafeProcsStep DEF SafeInv

LEMMA SafeGoto ==
  ASSUME SafeInv, RowsAdvance, NEW p \in Procs, procs[p].pc \notin NoCopy,
         NEW pc, pc \notin NoCopy, Goto(p, pc), Plans([procs[p] EXCEPT !.pc = pc])
  PROVE  SafeProcs'
<1> DEFINE x == [procs[p] EXCEPT !.pc = pc]
<1>1. procs[p] \in Proc
  BY DEF SafeInv, TypeInv, TypeOK
<1>2. /\ x.pc = pc /\ x.req = procs[p].req /\ x.loc = procs[p].loc /\ x.from = procs[p].from
      /\ procs' = [procs EXCEPT ![p] = x]
  BY <1>1 DEF Proc, Goto
<1>3. Plans(x)
  OBVIOUS
<1> HIDE DEF x
<1> QED BY <1>2, <1>3, SafeMove

\* A process replaces its copy by r, of the same owner, and goes on to step pc.
LEMMA SafeKeep ==
  ASSUME SafeInv, RowsAdvance, NEW p \in Procs, procs[p].pc \notin NoCopy,
         NEW pc, pc \notin NoCopy, NEW r, r.user = procs[p].loc.user, Keep(p, pc, r),
         \/ /\ pc = "save" /\ procs[p].from \in States
            /\ (procs[p].from = r.state \/ <<procs[p].from, r.state>> \in Lifecycle!Edges)
         \/ pc = "lockSave" /\ procs[p].from = "pending_deletion" /\ r.state = "pending_deletion"
  PROVE  SafeProcs'
<1> DEFINE x == [procs[p] EXCEPT !.pc = pc, !.loc = r]
<1>1. procs[p] \in Proc
  BY DEF SafeInv, TypeInv, TypeOK
<1>2. /\ x.pc = pc /\ x.req = procs[p].req /\ x.loc = r /\ x.from = procs[p].from
      /\ procs' = [procs EXCEPT ![p] = x]
  BY <1>1 DEF Proc, Keep
<1> HIDE DEF x
<1>3. Plans(x)
  BY <1>2 DEF Plans
<1> QED BY <1>2, <1>3, SafeMove

\* A process starts operation op on a stored request, with copy row.
LEMMA SafeBegin ==
  ASSUME SafeInv, UNCHANGED rows, NEW p \in Procs, NEW x, NEW r \in Reqs,
         procs' = [procs EXCEPT ![p] = x], x.pc \notin NoCopy, x.req = r,
         rows[r].state # "none", x.loc.user = rows[r].user, x.from = rows[r].state, Plans(x)
  PROVE  SafeProcs'
<1>1. RowsAdvance
  BY Stays
<1>2. Knows(x, rows')
  BY DEF Knows, NoCopy
<1> QED BY <1>1, <1>2, SafeProcsStep DEF SafeInv

\* The record a started operation consists of.
LEMMA BeginFields ==
  ASSUME NEW op, NEW pc, NEW r, NEW row, NEW from
  PROVE  LET x == [Idle EXCEPT !.op = op, !.pc = pc, !.req = r, !.loc = row, !.from = from,
                               !.at = now, !.start = now]
         IN x.op = op /\ x.pc = pc /\ x.req = r /\ x.loc = row /\ x.from = from
BY IdleType DEF Proc

LEMMA TakeFields ==
  ASSUME NEW pc, NEW r, NEW row, NEW kind, NEW t
  PROVE  LET x == [Idle EXCEPT !.op = "worker", !.pc = pc, !.req = r, !.loc = row,
                               !.from = rows[r].state, !.kind = kind, !.at = t, !.start = now]
         IN x.op = "worker" /\ x.pc = pc /\ x.req = r /\ x.loc = row /\ x.from = rows[r].state
BY IdleType DEF Proc

-----------------------------------------------------------------------------
(* Every action is safe *)

SafeStep == RowsAdvance /\ MarkerIffOpen' /\ Owned' /\ SafeProcs'

LEMMA SafeReturnStep ==
  ASSUME SafeInv, RowsAdvance /\ MarkerIffOpen' /\ Owned', NEW p \in Procs, Return(p)
  PROVE  SafeStep
BY SafeReturn DEF SafeStep, SafeInv

LEMMA OpenRequestSafe ==
  ASSUME SafeInv, NEW p \in Procs, NEW u \in Users, NEW sc \in Scopes, NEW r \in Reqs,
         OpenRequest(p, u, sc, r)
  PROVE  SafeStep
<1> DEFINE x == [Idle EXCEPT !.op = "request", !.pc = "create", !.req = r,
                             !.loc = NewRequest(u, sc, now), !.from = "none",
                             !.at = now, !.start = now]
<1>1. /\ procs' = [procs EXCEPT ![p] = x] /\ Unsaved
  BY DEF OpenRequest, Begin, Unsaved
<1>2. x.pc = "create" /\ x.loc = NewRequest(u, sc, now) /\ x.from = "none"
  BY BeginFields
<1> HIDE DEF x
<1>3. NewRequest(u, sc, now).user = u /\ NewRequest(u, sc, now).state = "awaiting_confirmation"
  BY DEF NewRequest, NoRequest
<1>4. Knows(x, rows')
  BY <1>2, <1>3 DEF Knows, NoCopy, Creating, Committed
<1>5. Plans(x)
  BY <1>2 DEF Plans
<1>6. RowsAdvance /\ MarkerIffOpen' /\ Owned'
  BY <1>1, UnsavedSafe
<1> QED BY <1>1, <1>4, <1>5, <1>6, SafeProcsStep DEF SafeStep, SafeInv

\* A process that is opening a request goes on opening it.
LEMMA SafeOpening ==
  ASSUME SafeInv, RowsAdvance, NEW p \in Procs, procs[p].pc \in Creating,
         NEW pc \in Creating, Goto(p, pc)
  PROVE  SafeProcs'
<1> DEFINE x == [procs[p] EXCEPT !.pc = pc]
<1>1. procs[p] \in Proc /\ Busy(procs[p]) /\ Knows(procs[p], rows)
  BY DEF SafeInv, TypeInv, TypeOK, SafeProcs
<1>2. /\ x.pc = pc /\ x.req = procs[p].req /\ x.loc = procs[p].loc /\ x.from = procs[p].from
      /\ procs' = [procs EXCEPT ![p] = x]
  BY <1>1 DEF Proc, Goto
<1> HIDE DEF x
<1>3. Knows(procs[p], rows')
  BY <1>1, KnowsStable
<1>4. Knows(x, rows')
  BY <1>2, <1>3 DEF Knows, NoCopy, Creating
<1>5. Plans(x)
  BY <1>2 DEF Plans, Creating
<1> QED BY <1>2, <1>4, <1>5, SafeProcsStep DEF SafeInv

LEMMA CreateSafe ==
  ASSUME SafeInv, NEW p \in Procs, Create(p)
  PROVE  SafeStep
<1>1. procs[p].pc \in {"create", "createAgain"} /\ procs[p].pc \in Creating /\ procs[p].pc # "idle"
  BY DEF Create, Creating
<1>2. CASE PutNew(p) /\ Goto(p, "confirmMail")
  <2> DEFINE x == [procs[p] EXCEPT !.pc = "confirmMail"]
  <2>1. /\ RowsAdvance /\ MarkerIffOpen' /\ Owned'
        /\ rows'[procs[p].req] = procs[p].loc
    BY <1>1, <1>2, PutNewSafe
  <2>2. procs[p] \in Proc /\ procs[p].req \in Reqs /\ Knows(procs[p], rows)
    BY <1>1, BusyFacts DEF SafeInv, TypeInv, TypeOK, SafeProcs
  <2>3. /\ x.pc = "confirmMail" /\ x.req = procs[p].req /\ x.loc = procs[p].loc
        /\ x.from = procs[p].from /\ procs' = [procs EXCEPT ![p] = x]
    BY <1>2, <2>2 DEF Proc, Goto
  <2> HIDE DEF x
  <2>4. procs[p].from \notin Committed
    <3>1. rows[procs[p].req].state = "none"
      BY <1>2 DEF PutNew, CreateAllowed, NoRequest
    <3> QED BY <1>1, <2>2, <3>1 DEF Knows, Committed
  <2>5. procs[p].loc.state = "awaiting_confirmation"
    BY <1>1, <2>2 DEF Knows
  <2>6. Knows(x, rows')
    BY <2>1, <2>3, <2>4, <2>5 DEF Knows, Creating
  <2>7. Plans(x)
    BY <2>3, <2>5 DEF Plans
  <2> QED BY <2>1, <2>3, <2>6, <2>7, SafeProcsStep DEF SafeStep, SafeInv
<1>3. CASE Unsaved /\ Goto(p, "expireOpen")
  <2>1. RowsAdvance /\ MarkerIffOpen' /\ Owned'
    BY <1>3, UnsavedSafe
  <2>2. "expireOpen" \in Creating
    BY DEF Creating
  <2> QED BY <1>1, <1>3, <2>1, <2>2, SafeOpening DEF SafeStep
<1>4. CASE (PutNew(p) \/ Unsaved) /\ Return(p)
  <2>1. RowsAdvance /\ MarkerIffOpen' /\ Owned'
    BY <1>1, <1>4, PutNewSafe, UnsavedSafe
  <2> QED BY <1>4, <2>1, SafeReturnStep
<1> QED BY <1>2, <1>3, <1>4 DEF Create

LEMMA ExpireUnconfirmedSafe ==
  ASSUME SafeInv, NEW p \in Procs, ExpireUnconfirmed(p)
  PROVE  SafeStep
<1>1. procs[p].pc = "expireOpen" /\ procs[p].pc \in Creating
  BY DEF ExpireUnconfirmed, Creating
<1> DEFINE u == procs[p].loc.user
<1>2. u \in Users
  BY SMTT(20), <1>1 DEF SafeInv, SafeProcs, Knows
<1>3. /\ \/ Unsaved
         \/ /\ marker[u] # Nil /\ rows[marker[u]].state = "awaiting_confirmation"
            /\ rows' = [rows EXCEPT ![marker[u]] = Expire(@)]
            /\ marker' = [marker EXCEPT ![u] = Nil]
      /\ Goto(p, "createAgain") \/ Return(p)
  BY DEF ExpireUnconfirmed
<1> HIDE DEF u
<1>4. RowsAdvance /\ MarkerIffOpen' /\ Owned'
  BY <1>2, <1>3, ExpireSafe, UnsavedSafe
<1>5. "createAgain" \in Creating
  BY DEF Creating
<1> QED BY <1>1, <1>3, <1>4, <1>5, SafeOpening, SafeReturnStep DEF SafeStep

LEMMA SendConfirmSafe ==
  ASSUME SafeInv, NEW p \in Procs, SendConfirm(p)
  PROVE  SafeStep
<1>1. procs[p].pc = "confirmMail" /\ procs[p].pc # "idle" /\ procs[p].pc \notin NoCopy
  BY DEF SendConfirm, NoCopy, Creating
<1>2. RowsAdvance /\ MarkerIffOpen' /\ Owned'
  BY UnsavedSafe DEF SendConfirm, Unsaved
<1>3. procs[p] \in Proc /\ procs[p].loc \in Request
  BY <1>1, BusyFacts DEF SafeInv, TypeInv, TypeOK
<1> DEFINE x == [procs[p] EXCEPT !.pc = "save", !.loc = Expire(@),
                                 !.from = "awaiting_confirmation"]
<1>4. Return(p) \/ procs' = [procs EXCEPT ![p] = x]
  BY DEF SendConfirm
<1>5. /\ x.pc = "save" /\ x.loc = Expire(procs[p].loc) /\ x.from = "awaiting_confirmation"
      /\ x.req = procs[p].req
  BY <1>3 DEF Proc
<1> HIDE DEF x
<1>6. x.loc.user = procs[p].loc.user /\ x.loc.state = "expired"
  BY <1>3, <1>5, CopyFields
<1>7. x.pc \notin NoCopy /\ x.from \notin Committed
  BY <1>5 DEF NoCopy, Creating, Committed
<1>8. Plans(x)
  BY <1>5, <1>6, StateNames DEF Plans, Lifecycle!Edges
<1>9. CASE procs' = [procs EXCEPT ![p] = x]
  BY <1>1, <1>2, <1>5, <1>6, <1>7, <1>8, <1>9, SafeMove DEF SafeStep
<1>10. CASE Return(p)
  BY <1>2, <1>10, SafeReturnStep
<1> QED BY <1>4, <1>9, <1>10

LEMMA ConfirmSafe ==
  ASSUME SafeInv, NEW p \in Procs, NEW r \in Reqs, Confirm(p, r)
  PROVE  SafeStep
<1> DEFINE x == [Idle EXCEPT !.op = "confirm", !.pc = "confirmSave", !.req = r,
                             !.loc = Confirmed(rows[r], now), !.from = "awaiting_confirmation",
                             !.at = now, !.start = now]
<1>1. /\ procs' = [procs EXCEPT ![p] = x] /\ Unsaved
      /\ rows[r].state = "awaiting_confirmation" /\ rows[r] \in Request
  BY DEF Confirm, Begin, Unsaved, SafeInv, TypeInv, TypeOK
<1>2. /\ x.pc = "confirmSave" /\ x.req = r /\ x.loc = Confirmed(rows[r], now)
      /\ x.from = "awaiting_confirmation"
  BY BeginFields
<1> HIDE DEF x
<1>3. x.loc.user = rows[r].user /\ x.loc.state = "pending_deletion"
  BY <1>1, <1>2, CopyFields
<1>4. Plans(x)
  BY <1>2, <1>3 DEF Plans
<1>5. RowsAdvance /\ MarkerIffOpen' /\ Owned'
  BY <1>1, UnsavedSafe
<1>6. x.pc \notin NoCopy
  BY <1>2 DEF NoCopy, Creating
<1> QED BY <1>1, <1>2, <1>3, <1>4, <1>5, <1>6, SafeBegin DEF SafeStep, Unsaved

\* What follows the lock.
LEMMA AfterLockSafe ==
  ASSUME SafeInv, RowsAdvance /\ MarkerIffOpen' /\ Owned', NEW p \in Procs,
         procs[p].pc \in {"mark", "publishLocked", "lockSave"}, AfterLock(p)
  PROVE  SafeStep
<1>1. procs[p].pc # "idle" /\ procs[p].pc \notin NoCopy
  BY DEF NoCopy, Creating
<1>2. procs[p] \in Proc /\ Plans(procs[p])
  BY DEF SafeInv, TypeInv, TypeOK, SafeProcs
<1>3. CASE procs[p].op = "confirm"
  <2> DEFINE x == [procs[p] EXCEPT !.pc = "link", !.kind = "scheduled"]
  <2>1. procs' = [procs EXCEPT ![p] = x]
    BY <1>3 DEF AfterLock
  <2>2. /\ x.pc = "link" /\ x.loc = procs[p].loc /\ x.from = procs[p].from
        /\ x.req = procs[p].req
    BY <1>2 DEF Proc
  <2> HIDE DEF x
  <2>3. x.loc.state = "pending_deletion"
    BY <1>2, <1>3, <2>2 DEF Plans
  <2>4. Plans(x) /\ x.pc \notin NoCopy
    BY <2>2, <2>3 DEF Plans, NoCopy, Creating
  <2> QED BY <1>1, <2>1, <2>2, <2>4, SafeMove DEF SafeStep
<1>4. CASE procs[p].op # "confirm"
  BY <1>4, SafeReturnStep DEF AfterLock
<1> QED BY <1>3, <1>4

\* A Save that succeeded sets the next step and expects the state it wrote.
LEMMA SafeExpect ==
  ASSUME SafeInv, RowsAdvance, NEW p \in Procs, procs[p].pc \notin NoCopy, NEW pc,
         NEW s, s \notin Committed, procs[p].loc.state = s,
         procs' = [procs EXCEPT ![p].pc = pc, ![p].from = s],
         \/ pc \in {"mark", "publishLocked"} /\ s = "pending_deletion"
         \/ pc \in {"clear", "publishUnlocked"} /\ s = "cancelled"
  PROVE  SafeProcs'
<1> DEFINE x == [procs[p] EXCEPT !.pc = pc, !.from = s]
<1>1. procs[p] \in Proc
  BY DEF SafeInv, TypeInv, TypeOK
<1>2. /\ x.pc = pc /\ x.req = procs[p].req /\ x.loc = procs[p].loc /\ x.from = s
      /\ procs' = [procs EXCEPT ![p] = x]
  BY <1>1 DEF Proc
<1> HIDE DEF x
<1>3. CASE pc \in {"mark", "publishLocked"} /\ s = "pending_deletion"
  <2>1. x.from = "pending_deletion" /\ x.loc.state = "pending_deletion"
    BY <1>2, <1>3
  <2>2. x.pc = "mark" \/ x.pc = "publishLocked"
    BY <1>2, <1>3
  <2>3. x.pc \notin NoCopy
    BY <2>2 DEF NoCopy, Creating
  <2>4. Plans(x)
    BY <2>1, <2>2 DEF Plans
  <2> QED BY <1>2, <2>3, <2>4, SafeMove
<1>4. CASE pc \in {"clear", "publishUnlocked"} /\ s = "cancelled"
  <2>1. x.from = "cancelled" /\ x.loc.state = "cancelled"
    BY <1>2, <1>4
  <2>2. Plans(x) /\ x.pc \notin NoCopy
    BY <1>2, <1>4, <2>1 DEF Plans, NoCopy, Creating
  <2> QED BY <1>2, <2>2, SafeMove
<1> QED BY <1>3, <1>4

LEMMA SaveConfirmedSafe ==
  ASSUME SafeInv, NEW p \in Procs, SaveConfirmed(p)
  PROVE  SafeStep
<1>1. /\ procs[p].pc = "confirmSave" /\ procs[p].pc \in SaveSteps
      /\ procs[p].pc \notin NoCopy
  BY DEF SaveConfirmed, SaveSteps, NoCopy, Creating
<1>2. Saved(p) \/ StateChanged(p) \/ SaveFailed(p)
  BY DEF SaveConfirmed
<1>3. RowsAdvance /\ MarkerIffOpen' /\ Owned'
  BY <1>1, <1>2, SaveSafe
<1>4. procs[p].loc.state = "pending_deletion"
  BY <1>1 DEF SafeInv, SafeProcs, Plans
<1>5. CASE Return(p)
  BY <1>3, <1>5, SafeReturnStep
<1>6. CASE procs' = [procs EXCEPT ![p].pc = LockStep(procs[p].loc), ![p].from = "pending_deletion"]
  <2>1. LockStep(procs[p].loc) \in {"mark", "publishLocked"} /\ "pending_deletion" \notin Committed
    BY DEF LockStep, Committed
  <2> QED BY <1>1, <1>3, <1>4, <1>6, <2>1, SafeExpect DEF SafeStep
<1> QED BY <1>5, <1>6 DEF SaveConfirmed

LEMMA MarkPendingDeletionSafe ==
  ASSUME SafeInv, NEW p \in Procs, MarkPendingDeletion(p)
  PROVE  SafeStep
<1>1. procs[p].pc = "mark" /\ procs[p].pc \notin NoCopy
  BY DEF MarkPendingDeletion, NoCopy, Creating
<1>2. RowsAdvance /\ MarkerIffOpen' /\ Owned'
  BY UnsavedSafe DEF MarkPendingDeletion, Unsaved
<1>3. CASE Goto(p, "publishLocked")
  <2> DEFINE x == [procs[p] EXCEPT !.pc = "publishLocked"]
  <2>1. procs[p] \in Proc /\ Plans(procs[p])
    BY DEF SafeInv, TypeInv, TypeOK, SafeProcs
  <2>2. /\ x.pc = "publishLocked" /\ x.loc = procs[p].loc /\ x.from = procs[p].from
        /\ x.op = procs[p].op
    BY <2>1 DEF Proc
  <2> HIDE DEF x
  <2>3. Plans(x)
    BY <1>1, <2>1, <2>2 DEF Plans
  <2>4. "publishLocked" \notin NoCopy
    BY DEF NoCopy, Creating
  <2> QED BY <1>1, <1>2, <1>3, <2>3, <2>4, SafeGoto DEF SafeStep, x
<1>4. CASE AfterLock(p)
  BY <1>1, <1>2, <1>4, AfterLockSafe
<1> QED BY <1>3, <1>4 DEF MarkPendingDeletion

LEMMA PublishLockedSafe ==
  ASSUME SafeInv, NEW p \in Procs, PublishLocked(p)
  PROVE  SafeStep
<1>1. procs[p].pc = "publishLocked" /\ procs[p].pc # "idle" /\ procs[p].pc \notin NoCopy
  BY DEF PublishLocked, NoCopy, Creating
<1>2. RowsAdvance /\ MarkerIffOpen' /\ Owned'
  BY UnsavedSafe DEF PublishLocked, Unsaved
<1>3. procs[p] \in Proc /\ Plans(procs[p]) /\ procs[p].loc \in Request
  BY <1>1, BusyFacts DEF SafeInv, TypeInv, TypeOK, SafeProcs
<1>4. CASE procs[p].from = "locked" /\ Goto(p, "erase")
  <2> DEFINE x == [procs[p] EXCEPT !.pc = "erase"]
  <2>1. x.pc = "erase" /\ x.loc = procs[p].loc /\ x.from = procs[p].from
    BY <1>3 DEF Proc
  <2> HIDE DEF x
  <2>2. Plans(x)
    BY <1>1, <1>3, <1>4, <2>1 DEF Plans
  <2>3. "erase" \notin NoCopy
    BY DEF NoCopy, Creating
  <2> QED BY <1>1, <1>2, <1>4, <2>2, <2>3, SafeGoto DEF SafeStep, x
<1>5. CASE procs[p].from # "locked" /\ Keep(p, "lockSave", LockRecorded(procs[p].loc, now))
  <2>1. procs[p].from = "pending_deletion" /\ procs[p].loc.state = "pending_deletion"
    BY <1>1, <1>3, <1>5 DEF Plans
  <2> DEFINE r == LockRecorded(procs[p].loc, now)
  <2>2. r.state = "pending_deletion" /\ r.user = procs[p].loc.user
    BY <1>3, <2>1, SentFields
  <2>3. "lockSave" \notin NoCopy /\ Keep(p, "lockSave", r)
    BY <1>5 DEF NoCopy, Creating
  <2> HIDE DEF r
  <2> QED BY <1>1, <1>2, <2>1, <2>2, <2>3, SafeKeep DEF SafeStep
<1>6. CASE AfterLock(p)
  BY <1>1, <1>2, <1>6, AfterLockSafe
<1> QED BY <1>4, <1>5, <1>6 DEF PublishLocked

LEMMA SaveLockSafe ==
  ASSUME SafeInv, NEW p \in Procs, SaveLock(p)
  PROVE  SafeStep
<1>1. /\ procs[p].pc = "lockSave" /\ procs[p].pc \in SaveSteps
      /\ procs[p].pc \notin NoCopy
  BY DEF SaveLock, SaveSteps, NoCopy, Creating
<1>2. Saved(p) \/ StateChanged(p) \/ SaveFailed(p)
  BY DEF SaveLock
<1>3. RowsAdvance /\ MarkerIffOpen' /\ Owned'
  BY <1>1, <1>2, SaveSafe
<1>4. CASE AfterLock(p)
  BY <1>1, <1>3, <1>4, AfterLockSafe
<1>5. CASE Goto(p, "recheck")
  <2> DEFINE x == [procs[p] EXCEPT !.pc = "recheck"]
  <2>1. x.pc = "recheck"
    BY DEF SafeInv, TypeInv, TypeOK, Proc
  <2> HIDE DEF x
  <2>2. Plans(x) /\ "recheck" \notin NoCopy
    BY <2>1 DEF Plans, NoCopy, Creating
  <2> QED BY <1>1, <1>3, <1>5, <2>2, SafeGoto DEF SafeStep, x
<1> QED BY <1>4, <1>5 DEF SaveLock

LEMMA RecheckSafe ==
  ASSUME SafeInv, NEW p \in Procs, Recheck(p)
  PROVE  SafeStep
<1>1. procs[p].pc = "recheck" /\ procs[p].pc # "idle" /\ procs[p].pc \notin NoCopy
  BY DEF Recheck, NoCopy, Creating
<1>2. RowsAdvance /\ MarkerIffOpen' /\ Owned' /\ UNCHANGED rows
  BY UnsavedSafe DEF Recheck, Unsaved
<1> DEFINE r == procs[p].req
           x == [procs[p] EXCEPT !.op = "undoLock", !.pc = UnlockStep(rows[r]),
                                 !.loc = rows[r], !.from = "cancelled"]
<1>3. procs[p] \in Proc /\ r \in Reqs
  BY <1>1, BusyFacts DEF SafeInv, TypeInv, TypeOK
<1>4. Return(p) \/ (rows[r].state = "cancelled" /\ procs' = [procs EXCEPT ![p] = x])
  BY DEF Recheck
<1>5. x.pc = UnlockStep(rows[r]) /\ x.loc = rows[r] /\ x.from = "cancelled" /\ x.req = r
  BY <1>3 DEF Proc
<1> HIDE DEF x, r
<1>6. ASSUME rows[r].state = "cancelled", procs' = [procs EXCEPT ![p] = x] PROVE SafeStep
  <2>1. x.pc \in {"clear", "publishUnlocked"}
    BY <1>5 DEF UnlockStep
  <2>2. Plans(x) /\ x.pc \notin NoCopy
    BY <1>5, <1>6, <2>1 DEF Plans, NoCopy, Creating
  <2> QED BY <1>2, <1>3, <1>5, <1>6, <2>2, SafeBegin DEF SafeStep
<1> QED BY <1>2, <1>4, <1>6, SafeReturnStep

LEMMA StoreLinkSafe ==
  ASSUME SafeInv, NEW p \in Procs, StoreLink(p)
  PROVE  SafeStep
<1>1. procs[p].pc = "link" /\ procs[p].pc # "idle" /\ procs[p].pc \notin NoCopy
  BY DEF StoreLink, NoCopy, Creating
<1>2. /\ procs[p] \in Proc /\ procs[p].req \in Reqs /\ procs[p].loc \in Request
      /\ Plans(procs[p]) /\ Knows(procs[p], rows)
  BY <1>1, BusyFacts DEF SafeInv, TypeInv, TypeOK, SafeProcs
<1> DEFINE k == linksMade[procs[p].req] + 1
           r == [procs[p].loc EXCEPT !.links = @ \cup {k}]
           x == [procs[p] EXCEPT !.pc = "linkMail", !.loc = r, !.link = k, !.from = r.state]
<1>3. /\ UNCHANGED marker
      /\ \/ UNCHANGED rows
         \/ /\ rows[procs[p].req].state = procs[p].loc.state
            /\ rows' = [rows EXCEPT ![procs[p].req] = r]
      /\ Return(p) \/ procs' = [procs EXCEPT ![p] = x]
  BY DEF StoreLink
<1>4. r.state = procs[p].loc.state /\ r.user = procs[p].loc.user
  BY <1>2 DEF Request
<1> HIDE DEF r, k
<1>5. x.pc = "linkMail" /\ x.loc = r /\ x.from = r.state /\ x.req = procs[p].req
  BY <1>2 DEF Proc
<1> HIDE DEF x
<1>6. RowsAdvance /\ MarkerIffOpen' /\ Owned'
  <2>1. procs[p].loc.user = rows[procs[p].req].user
    BY <1>1, <1>2 DEF Knows
  <2>2. CASE UNCHANGED rows
    BY <1>3, <2>2, UnsavedSafe DEF Unsaved
  <2>3. CASE /\ rows[procs[p].req].state = procs[p].loc.state
             /\ rows' = [rows EXCEPT ![procs[p].req] = r]
    BY <1>2, <1>3, <1>4, <2>1, <2>3, StoreSafe
  <2> QED BY <1>3, <2>2, <2>3
<1>7. CASE procs' = [procs EXCEPT ![p] = x]
  <2>1. procs[p].loc.state \in {"pending_deletion", "blocked"}
    BY <1>1, <1>2 DEF Plans
  <2>2. Plans(x) /\ x.pc \notin NoCopy /\ x.from \notin Committed
    BY <1>4, <1>5, <2>1 DEF Plans, NoCopy, Creating, Committed
  <2> QED BY <1>1, <1>4, <1>5, <1>6, <1>7, <2>2, SafeMove DEF SafeStep
<1>8. CASE Return(p)
  BY <1>6, <1>8, SafeReturnStep
<1> QED BY <1>3, <1>7, <1>8

LEMMA SendLinkSafe ==
  ASSUME SafeInv, NEW p \in Procs, SendLink(p)
  PROVE  SafeStep
<1>1. procs[p].pc = "linkMail" /\ procs[p].pc # "idle" /\ procs[p].pc \notin NoCopy
  BY DEF SendLink, NoCopy, Creating
<1>2. RowsAdvance /\ MarkerIffOpen' /\ Owned'
  BY UnsavedSafe DEF SendLink, Unsaved
<1>3. procs[p].loc \in Request /\ Plans(procs[p])
  BY <1>1, BusyFacts DEF SafeInv, SafeProcs
<1> DEFINE r == LinkSent(procs[p].loc, procs[p].kind, now)
<1>4. Return(p) \/ Keep(p, "save", r)
  BY DEF SendLink
<1>5. r.state = procs[p].loc.state /\ r.user = procs[p].loc.user
  BY <1>3, SentFields
<1> HIDE DEF r
<1>6. /\ "save" \notin NoCopy /\ procs[p].from = r.state /\ procs[p].from \in States
  BY <1>1, <1>3, <1>5, StateNames DEF Plans, NoCopy, Creating
<1>7. CASE Keep(p, "save", r)
  BY <1>1, <1>2, <1>5, <1>6, <1>7, SafeKeep DEF SafeStep
<1> QED BY <1>2, <1>4, <1>7, SafeReturnStep

LEMMA CancelRowSafe ==
  ASSUME SafeInv, NEW p \in Procs, NEW op, NEW r \in Reqs, CancelRow(p, op, r)
  PROVE  SafeStep
<1> DEFINE x == [Idle EXCEPT !.op = op, !.pc = "cancelSave", !.req = r,
                             !.loc = Cancelled(rows[r], now), !.from = rows[r].state,
                             !.at = now, !.start = now]
<1>1. /\ procs' = [procs EXCEPT ![p] = x] /\ Unsaved
      /\ rows[r].state \in {"pending_deletion", "blocked"} /\ rows[r] \in Request
  BY DEF CancelRow, Begin, Unsaved, SafeInv, TypeInv, TypeOK
<1>2. /\ x.pc = "cancelSave" /\ x.req = r /\ x.loc = Cancelled(rows[r], now)
      /\ x.from = rows[r].state
  BY BeginFields
<1> HIDE DEF x
<1>3. x.loc.user = rows[r].user /\ x.loc.state = "cancelled"
  BY <1>1, <1>2, CopyFields
<1>4. Plans(x)
  BY <1>1, <1>2, <1>3 DEF Plans
<1>5. RowsAdvance /\ MarkerIffOpen' /\ Owned'
  BY <1>1, UnsavedSafe
<1>6. x.pc \notin NoCopy /\ rows[r].state # "none"
  BY <1>1, <1>2 DEF NoCopy, Creating
<1> QED BY <1>1, <1>2, <1>3, <1>4, <1>5, <1>6, SafeBegin DEF SafeStep, Unsaved

LEMMA SaveCancelledSafe ==
  ASSUME SafeInv, NEW p \in Procs, SaveCancelled(p)
  PROVE  SafeStep
<1>1. /\ procs[p].pc = "cancelSave" /\ procs[p].pc \in SaveSteps
      /\ procs[p].pc \notin NoCopy
  BY DEF SaveCancelled, SaveSteps, NoCopy, Creating
<1>2. Saved(p) \/ StateChanged(p) \/ SaveFailed(p)
  BY DEF SaveCancelled
<1>3. RowsAdvance /\ MarkerIffOpen' /\ Owned'
  BY <1>1, <1>2, SaveSafe
<1>4. procs[p].loc.state = "cancelled"
  BY <1>1 DEF SafeInv, SafeProcs, Plans
<1>5. CASE Return(p)
  BY <1>3, <1>5, SafeReturnStep
<1>6. CASE procs' = [procs EXCEPT ![p].pc = UnlockStep(procs[p].loc), ![p].from = "cancelled"]
  <2>1. UnlockStep(procs[p].loc) \in {"clear", "publishUnlocked"} /\ "cancelled" \notin Committed
    BY DEF UnlockStep, Committed
  <2> QED BY <1>1, <1>3, <1>4, <1>6, <2>1, SafeExpect DEF SafeStep
<1> QED BY <1>5, <1>6 DEF SaveCancelled

\* A final Save that leaves the state as it is.
LEMMA SafeKeepState ==
  ASSUME SafeInv, RowsAdvance, NEW p \in Procs, procs[p].pc \notin NoCopy,
         procs[p].from \in States, NEW r, r.user = procs[p].loc.user,
         r.state = procs[p].from, Keep(p, "save", r)
  PROVE  SafeProcs'
<1>1. "save" \notin NoCopy
  BY DEF NoCopy, Creating
<1> QED BY <1>1, SafeKeep

LEMMA UnlockFailedSafe ==
  ASSUME SafeInv, RowsAdvance /\ MarkerIffOpen' /\ Owned', NEW p \in Procs,
         procs[p].pc \in {"clear", "publishUnlocked"}, UnlockFailed(p)
  PROVE  SafeStep
<1>1. procs[p].pc # "idle" /\ procs[p].pc \notin NoCopy
  BY DEF NoCopy, Creating
<1>2. procs[p].loc \in Request /\ Plans(procs[p])
  BY <1>1, BusyFacts DEF SafeInv, SafeProcs
<1> DEFINE r == SetDue(procs[p].loc, now)
<1>3. Return(p) \/ Keep(p, "save", r)
  BY DEF UnlockFailed
<1>4. r.state = procs[p].loc.state /\ r.user = procs[p].loc.user
  BY <1>2, CopyFields
<1> HIDE DEF r
<1>5. procs[p].from = r.state /\ procs[p].from \in States
  BY <1>2, <1>4, StateNames DEF Plans
<1> QED BY <1>1, <1>3, <1>4, <1>5, SafeKeepState, SafeReturnStep DEF SafeStep

LEMMA ClearPendingDeletionSafe ==
  ASSUME SafeInv, NEW p \in Procs, ClearPendingDeletion(p)
  PROVE  SafeStep
<1>1. procs[p].pc = "clear" /\ procs[p].pc \notin NoCopy
  BY DEF ClearPendingDeletion, NoCopy, Creating
<1>2. RowsAdvance /\ MarkerIffOpen' /\ Owned'
  BY UnsavedSafe DEF ClearPendingDeletion, Unsaved
<1>3. CASE Goto(p, "publishUnlocked")
  <2> DEFINE x == [procs[p] EXCEPT !.pc = "publishUnlocked"]
  <2>1. procs[p] \in Proc /\ Plans(procs[p])
    BY DEF SafeInv, TypeInv, TypeOK, SafeProcs
  <2>2. x.pc = "publishUnlocked" /\ x.loc = procs[p].loc /\ x.from = procs[p].from
    BY <2>1 DEF Proc
  <2> HIDE DEF x
  <2>3. Plans(x) /\ "publishUnlocked" \notin NoCopy
    BY <1>1, <2>1, <2>2 DEF Plans, NoCopy, Creating
  <2> QED BY <1>1, <1>2, <1>3, <2>3, SafeGoto DEF SafeStep, x
<1>4. CASE UnlockFailed(p)
  BY <1>1, <1>2, <1>4, UnlockFailedSafe
<1> QED BY <1>3, <1>4 DEF ClearPendingDeletion

LEMMA PublishUnlockedSafe ==
  ASSUME SafeInv, NEW p \in Procs, PublishUnlocked(p)
  PROVE  SafeStep
<1>1. procs[p].pc = "publishUnlocked" /\ procs[p].pc # "idle" /\ procs[p].pc \notin NoCopy
  BY DEF PublishUnlocked, NoCopy, Creating
<1>2. RowsAdvance /\ MarkerIffOpen' /\ Owned'
  BY UnsavedSafe DEF PublishUnlocked, Unsaved
<1>3. procs[p].loc \in Request /\ Plans(procs[p])
  BY <1>1, BusyFacts DEF SafeInv, SafeProcs
<1> DEFINE r == ClearDue(procs[p].loc)
<1>4. Return(p) \/ Keep(p, "save", r) \/ UnlockFailed(p)
  BY DEF PublishUnlocked
<1>5. r.state = procs[p].loc.state /\ r.user = procs[p].loc.user
  BY <1>3, CopyFields
<1> HIDE DEF r
<1>6. procs[p].from = r.state /\ procs[p].from \in States
  BY <1>1, <1>3, <1>5, StateNames DEF Plans
<1>7. CASE Keep(p, "save", r)
  BY <1>1, <1>2, <1>5, <1>6, <1>7, SafeKeepState DEF SafeStep
<1>8. CASE UnlockFailed(p)
  BY <1>1, <1>2, <1>8, UnlockFailedSafe
<1> QED BY <1>2, <1>4, <1>7, <1>8, SafeReturnStep

\* The worker takes a request up at step pc with copy row.
LEMMA TakeSafe ==
  ASSUME SafeInv, Unsaved, NEW p \in Procs, NEW r \in Reqs, NEW t, NEW pc, NEW row, NEW kind,
         Take(p, r, t, pc, row, kind), rows[r].state # "none", row.user = rows[r].user,
         \/ /\ pc = "save"
            /\ rows[r].state = row.state \/ <<rows[r].state, row.state>> \in Lifecycle!Edges
         \/ /\ pc \in {"clear", "publishUnlocked"}
            /\ rows[r].state = "cancelled" /\ row.state = "cancelled"
         \/ pc = "link" /\ row.state \in {"pending_deletion", "blocked"}
         \/ /\ pc \in {"mark", "publishLocked"}
            /\ rows[r].state \in {"pending_deletion", "locked"} /\ row.state = rows[r].state
         \/ /\ pc \in {"purge", "reconcile"}
            /\ rows[r].state = "purging" /\ row.state = "purging"
  PROVE  SafeStep
<1> DEFINE x == [Idle EXCEPT !.op = "worker", !.pc = pc, !.req = r, !.loc = row,
                             !.from = rows[r].state, !.kind = kind, !.at = t, !.start = now]
<1>1. procs' = [procs EXCEPT ![p] = x]
  BY DEF Take
<1>2. x.op = "worker" /\ x.pc = pc /\ x.req = r /\ x.loc = row /\ x.from = rows[r].state
  BY TakeFields
<1> HIDE DEF x
<1>3. rows[r].state \in States
  BY DEF SafeInv, TypeInv, TypeOK, Request
<1>4. x.pc \notin NoCopy
  BY <1>2 DEF NoCopy, Creating
<1>5. Plans(x)
  <2>1. CASE pc = "save"
    BY <1>2, <1>3, <2>1 DEF Plans
  <2>2. CASE pc = "link"
    BY <1>2, <2>2 DEF Plans
  <2>3. CASE pc \in {"clear", "publishUnlocked"}
    BY <1>2, <2>3 DEF Plans
  <2>4. CASE pc \in {"mark", "publishLocked"}
    BY <1>2, <2>4 DEF Plans
  <2>5. CASE pc \in {"purge", "reconcile"}
    BY <1>2, <2>5 DEF Plans
  <2> QED BY <2>1, <2>2, <2>3, <2>4, <2>5
<1>6. RowsAdvance /\ MarkerIffOpen' /\ Owned'
  BY UnsavedSafe
<1> QED BY <1>1, <1>2, <1>4, <1>5, <1>6, SafeBegin DEF SafeStep, Unsaved

LEMMA EndGraceSafe ==
  ASSUME SafeInv, Unsaved, NEW p \in Procs, NEW r \in Reqs, NEW t,
         rows[r].state = "pending_deletion", EndGrace(p, r, t)
  PROVE  SafeStep
<1>1. rows[r] \in Request /\ rows[r].state # "none"
  BY DEF SafeInv, TypeInv, TypeOK
<1>2. CASE Take(p, r, t, "save", SetDue(rows[r], t + LegalHoldRecheck), Nil)
  <2> DEFINE row == SetDue(rows[r], t + LegalHoldRecheck)
  <2>1. row.state = rows[r].state /\ row.user = rows[r].user
    BY <1>1, CopyFields
  <2>2. Take(p, r, t, "save", row, Nil)
    BY <1>2
  <2> HIDE DEF row
  <2> QED BY <1>1, <2>1, <2>2, TakeSafe
<1>3. ASSUME NEW s \in {"blocked", "locked"},
             Take(p, r, t, "save", SetDue([rows[r] EXCEPT !.state = s], t), Nil)
      PROVE  SafeStep
  <2> DEFINE row == SetDue([rows[r] EXCEPT !.state = s], t)
  <2>1. s \in States /\ <<"pending_deletion", s>> \in Lifecycle!Edges
    BY DEF States, Lifecycle!Edges
  <2>2. row.state = s /\ row.user = rows[r].user
    BY <1>1, <2>1, MovedFields
  <2>3. Take(p, r, t, "save", row, Nil)
    BY <1>3
  <2> HIDE DEF row
  <2> QED BY <1>1, <2>1, <2>2, <2>3, TakeSafe
<1> QED BY <1>2, <1>3 DEF EndGrace

LEMMA ProcessDueSafe ==
  ASSUME SafeInv, NEW p \in Procs, NEW r \in Reqs, ProcessDue(p, r)
  PROVE  SafeStep
<1>1. rows[r] \in Request /\ Unsaved
  BY DEF SafeInv, TypeInv, TypeOK, ProcessDue, Unsaved
<1>2. PICK t : \/ rows[r].state = "awaiting_confirmation" /\ StepAwaiting(p, r, t)
               \/ rows[r].state = "cancelled" /\ StepCancelled(p, r, t)
               \/ rows[r].state = "pending_deletion" /\ StepPending(p, r, t)
               \/ rows[r].state = "blocked" /\ StepBlocked(p, r, t)
               \/ rows[r].state = "locked" /\ StepLocked(p, r, t)
               \/ rows[r].state = "purging" /\ StepPurging(p, r, t)
  BY DEF ProcessDue
<1>3. CASE rows[r].state = "awaiting_confirmation" /\ StepAwaiting(p, r, t)
  <2>1. Expire(rows[r]).state = "expired" /\ Expire(rows[r]).user = rows[r].user
    BY <1>1, CopyFields
  <2>2. Take(p, r, t, "save", Expire(rows[r]), Nil)
    BY <1>3 DEF StepAwaiting
  <2>3. <<"awaiting_confirmation", "expired">> \in Lifecycle!Edges
    BY DEF Lifecycle!Edges
  <2> QED BY <1>1, <1>3, <2>1, <2>2, <2>3, TakeSafe
<1>4. CASE rows[r].state = "cancelled" /\ StepCancelled(p, r, t)
  BY <1>1, <1>4, TakeSafe DEF StepCancelled, UnlockStep
<1>5. CASE rows[r].state = "blocked" /\ StepBlocked(p, r, t)
  BY <1>1, <1>5, TakeSafe DEF StepBlocked
<1>6. CASE rows[r].state = "locked" /\ StepLocked(p, r, t)
  BY <1>1, <1>6, TakeSafe DEF StepLocked, LockStep
<1>7. CASE rows[r].state = "pending_deletion" /\ StepPending(p, r, t)
  <2>1. \/ Take(p, r, t, LockStep(rows[r]), rows[r], Nil)
        \/ Take(p, r, t, "link", rows[r], "scheduled")
        \/ Take(p, r, t, "link", rows[r], "reminder")
        \/ EndGrace(p, r, t)
    BY <1>7 DEF StepPending
  <2>2. CASE Take(p, r, t, LockStep(rows[r]), rows[r], Nil)
    BY <1>1, <1>7, <2>2, TakeSafe DEF LockStep
  <2>3. CASE Take(p, r, t, "link", rows[r], "scheduled")
    BY <1>1, <1>7, <2>3, TakeSafe
  <2>4. CASE Take(p, r, t, "link", rows[r], "reminder")
    BY <1>1, <1>7, <2>4, TakeSafe
  <2>5. CASE EndGrace(p, r, t)
    BY <1>1, <1>7, <2>5, EndGraceSafe
  <2> QED BY <2>1, <2>2, <2>3, <2>4, <2>5
<1>8. CASE rows[r].state = "purging" /\ StepPurging(p, r, t)
  <2> DEFINE row == SetDue(rows[r], t + LegalHoldRecheck)
  <2>1. \/ Take(p, r, t, "save", row, Nil)
        \/ \E pc \in {"purge", "reconcile"} : Take(p, r, t, pc, rows[r], Nil)
    BY <1>8 DEF StepPurging
  <2>2. row.state = rows[r].state /\ row.user = rows[r].user
    BY <1>1, CopyFields
  <2> HIDE DEF row
  <2>3. CASE Take(p, r, t, "save", row, Nil)
    BY <1>1, <1>8, <2>2, <2>3, TakeSafe
  <2>4. ASSUME NEW pc \in {"purge", "reconcile"}, Take(p, r, t, pc, rows[r], Nil)
        PROVE  SafeStep
    BY <1>1, <1>8, <2>4, TakeSafe
  <2> QED BY <2>1, <2>3, <2>4
<1> QED BY <1>2, <1>3, <1>4, <1>5, <1>6, <1>7, <1>8

LEMMA FinalSaveSafe ==
  ASSUME SafeInv, NEW p \in Procs, Save(p)
  PROVE  SafeStep
<1>1. procs[p].pc \in SaveSteps
  BY DEF Save, SaveSteps
<1>2. (Saved(p) \/ StateChanged(p) \/ SaveFailed(p)) /\ Return(p)
  BY DEF Save
<1> QED BY <1>1, <1>2, SaveSafe, SafeReturnStep

LEMMA PublishEraseSafe ==
  ASSUME SafeInv, NEW p \in Procs, PublishErase(p) \/ Redispatch(p)
  PROVE  SafeStep
<1>1. RowsAdvance /\ MarkerIffOpen' /\ Owned'
  BY UnsavedSafe DEF PublishErase, Redispatch, Unsaved
<1>2. procs[p] \in Proc /\ Plans(procs[p])
  BY DEF SafeInv, TypeInv, TypeOK, SafeProcs
<1>3. CASE Return(p)
  BY <1>1, <1>3, SafeReturnStep
<1>4. ASSUME NEW pc, Goto(p, pc), \/ procs[p].pc = "erase" /\ pc = "putServices"
                                  \/ procs[p].pc = "redispatch" /\ pc = "bump"
      PROVE  SafeStep
  <2> DEFINE x == [procs[p] EXCEPT !.pc = pc]
  <2>1. x.pc = pc /\ x.loc = procs[p].loc /\ x.from = procs[p].from
    BY <1>2 DEF Proc
  <2> HIDE DEF x
  <2>2. Plans(x)
    BY <1>2, <1>4, <2>1 DEF Plans
  <2>3. pc \notin NoCopy /\ procs[p].pc \notin NoCopy
    BY <1>4 DEF NoCopy, Creating
  <2> QED BY <1>1, <1>4, <2>2, <2>3, SafeGoto DEF SafeStep, x
<1> QED BY <1>3, <1>4 DEF PublishErase, Redispatch

\* A final Save that moves the request along an edge of the lifecycle.
LEMMA SafeKeepMove ==
  ASSUME SafeInv, RowsAdvance, NEW p \in Procs, procs[p].pc \notin NoCopy, NEW s, NEW r,
         r.user = procs[p].loc.user, r.state = s,
         <<procs[p].from, s>> \in Lifecycle!Edges, Keep(p, "save", r)
  PROVE  SafeProcs'
<1>1. "save" \notin NoCopy /\ procs[p].from \in States
  BY EdgeFacts DEF NoCopy, Creating
<1> QED BY <1>1, SafeKeep

LEMMA PutServicesSafe ==
  ASSUME SafeInv, NEW p \in Procs, PutServices(p)
  PROVE  SafeStep
<1>1. procs[p].pc = "putServices" /\ procs[p].pc # "idle" /\ procs[p].pc \notin NoCopy
  BY DEF PutServices, NoCopy, Creating
<1>2. RowsAdvance /\ MarkerIffOpen' /\ Owned'
  BY UnsavedSafe DEF PutServices, Unsaved
<1>3. procs[p].loc \in Request /\ Plans(procs[p])
  BY <1>1, BusyFacts DEF SafeInv, SafeProcs
<1> DEFINE r == SetDue([procs[p].loc EXCEPT !.state = "purging"], procs[p].at)
<1>4. Return(p) \/ Keep(p, "save", r)
  BY DEF PutServices
<1>5. r.state = "purging" /\ r.user = procs[p].loc.user
  BY <1>3, StateNames, MovedFields
<1> HIDE DEF r
<1>6. <<procs[p].from, "purging">> \in Lifecycle!Edges
  BY <1>1, <1>3 DEF Plans, Lifecycle!Edges
<1>7. CASE Keep(p, "save", r)
  BY <1>1, <1>2, <1>5, <1>6, <1>7, SafeKeepMove DEF SafeStep
<1> QED BY <1>2, <1>4, <1>7, SafeReturnStep

\* The steps of reconcile and the purge: the copy is of a purging request.
LEMMA ReconcileSafe ==
  ASSUME SafeInv, NEW p \in Procs, Reconcile(p)
  PROVE  SafeStep
<1>1. procs[p].pc = "reconcile" /\ procs[p].pc # "idle" /\ procs[p].pc \notin NoCopy
  BY SMTT(20) DEF Reconcile, NoCopy, Creating
<1>2. RowsAdvance /\ MarkerIffOpen' /\ Owned'
  BY UnsavedSafe DEF Reconcile, Unsaved
<1>3. procs[p] \in Proc /\ procs[p].loc \in Request /\ Plans(procs[p])
  BY <1>1, BusyFacts DEF SafeInv, TypeInv, TypeOK, SafeProcs
<1>4. procs[p].from = "purging" /\ procs[p].loc.state = "purging"
  BY SMTT(20), <1>1, <1>3 DEF Plans
<1> DEFINE stalled == ClearDue([procs[p].loc EXCEPT !.state = "stalled"])
           sts == svcs[procs[p].req]
           later == SetDue(procs[p].loc, NextReconcile(sts, procs[p].at))
           x == [procs[p] EXCEPT !.pc = "redispatch", !.sts = sts,
                                 !.todo = Silent(sts, procs[p].at)]
<1>5. \/ Keep(p, "save", stalled) \/ Keep(p, "save", later)
      \/ Goto(p, "purge") \/ Return(p) \/ procs' = [procs EXCEPT ![p] = x]
  BY DEF Reconcile
<1>6. /\ stalled.state = "stalled" /\ stalled.user = procs[p].loc.user
      /\ later.state = "purging" /\ later.user = procs[p].loc.user
  BY <1>3, <1>4, StateNames, MovedFields, CopyFields
<1>7. /\ x.pc = "redispatch" /\ x.loc = procs[p].loc /\ x.from = procs[p].from
      /\ x.req = procs[p].req
  BY <1>3 DEF Proc
<1> HIDE DEF stalled, later, x
<1>8. CASE Keep(p, "save", stalled)
  <2>1. <<procs[p].from, "stalled">> \in Lifecycle!Edges
    BY <1>4 DEF Lifecycle!Edges
  <2> QED BY <1>1, <1>2, <1>6, <1>8, <2>1, SafeKeepMove DEF SafeStep
<1>9. CASE Keep(p, "save", later)
  BY <1>1, <1>2, <1>4, <1>6, <1>9, StateNames, SafeKeepState DEF SafeStep
<1>10. CASE Goto(p, "purge")
  <2> DEFINE y == [procs[p] EXCEPT !.pc = "purge"]
  <2>1. y.pc = "purge" /\ y.loc = procs[p].loc /\ y.from = procs[p].from
    BY <1>3 DEF Proc
  <2> HIDE DEF y
  <2>2. Plans(y) /\ "purge" \notin NoCopy
    BY <1>4, <2>1 DEF Plans, NoCopy, Creating
  <2> QED BY <1>1, <1>2, <1>10, <2>2, SafeGoto DEF SafeStep, y
<1>11. CASE procs' = [procs EXCEPT ![p] = x]
  <2>1. Plans(x) /\ x.pc \notin NoCopy
    BY <1>4, <1>7 DEF Plans, NoCopy, Creating
  <2> QED BY <1>1, <1>2, <1>7, <1>11, <2>1, SafeMove DEF SafeStep
<1>12. CASE Return(p)
  BY <1>2, <1>12, SafeReturnStep
<1> QED BY SMTT(20), <1>5, <1>8, <1>9, <1>10, <1>11, <1>12

LEMMA BumpServiceSafe ==
  ASSUME SafeInv, NEW p \in Procs, BumpService(p)
  PROVE  SafeStep
<1>1. procs[p].pc = "bump" /\ procs[p].pc # "idle" /\ procs[p].pc \notin NoCopy
  BY DEF BumpService, NoCopy, Creating
<1>2. RowsAdvance /\ MarkerIffOpen' /\ Owned'
  BY UnsavedSafe DEF BumpService, Unsaved
<1>3. procs[p] \in Proc /\ procs[p].loc \in Request /\ Plans(procs[p])
  BY <1>1, BusyFacts DEF SafeInv, TypeInv, TypeOK, SafeProcs
<1>4. procs[p].from = "purging" /\ procs[p].loc.state = "purging"
  BY <1>1, <1>3 DEF Plans
<1> DEFINE later == SetDue(procs[p].loc, NextReconcile(procs[p].sts, procs[p].at))
<1>5. \/ Keep(p, "save", later) \/ Return(p)
      \/ \E s \in procs[p].todo : procs' = [procs EXCEPT ![p].todo = @ \ {s}]
  BY DEF BumpService
<1>6. later.state = "purging" /\ later.user = procs[p].loc.user
  BY <1>3, <1>4, CopyFields
<1> HIDE DEF later
<1>7. CASE Keep(p, "save", later)
  BY <1>1, <1>2, <1>4, <1>6, <1>7, StateNames, SafeKeepState DEF SafeStep
<1>8. ASSUME NEW s, procs' = [procs EXCEPT ![p].todo = @ \ {s}] PROVE SafeStep
  <2> DEFINE x == [procs[p] EXCEPT !.todo = @ \ {s}]
  <2>1. /\ x.pc = "bump" /\ x.loc = procs[p].loc /\ x.from = procs[p].from
        /\ x.req = procs[p].req /\ procs' = [procs EXCEPT ![p] = x]
    BY <1>1, <1>3, <1>8 DEF Proc
  <2> HIDE DEF x
  <2>2. Plans(x) /\ x.pc \notin NoCopy
    BY <1>4, <2>1 DEF Plans, NoCopy, Creating
  <2> QED BY <1>1, <1>2, <2>1, <2>2, SafeMove DEF SafeStep
<1> QED BY <1>2, <1>5, <1>7, <1>8, SafeReturnStep

LEMMA PurgeSafe ==
  ASSUME SafeInv, NEW p \in Procs, Purge(p)
  PROVE  SafeStep
<1>1. procs[p].pc = "purge" /\ procs[p].pc # "idle" /\ procs[p].pc \notin NoCopy
  BY SMTT(20) DEF Purge, NoCopy, Creating
<1>2. RowsAdvance /\ MarkerIffOpen' /\ Owned'
  BY UnsavedSafe DEF Purge, Unsaved
<1>3. procs[p].loc \in Request /\ Plans(procs[p])
  BY SMTT(20), <1>1, BusyFacts DEF SafeInv, SafeProcs
<1> DEFINE r == ClearDue([procs[p].loc EXCEPT !.state = "purged"])
<1>4. Return(p) \/ Keep(p, "save", r)
  BY DEF Purge
<1>5. r.state = "purged" /\ r.user = procs[p].loc.user
  BY SMTT(20), <1>3, StateNames, MovedFields
<1> HIDE DEF r
<1>6. <<procs[p].from, "purged">> \in Lifecycle!Edges
  BY <1>1, <1>3 DEF Plans, Lifecycle!Edges
<1>7. CASE Keep(p, "save", r)
  BY <1>1, <1>2, <1>5, <1>6, <1>7, SafeKeepMove DEF SafeStep
<1> QED BY SMTT(20), <1>2, <1>4, <1>7, SafeReturnStep

LEMMA AckSafe ==
  ASSUME SafeInv, NEW p \in Procs,
         \/ \E r \in Reqs, s \in Services, res \in {"acked", "blocked"} : Ack(p, r, s, res)
         \/ SaveAck(p) \/ AckGet(p)
  PROVE  SafeStep
<1>1. RowsAdvance /\ MarkerIffOpen' /\ Owned' /\ UNCHANGED rows
  BY UnsavedSafe DEF Ack, SaveAck, AckGet, Unsaved
<1>2. ASSUME NEW r \in Reqs, NEW s \in Services, NEW res, Ack(p, r, s, res) PROVE SafeStep
  <2> DEFINE x == [Idle EXCEPT !.op = "ack", !.pc = "ackSave", !.req = r, !.todo = {s},
                               !.start = now, !.sts = [svcs[r] EXCEPT ![s].status = res]]
  <2>1. procs' = [procs EXCEPT ![p] = x]
    BY <1>2 DEF Ack
  <2>2. x.pc = "ackSave" /\ x.from = Idle.from
    BY IdleType DEF Proc
  <2>3. Idle.from = "none"
    BY DEF Idle
  <2> HIDE DEF x
  <2>4. Knows(x, rows') /\ Plans(x)
    BY <2>2, <2>3 DEF Knows, Plans, NoCopy, Creating, Committed
  <2> QED BY <1>1, <2>1, <2>4, SafeProcsStep DEF SafeStep, SafeInv
<1>3. ASSUME SaveAck(p) PROVE SafeStep
  <2> DEFINE x == [procs[p] EXCEPT !.pc = "ackGet"]
  <2>1. Return(p) \/ procs' = [procs EXCEPT ![p] = x]
    BY <1>3 DEF SaveAck, Goto
  <2>2. procs[p] \in Proc /\ Knows(procs[p], rows) /\ procs[p].pc = "ackSave"
    BY <1>3 DEF SaveAck, SafeInv, TypeInv, TypeOK, SafeProcs
  <2>3. x.pc = "ackGet" /\ x.from = procs[p].from /\ x.req = procs[p].req
    BY <2>2 DEF Proc
  <2> HIDE DEF x
  <2>4. Knows(x, rows') /\ Plans(x)
    BY <1>1, <2>2, <2>3 DEF Knows, Plans, NoCopy, Creating
  <2>5. CASE procs' = [procs EXCEPT ![p] = x]
    BY <1>1, <2>4, <2>5, SafeProcsStep DEF SafeStep, SafeInv
  <2> QED BY <1>1, <2>1, <2>5, SafeReturnStep
<1>4. ASSUME AckGet(p) PROVE SafeStep
  <2> DEFINE r == procs[p].req
             x == [procs[p] EXCEPT !.pc = "save", !.loc = SetDue(rows[r], now),
                                   !.from = "purging"]
  <2>1. Return(p) \/ (rows[r].state = "purging" /\ procs' = [procs EXCEPT ![p] = x])
    BY <1>4 DEF AckGet
  <2>2. procs[p].pc # "idle"
    BY <1>4 DEF AckGet
  <2>3. procs[p] \in Proc /\ r \in Reqs /\ rows[r] \in Request
    BY <2>2, BusyFacts DEF SafeInv, TypeInv, TypeOK
  <2>4. x.pc = "save" /\ x.loc = SetDue(rows[r], now) /\ x.from = "purging" /\ x.req = r
    BY <2>3 DEF Proc
  <2>5. x.loc.state = rows[r].state /\ x.loc.user = rows[r].user
    BY <2>3, <2>4, CopyFields
  <2> HIDE DEF x, r
  <2>6. ASSUME rows[r].state = "purging", procs' = [procs EXCEPT ![p] = x] PROVE SafeStep
    <3>1. Plans(x) /\ x.pc \notin NoCopy
      BY <2>4, <2>5, <2>6, StateNames DEF Plans, NoCopy, Creating
    <3> QED BY <1>1, <2>3, <2>4, <2>5, <2>6, <3>1, SafeBegin DEF SafeStep
  <2> QED BY <1>1, <2>1, <2>6, SafeReturnStep
<1> QED BY <1>2, <1>3, <1>4

LEMMA SetLegalHoldSafe ==
  ASSUME SafeInv, NEW p \in Procs, NEW r \in Reqs, NEW a, NEW on, SetLegalHold(p, r, a, on)
  PROVE  SafeStep
<1> DEFINE h == IF on THEN a ELSE Nil
           held == [rows[r] EXCEPT !.hold = h]
<1>1. RowsAdvance /\ MarkerIffOpen' /\ Owned' /\ UNCHANGED rows
  BY UnsavedSafe DEF SetLegalHold, Unsaved
<1>2. rows[r] \in Request /\ rows[r].state # "none" /\ rows[r].state \in States
  BY DEF SetLegalHold, SafeInv, TypeInv, TypeOK, Request
<1>3. PICK row \in {held, SetDue(held, now)} : Begin(p, "hold", "save", r, row, rows[r].state)
  BY DEF SetLegalHold
<1>4. held.state = rows[r].state /\ held.user = rows[r].user
  BY <1>2 DEF Request
<1>5. SetDue(held, now).state = rows[r].state /\ SetDue(held, now).user = rows[r].user
  BY <1>2 DEF Request, SetDue
<1>6. row.state = rows[r].state /\ row.user = rows[r].user
  BY <1>3, <1>4, <1>5
<1> DEFINE x == [Idle EXCEPT !.op = "hold", !.pc = "save", !.req = r, !.loc = row,
                             !.from = rows[r].state, !.at = now, !.start = now]
<1>7. procs' = [procs EXCEPT ![p] = x]
  BY <1>3 DEF Begin
<1>8. x.pc = "save" /\ x.req = r /\ x.loc = row /\ x.from = rows[r].state
  BY BeginFields
<1> HIDE DEF x
<1>9. Plans(x) /\ x.pc \notin NoCopy
  BY <1>2, <1>6, <1>8 DEF Plans, NoCopy, Creating
<1> QED BY <1>1, <1>2, <1>6, <1>7, <1>8, <1>9, SafeBegin DEF SafeStep

LEMMA RedriveResumeSafe ==
  ASSUME SafeInv, RowsAdvance /\ MarkerIffOpen' /\ Owned', NEW p \in Procs,
         procs[p].pc \in {"redriveList", "redriveSave"}, RedriveResume(p)
  PROVE  SafeStep
<1>1. procs[p].pc # "idle" /\ procs[p].pc \notin NoCopy
  BY DEF NoCopy, Creating
<1>2. procs[p].loc \in Request
  BY <1>1, BusyFacts DEF SafeInv
<1> DEFINE r == SetDue([procs[p].loc EXCEPT !.state = "purging"], now)
<1>3. Return(p) \/ (procs[p].from = "stalled" /\ Keep(p, "save", r))
  BY DEF RedriveResume
<1>4. r.state = "purging" /\ r.user = procs[p].loc.user
  BY <1>2, StateNames, MovedFields
<1> HIDE DEF r
<1>5. ASSUME procs[p].from = "stalled", Keep(p, "save", r) PROVE SafeStep
  <2>1. <<procs[p].from, "purging">> \in Lifecycle!Edges
    BY <1>5 DEF Lifecycle!Edges
  <2> QED BY <1>1, <1>4, <1>5, <2>1, SafeKeepMove DEF SafeStep
<1> QED BY <1>3, <1>5, SafeReturnStep

LEMMA RedriveSafe ==
  ASSUME SafeInv, NEW p \in Procs,
         \/ \E r \in Reqs, s \in Services : Redrive(p, r, s)
         \/ RedriveList(p) \/ RedriveSave(p)
  PROVE  SafeStep
<1>1. RowsAdvance /\ MarkerIffOpen' /\ Owned' /\ UNCHANGED rows
  BY UnsavedSafe DEF Redrive, RedriveList, RedriveSave, Unsaved
<1>2. ASSUME NEW r \in Reqs, NEW s \in Services, Redrive(p, r, s) PROVE SafeStep
  <2> DEFINE x == [Idle EXCEPT !.op = "redrive", !.pc = "redriveList", !.req = r,
                               !.loc = rows[r], !.from = rows[r].state, !.todo = {s},
                               !.start = now]
  <2>1. procs' = [procs EXCEPT ![p] = x] /\ rows[r].state # "none"
    BY <1>2 DEF Redrive
  <2>2. rows[r].state \in States
    BY <2>1 DEF SafeInv, TypeInv, TypeOK, Request
  <2>3. x.pc = "redriveList" /\ x.req = r /\ x.loc = rows[r] /\ x.from = rows[r].state
    BY IdleType DEF Proc
  <2> HIDE DEF x
  <2>4. Plans(x) /\ x.pc \notin NoCopy
    BY <2>2, <2>3 DEF Plans, NoCopy, Creating
  <2> QED BY <1>1, <2>1, <2>3, <2>4, SafeBegin DEF SafeStep
<1>3. ASSUME RedriveList(p) PROVE SafeStep
  <2>1. procs[p].pc = "redriveList" /\ procs[p].pc \notin NoCopy
    BY <1>3 DEF RedriveList, NoCopy, Creating
  <2>2. Goto(p, "redriveSave") \/ RedriveResume(p) \/ Return(p)
    BY <1>3 DEF RedriveList
  <2>3. CASE Goto(p, "redriveSave")
    <3> DEFINE x == [procs[p] EXCEPT !.pc = "redriveSave"]
    <3>1. procs[p] \in Proc /\ Plans(procs[p])
      BY DEF SafeInv, TypeInv, TypeOK, SafeProcs
    <3>2. x.pc = "redriveSave" /\ x.loc = procs[p].loc /\ x.from = procs[p].from
      BY <3>1 DEF Proc
    <3> HIDE DEF x
    <3>3. Plans(x) /\ "redriveSave" \notin NoCopy
      BY <2>1, <3>1, <3>2 DEF Plans, NoCopy, Creating
    <3> QED BY <1>1, <2>1, <2>3, <3>3, SafeGoto DEF SafeStep, x
  <2>4. CASE RedriveResume(p)
    BY <1>1, <2>1, <2>4, RedriveResumeSafe
  <2> QED BY <1>1, <2>2, <2>3, <2>4, SafeReturnStep
<1>4. ASSUME RedriveSave(p) PROVE SafeStep
  <2>1. procs[p].pc = "redriveSave" /\ (RedriveResume(p) \/ Return(p))
    BY <1>4 DEF RedriveSave
  <2> QED BY <1>1, <2>1, RedriveResumeSafe, SafeReturnStep
<1> QED BY SMTT(20), <1>2, <1>3, <1>4

-----------------------------------------------------------------------------
(* The marker *)

LEMMA SafeInit == Init => SafeInv
<1> SUFFICES ASSUME Init PROVE SafeInv
  OBVIOUS
<1>1. TypeInv
  BY TypeInit
<1>2. \A r \in Reqs : rows[r].state = "none"
  BY DEF Init, NoRequest
<1>3. ~Open("none") /\ Nil \notin Reqs
  BY SetsAssumption DEF Open, States
<1>4. MarkerIffOpen /\ Owned
  BY <1>2, <1>3 DEF Init, MarkerIffOpen, Owned
<1>5. SafeProcs
  BY IdleSafe DEF Init, SafeProcs
<1> QED BY <1>1, <1>4, <1>5 DEF SafeInv

\* Every step of the component is safe.
LEMMA NextSafe ==
  ASSUME SafeInv, [Next]_vars
  PROVE  SafeStep
<1>1. CASE UNCHANGED vars \/ Tick
  <2>1. UNCHANGED <<rows, marker, procs>>
    BY <1>1 DEF vars, Tick
  <2>2. RowsAdvance /\ MarkerIffOpen' /\ Owned'
    BY <2>1, UnsavedSafe DEF Unsaved
  <2>3. SafeProcs'
    BY <2>1 DEF SafeInv, SafeProcs, Knows, Plans
  <2> QED BY <2>2, <2>3 DEF SafeStep
<1>2. ASSUME NEW p \in Procs, Crash(p) PROVE SafeStep
  <2>1. RowsAdvance /\ MarkerIffOpen' /\ Owned'
    BY <1>2, UnsavedSafe DEF Crash, Unsaved
  <2> QED BY <1>2, <2>1, SafeReturnStep DEF Crash
<1>3. ASSUME NEW p \in Procs, Start(p) PROVE SafeStep
  BY <1>3, OpenRequestSafe, ConfirmSafe, CancelRowSafe, ProcessDueSafe, AckSafe,
     SetLegalHoldSafe, RedriveSafe DEF Start, Cancel, SupportCancel
<1>4. ASSUME NEW p \in Procs, Continue(p) PROVE SafeStep
  BY <1>4, CreateSafe, ExpireUnconfirmedSafe, SendConfirmSafe, SaveConfirmedSafe,
     MarkPendingDeletionSafe, PublishLockedSafe, SaveLockSafe, RecheckSafe, StoreLinkSafe,
     SendLinkSafe, SaveCancelledSafe, ClearPendingDeletionSafe, PublishUnlockedSafe,
     PublishEraseSafe, PutServicesSafe, ReconcileSafe, BumpServiceSafe, PurgeSafe, AckSafe,
     RedriveSafe, FinalSaveSafe DEF Continue
<1> QED BY <1>1, <1>2, <1>3, <1>4 DEF Next

LEMMA SafeNext == SafeInv /\ [Next]_vars => SafeInv'
BY NextSafe, TypeStep DEF SafeInv, SafeStep

\* The open-request marker of a user names the one open request of that user,
\* under every interleaving of Create, expireUnconfirmed, Save and a crash, for any
\* number of people, requests, processes and failures.
THEOREM MarkerCorrect == Spec => []MarkerIffOpen
<1>1. SafeInv => MarkerIffOpen
  BY DEF SafeInv
<1> QED BY <1>1, SafeInit, SafeNext, PTL DEF Spec

-----------------------------------------------------------------------------
(* The refinement *)

IsOrdered(r) == \E s \in Services : <<"erase", r, s>> \in msgs

\* Nothing the lifecycle shows changes.
LEMMA Stutters ==
  ASSUME \A r \in Reqs : rows'[r].state = rows[r].state /\ rows'[r].user = rows[r].user,
         \A r \in Reqs : IsOrdered(r)' <=> IsOrdered(r)
  PROVE  UNCHANGED Lifecycle!lvars
<1>1. [r \in Reqs |-> rows'[r].state] = [r \in Reqs |-> rows[r].state]
  OBVIOUS
<1>2. [r \in Reqs |-> rows'[r].user] = [r \in Reqs |-> rows[r].user]
  OBVIOUS
<1>3. {r \in Reqs : \E s \in Services : <<"erase", r, s>> \in msgs'}
        = {r \in Reqs : \E s \in Services : <<"erase", r, s>> \in msgs}
  BY DEF IsOrdered
<1> QED BY <1>1, <1>2, <1>3 DEF Lifecycle!lvars

\* One request moves along an edge.
LEMMA MovesOne ==
  ASSUME NEW r \in Reqs, NEW s, <<rows[r].state, s>> \in Lifecycle!Edges,
         rows'[r].state = s, rows'[r].user = rows[r].user,
         \A q \in Reqs : q # r => rows'[q] = rows[q], UNCHANGED msgs
  PROVE  Lifecycle!LNext
<1>1. [q \in Reqs |-> rows'[q].state] = [[q \in Reqs |-> rows[q].state] EXCEPT ![r] = s]
  OBVIOUS
<1>2. [q \in Reqs |-> rows'[q].user] = [q \in Reqs |-> rows[q].user]
  OBVIOUS
<1>3. Lifecycle!LMove(r, s)
  BY <1>1, <1>2 DEF Lifecycle!LMove
<1>4. <<rows[r].state, s>>[2] = s
  OBVIOUS
<1> QED BY <1>3, <1>4 DEF Lifecycle!LNext

LEMMA OpensOne ==
  ASSUME NEW r \in Reqs, NEW u \in Users, Lifecycle!LOpen(r, u)
  PROVE  Lifecycle!LNext
BY DEF Lifecycle!LNext

LEMMA OrdersOne ==
  ASSUME NEW r \in Reqs, Lifecycle!LOrder(r)
  PROVE  Lifecycle!LNext
BY DEF Lifecycle!LNext

\* Save either stutters or moves its request.
LEMMA PutLife ==
  ASSUME SafeInv, NEW p \in Procs, procs[p].pc \in SaveSteps, Put(p), UNCHANGED msgs
  PROVE  [Lifecycle!LNext]_(Lifecycle!lvars)
<1> DEFINE r == procs[p].req
           c == procs[p].loc
<1>1. procs[p].pc # "idle" /\ procs[p].pc \notin NoCopy
  BY DEF SaveSteps, NoCopy, Creating
<1>2. r \in Reqs /\ rows \in [Reqs -> Request]
  BY <1>1, BusyFacts DEF SafeInv, TypeInv, TypeOK
<1>3. c.user = rows[r].user
  BY <1>1 DEF SafeInv, SafeProcs, Knows
<1>4. rows[r].state = procs[p].from /\ rows' = [rows EXCEPT ![r] = c]
  BY DEF Put, SaveAllowed
<1>5. rows[r].state = c.state \/ <<rows[r].state, c.state>> \in Lifecycle!Edges
  BY <1>4, SaveMove
<1> HIDE DEF r, c
<1>6. rows'[r] = c /\ \A q \in Reqs : q # r => rows'[q] = rows[q]
  BY <1>2, <1>4
<1>7. CASE rows[r].state = c.state
  <2>1. \A q \in Reqs : rows'[q].state = rows[q].state /\ rows'[q].user = rows[q].user
    BY <1>3, <1>6, <1>7
  <2>2. \A q \in Reqs : IsOrdered(q)' <=> IsOrdered(q)
    BY DEF IsOrdered
  <2> QED BY <2>1, <2>2, Stutters
<1>8. CASE <<rows[r].state, c.state>> \in Lifecycle!Edges
  BY <1>2, <1>3, <1>6, <1>8, MovesOne
<1> QED BY <1>5, <1>7, <1>8

\* Create opens a request for a person who has none open.
LEMMA PutNewLife ==
  ASSUME SafeInv, NEW p \in Procs, procs[p].pc \in Creating, PutNew(p), UNCHANGED msgs
  PROVE  Lifecycle!LNext
<1> DEFINE r == procs[p].req
           c == procs[p].loc
<1>1. procs[p].pc # "idle"
  BY DEF Creating
<1>2. r \in Reqs /\ rows \in [Reqs -> Request]
  BY <1>1, BusyFacts DEF SafeInv, TypeInv, TypeOK
<1>3. c.user \in Users /\ c.state = "awaiting_confirmation"
  BY DEF SafeInv, SafeProcs, Knows
<1>4. marker[c.user] = Nil /\ rows[r].state = "none" /\ rows' = [rows EXCEPT ![r] = c]
  BY DEF PutNew, CreateAllowed, NoRequest
<1> HIDE DEF r, c
<1>5. rows'[r] = c /\ \A q \in Reqs : q # r => rows'[q] = rows[q]
  BY <1>2, <1>4
<1>6. ASSUME NEW q \in Reqs, rows[q].user = c.user
      PROVE  rows[q].state \in Lifecycle!Closed
  <2>1. marker[c.user] # q
    BY <1>4, SetsAssumption
  <2>2. ~Open(rows[q].state)
    BY <1>3, <1>6, <2>1 DEF SafeInv, MarkerIffOpen
  <2>3. rows[q].state \in States \cup {"none"}
    BY <1>2 DEF Request
  <2> QED BY <2>2, <2>3 DEF Open, Lifecycle!Closed
<1>7. [q \in Reqs |-> rows'[q].state]
        = [[q \in Reqs |-> rows[q].state] EXCEPT ![r] = "awaiting_confirmation"]
  BY <1>3, <1>5
<1>8. [q \in Reqs |-> rows'[q].user] = [[q \in Reqs |-> rows[q].user] EXCEPT ![r] = c.user]
  BY <1>5
<1>9. PICK i \in Reqs, u \in Users : i = r /\ u = c.user
  BY <1>2, <1>3
<1>10. Lifecycle!LOpen(i, u)
  BY <1>2, <1>4, <1>6, <1>7, <1>8, <1>9 DEF Lifecycle!LOpen
<1> QED BY <1>10, OpensOne

\* expireUnconfirmed moves a request to expired.
LEMMA ExpireLife ==
  ASSUME SafeInv, NEW o \in Reqs, rows[o].state = "awaiting_confirmation",
         rows' = [rows EXCEPT ![o] = Expire(@)], UNCHANGED msgs
  PROVE  Lifecycle!LNext
<1>1. rows \in [Reqs -> Request] /\ rows[o] \in Request
  BY DEF SafeInv, TypeInv, TypeOK
<1>2. rows'[o] = Expire(rows[o]) /\ \A q \in Reqs : q # o => rows'[q] = rows[q]
  BY <1>1
<1>3. rows'[o].state = "expired" /\ rows'[o].user = rows[o].user
  BY <1>1, <1>2, CopyFields
<1>4. <<rows[o].state, "expired">> \in Lifecycle!Edges
  BY DEF Lifecycle!Edges
<1> QED BY <1>2, <1>3, <1>4, MovesOne

\* A step that writes no row and publishes no erase order is invisible.
LEMMA Invisible ==
  ASSUME UNCHANGED <<rows, msgs>>
  PROVE  UNCHANGED Lifecycle!lvars
<1>1. \A r \in Reqs : IsOrdered(r)' <=> IsOrdered(r)
  BY DEF IsOrdered
<1> QED BY <1>1, Stutters

LEMMA PublishInvisible ==
  ASSUME UNCHANGED rows, NEW p, NEW type \in {"locked", "unlocked"}, NEW names,
         Publish(p, type, names)
  PROVE  UNCHANGED Lifecycle!lvars
<1>1. \A r \in Reqs : IsOrdered(r)' <=> IsOrdered(r)
  BY DEF IsOrdered, Publish
<1> QED BY <1>1, Stutters

\* An erase order goes out for a request past cancelling.
LEMMA OrderLife ==
  ASSUME SafeInv, NEW p \in Procs, procs[p].pc \in {"erase", "redispatch"}, UNCHANGED rows,
         NEW names \in SUBSET Services, Publish(p, "erase", names)
  PROVE  [Lifecycle!LNext]_(Lifecycle!lvars)
<1> DEFINE r == procs[p].req
           N == names \cap ParticipantsFor(procs[p].loc)
<1>1. procs[p].pc # "idle"
  OBVIOUS
<1>2. r \in Reqs
  BY <1>1, BusyFacts DEF SafeInv
<1>3. rows[r].state \in Committed
  BY <1>1 DEF SafeInv, SafeProcs, Knows, Plans, Committed
<1>4. \A q \in Reqs : IsOrdered(q)' <=> IsOrdered(q) \/ (q = r /\ N # {})
  BY DEF IsOrdered, Publish
<1> HIDE DEF r, N
<1>5. CASE N = {}
  BY <1>4, <1>5, Stutters
<1>6. CASE N # {}
  <2>1. {q \in Reqs : \E s \in Services : <<"erase", q, s>> \in msgs'}
          = {q \in Reqs : \E s \in Services : <<"erase", q, s>> \in msgs} \cup {r}
    BY <1>2, <1>4, <1>6 DEF IsOrdered
  <2>2. PICK i \in Reqs : i = r
    BY <1>2
  <2>3. Lifecycle!LOrder(i)
    BY <1>3, <2>1, <2>2 DEF Lifecycle!LOrder, Committed
  <2> QED BY <2>3, OrdersOne
<1> QED BY <1>5, <1>6

\* The steps that write a row or publish.
LEMMA VisibleLife ==
  ASSUME SafeInv, NEW p \in Procs,
         \/ Create(p) \/ ExpireUnconfirmed(p) \/ SaveConfirmed(p) \/ PublishLocked(p)
         \/ SaveLock(p) \/ StoreLink(p) \/ SaveCancelled(p) \/ PublishUnlocked(p)
         \/ PublishErase(p) \/ Redispatch(p) \/ Save(p)
  PROVE  [Lifecycle!LNext]_(Lifecycle!lvars)
<1>1. CASE Create(p)
  <2>1. /\ procs[p].pc \in Creating /\ UNCHANGED msgs
        /\ PutNew(p) \/ UNCHANGED rows
    BY <1>1 DEF Create, Creating, Unsaved
  <2> QED BY <2>1, PutNewLife, Invisible
<1>2. CASE ExpireUnconfirmed(p)
  <2> DEFINE o == marker[procs[p].loc.user]
  <2>1. UNCHANGED msgs
    BY ZenonT(30), <1>2 DEF ExpireUnconfirmed
  <2>2. \/ UNCHANGED rows
        \/ /\ o # Nil /\ rows[o].state = "awaiting_confirmation"
           /\ rows' = [rows EXCEPT ![o] = Expire(@)]
    BY ZenonT(30), <1>2 DEF ExpireUnconfirmed, Unsaved
  <2>3. procs[p].loc.user \in Users
    BY <1>2 DEF ExpireUnconfirmed, Creating, SafeInv, SafeProcs, Knows
  <2>4. o # Nil => o \in Reqs
    BY <2>3 DEF SafeInv, TypeInv, TypeOK
  <2> HIDE DEF o
  <2> QED BY SMTT(20), <2>1, <2>2, <2>4, ExpireLife, Invisible
<1>3. CASE SaveConfirmed(p) \/ SaveLock(p) \/ SaveCancelled(p) \/ Save(p)
  <2>1. procs[p].pc \in SaveSteps /\ UNCHANGED msgs
    BY <1>3 DEF SaveConfirmed, SaveLock, SaveCancelled, Save, SaveSteps
  <2>2. Saved(p) \/ StateChanged(p) \/ SaveFailed(p)
    BY <1>3 DEF SaveConfirmed, SaveLock, SaveCancelled, Save
  <2>3. Put(p) \/ UNCHANGED rows
    BY <2>2 DEF Saved, StateChanged, SaveFailed, Unsaved
  <2> QED BY <2>1, <2>3, PutLife, Invisible
<1>4. CASE StoreLink(p)
  <2> DEFINE c == [procs[p].loc EXCEPT !.links = @ \cup {linksMade[procs[p].req] + 1}]
  <2>1. procs[p].pc # "idle" /\ procs[p].pc \notin NoCopy /\ UNCHANGED msgs
    BY SMTT(20), <1>4 DEF StoreLink, NoCopy, Creating
  <2>2. \/ UNCHANGED rows
        \/ /\ rows[procs[p].req].state = procs[p].loc.state
           /\ rows' = [rows EXCEPT ![procs[p].req] = c]
    BY <1>4 DEF StoreLink
  <2>3. /\ procs[p].req \in Reqs /\ procs[p].loc \in Request /\ rows \in [Reqs -> Request]
        /\ procs[p].loc.user = rows[procs[p].req].user
    BY <2>1, BusyFacts DEF SafeInv, TypeInv, TypeOK, SafeProcs, Knows
  <2>4. c.state = procs[p].loc.state /\ c.user = procs[p].loc.user
    BY <2>3 DEF Request
  <2> HIDE DEF c
  <2>5. \A q \in Reqs : rows'[q].state = rows[q].state /\ rows'[q].user = rows[q].user
    BY <2>2, <2>3, <2>4
  <2>6. \A q \in Reqs : IsOrdered(q)' <=> IsOrdered(q)
    BY <2>1 DEF IsOrdered
  <2> QED BY SMTT(20), <2>5, <2>6, Stutters
<1>5. CASE PublishLocked(p) \/ PublishUnlocked(p)
  <2>1. UNCHANGED rows
    BY <1>5 DEF PublishLocked, PublishUnlocked
  <2>2. \/ UNCHANGED msgs
        \/ \E type \in {"locked", "unlocked"} : Publish(p, type, Services)
    BY <1>5 DEF PublishLocked, PublishUnlocked
  <2> QED BY <2>1, <2>2, Invisible, PublishInvisible
<1>6. CASE PublishErase(p) \/ Redispatch(p)
  <2>1. UNCHANGED rows /\ procs[p].pc \in {"erase", "redispatch"} /\ procs[p].pc # "idle"
    BY <1>6 DEF PublishErase, Redispatch
  <2>2. procs[p].todo \subseteq Services
    BY <2>1, BusyFacts DEF SafeInv
  <2>3. \/ UNCHANGED msgs
        \/ \E names \in SUBSET Services : Publish(p, "erase", names)
    BY <1>6, <2>2 DEF PublishErase, Redispatch
  <2> QED BY <2>1, <2>3, Invisible, OrderLife
<1> QED BY <1>1, <1>2, <1>3, <1>4, <1>5, <1>6

LEMMA LifeStep == SafeInv /\ [Next]_vars => [Lifecycle!LNext]_(Lifecycle!lvars)
<1> SUFFICES ASSUME SafeInv, [Next]_vars PROVE [Lifecycle!LNext]_(Lifecycle!lvars)
  OBVIOUS
<1>1. CASE UNCHANGED vars \/ Tick
  BY <1>1, Invisible DEF vars, Tick
<1>2. ASSUME NEW p \in Procs, Crash(p) PROVE UNCHANGED Lifecycle!lvars
  BY <1>2, Invisible DEF Crash
<1>3. ASSUME NEW p \in Procs, Start(p) PROVE UNCHANGED Lifecycle!lvars
  <2>1. UNCHANGED <<rows, msgs>>
    BY ZenonT(30), <1>3 DEF Start, OpenRequest, Confirm, Cancel, SupportCancel, CancelRow, ProcessDue,
                Ack, SetLegalHold, Redrive
  <2> QED BY <2>1, Invisible
<1>4. ASSUME NEW p \in Procs, Continue(p) PROVE [Lifecycle!LNext]_(Lifecycle!lvars)
  <2>1. ASSUME \/ SendConfirm(p) \/ MarkPendingDeletion(p) \/ Recheck(p) \/ SendLink(p)
               \/ ClearPendingDeletion(p) \/ PutServices(p) \/ Reconcile(p) \/ BumpService(p)
               \/ Purge(p) \/ SaveAck(p) \/ AckGet(p) \/ RedriveList(p) \/ RedriveSave(p)
        PROVE  UNCHANGED Lifecycle!lvars
    <3>1. UNCHANGED <<rows, msgs>>
      BY <2>1 DEF SendConfirm, MarkPendingDeletion, Recheck, SendLink, ClearPendingDeletion,
                  PutServices, Reconcile, BumpService, Purge, SaveAck, AckGet, RedriveList,
                  RedriveSave
    <3> QED BY <3>1, Invisible
  <2> QED BY <1>4, <2>1, VisibleLife DEF Continue
<1> QED BY <1>1, <1>2, <1>3, <1>4 DEF Next

LEMMA LifeInit == Init => Lifecycle!LInit
<1> SUFFICES ASSUME Init PROVE Lifecycle!LInit
  OBVIOUS
<1>1. [r \in Reqs |-> rows[r].state] = [r \in Reqs |-> "none"]
  BY DEF Init, NoRequest
<1>2. [r \in Reqs |-> rows[r].user] = [r \in Reqs |-> Nil]
  BY DEF Init, NoRequest
<1>3. {r \in Reqs : \E s \in Services : <<"erase", r, s>> \in msgs} = {}
  BY DEF Init
<1> QED BY <1>1, <1>2, <1>3 DEF Lifecycle!LInit

\* The component implements its lifecycle: for every number of people, requests,
\* participants, workers and handlers, every stale copy, failed call and crash, a
\* request only makes the lifecycle's moves, a person has one open request at a
\* time, and erase orders go out only for requests past cancelling.
THEOREM LifecycleCorrect == Spec => ImplementsLifecycle
BY LifeInit, LifeStep, SafeInit, SafeNext, PTL
   DEF Spec, ImplementsLifecycle, Lifecycle!LSpec
=============================================================================
