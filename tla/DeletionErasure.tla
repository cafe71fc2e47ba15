--------------------------- MODULE DeletionErasure ---------------------------
(***************************************************************************)
(* Nothing is erased too early, nothing erased comes back, nothing owed is *)
(* forgotten, the block of an erase stays and that of a cancelled request  *)
(* goes, for every value of the constants.                                 *)
(*                                                                         *)
(* A Save puts a whole copy back, so what is to hold of the stored rows    *)
(* has to hold of every copy a process may still write.  Sound says it of  *)
(* one row or copy; it refers to the rest of the state only through facts  *)
(* that can never become false again: links that reached the mailbox,      *)
(* participants that were asked or have acked, and time that has passed.   *)
(***************************************************************************)
EXTENDS DeletionSafety

\* The states of a request whose participants have been asked to erase.
Erasing == {"purging", "stalled", "purged"}

\* The worker still has something to do for the request.
Owes(row) ==
  \/ row.state \in {"awaiting_confirmation", "pending_deletion", "locked", "purging"}
  \/ row.state = "blocked" /\ ~row.blockedNotified

\* What row, stored or copied, says of a request whose links in the mailbox are
\* mailed and whose SVC rows are sts, at time t.
SoundTimes(row, t) ==
  /\ row.state \in Committed => row.graceUntil <= t
  /\ row.state \in {"pending_deletion", "blocked"} => row.graceUntil >= GracePeriod
  /\ Owes(row) => row.due # NotDue

SoundLinks(row, mailed) ==
  /\ row.scheduledSent => mailed \cap row.links # {}
  /\ row.state \in Committed \cup {"blocked"} => row.scheduledSent

SoundAcks(row, sts) ==
  /\ row.state \in Erasing => \A s \in ParticipantsFor(row) : sts[s].status # "none"
  /\ row.state = "purged" => \A s \in ParticipantsFor(row) : sts[s].status = "acked"

Sound(row, mailed, sts, t) == SoundTimes(row, t) /\ SoundLinks(row, mailed) /\ SoundAcks(row, sts)

\* What process x has in hand, when R, L and S are the stored rows, the links
\* mailed and the SVC rows.
Holds(x, R, L, S, t) ==
  x.pc # "idle" =>
    /\ Sound(x.loc, L[x.req], S[x.req], t)
    /\ x.from \in Erasing => R[x.req].state \in Erasing
    /\ x.pc = "linkMail" => x.link \in x.loc.links
    /\ x.pc = "purge" => \A s \in ParticipantsFor(x.loc) : S[x.req][s].status = "acked"
    /\ x.pc = "ackSave" => \A s \in x.todo : x.sts[s].status # "none"

SoundRows == \A r \in Reqs : Sound(rows[r], linksMailed[r], svcs[r], now)
SoundProcs == \A p \in Procs : Holds(procs[p], rows, linksMailed, svcs, now)

Orders == \A m \in msgs : m[1] = "erase" => rows[m[2]].state \in Committed

Tombstones ==
  \A u \in Users : users[u].del = "purged" =>
    /\ users[u].req \in Reqs /\ rows[users[u].req].state \in Erasing
    /\ \A s \in Services : svcs[users[u].req][s].status = "acked"

\* The inductive invariant.
EraseInv == SafeInv /\ SoundRows /\ SoundProcs /\ Orders /\ Tombstones

-----------------------------------------------------------------------------
(* What can never become false again *)

\* No link leaves the mailbox, no SVC row goes, no ack is overwritten.
AcksFinal ==
  \A r \in Reqs, s \in Services : svcs[r][s].status = "acked" => svcs'[r][s] = svcs[r][s]

Grows ==
  /\ \A r \in Reqs : linksMailed[r] \subseteq linksMailed'[r]
  /\ \A r \in Reqs, s \in Services : svcs[r][s].status # "none" => svcs'[r][s].status # "none"
  /\ AcksFinal
  /\ now \in Nat /\ now' \in Nat /\ now <= now'

LEMMA Stable ==
  ASSUME EraseInv, UNCHANGED <<linksMailed, svcs, now>>
  PROVE  Grows
BY DEF Grows, AcksFinal, EraseInv, SafeInv, TypeInv, TypeOK

LEMMA Participants ==
  ASSUME NEW row \in Request
  PROVE  ParticipantsFor(row) \subseteq Services
BY DEF ParticipantsFor, Request, Scopes

LEMMA SoundStable ==
  ASSUME NEW row \in Request, NEW r \in Reqs, Grows, Sound(row, linksMailed[r], svcs[r], now)
  PROVE  Sound(row, linksMailed'[r], svcs'[r], now')
<1>1. row.graceUntil \in Nat
  BY DEF Request
<1>2. SoundTimes(row, now')
  BY <1>1 DEF Grows, Sound, SoundTimes
<1>3. SoundLinks(row, linksMailed'[r])
  BY DEF Grows, Sound, SoundLinks
<1>4. SoundAcks(row, svcs'[r])
  BY Participants DEF Grows, AcksFinal, Sound, SoundAcks
<1> QED BY <1>2, <1>3, <1>4 DEF Sound

\* An erase that has begun goes on.
LEMMA ErasingStable ==
  ASSUME RowsAdvance, NEW r \in Reqs, rows[r].state \in Erasing
  PROVE  rows'[r].state \in Erasing
BY DEF RowsAdvance, Advances, Lifecycle!Edges, Erasing

LEMMA CommittedStable ==
  ASSUME RowsAdvance, NEW r \in Reqs, rows[r].state \in Committed
  PROVE  rows'[r].state \in Committed
BY DEF RowsAdvance, Advances, Lifecycle!Edges, Committed

LEMMA HoldsStable ==
  ASSUME NEW x \in Proc, Busy(x), Grows, RowsAdvance, Holds(x, rows, linksMailed, svcs, now)
  PROVE  Holds(x, rows', linksMailed', svcs', now')
<1> SUFFICES ASSUME x.pc # "idle" PROVE Holds(x, rows', linksMailed', svcs', now')
  BY DEF Holds
<1>1. x.req \in Reqs /\ x.loc \in Request
  BY DEF Busy, Proc
<1>2. Sound(x.loc, linksMailed'[x.req], svcs'[x.req], now')
  BY <1>1, SoundStable DEF Holds
<1>3. x.from \in Erasing => rows'[x.req].state \in Erasing
  BY <1>1, ErasingStable DEF Holds
<1>4. x.pc = "purge" => \A s \in ParticipantsFor(x.loc) : svcs'[x.req][s].status = "acked"
  BY <1>1, Participants DEF Holds, Grows, AcksFinal
<1> QED BY <1>2, <1>3, <1>4 DEF Holds

-----------------------------------------------------------------------------
(* One step *)

EraseStep == SoundRows' /\ SoundProcs' /\ Orders' /\ Tombstones'

\* Process p goes on as x.
LEMMA ProcsHold ==
  ASSUME EraseInv, RowsAdvance, Grows, NEW p \in Procs, NEW x, procs' = [procs EXCEPT ![p] = x],
         Holds(x, rows', linksMailed', svcs', now')
  PROVE  SoundProcs'
<1>1. procs \in [Procs -> Proc] /\ \A q \in Procs : Busy(procs[q])
  BY DEF EraseInv, SafeInv, TypeInv, TypeOK
<1>2. ASSUME NEW q \in Procs PROVE Holds(procs'[q], rows', linksMailed', svcs', now')
  <2>1. CASE q = p
    BY <1>1, <2>1
  <2>2. CASE q # p
    <3>1. procs'[q] = procs[q]
      BY <1>1, <2>2
    <3>2. Holds(procs[q], rows, linksMailed, svcs, now) /\ Busy(procs[q]) /\ procs[q] \in Proc
      BY <1>1 DEF EraseInv, SoundProcs
    <3> QED BY <3>1, <3>2, HoldsStable
  <2> QED BY <2>1, <2>2
<1> QED BY <1>2 DEF SoundProcs, Holds, Sound, SoundTimes, SoundLinks, SoundAcks

LEMMA IdleHolds == \A R, L, S, t : Holds(Idle, R, L, S, t)
<1>1. Idle.pc = "idle"
  BY DEF Idle
<1> QED BY <1>1 DEF Holds

LEMMA ReturnHolds ==
  ASSUME EraseInv, RowsAdvance, Grows, NEW p \in Procs, Return(p)
  PROVE  SoundProcs'
BY IdleHolds, ProcsHold DEF Return

\* The rows are what they were, or a sound copy.
LEMMA RowsSound ==
  ASSUME EraseInv, Grows,
         \A r \in Reqs : rows'[r] = rows[r]
                         \/ (rows'[r] \in Request /\ Sound(rows'[r], linksMailed[r], svcs[r], now))
  PROVE  SoundRows'
<1>1. ASSUME NEW r \in Reqs PROVE Sound(rows'[r], linksMailed'[r], svcs'[r], now')
  <2>1. rows'[r] \in Request /\ Sound(rows'[r], linksMailed[r], svcs[r], now)
    BY DEF EraseInv, SoundRows, SafeInv, TypeInv, TypeOK
  <2> QED BY <2>1, SoundStable
<1> QED BY <1>1 DEF SoundRows, Sound, SoundTimes, SoundLinks, SoundAcks

\* No new erase order.
LEMMA OrdersKept ==
  ASSUME EraseInv, RowsAdvance, \A m \in msgs' : m[1] = "erase" => m \in msgs
  PROVE  Orders'
<1> SUFFICES ASSUME NEW m \in msgs', m[1] = "erase" PROVE rows'[m[2]].state \in Committed
  BY DEF Orders
<1>1. m \in msgs /\ rows[m[2]].state \in Committed
  BY DEF EraseInv, Orders
<1>2. m[2] \in Reqs
  BY <1>1 DEF EraseInv, SafeInv, TypeInv, TypeOK
<1> QED BY <1>1, <1>2, CommittedStable

\* No new tombstone.
LEMMA TombstonesKept ==
  ASSUME EraseInv, RowsAdvance, Grows,
         \A u \in Users : users'[u].del = "purged" => users[u].del = "purged" /\ users'[u].req = users[u].req
  PROVE  Tombstones'
<1> SUFFICES ASSUME NEW u \in Users, users'[u].del = "purged"
             PROVE  /\ users'[u].req \in Reqs /\ rows'[users'[u].req].state \in Erasing
                    /\ \A s \in Services : svcs'[users'[u].req][s].status = "acked"
  BY DEF Tombstones
<1>1. PICK r \in Reqs : /\ r = users[u].req /\ r = users'[u].req /\ rows[r].state \in Erasing
                        /\ \A s \in Services : svcs[r][s].status = "acked"
  BY DEF EraseInv, Tombstones
<1>2. rows'[r].state \in Erasing
  BY <1>1, ErasingStable
<1>3. \A s \in Services : svcs'[r][s].status = "acked"
  BY <1>1 DEF Grows, AcksFinal
<1> QED BY <1>1, <1>2, <1>3

\* A step that changes the rows, the SVC rows, the mailbox, the erase orders and
\* the tombstones not at all.
LEMMA Quiet ==
  ASSUME EraseInv, RowsAdvance, UNCHANGED <<rows, svcs, linksMailed, now, users>>,
         \A m \in msgs' : m[1] = "erase" => m \in msgs,
         NEW p \in Procs, NEW x, procs' = [procs EXCEPT ![p] = x], Holds(x, rows, linksMailed, svcs, now)
  PROVE  EraseStep
<1>1. Grows
  BY Stable
<1>2. Holds(x, rows', linksMailed', svcs', now')
  OBVIOUS
<1>3. SoundProcs'
  BY <1>1, <1>2, ProcsHold
<1>4. SoundRows' /\ Orders' /\ Tombstones'
  BY <1>1, RowsSound, OrdersKept, TombstonesKept
<1> QED BY <1>3, <1>4 DEF EraseStep

-----------------------------------------------------------------------------
(* The functions on a copy keep it sound *)

\* b has the scope, the links and the flag of a.
Like(b, a) == b.scope = a.scope /\ b.links = a.links /\ b.scheduledSent = a.scheduledSent

\* The fields each function sets.
LEMMA DueFields ==
  ASSUME NEW a \in Request, NEW d
  PROVE  /\ Like(SetDue(a, d), a) /\ SetDue(a, d).state = a.state /\ SetDue(a, d).graceUntil = a.graceUntil
         /\ SetDue(a, d).due = d /\ SetDue(a, d).blockedNotified = a.blockedNotified
BY DEF SetDue, Request, Like

\* A sound copy made due.
LEMMA SoundDue ==
  ASSUME NEW a \in Request, NEW mailed, NEW sts, NEW t, NEW d \in Nat, Sound(a, mailed, sts, t)
  PROVE  Sound(SetDue(a, d), mailed, sts, t)
<1>1. PICK b : b = SetDue(a, d)
  OBVIOUS
<1>2. Like(b, a) /\ b.state = a.state /\ b.graceUntil = a.graceUntil /\ b.due = d
  BY <1>1, DueFields
<1>3. d # NotDue
  BY DEF NotDue
<1>4. SoundTimes(b, t)
  BY <1>2, <1>3 DEF Sound, SoundTimes
<1>5. SoundLinks(b, mailed) /\ SoundAcks(b, sts)
  BY <1>2 DEF Sound, SoundLinks, SoundAcks, Like, ParticipantsFor
<1> QED BY <1>1, <1>4, <1>5 DEF Sound

\* A sound copy that owes nothing leaves the due index.
LEMMA SoundClear ==
  ASSUME NEW a \in Request, NEW mailed, NEW sts, NEW t, Sound(a, mailed, sts, t), ~Owes(a)
  PROVE  Sound(ClearDue(a), mailed, sts, t)
<1>1. PICK b : b = ClearDue(a)
  OBVIOUS
<1>2. /\ Like(b, a) /\ b.state = a.state /\ b.graceUntil = a.graceUntil
      /\ b.blockedNotified = a.blockedNotified
  BY <1>1 DEF ClearDue, Request, Like
<1>3. SoundTimes(b, t)
  BY <1>2 DEF Sound, SoundTimes, Owes
<1>4. SoundLinks(b, mailed) /\ SoundAcks(b, sts)
  BY <1>2 DEF Sound, SoundLinks, SoundAcks, Like, ParticipantsFor
<1> QED BY <1>1, <1>3, <1>4 DEF Sound

\* A copy moved to state s, where what s asks for is there.
LEMMA SoundMoved ==
  ASSUME NEW a \in Request, NEW mailed, NEW sts, NEW t, NEW d, NEW s, Sound(a, mailed, sts, t), d # NotDue,
         s \in Committed => a.graceUntil <= t,
         s \in Committed \cup {"blocked"} => a.scheduledSent,
         s \in {"pending_deletion", "blocked"} => a.graceUntil >= GracePeriod,
         s \in Erasing => \A n \in ParticipantsFor(a) : sts[n].status # "none",
         s = "purged" => \A n \in ParticipantsFor(a) : sts[n].status = "acked"
  PROVE  Sound([a EXCEPT !.state = s, !.due = d], mailed, sts, t)
<1>1. PICK b : b = [a EXCEPT !.state = s, !.due = d]
  OBVIOUS
<1>2. Like(b, a) /\ b.state = s /\ b.graceUntil = a.graceUntil /\ b.due = d
  BY <1>1 DEF Request, Like
<1>3. SoundTimes(b, t)
  BY <1>2 DEF SoundTimes
<1>4. SoundLinks(b, mailed) /\ SoundAcks(b, sts)
  BY <1>2 DEF Sound, SoundLinks, SoundAcks, Like, ParticipantsFor
<1> QED BY <1>1, <1>3, <1>4 DEF Sound

\* A copy moved to a state in which the worker has nothing to do.
LEMMA SoundEnded ==
  ASSUME NEW a \in Request, NEW mailed, NEW sts, NEW t, NEW d, NEW s \in {"expired", "cancelled", "stalled", "purged"},
         Sound(a, mailed, sts, t),
         s \in {"stalled", "purged"} => a.state = "purging",
         s = "purged" => \A n \in ParticipantsFor(a) : sts[n].status = "acked"
  PROVE  Sound([a EXCEPT !.state = s, !.due = d], mailed, sts, t)
<1>1. PICK b : b = [a EXCEPT !.state = s, !.due = d]
  OBVIOUS
<1>2. Like(b, a) /\ b.state = s /\ b.graceUntil = a.graceUntil /\ b.due = d
  BY <1>1 DEF Request, Like
<1>3. SoundTimes(b, t)
  BY <1>2 DEF Sound, SoundTimes, Owes, Committed
<1>4. SoundLinks(b, mailed) /\ SoundAcks(b, sts)
  BY <1>2 DEF Sound, SoundLinks, SoundAcks, Like, ParticipantsFor, Erasing, Committed
<1> QED BY <1>1, <1>3, <1>4 DEF Sound

LEMMA SoundFresh ==
  ASSUME NEW mailed, NEW sts, NEW t
  PROVE  /\ Sound(NoRequest, mailed, sts, t)
         /\ \A u \in Users, sc \in Scopes, d \in Nat : Sound(NewRequest(u, sc, d), mailed, sts, t)
<1>1. ASSUME NEW b, b.state \in {"none", "awaiting_confirmation"}, ~b.scheduledSent,
             b.state = "awaiting_confirmation" => b.due # NotDue
      PROVE  Sound(b, mailed, sts, t)
  BY <1>1 DEF Sound, SoundTimes, SoundLinks, SoundAcks, Owes, Committed, Erasing
<1>2. Sound(NoRequest, mailed, sts, t)
  BY <1>1 DEF NoRequest
<1>3. ASSUME NEW u \in Users, NEW sc \in Scopes, NEW d \in Nat
      PROVE  Sound(NewRequest(u, sc, d), mailed, sts, t)
  <2>1. PICK b : b = NewRequest(u, sc, d)
    OBVIOUS
  <2>2. b.state = "awaiting_confirmation" /\ b.scheduledSent = FALSE /\ b.due = d + ConfirmWindow
    BY <2>1 DEF NewRequest, NoRequest
  <2>3. d + ConfirmWindow # NotDue
    BY TimesAssumption DEF NotDue
  <2> QED BY <1>1, <2>1, <2>2, <2>3
<1> QED BY <1>2, <1>3

LEMMA SoundConfirmed ==
  ASSUME NEW a \in Request, NEW mailed, NEW sts, NEW t, NEW d \in Nat, Sound(a, mailed, sts, t)
  PROVE  Sound(Confirmed(a, d), mailed, sts, t)
<1>1. PICK b : b = Confirmed(a, d)
  OBVIOUS
<1>2. Like(b, a) /\ b.state = "pending_deletion" /\ b.graceUntil = d + GracePeriod /\ b.due = d
  BY <1>1 DEF Confirmed, Request, Like
<1>3. d # NotDue /\ d + GracePeriod >= GracePeriod
  BY TimesAssumption DEF NotDue
<1>4. SoundTimes(b, t)
  BY <1>2, <1>3 DEF SoundTimes, Committed
<1>5. SoundLinks(b, mailed) /\ SoundAcks(b, sts)
  BY <1>2 DEF Sound, SoundLinks, SoundAcks, Like, Erasing, Committed
<1> QED BY <1>1, <1>4, <1>5 DEF Sound

\* The next look at a pending or blocked copy is scheduled.
LEMMA SoundScheduled ==
  ASSUME NEW a \in Request, NEW mailed, NEW sts, NEW t, NEW d \in Nat,
         a.state \in {"pending_deletion", "blocked"}, a.graceUntil >= GracePeriod,
         SoundLinks(a, mailed)
  PROVE  Sound(ScheduleNext(a, d), mailed, sts, t)
<1>1. PICK b, e : /\ b = ScheduleNext(a, d) /\ b = SetDue(a, e)
                  /\ (e \in Nat \/ (e = NotDue /\ a.state = "blocked" /\ a.blockedNotified))
  <2>1. NextDue(a, d) \in Nat
    <3>1. a.graceUntil \in Nat
      BY DEF Request
    <3> QED BY SMTT(20), <3>1, TimesAssumption DEF NextDue
  <2>2. ClearDue(a) = SetDue(a, NotDue)
    BY DEF ClearDue, SetDue
  <2> QED BY <2>1, <2>2 DEF ScheduleNext
<1>2. /\ Like(b, a) /\ b.state = a.state /\ b.graceUntil = a.graceUntil /\ b.due = e
      /\ b.blockedNotified = a.blockedNotified
  BY <1>1, DueFields
<1>3. e \in Nat => e # NotDue
  BY DEF NotDue
<1>4. SoundTimes(b, t)
  BY <1>1, <1>2, <1>3 DEF SoundTimes, Owes, Committed
<1>5. SoundLinks(b, mailed) /\ SoundAcks(b, sts)
  BY <1>2 DEF SoundLinks, SoundAcks, Like, Erasing
<1> QED BY <1>1, <1>4, <1>5 DEF Sound

LEMMA SoundLockRecorded ==
  ASSUME NEW a \in Request, NEW mailed, NEW sts, NEW t, NEW d \in Nat,
         a.state = "pending_deletion", Sound(a, mailed, sts, t)
  PROVE  Sound(LockRecorded(a, d), mailed, sts, t)
<1>1. PICK b : b = [a EXCEPT !.lockApplied = TRUE]
  OBVIOUS
<1>2. b \in Request /\ Like(b, a) /\ b.state = a.state /\ b.graceUntil = a.graceUntil
  BY <1>1 DEF Request, Like
<1>3. SoundLinks(b, mailed) /\ b.graceUntil >= GracePeriod
  BY <1>2 DEF Sound, SoundLinks, SoundTimes, Like
<1>4. Sound(ScheduleNext(b, d), mailed, sts, t)
  BY <1>2, <1>3, SoundScheduled
<1> QED BY <1>1, <1>4 DEF LockRecorded

\* A link that reached the mailbox and whose token is in the copy is counted.
LEMMA SoundLinkSent ==
  ASSUME NEW a \in Request, NEW mailed, NEW sts, NEW t, NEW d \in Nat, NEW k,
         a.state \in {"pending_deletion", "blocked"}, Sound(a, mailed, sts, t), mailed \cap a.links # {}
  PROVE  Sound(LinkSent(a, k, d), mailed, sts, t)
<1>1. PICK b : b = [a EXCEPT !.scheduledSent   = a.scheduledSent \/ k = "scheduled",
                            !.reminded        = a.reminded \/ k = "reminder",
                            !.blockedNotified = a.blockedNotified \/ k = "blocked"]
  OBVIOUS
<1>2. /\ b \in Request /\ b.links = a.links /\ b.state = a.state /\ b.graceUntil = a.graceUntil
      /\ a.scheduledSent => b.scheduledSent
  BY <1>1, ZenonT(40) DEF Request
<1>3. SoundLinks(b, mailed) /\ b.graceUntil >= GracePeriod
  BY <1>2 DEF Sound, SoundLinks, SoundTimes
<1>4. Sound(ScheduleNext(b, d), mailed, sts, t)
  BY <1>2, <1>3, SoundScheduled
<1> QED BY <1>1, <1>4 DEF LinkSent

\* A copy with one more token, or another hold, is as sound.
LEMMA SoundOther ==
  ASSUME NEW a \in Request, NEW mailed, NEW sts, NEW t, NEW k, Sound(a, mailed, sts, t)
  PROVE  /\ Sound([a EXCEPT !.links = @ \cup {k}], mailed, sts, t)
         /\ Sound([a EXCEPT !.hold = k], mailed, sts, t)
<1>1. ASSUME NEW c \in {[a EXCEPT !.links = @ \cup {k}], [a EXCEPT !.hold = k]}
      PROVE  Sound(c, mailed, sts, t)
  <2>1. /\ a.links \subseteq c.links /\ c.state = a.state /\ c.graceUntil = a.graceUntil /\ c.due = a.due
        /\ c.scheduledSent = a.scheduledSent /\ c.scope = a.scope /\ c.blockedNotified = a.blockedNotified
    BY <1>1 DEF Request
  <2>2. SoundTimes(c, t)
    BY <2>1 DEF Sound, SoundTimes, Owes
  <2>3. SoundLinks(c, mailed) /\ SoundAcks(c, sts)
    BY <2>1 DEF Sound, SoundLinks, SoundAcks, ParticipantsFor
  <2> QED BY <2>2, <2>3 DEF Sound
<1> QED BY <1>1

-----------------------------------------------------------------------------
(* The steps of a process that write nothing *)

\* The steps that need no more than a sound copy.
Plain(pc) == pc \notin {"linkMail", "purge", "ackSave"}

LEMMA HoldsPlain ==
  ASSUME NEW x, NEW R, NEW L, NEW S, NEW t, Plain(x.pc), Sound(x.loc, L[x.req], S[x.req], t),
         x.from \in Erasing => R[x.req].state \in Erasing
  PROVE  Holds(x, R, L, S, t)
BY DEF Holds, Plain

\* What EraseInv says of one busy process.
LEMMA BusySound ==
  ASSUME EraseInv, NEW p \in Procs, procs[p].pc # "idle"
  PROVE  /\ procs[p] \in Proc /\ procs[p].req \in Reqs /\ procs[p].loc \in Request /\ procs[p].at \in Nat
         /\ Sound(procs[p].loc, linksMailed[procs[p].req], svcs[procs[p].req], now)
         /\ procs[p].from \in Erasing => rows[procs[p].req].state \in Erasing
         /\ Plans(procs[p]) /\ now \in Nat
<1>1. Holds(procs[p], rows, linksMailed, svcs, now) /\ TypeInv /\ Plans(procs[p])
  BY DEF EraseInv, SoundProcs, SafeInv, SafeProcs
<1>2. procs[p] \in Proc /\ procs[p].req \in Reqs /\ procs[p].loc \in Request /\ procs[p].at \in Nat
  BY <1>1, BusyFacts DEF TypeInv, TypeOK
<1>3. now \in Nat
  BY <1>1 DEF TypeInv, TypeOK
<1> QED BY <1>1, <1>2, <1>3 DEF Holds

\* What EraseInv says of one row.
LEMMA RowSound ==
  ASSUME EraseInv, NEW r \in Reqs
  PROVE  rows[r] \in Request /\ Sound(rows[r], linksMailed[r], svcs[r], now) /\ now \in Nat
BY DEF EraseInv, SoundRows, SafeInv, TypeInv, TypeOK

NoWrite ==
  /\ UNCHANGED <<rows, svcs, linksMailed, now, users>>
  /\ \A m \in msgs' : m[1] = "erase" => m \in msgs

LEMMA QuietReturn ==
  ASSUME EraseInv, RowsAdvance, NoWrite, NEW p \in Procs, Return(p)
  PROVE  EraseStep
BY Quiet, IdleHolds DEF NoWrite, Return

\* The record of a process that changes its step and its copy.
LEMMA KeepHolds ==
  ASSUME EraseInv, NEW p \in Procs, procs[p].pc # "idle", NEW pc, Plain(pc), NEW row,
         NEW L, NEW S, NEW t, Sound(row, L[procs[p].req], S[procs[p].req], t)
  PROVE  /\ Keep(p, pc, row) => \E x : procs' = [procs EXCEPT ![p] = x] /\ Holds(x, rows, L, S, t)
         /\ row = procs[p].loc /\ Goto(p, pc) =>
              \E x : procs' = [procs EXCEPT ![p] = x] /\ Holds(x, rows, L, S, t)
<1>1. procs[p] \in Proc /\ (procs[p].from \in Erasing => rows[procs[p].req].state \in Erasing)
  BY BusySound
<1>2. PICK x : x = [procs[p] EXCEPT !.pc = pc, !.loc = row]
  OBVIOUS
<1>3. x.pc = pc /\ x.loc = row /\ x.req = procs[p].req /\ x.from = procs[p].from
  BY <1>1, <1>2 DEF Proc
<1>4. Holds(x, rows, L, S, t)
  BY <1>1, <1>3, HoldsPlain
<1>5. Keep(p, pc, row) => procs' = [procs EXCEPT ![p] = x]
  BY <1>2 DEF Keep
<1>6. row = procs[p].loc => x = [procs[p] EXCEPT !.pc = pc]
  BY <1>1, <1>2 DEF Proc
<1>7. row = procs[p].loc /\ Goto(p, pc) => procs' = [procs EXCEPT ![p] = x]
  BY <1>6 DEF Goto
<1> QED BY <1>4, <1>5, <1>7

LEMMA QuietKeep ==
  ASSUME EraseInv, RowsAdvance, NoWrite, NEW p \in Procs, procs[p].pc # "idle", NEW pc, Plain(pc), NEW row,
         Sound(row, linksMailed[procs[p].req], svcs[procs[p].req], now), Keep(p, pc, row)
  PROVE  EraseStep
<1>1. PICK x : procs' = [procs EXCEPT ![p] = x] /\ Holds(x, rows, linksMailed, svcs, now)
  BY KeepHolds
<1> QED BY <1>1, Quiet DEF NoWrite

LEMMA QuietGoto ==
  ASSUME EraseInv, RowsAdvance, NoWrite, NEW p \in Procs, procs[p].pc # "idle", NEW pc, Plain(pc), Goto(p, pc)
  PROVE  EraseStep
<1>1. Sound(procs[p].loc, linksMailed[procs[p].req], svcs[procs[p].req], now)
  BY BusySound
<1>2. PICK x : procs' = [procs EXCEPT ![p] = x] /\ Holds(x, rows, linksMailed, svcs, now)
  BY <1>1, KeepHolds
<1> QED BY <1>2, Quiet DEF NoWrite

\* An operation starts with a sound copy.
LEMMA QuietBegin ==
  ASSUME EraseInv, RowsAdvance, NoWrite, NEW p \in Procs, NEW x, NEW r \in Reqs, procs' = [procs EXCEPT ![p] = x],
         x.req = r, Plain(x.pc), Sound(x.loc, linksMailed[r], svcs[r], now),
         x.from \in {"none", "awaiting_confirmation", rows[r].state}
  PROVE  EraseStep
<1>1. x.from \in Erasing => rows[x.req].state \in Erasing
  BY DEF Erasing
<1>2. Holds(x, rows, linksMailed, svcs, now)
  BY <1>1, HoldsPlain
<1> QED BY <1>2, Quiet DEF NoWrite

LEMMA StartErase ==
  ASSUME EraseInv, RowsAdvance, NEW p \in Procs,
         \/ \E u \in Users, sc \in Scopes, r \in Reqs : OpenRequest(p, u, sc, r)
         \/ \E r \in Reqs : Confirm(p, r) \/ Cancel(p, r) \/ SupportCancel(p, r)
         \/ \E r \in Reqs, a \in Admins, on \in BOOLEAN : SetLegalHold(p, r, a, on)
  PROVE  EraseStep
<1>1. NoWrite
  BY DEF NoWrite, OpenRequest, Confirm, Cancel, SupportCancel, CancelRow, SetLegalHold, mail
<1>2. now \in Nat
  BY DEF EraseInv, SafeInv, TypeInv, TypeOK
<1>3. ASSUME NEW op, NEW pc, Plain(pc), NEW r \in Reqs, NEW row, Sound(row, linksMailed[r], svcs[r], now),
             NEW from \in {"none", "awaiting_confirmation", rows[r].state}, Begin(p, op, pc, r, row, from)
      PROVE  EraseStep
  <2>1. PICK x : x = [Idle EXCEPT !.op = op, !.pc = pc, !.req = r, !.loc = row, !.from = from,
                                  !.at = now, !.start = now]
    OBVIOUS
  <2>2. x.pc = pc /\ x.req = r /\ x.loc = row /\ x.from = from
    BY <2>1, BeginFields
  <2>3. procs' = [procs EXCEPT ![p] = x]
    BY <1>3, <2>1 DEF Begin
  <2> QED BY <1>1, <1>3, <2>2, <2>3, QuietBegin
<1>4. ASSUME NEW u \in Users, NEW sc \in Scopes, NEW r \in Reqs, OpenRequest(p, u, sc, r) PROVE EraseStep
  <2>1. Sound(NewRequest(u, sc, now), linksMailed[r], svcs[r], now)
    BY <1>2, SoundFresh
  <2> QED BY <1>3, <1>4, <2>1 DEF OpenRequest, Plain
<1>5. ASSUME NEW r \in Reqs, Confirm(p, r) PROVE EraseStep
  <2>1. Sound(Confirmed(rows[r], now), linksMailed[r], svcs[r], now)
    BY RowSound, SoundConfirmed
  <2> QED BY <1>3, <1>5, <2>1 DEF Confirm, Plain
<1>6. ASSUME NEW r \in Reqs, NEW op, CancelRow(p, op, r) PROVE EraseStep
  <2>1. Sound(Cancelled(rows[r], now), linksMailed[r], svcs[r], now)
    BY RowSound, SoundEnded DEF Cancelled
  <2> QED BY SMTT(20), <1>3, <1>6, <2>1 DEF CancelRow, Plain
<1>7. ASSUME NEW r \in Reqs, NEW a \in Admins, NEW on \in BOOLEAN, SetLegalHold(p, r, a, on) PROVE EraseStep
  <2>1. PICK h \in Admins \cup {Nil} : h = IF on THEN a ELSE Nil
    OBVIOUS
  <2>2. PICK held : held = [rows[r] EXCEPT !.hold = h]
    OBVIOUS
  <2>3. held \in Request /\ Sound(held, linksMailed[r], svcs[r], now)
    BY <2>2, RowSound, SoundOther, WithHold
  <2>4. Sound(SetDue(held, now), linksMailed[r], svcs[r], now)
    BY <1>2, <2>3, SoundDue
  <2>5. \E row \in {held, SetDue(held, now)} : Begin(p, "hold", "save", r, row, rows[r].state)
    BY <1>7, <2>1, <2>2 DEF SetLegalHold
  <2> QED BY <1>3, <2>3, <2>4, <2>5 DEF Plain
<1> QED BY <1>4, <1>5, <1>6, <1>7 DEF Cancel, SupportCancel

\* The worker takes a due request.
LEMMA ProcessDueErase ==
  ASSUME EraseInv, RowsAdvance, NEW w \in Procs, NEW r \in Reqs, ProcessDue(w, r)
  PROVE  EraseStep
<1>1. NoWrite
  BY DEF NoWrite, ProcessDue, mail
<1>2. PICK t \in 0..now :
        \/ rows[r].state = "awaiting_confirmation" /\ StepAwaiting(w, r, t)
        \/ rows[r].state = "cancelled" /\ StepCancelled(w, r, t)
        \/ rows[r].state = "pending_deletion" /\ StepPending(w, r, t)
        \/ rows[r].state = "blocked" /\ StepBlocked(w, r, t)
        \/ rows[r].state = "locked" /\ StepLocked(w, r, t)
        \/ rows[r].state = "purging" /\ StepPurging(w, r, t)
  BY DEF ProcessDue
<1>3. rows[r] \in Request /\ Sound(rows[r], linksMailed[r], svcs[r], now) /\ now \in Nat /\ t \in Nat /\ t <= now
  BY RowSound
<1>4. ASSUME NEW pc, NEW row, NEW kind, Take(w, r, t, pc, row, kind), Sound(row, linksMailed[r], svcs[r], now),
             Plain(pc) \/ (pc = "purge" /\ ParticipantsFor(row) = {})
      PROVE  EraseStep
  <2>1. PICK x : x = [Idle EXCEPT !.op = "worker", !.pc = pc, !.req = r, !.loc = row,
                                  !.from = rows[r].state, !.kind = kind, !.at = t, !.start = now]
    OBVIOUS
  <2>2. x.pc = pc /\ x.req = r /\ x.loc = row /\ x.from = rows[r].state
    BY <2>1, TakeFields
  <2>3. procs' = [procs EXCEPT ![w] = x]
    BY <1>4, <2>1 DEF Take
  <2>4. Holds(x, rows, linksMailed, svcs, now)
    BY <1>4, <2>2 DEF Holds, Plain
  <2> QED BY <1>1, <2>3, <2>4, Quiet DEF NoWrite
<1>5. \A pc, kind : Plain(pc) /\ Take(w, r, t, pc, rows[r], kind) => EraseStep
  BY <1>3, <1>4
<1>6. CASE rows[r].state = "awaiting_confirmation" /\ StepAwaiting(w, r, t)
  <2>1. Sound(Expire(rows[r]), linksMailed[r], svcs[r], now)
    BY <1>3, SoundEnded DEF Expire
  <2> QED BY SMTT(20), <1>4, <1>6, <2>1 DEF StepAwaiting, Plain
<1>7. CASE StepCancelled(w, r, t) \/ StepBlocked(w, r, t) \/ StepLocked(w, r, t)
  BY <1>5, <1>7 DEF StepCancelled, StepBlocked, StepLocked, Plain, UnlockStep, LockStep
<1>8. ASSUME Take(w, r, t, "save", SetDue(rows[r], t + LegalHoldRecheck), Nil) PROVE EraseStep
  <2>1. Sound(SetDue(rows[r], t + LegalHoldRecheck), linksMailed[r], svcs[r], now)
    BY <1>3, TimesAssumption, SoundDue
  <2> QED BY <1>4, <1>8, <2>1 DEF Plain
<1>9. CASE rows[r].state = "pending_deletion" /\ StepPending(w, r, t)
  <2>1. CASE \E pc, kind : Plain(pc) /\ Take(w, r, t, pc, rows[r], kind)
    BY <1>5, <2>1
  <2>2. CASE rows[r].scheduledSent /\ t >= rows[r].graceUntil /\ EndGrace(w, r, t)
    <3>1. ASSUME NEW s \in {"blocked", "locked"},
                 Take(w, r, t, "save", SetDue([rows[r] EXCEPT !.state = s], t), Nil)
          PROVE  EraseStep
      <4>1. rows[r].graceUntil \in Nat /\ rows[r].graceUntil <= now /\ rows[r].graceUntil >= GracePeriod
        BY <1>3, <1>9, <2>2 DEF Request, Sound, SoundTimes
      <4>2. t # NotDue
        BY <1>3 DEF NotDue
      <4>3. Sound([rows[r] EXCEPT !.state = s, !.due = t], linksMailed[r], svcs[r], now)
        BY <1>3, <2>2, <4>1, <4>2, SoundMoved DEF Erasing
      <4>4. Sound(SetDue([rows[r] EXCEPT !.state = s], t), linksMailed[r], svcs[r], now)
        BY <4>3 DEF SetDue
      <4> QED BY <1>4, <3>1, <4>4 DEF Plain
    <3> QED BY <1>8, <2>2, <3>1 DEF EndGrace
  <2> QED BY <1>9, <2>1, <2>2 DEF StepPending, Plain, LockStep
<1>10. CASE StepPurging(w, r, t)
  <2>1. CASE Take(w, r, t, "purge", rows[r], Nil) /\ ParticipantsFor(rows[r]) = {}
    BY <1>3, <1>4, <2>1
  <2>2. CASE Take(w, r, t, "reconcile", rows[r], Nil)
    BY <1>5, <2>2 DEF Plain
  <2> QED BY <1>8, <1>10, <2>1, <2>2 DEF StepPurging
<1> QED BY <1>2, <1>6, <1>7, <1>9, <1>10

\* A participant answers, an admin redrives.
LEMMA AnswerErase ==
  ASSUME EraseInv, RowsAdvance, NEW p \in Procs, NEW r \in Reqs, NEW s \in Services,
         Redrive(p, r, s) \/ \E res \in {"acked", "blocked"} : Ack(p, r, s, res)
  PROVE  EraseStep
<1>1. NoWrite
  BY DEF NoWrite, Redrive, Ack, mail
<1>2. CASE Redrive(p, r, s)
  <2>1. PICK x : x = [Idle EXCEPT !.op = "redrive", !.pc = "redriveList", !.req = r, !.loc = rows[r],
                                  !.from = rows[r].state, !.todo = {s}, !.start = now]
    OBVIOUS
  <2>2. x.pc = "redriveList" /\ x.req = r /\ x.loc = rows[r] /\ x.from = rows[r].state
    BY <2>1, IdleType DEF Proc
  <2>3. procs' = [procs EXCEPT ![p] = x]
    BY <1>2, <2>1 DEF Redrive
  <2> QED BY <1>1, <2>2, <2>3, RowSound, QuietBegin DEF Plain
<1>3. ASSUME NEW res \in {"acked", "blocked"}, Ack(p, r, s, res) PROVE EraseStep
  <2>1. PICK st : st = [svcs[r] EXCEPT ![s].status = res]
    OBVIOUS
  <2>2. svcs[r] \in [Services -> ServiceStatus]
    BY DEF EraseInv, SafeInv, TypeInv, TypeOK
  <2>3. st[s].status = res
    BY <2>1, <2>2 DEF ServiceStatus
  <2>4. PICK x : x = [Idle EXCEPT !.op = "ack", !.pc = "ackSave", !.req = r, !.todo = {s}, !.start = now,
                                  !.sts = st]
    OBVIOUS
  <2>5. /\ x.pc = "ackSave" /\ x.req = r /\ x.todo = {s} /\ x.sts = st
        /\ x.loc = NoRequest /\ x.from = "none"
    BY <2>4 DEF Idle
  <2>6. procs' = [procs EXCEPT ![p] = x]
    BY <1>3, <2>1, <2>4 DEF Ack
  <2>7. Sound(x.loc, linksMailed[x.req], svcs[x.req], now)
    BY <2>5, SoundFresh
  <2>8. Holds(x, rows, linksMailed, svcs, now)
    BY <2>3, <2>5, <2>7 DEF Holds, Erasing
  <2> QED BY <1>1, <2>6, <2>8, Quiet DEF NoWrite
<1> QED BY <1>2, <1>3

-----------------------------------------------------------------------------
(* The steps that write a row *)

\* The record of a process that expects another state of its copy from now on.
LEMMA ExpectHolds ==
  ASSUME EraseInv, NEW p \in Procs, procs[p].pc # "idle", NEW pc, Plain(pc), NEW from, from \notin Erasing,
         NEW R, procs' = [procs EXCEPT ![p].pc = pc, ![p].from = from]
  PROVE  \E x : procs' = [procs EXCEPT ![p] = x] /\ Holds(x, R, linksMailed, svcs, now)
<1>1. procs[p] \in Proc /\ Sound(procs[p].loc, linksMailed[procs[p].req], svcs[procs[p].req], now)
  BY BusySound
<1>2. PICK x : x = [procs[p] EXCEPT !.pc = pc, !.from = from]
  OBVIOUS
<1>3. x.pc = pc /\ x.loc = procs[p].loc /\ x.req = procs[p].req /\ x.from = from
  BY <1>1, <1>2 DEF Proc
<1>4. Holds(x, R, linksMailed, svcs, now)
  BY <1>1, <1>3, HoldsPlain
<1>5. procs' = [procs EXCEPT ![p] = x]
  BY <1>2
<1> QED BY <1>4, <1>5

\* The row of request r becomes a sound copy, or no row changes.
LEMMA WriteRow ==
  ASSUME EraseInv, RowsAdvance, UNCHANGED <<svcs, linksMailed, now, users, msgs>>, NEW r \in Reqs, NEW row \in Request,
         Sound(row, linksMailed[r], svcs[r], now), UNCHANGED rows \/ rows' = [rows EXCEPT ![r] = row],
         NEW p \in Procs, NEW x, procs' = [procs EXCEPT ![p] = x], Holds(x, rows', linksMailed, svcs, now)
  PROVE  EraseStep
<1>1. Grows
  BY Stable
<1>2. Holds(x, rows', linksMailed', svcs', now')
  OBVIOUS
<1>3. SoundProcs'
  BY <1>1, <1>2, ProcsHold
<1>4. rows \in [Reqs -> Request]
  BY DEF EraseInv, SafeInv, TypeInv, TypeOK
<1>5. \A q \in Reqs : rows'[q] = rows[q]
                      \/ (rows'[q] \in Request /\ Sound(rows'[q], linksMailed[q], svcs[q], now))
  BY <1>4
<1>6. SoundRows' /\ Orders' /\ Tombstones'
  BY <1>1, <1>5, RowsSound, OrdersKept, TombstonesKept
<1> QED BY <1>3, <1>6 DEF EraseStep

\* Save and Create write the copy of their process.
LEMMA WriteCopy ==
  ASSUME EraseInv, RowsAdvance, UNCHANGED <<svcs, linksMailed, now, users, msgs>>, NEW p \in Procs,
         procs[p].pc # "idle", Put(p) \/ PutNew(p) \/ UNCHANGED rows,
         NEW x, procs' = [procs EXCEPT ![p] = x], Holds(x, rows', linksMailed, svcs, now)
  PROVE  EraseStep
<1>1. /\ procs[p].req \in Reqs /\ procs[p].loc \in Request
      /\ Sound(procs[p].loc, linksMailed[procs[p].req], svcs[procs[p].req], now)
  BY BusySound
<1>2. UNCHANGED rows \/ rows' = [rows EXCEPT ![procs[p].req] = procs[p].loc]
  BY DEF Put, PutNew
<1> QED BY <1>1, <1>2, WriteRow

\* The record of a process that goes on with its copy while the rows advance.
LEMMA GotoHolds ==
  ASSUME EraseInv, RowsAdvance, UNCHANGED <<svcs, linksMailed, now>>, NEW p \in Procs, procs[p].pc # "idle",
         NEW pc, Plain(pc), Goto(p, pc)
  PROVE  \E x : procs' = [procs EXCEPT ![p] = x] /\ Holds(x, rows', linksMailed, svcs, now)
<1>1. /\ procs[p] \in Proc /\ procs[p].req \in Reqs
      /\ Sound(procs[p].loc, linksMailed[procs[p].req], svcs[procs[p].req], now)
      /\ procs[p].from \in Erasing => rows[procs[p].req].state \in Erasing
  BY BusySound
<1>2. PICK x : x = [procs[p] EXCEPT !.pc = pc]
  OBVIOUS
<1>3. x.pc = pc /\ x.loc = procs[p].loc /\ x.req = procs[p].req /\ x.from = procs[p].from
  BY <1>1, <1>2 DEF Proc
<1>4. x.from \in Erasing => rows'[x.req].state \in Erasing
  BY <1>1, <1>3, ErasingStable
<1>5. Holds(x, rows', linksMailed, svcs, now)
  BY <1>1, <1>3, <1>4, HoldsPlain
<1>6. procs' = [procs EXCEPT ![p] = x]
  BY <1>2 DEF Goto
<1> QED BY <1>5, <1>6

LEMMA CreateErase ==
  ASSUME EraseInv, RowsAdvance, NEW p \in Procs, Create(p)
  PROVE  EraseStep
<1>1. /\ procs[p].pc \in {"create", "createAgain"} /\ procs[p].pc # "idle"
      /\ UNCHANGED <<svcs, linksMailed, now, users, msgs>> /\ (PutNew(p) \/ UNCHANGED rows)
  BY DEF Create, mail, Unsaved
<1>2. ASSUME NEW pc, Plain(pc), Goto(p, pc) PROVE EraseStep
  BY <1>1, <1>2, GotoHolds, WriteCopy
<1>3. CASE Return(p)
  BY <1>1, <1>3, IdleHolds, WriteCopy DEF Return
<1>4. \/ Return(p)
      \/ \E pc \in {"confirmMail", "expireOpen"} : Goto(p, pc)
  BY DEF Create
<1> QED BY <1>2, <1>3, <1>4 DEF Plain

LEMMA ExpireUnconfirmedErase ==
  ASSUME EraseInv, RowsAdvance, NEW p \in Procs, ExpireUnconfirmed(p)
  PROVE  EraseStep
<1>1. procs[p].pc = "expireOpen" /\ procs[p].pc # "idle" /\ UNCHANGED <<svcs, linksMailed, now, users, msgs>>
  BY DEF ExpireUnconfirmed, mail
<1>2. PICK o : o = marker[procs[p].loc.user]
  BY SMTT(20)
<1>3. UNCHANGED rows \/ (o # Nil /\ rows' = [rows EXCEPT ![o] = Expire(@)])
  BY <1>2 DEF ExpireUnconfirmed, Unsaved
<1>4. procs[p].loc.user \in Users
  BY <1>1 DEF Creating, EraseInv, SafeInv, SafeProcs, Knows
<1>5. o # Nil => o \in Reqs
  BY <1>2, <1>4 DEF EraseInv, SafeInv, TypeInv, TypeOK
<1>6. PICK r \in Reqs, row \in Request :
        /\ UNCHANGED rows \/ rows' = [rows EXCEPT ![r] = row]
        /\ Sound(row, linksMailed[r], svcs[r], now)
  <2>1. CASE UNCHANGED rows
    <3>1. procs[p].req \in Reqs
      BY <1>1, BusySound
    <3> QED BY <2>1, <3>1, RowSound
  <2>2. CASE o # Nil /\ rows' = [rows EXCEPT ![o] = Expire(@)]
    <3>1. o \in Reqs /\ rows[o] \in Request /\ Expire(rows[o]) \in Request
      BY <1>5, <2>2, RowSound, ExpireType
    <3>2. Sound(Expire(rows[o]), linksMailed[o], svcs[o], now)
      BY <3>1, RowSound, SoundEnded DEF Expire
    <3> QED BY <2>2, <3>1, <3>2
  <2> QED BY <1>3, <2>1, <2>2
<1>7. PICK x : procs' = [procs EXCEPT ![p] = x] /\ Holds(x, rows', linksMailed, svcs, now)
  <2>1. Return(p) \/ Goto(p, "createAgain")
    BY DEF ExpireUnconfirmed
  <2>2. CASE Return(p)
    BY <2>2, IdleHolds DEF Return
  <2>3. CASE Goto(p, "createAgain")
    BY <1>1, <2>3, GotoHolds DEF Plain
  <2> QED BY <2>1, <2>2, <2>3
<1> QED BY <1>1, <1>6, <1>7, WriteRow

LEMMA SendConfirmErase ==
  ASSUME EraseInv, RowsAdvance, NEW p \in Procs, SendConfirm(p)
  PROVE  EraseStep
<1>1. NoWrite /\ procs[p].pc # "idle"
  BY DEF SendConfirm, NoWrite
<1>2. CASE Return(p)
  BY <1>1, <1>2, QuietReturn
<1>3. CASE procs' = [procs EXCEPT ![p].pc = "save", ![p].loc = Expire(@), ![p].from = "awaiting_confirmation"]
  <2>1. /\ procs[p] \in Proc /\ procs[p].req \in Reqs /\ procs[p].loc \in Request
        /\ Sound(procs[p].loc, linksMailed[procs[p].req], svcs[procs[p].req], now)
    BY <1>1, BusySound
  <2>2. PICK x : x = [procs[p] EXCEPT !.pc = "save", !.loc = Expire(@), !.from = "awaiting_confirmation"]
    OBVIOUS
  <2>3. x.pc = "save" /\ x.loc = Expire(procs[p].loc) /\ x.req = procs[p].req /\ x.from = "awaiting_confirmation"
    BY SMTT(20), <2>1, <2>2 DEF Proc
  <2>4. Sound(Expire(procs[p].loc), linksMailed[procs[p].req], svcs[procs[p].req], now)
    BY <2>1, SoundEnded DEF Expire
  <2>5. procs' = [procs EXCEPT ![p] = x]
    BY <1>3, <2>2
  <2> QED BY <1>1, <2>1, <2>3, <2>4, <2>5, QuietBegin DEF Plain
<1> QED BY <1>2, <1>3 DEF SendConfirm

\* A Save of any kind.
LEMMA SaveErase ==
  ASSUME EraseInv, RowsAdvance, NEW p \in Procs, SaveConfirmed(p) \/ SaveCancelled(p) \/ Save(p)
  PROVE  EraseStep
<1>1. /\ procs[p].pc # "idle" /\ UNCHANGED <<svcs, linksMailed, now, users, msgs>> /\ (Put(p) \/ UNCHANGED rows)
  BY DEF SaveConfirmed, SaveCancelled, Save, Saved, StateChanged, SaveFailed, Unsaved, mail
<1>2. CASE Return(p)
  BY <1>1, <1>2, IdleHolds, WriteCopy DEF Return
<1>3. ASSUME NEW pc, Plain(pc), NEW from \in {"pending_deletion", "cancelled"},
             procs' = [procs EXCEPT ![p].pc = pc, ![p].from = from]
      PROVE  EraseStep
  <2>1. from \notin Erasing
    BY DEF Erasing
  <2>2. PICK x : procs' = [procs EXCEPT ![p] = x] /\ Holds(x, rows', linksMailed, svcs, now)
    BY <1>1, <1>3, <2>1, ExpectHolds
  <2> QED BY <1>1, <2>2, WriteCopy
<1>4. CASE procs' = [procs EXCEPT ![p].pc = LockStep(procs[p].loc), ![p].from = "pending_deletion"]
  <2>1. PICK pc : pc = LockStep(procs[p].loc) /\ Plain(pc)
    BY DEF LockStep, Plain
  <2> QED BY <1>3, <1>4, <2>1
<1>5. CASE procs' = [procs EXCEPT ![p].pc = UnlockStep(procs[p].loc), ![p].from = "cancelled"]
  <2>1. PICK pc : pc = UnlockStep(procs[p].loc) /\ Plain(pc)
    BY DEF UnlockStep, Plain
  <2> QED BY <1>3, <1>5, <2>1
<1> QED BY <1>2, <1>4, <1>5 DEF SaveConfirmed, SaveCancelled, Save

\* What follows applyLock.
LEMMA AfterLockHolds ==
  ASSUME EraseInv, RowsAdvance, UNCHANGED <<svcs, linksMailed, now>>, NEW p \in Procs, procs[p].pc # "idle", AfterLock(p)
  PROVE  \E x : procs' = [procs EXCEPT ![p] = x] /\ Holds(x, rows', linksMailed, svcs, now)
<1>1. CASE Return(p)
  BY <1>1, IdleHolds DEF Return
<1>2. CASE procs' = [procs EXCEPT ![p].pc = "link", ![p].kind = "scheduled"]
  <2>1. /\ procs[p] \in Proc /\ procs[p].req \in Reqs
        /\ Sound(procs[p].loc, linksMailed[procs[p].req], svcs[procs[p].req], now)
        /\ procs[p].from \in Erasing => rows[procs[p].req].state \in Erasing
    BY BusySound
  <2>2. PICK x : x = [procs[p] EXCEPT !.pc = "link", !.kind = "scheduled"]
    OBVIOUS
  <2>3. x.pc = "link" /\ x.loc = procs[p].loc /\ x.req = procs[p].req /\ x.from = procs[p].from
    BY <2>1, <2>2 DEF Proc
  <2>4. x.from \in Erasing => rows'[x.req].state \in Erasing
    BY <2>1, <2>3, ErasingStable
  <2>5. Holds(x, rows', linksMailed, svcs, now)
    BY <2>1, <2>3, <2>4, HoldsPlain DEF Plain
  <2>6. procs' = [procs EXCEPT ![p] = x]
    BY <1>2, <2>2
  <2> QED BY <2>5, <2>6
<1> QED BY <1>1, <1>2 DEF AfterLock

LEMMA SaveLockErase ==
  ASSUME EraseInv, RowsAdvance, NEW p \in Procs, SaveLock(p)
  PROVE  EraseStep
<1>1. /\ procs[p].pc # "idle" /\ UNCHANGED <<svcs, linksMailed, now, users, msgs>> /\ (Put(p) \/ UNCHANGED rows)
  BY DEF SaveLock, Saved, StateChanged, SaveFailed, Unsaved, mail
<1>2. PICK x : procs' = [procs EXCEPT ![p] = x] /\ Holds(x, rows', linksMailed, svcs, now)
  <2>1. AfterLock(p) \/ Goto(p, "recheck")
    BY DEF SaveLock
  <2>2. CASE AfterLock(p)
    BY <1>1, <2>2, AfterLockHolds
  <2>3. CASE Goto(p, "recheck")
    BY <1>1, <2>3, GotoHolds DEF Plain
  <2> QED BY <2>1, <2>2, <2>3
<1> QED BY <1>1, <1>2, WriteCopy

\* The token is stored, then the link is e-mailed.
LEMMA StoreLinkErase ==
  ASSUME EraseInv, RowsAdvance, NEW p \in Procs, StoreLink(p)
  PROVE  EraseStep
<1>1. procs[p].pc = "link" /\ procs[p].pc # "idle" /\ UNCHANGED <<svcs, linksMailed, now, users, msgs>>
  BY DEF StoreLink
<1>2. /\ procs[p] \in Proc /\ procs[p].req \in Reqs /\ procs[p].loc \in Request
      /\ Sound(procs[p].loc, linksMailed[procs[p].req], svcs[procs[p].req], now) /\ Plans(procs[p])
  BY <1>1, BusySound
<1>3. PICK k, c : k = linksMade[procs[p].req] + 1 /\ c = [procs[p].loc EXCEPT !.links = @ \cup {k}]
  OBVIOUS
<1>4. k \in Links
  BY SMTT(20), <1>2, <1>3, TimesAssumption DEF StoreLink, EraseInv, SafeInv, TypeInv, TypeOK, Links
<1>5. c \in Request /\ c.state = procs[p].loc.state /\ k \in c.links
  BY <1>2, <1>3, <1>4 DEF Request
<1>6. Sound(c, linksMailed[procs[p].req], svcs[procs[p].req], now)
  BY <1>2, <1>3, SoundOther
<1>7. UNCHANGED rows \/ rows' = [rows EXCEPT ![procs[p].req] = c]
  BY <1>3 DEF StoreLink
<1>8. PICK x : procs' = [procs EXCEPT ![p] = x] /\ Holds(x, rows', linksMailed, svcs, now)
  <2>1. CASE Return(p)
    BY <2>1, IdleHolds DEF Return
  <2>2. CASE procs' = [procs EXCEPT ![p].pc = "linkMail", ![p].loc = c, ![p].link = k, ![p].from = c.state]
    <3>1. PICK x : x = [procs[p] EXCEPT !.pc = "linkMail", !.loc = c, !.link = k, !.from = c.state]
      OBVIOUS
    <3>2. x.pc = "linkMail" /\ x.loc = c /\ x.req = procs[p].req /\ x.from = c.state /\ x.link = k
      BY <1>2, <3>1 DEF Proc
    <3>3. c.state \notin Erasing
      BY <1>1, <1>2, <1>5 DEF Plans, Erasing
    <3>4. Holds(x, rows', linksMailed, svcs, now)
      BY <1>5, <1>6, <3>2, <3>3 DEF Holds
    <3>5. procs' = [procs EXCEPT ![p] = x]
      BY <2>2, <3>1
    <3> QED BY <3>4, <3>5
  <2> QED BY <1>3, <2>1, <2>2 DEF StoreLink
<1> QED BY <1>1, <1>2, <1>5, <1>6, <1>7, <1>8, WriteRow

LEMMA SendLinkErase ==
  ASSUME EraseInv, RowsAdvance, NEW p \in Procs, SendLink(p)
  PROVE  EraseStep
<1>1. procs[p].pc = "linkMail" /\ procs[p].pc # "idle" /\ UNCHANGED <<rows, svcs, now, users, msgs>>
  BY DEF SendLink
<1>2. /\ procs[p] \in Proc /\ procs[p].req \in Reqs /\ procs[p].loc \in Request
      /\ Sound(procs[p].loc, linksMailed[procs[p].req], svcs[procs[p].req], now) /\ Plans(procs[p])
      /\ now \in Nat
  BY <1>1, BusySound
<1>3. PICK r \in Reqs : r = procs[p].req
  BY <1>2
<1>4. PICK k : k = procs[p].link /\ k \in procs[p].loc.links
  BY <1>1 DEF EraseInv, SoundProcs, Holds
<1>5. linksMailed \in [Reqs -> SUBSET Links]
  BY DEF EraseInv, SafeInv, TypeInv, TypeOK
<1>6. linksMailed' = linksMailed \/ linksMailed' = [linksMailed EXCEPT ![r] = @ \cup {k}]
  BY <1>3, <1>4 DEF SendLink
<1>7. Grows
  <2>1. \A q \in Reqs : linksMailed[q] \subseteq linksMailed'[q]
    BY <1>5, <1>6
  <2> QED BY <1>1, <1>2, <2>1 DEF Grows, AcksFinal
<1>8. SoundProcs'
  <2>1. CASE Return(p)
    BY <1>7, <2>1, ReturnHolds
  <2>2. CASE /\ linksMailed' = [linksMailed EXCEPT ![r] = @ \cup {k}]
             /\ Keep(p, "save", LinkSent(procs[p].loc, procs[p].kind, now))
    <3>1. PICK mailed : mailed = linksMailed'[r]
      OBVIOUS
    <3>2. k \in mailed
      BY <1>5, <2>2, <3>1
    <3>3. Sound(procs[p].loc, mailed, svcs[r], now)
      BY <1>1, <1>2, <1>3, <1>7, <3>1, SoundStable
    <3>4. procs[p].loc.state \in {"pending_deletion", "blocked"}
      BY <1>1, <1>2 DEF Plans
    <3>5. PICK row : row = LinkSent(procs[p].loc, procs[p].kind, now)
      OBVIOUS
    <3>6. Sound(row, mailed, svcs[r], now)
      BY <1>2, <1>4, <3>2, <3>3, <3>4, <3>5, SoundLinkSent
    <3>7. PICK x : procs' = [procs EXCEPT ![p] = x] /\ Holds(x, rows, linksMailed', svcs, now)
      BY <1>1, <1>3, <2>2, <3>1, <3>5, <3>6, KeepHolds DEF Plain
    <3>8. Holds(x, rows', linksMailed', svcs', now')
      BY <1>1, <3>7
    <3> QED BY <1>7, <3>7, <3>8, ProcsHold
  <2> QED BY <1>3, <1>4, <2>1, <2>2 DEF SendLink
<1>9. SoundRows' /\ Orders' /\ Tombstones'
  BY <1>1, <1>7, RowsSound, OrdersKept, TombstonesKept
<1> QED BY <1>8, <1>9 DEF EraseStep

-----------------------------------------------------------------------------
(* The lock, the block and the tombstone *)

\* The users' rows change, without a new tombstone.
LEMMA WriteUser ==
  ASSUME EraseInv, RowsAdvance, UNCHANGED <<rows, svcs, linksMailed, now, msgs>>,
         \A u \in Users : users'[u].del = "purged" => users[u].del = "purged" /\ users'[u].req = users[u].req,
         NEW p \in Procs, NEW x, procs' = [procs EXCEPT ![p] = x], Holds(x, rows, linksMailed, svcs, now)
  PROVE  EraseStep
<1>1. Grows
  BY Stable
<1>2. Holds(x, rows', linksMailed', svcs', now')
  OBVIOUS
<1>3. SoundProcs'
  BY <1>1, <1>2, ProcsHold
<1>4. SoundRows' /\ Orders' /\ Tombstones'
  BY <1>1, RowsSound, OrdersKept, TombstonesKept
<1> QED BY <1>3, <1>4 DEF EraseStep

LEMMA MarkErase ==
  ASSUME EraseInv, RowsAdvance, NEW p \in Procs, MarkPendingDeletion(p)
  PROVE  EraseStep
<1>1. procs[p].pc # "idle" /\ UNCHANGED <<rows, svcs, linksMailed, now, msgs>>
  BY DEF MarkPendingDeletion, mail
<1>2. PICK v : v = procs[p].loc.user
  OBVIOUS
<1>3. users' = users \/ users' = [users EXCEPT ![v].del = "pending", ![v].req = procs[p].req]
  BY <1>2 DEF MarkPendingDeletion
<1>4. users \in [Users -> UserBlock]
  BY DEF EraseInv, SafeInv, TypeInv, TypeOK
<1>5. \A u \in Users : users'[u].del = "purged" => users[u].del = "purged" /\ users'[u].req = users[u].req
  BY <1>3, <1>4 DEF UserBlock
<1>6. PICK x : procs' = [procs EXCEPT ![p] = x] /\ Holds(x, rows', linksMailed, svcs, now)
  <2>1. AfterLock(p) \/ Goto(p, "publishLocked")
    BY DEF MarkPendingDeletion
  <2>2. CASE AfterLock(p)
    BY <1>1, <2>2, AfterLockHolds
  <2>3. CASE Goto(p, "publishLocked")
    BY <1>1, <2>3, GotoHolds DEF Plain
  <2> QED BY <2>1, <2>2, <2>3
<1>7. Holds(x, rows, linksMailed, svcs, now)
  BY <1>1, <1>6
<1> QED BY <1>1, <1>5, <1>6, <1>7, WriteUser

LEMMA UnlockFailedHolds ==
  ASSUME EraseInv, NEW p \in Procs, procs[p].pc # "idle", UnlockFailed(p)
  PROVE  \E x : procs' = [procs EXCEPT ![p] = x] /\ Holds(x, rows, linksMailed, svcs, now)
<1>1. CASE Return(p)
  BY <1>1, IdleHolds DEF Return
<1>2. CASE Keep(p, "save", SetDue(procs[p].loc, now))
  <2>1. Sound(SetDue(procs[p].loc, now), linksMailed[procs[p].req], svcs[procs[p].req], now)
    BY BusySound, SoundDue
  <2> QED BY <1>2, <2>1, KeepHolds DEF Plain
<1> QED BY <1>1, <1>2 DEF UnlockFailed

LEMMA ClearErase ==
  ASSUME EraseInv, RowsAdvance, NEW p \in Procs, ClearPendingDeletion(p)
  PROVE  EraseStep
<1>1. procs[p].pc # "idle" /\ UNCHANGED <<rows, svcs, linksMailed, now, msgs>>
  BY DEF ClearPendingDeletion, mail
<1>2. PICK v : v = procs[p].loc.user
  OBVIOUS
<1>3. users' = users \/ users' = [users EXCEPT ![v].del = "none", ![v].req = Nil]
  BY <1>2 DEF ClearPendingDeletion
<1>4. users \in [Users -> UserBlock]
  BY DEF EraseInv, SafeInv, TypeInv, TypeOK
<1>5. \A u \in Users : users'[u].del = "purged" => users[u].del = "purged" /\ users'[u].req = users[u].req
  BY <1>3, <1>4 DEF UserBlock
<1>6. PICK x : procs' = [procs EXCEPT ![p] = x] /\ Holds(x, rows, linksMailed, svcs, now)
  <2>1. UnlockFailed(p) \/ Goto(p, "publishUnlocked")
    BY DEF ClearPendingDeletion
  <2>2. CASE UnlockFailed(p)
    BY <1>1, <2>2, UnlockFailedHolds
  <2>3. CASE Goto(p, "publishUnlocked")
    BY <1>1, <2>3, BusySound, KeepHolds DEF Plain
  <2> QED BY <2>1, <2>2, <2>3
<1> QED BY <1>1, <1>5, <1>6, WriteUser

\* A publication to the participants that orders no erase.
LEMMA OtherMessages ==
  ASSUME NEW p, NEW type \in {"locked", "unlocked"}, Publish(p, type, Services) \/ UNCHANGED msgs
  PROVE  \A m \in msgs' : m[1] = "erase" => m \in msgs
BY DEF Publish

LEMMA PublishErasing ==
  ASSUME EraseInv, RowsAdvance, NEW p \in Procs, PublishLocked(p) \/ PublishUnlocked(p)
  PROVE  EraseStep
<1>1. /\ procs[p].pc # "idle" /\ UNCHANGED <<rows, svcs, linksMailed, now, users>>
      /\ \A m \in msgs' : m[1] = "erase" => m \in msgs
  BY OtherMessages DEF PublishLocked, PublishUnlocked, mail
<1>2. NoWrite
  BY <1>1 DEF NoWrite
<1>3. CASE Return(p)
  BY <1>2, <1>3, QuietReturn
<1>4. CASE PublishLocked(p) /\ AfterLock(p)
  <2>1. PICK x : procs' = [procs EXCEPT ![p] = x] /\ Holds(x, rows', linksMailed, svcs, now)
    BY <1>1, <1>4, AfterLockHolds
  <2>2. Holds(x, rows, linksMailed, svcs, now)
    BY <1>1, <2>1
  <2> QED BY <1>1, <2>1, <2>2, Quiet
<1>5. CASE Goto(p, "erase")
  BY <1>1, <1>2, <1>5, QuietGoto DEF Plain
<1>6. CASE PublishLocked(p) /\ procs[p].from # "locked" /\ Keep(p, "lockSave", LockRecorded(procs[p].loc, now))
  <2>1. procs[p].loc.state = "pending_deletion"
    BY <1>1, <1>6, BusySound DEF PublishLocked, Plans
  <2>2. Sound(LockRecorded(procs[p].loc, now), linksMailed[procs[p].req], svcs[procs[p].req], now)
    BY <1>1, <2>1, BusySound, SoundLockRecorded
  <2> QED BY <1>1, <1>2, <1>6, <2>2, QuietKeep DEF Plain
<1>7. CASE PublishUnlocked(p) /\ UnlockFailed(p)
  <2>1. PICK x : procs' = [procs EXCEPT ![p] = x] /\ Holds(x, rows, linksMailed, svcs, now)
    BY <1>1, <1>7, UnlockFailedHolds
  <2> QED BY <1>1, <2>1, Quiet
<1>8. CASE PublishUnlocked(p) /\ Keep(p, "save", ClearDue(procs[p].loc))
  <2>1. ~Owes(procs[p].loc)
    BY <1>1, <1>8, BusySound DEF PublishUnlocked, Plans, Owes
  <2>2. Sound(ClearDue(procs[p].loc), linksMailed[procs[p].req], svcs[procs[p].req], now)
    BY <1>1, <2>1, BusySound, SoundClear
  <2> QED BY <1>1, <1>2, <1>8, <2>2, QuietKeep DEF Plain
<1> QED BY <1>3, <1>4, <1>5, <1>6, <1>7, <1>8 DEF PublishLocked, PublishUnlocked

LEMMA RecheckErase ==
  ASSUME EraseInv, RowsAdvance, NEW p \in Procs, Recheck(p)
  PROVE  EraseStep
<1>1. NoWrite /\ procs[p].pc # "idle"
  BY DEF Recheck, NoWrite, mail
<1>2. PICK r \in Reqs : r = procs[p].req /\ procs[p] \in Proc
  BY <1>1, BusySound
<1>3. CASE Return(p)
  BY <1>1, <1>3, QuietReturn
<1>4. CASE /\ rows[r].state = "cancelled"
           /\ procs' = [procs EXCEPT ![p].op = "undoLock", ![p].pc = UnlockStep(rows[r]),
                                     ![p].loc = rows[r], ![p].from = "cancelled"]
  <2>1. PICK x : x = [procs[p] EXCEPT !.op = "undoLock", !.pc = UnlockStep(rows[r]),
                                      !.loc = rows[r], !.from = "cancelled"]
    OBVIOUS
  <2>2. x.pc = UnlockStep(rows[r]) /\ x.loc = rows[r] /\ x.req = r /\ x.from = "cancelled"
    BY <1>2, <2>1 DEF Proc
  <2>3. Plain(x.pc)
    BY <2>2 DEF UnlockStep, Plain
  <2>4. procs' = [procs EXCEPT ![p] = x]
    BY <1>4, <2>1
  <2>5. x.from \in {"none", "awaiting_confirmation", rows[r].state}
    BY <1>4, <2>2
  <2> QED BY <1>1, <2>2, <2>3, <2>4, <2>5, RowSound, QuietBegin
<1> QED BY <1>2, <1>3, <1>4 DEF Recheck

-----------------------------------------------------------------------------
(* The saga *)

\* An erase order goes out for a request that can no longer be cancelled.
LEMMA OrderErase ==
  ASSUME EraseInv, RowsAdvance, NEW p \in Procs, PublishErase(p) \/ Redispatch(p)
  PROVE  EraseStep
<1>1. procs[p].pc \in {"erase", "redispatch"} /\ procs[p].pc # "idle" /\ UNCHANGED <<rows, svcs, linksMailed, now, users>>
  BY DEF PublishErase, Redispatch, mail
<1>2. PICK r \in Reqs : r = procs[p].req /\ procs[p] \in Proc
  BY <1>1, BusySound
<1>3. rows[r].state \in Committed
  <2>1. Knows(procs[p], rows) /\ Plans(procs[p])
    BY DEF EraseInv, SafeInv, SafeProcs
  <2>2. procs[p].from \in Committed
    BY <1>1, <2>1 DEF Plans, Committed
  <2> QED BY <1>1, <1>2, <2>1, <2>2 DEF Knows
<1>4. \A m \in msgs' : m \in msgs \/ m[2] = r
  BY <1>2 DEF PublishErase, Redispatch, Publish
<1>5. Orders'
  <2> SUFFICES ASSUME NEW m \in msgs', m[1] = "erase" PROVE rows'[m[2]].state \in Committed
    BY DEF Orders
  <2> QED BY <1>1, <1>3, <1>4 DEF EraseInv, Orders
<1>6. Grows
  BY <1>1, Stable
<1>7. SoundProcs'
  <2>1. CASE Return(p)
    BY <1>6, <2>1, ReturnHolds
  <2>2. CASE Goto(p, "putServices") \/ Goto(p, "bump")
    <3>1. PICK pc \in {"putServices", "bump"} : Goto(p, pc)
      BY <2>2
    <3>2. PICK x : procs' = [procs EXCEPT ![p] = x] /\ Holds(x, rows', linksMailed, svcs, now)
      BY <1>1, <3>1, GotoHolds DEF Plain
    <3>3. Holds(x, rows', linksMailed', svcs', now')
      BY <1>1, <3>2
    <3> QED BY <1>6, <3>2, <3>3, ProcsHold
  <2> QED BY <2>1, <2>2 DEF PublishErase, Redispatch
<1>8. SoundRows' /\ Tombstones'
  BY SMTT(20), <1>1, <1>6, RowsSound, TombstonesKept
<1> QED BY <1>5, <1>7, <1>8 DEF EraseStep

\* Every participant the request waits for has acked once none is silent or
\* refuses: a purging request has asked them all.
LEMMA ReconcileErase ==
  ASSUME EraseInv, RowsAdvance, NEW p \in Procs, Reconcile(p)
  PROVE  EraseStep
<1>1. NoWrite /\ procs[p].pc = "reconcile" /\ procs[p].pc # "idle"
  BY DEF Reconcile, NoWrite, mail
<1>2. PICK r \in Reqs, c \in Request, t \in Nat : r = procs[p].req /\ c = procs[p].loc /\ t = procs[p].at
  BY <1>1, BusySound
<1>3. /\ procs[p] \in Proc /\ Sound(c, linksMailed[r], svcs[r], now) /\ c.state = "purging"
      /\ procs[p].from \in Erasing => rows[r].state \in Erasing
  BY <1>1, <1>2, BusySound DEF Plans
<1>4. PICK sts \in [Services -> ServiceStatus] : sts = svcs[r]
  BY DEF EraseInv, SafeInv, TypeInv, TypeOK
<1>5. ASSUME NEW row, Keep(p, "save", row), Sound(row, linksMailed[r], svcs[r], now) PROVE EraseStep
  BY <1>1, <1>2, <1>5, QuietKeep DEF Plain
<1>6. CASE Keep(p, "save", ClearDue([c EXCEPT !.state = "stalled"]))
  <2>1. Sound([c EXCEPT !.state = "stalled", !.due = NotDue], linksMailed[r], svcs[r], now)
    BY <1>3, SoundEnded
  <2>2. Sound(ClearDue([c EXCEPT !.state = "stalled"]), linksMailed[r], svcs[r], now)
    BY <2>1 DEF ClearDue
  <2> QED BY SMTT(20), <1>5, <1>6, <2>2
<1>7. CASE /\ \A s \in Services : sts[s].status # "blocked" /\ sts[s].status # "dispatched"
           /\ Goto(p, "purge")
  <2>1. \A s \in ParticipantsFor(c) : svcs[r][s].status = "acked"
    BY <1>3, <1>4, <1>7, Participants DEF Sound, SoundAcks, Erasing, ServiceStatus
  <2>2. PICK x : x = [procs[p] EXCEPT !.pc = "purge"]
    OBVIOUS
  <2>3. x.pc = "purge" /\ x.loc = c /\ x.req = r /\ x.from = procs[p].from
    BY <1>2, <1>3, <2>2 DEF Proc
  <2>4. Holds(x, rows, linksMailed, svcs, now)
    BY <1>3, <2>1, <2>3 DEF Holds
  <2>5. procs' = [procs EXCEPT ![p] = x]
    BY <1>7, <2>2 DEF Goto
  <2> QED BY <1>1, <2>4, <2>5, Quiet DEF NoWrite
<1>8. CASE procs' = [procs EXCEPT ![p].pc = "redispatch", ![p].sts = sts, ![p].todo = Silent(sts, t)]
  <2>1. PICK x : x = [procs[p] EXCEPT !.pc = "redispatch", !.sts = sts, !.todo = Silent(sts, t)]
    OBVIOUS
  <2>2. x.pc = "redispatch" /\ x.loc = c /\ x.req = r /\ x.from = procs[p].from
    BY <1>2, <1>3, <2>1 DEF Proc
  <2>3. Holds(x, rows, linksMailed, svcs, now)
    BY <1>3, <2>2 DEF Holds
  <2>4. procs' = [procs EXCEPT ![p] = x]
    BY <1>8, <2>1
  <2> QED BY <1>1, <2>3, <2>4, Quiet DEF NoWrite
<1>9. CASE /\ \E s \in Services : sts[s].status = "dispatched"
           /\ Keep(p, "save", SetDue(c, NextReconcile(sts, t)))
  <2>1. NextReconcile(sts, t) \in Nat
    BY <1>9, NextReconcileType
  <2>2. Sound(SetDue(c, NextReconcile(sts, t)), linksMailed[r], svcs[r], now)
    BY <1>3, <2>1, SoundDue
  <2> QED BY <1>5, <1>9, <2>2
<1>10. CASE Return(p)
  BY <1>1, <1>10, QuietReturn
<1> QED BY <1>2, <1>4, <1>6, <1>7, <1>8, <1>9, <1>10 DEF Reconcile

\* The SVC rows grow, and nothing else but the process changes.
LEMMA WriteServices ==
  ASSUME EraseInv, RowsAdvance, Grows, UNCHANGED <<rows, linksMailed, now, users, msgs>>,
         NEW p \in Procs, NEW x, procs' = [procs EXCEPT ![p] = x], Holds(x, rows, linksMailed, svcs', now)
  PROVE  EraseStep
<1>1. Holds(x, rows', linksMailed', svcs', now')
  OBVIOUS
<1>2. SoundProcs'
  BY <1>1, ProcsHold
<1>3. SoundRows' /\ Orders' /\ Tombstones'
  BY RowsSound, OrdersKept, TombstonesKept
<1> QED BY <1>2, <1>3 DEF EraseStep

\* A conditional write of an SVC row that was asked: no ack is overwritten.
LEMMA PutServiceGrows ==
  ASSUME EraseInv, UNCHANGED <<linksMailed, now>>, NEW r, NEW s, NEW st, st.status # "none",
         NEW from \in {"dispatched", "blocked"}, PutService(r, s, st, from) \/ UNCHANGED svcs
  PROVE  Grows
<1>1. svcs \in [Reqs -> [Services -> ServiceStatus]] /\ now \in Nat
  BY DEF EraseInv, SafeInv, TypeInv, TypeOK
<1>2. CASE UNCHANGED svcs
  BY <1>2, Stable
<1>3. CASE svcs[r][s].status = from /\ svcs' = [svcs EXCEPT ![r][s] = st]
  <2>1. ASSUME NEW q \in Reqs, NEW n \in Services
        PROVE  /\ svcs[q][n].status # "none" => svcs'[q][n].status # "none"
               /\ svcs[q][n].status = "acked" => svcs'[q][n] = svcs[q][n]
    <3>1. CASE q = r /\ n = s
      BY <1>1, <1>3, <3>1
    <3>2. CASE ~(q = r /\ n = s)
      BY <1>1, <1>3, <3>2
    <3> QED BY <3>1, <3>2
  <2> QED BY <1>1, <2>1 DEF Grows, AcksFinal
<1> QED BY <1>2, <1>3 DEF PutService

\* PutServices writes only rows that do not exist.
LEMMA PutServicesGrows ==
  ASSUME EraseInv, NEW p \in Procs, PutServices(p)
  PROVE  Grows
<1>1. svcs \in [Reqs -> [Services -> ServiceStatus]] /\ now \in Nat
  BY DEF EraseInv, SafeInv, TypeInv, TypeOK
<1>2. procs[p].req \in Reqs
  BY BusySound DEF PutServices
<1>3. PICK done \in SUBSET ParticipantsFor(procs[p].loc) :
        svcs' = [svcs EXCEPT ![procs[p].req] = [s \in Services |->
                  IF s \in done /\ @[s].status = "none" THEN FirstDispatch(procs[p].at) ELSE @[s]]]
  BY DEF PutServices
<1>4. FirstDispatch(procs[p].at).status = "dispatched"
  BY DEF FirstDispatch
<1>5. ASSUME NEW q \in Reqs, NEW n \in Services
      PROVE  /\ svcs[q][n].status # "none" => svcs'[q][n].status # "none"
             /\ svcs[q][n].status = "acked" => svcs'[q][n] = svcs[q][n]
  <2>1. CASE q = procs[p].req
    <3>1. svcs'[q][n] = IF n \in done /\ svcs[q][n].status = "none" THEN FirstDispatch(procs[p].at) ELSE svcs[q][n]
      BY <1>1, <1>2, <1>3, <2>1
    <3> QED BY <1>4, <2>1, <3>1
  <2>2. CASE q # procs[p].req
    BY <1>1, <1>3, <2>2
  <2> QED BY <2>1, <2>2
<1> QED BY <1>1, <1>5 DEF Grows, AcksFinal, PutServices, mail

LEMMA PutServicesErase ==
  ASSUME EraseInv, RowsAdvance, NEW p \in Procs, PutServices(p)
  PROVE  EraseStep
<1>1. /\ procs[p].pc = "putServices" /\ procs[p].pc # "idle"
      /\ UNCHANGED <<rows, linksMailed, now, users, msgs>>
  BY DEF PutServices, mail
<1>2. Grows
  BY PutServicesGrows
<1>3. PICK r \in Reqs, c \in Request, t \in Nat : r = procs[p].req /\ c = procs[p].loc /\ t = procs[p].at
  BY <1>1, BusySound
<1>4. Sound(c, linksMailed[r], svcs[r], now) /\ c.state = "locked"
  BY <1>1, <1>3, BusySound DEF Plans
<1>5. CASE Return(p)
  BY <1>1, <1>2, <1>5, IdleHolds, WriteServices DEF Return
<1>6. CASE /\ Keep(p, "save", SetDue([c EXCEPT !.state = "purging"], t))
           /\ svcs' = [svcs EXCEPT ![r] = [s \in Services |->
                IF s \in ParticipantsFor(c) /\ svcs[r][s].status = "none" THEN FirstDispatch(t) ELSE svcs[r][s]]]
  <2>1. \A s \in ParticipantsFor(c) : svcs'[r][s].status # "none"
    <3>1. svcs \in [Reqs -> [Services -> ServiceStatus]]
      BY DEF EraseInv, SafeInv, TypeInv, TypeOK
    <3>2. FirstDispatch(t).status = "dispatched"
      BY DEF FirstDispatch
    <3>3. \A s \in Services : svcs'[r][s] =
            IF s \in ParticipantsFor(c) /\ svcs[r][s].status = "none" THEN FirstDispatch(t) ELSE svcs[r][s]
      BY <1>6, <3>1
    <3> QED BY <3>2, <3>3, Participants
  <2>2. PICK S : S = svcs'
    OBVIOUS
  <2>3. Sound(c, linksMailed[r], S[r], now)
    BY <1>1, <1>2, <1>4, <2>2, SoundStable
  <2>4. t # NotDue /\ c.graceUntil <= now /\ c.scheduledSent
    BY <1>4 DEF NotDue, Sound, SoundTimes, SoundLinks, Committed
  <2>5. Sound([c EXCEPT !.state = "purging", !.due = t], linksMailed[r], S[r], now)
    BY <2>1, <2>2, <2>3, <2>4, SoundMoved
  <2>6. PICK row : row = SetDue([c EXCEPT !.state = "purging"], t) /\ Sound(row, linksMailed[r], S[r], now)
    BY <2>5 DEF SetDue
  <2>7. PICK x : procs' = [procs EXCEPT ![p] = x] /\ Holds(x, rows, linksMailed, S, now)
    BY <1>1, <1>3, <1>6, <2>6, KeepHolds DEF Plain
  <2> QED BY <1>1, <1>2, <2>2, <2>7, WriteServices
<1> QED BY ZenonT(30), <1>3, <1>5, <1>6 DEF PutServices

LEMMA DispatchedStatus ==
  ASSUME NEW a \in ServiceStatus, NEW t
  PROVE  Dispatched(a, t).status = a.status
<1>1. PICK n : n = IF a.attempts < Len(AckBackoff) THEN a.attempts + 1 ELSE a.attempts
  OBVIOUS
<1>2. Dispatched(a, t) = [a EXCEPT !.attempts = n, !.last = t]
  BY <1>1 DEF Dispatched
<1>3. [a EXCEPT !.attempts = n, !.last = t].status = a.status
  BY DEF ServiceStatus
<1> QED BY <1>2, <1>3

\* A re-dispatch is recorded.
LEMMA BumpServiceErase ==
  ASSUME EraseInv, RowsAdvance, NEW p \in Procs, BumpService(p)
  PROVE  EraseStep /\ Grows
<1>1. procs[p].pc = "bump" /\ procs[p].pc # "idle" /\ UNCHANGED <<rows, linksMailed, now, users, msgs>>
  BY DEF BumpService, mail
<1>2. PICK r \in Reqs, c \in Request, t \in Nat : r = procs[p].req /\ c = procs[p].loc /\ t = procs[p].at
  BY <1>1, BusySound
<1>3. PICK sts \in [Services -> ServiceStatus] : sts = procs[p].sts
  BY <1>1, BusyFacts DEF EraseInv, SafeInv
<1>4. PICK s \in procs[p].todo :
        /\ \/ PutService(procs[p].req, s, Dispatched(procs[p].sts[s], procs[p].at), "dispatched")
           \/ UNCHANGED svcs
        /\ \/ procs' = [procs EXCEPT ![p].todo = @ \ {s}]
           \/ Keep(p, "save", SetDue(procs[p].loc, NextReconcile(procs[p].sts, procs[p].at)))
           \/ Return(p)
  BY DEF BumpService
<1>5. s \in Services /\ sts[s] \in ServiceStatus /\ sts[s].status = "dispatched"
  BY <1>1, <1>3, BusyFacts DEF EraseInv, SafeInv, TypeInv, Busy
<1>6. PICK st : st = Dispatched(sts[s], t) /\ st.status = "dispatched"
  BY <1>5, DispatchedStatus
<1>7. Grows
  BY <1>1, <1>2, <1>3, <1>4, <1>6, PutServiceGrows
<1>8. PICK S : S = svcs'
  OBVIOUS
<1>9. /\ procs[p] \in Proc /\ (procs[p].from \in Erasing => rows[r].state \in Erasing)
      /\ Sound(c, linksMailed[r], S[r], now)
  BY <1>1, <1>2, <1>7, <1>8, BusySound, SoundStable
<1>10. CASE Return(p)
  BY <1>1, <1>7, <1>10, IdleHolds, WriteServices DEF Return
<1>11. CASE procs' = [procs EXCEPT ![p].todo = @ \ {s}]
  <2>1. PICK x : x = [procs[p] EXCEPT !.todo = @ \ {s}]
    OBVIOUS
  <2>2. x.pc = "bump" /\ x.loc = c /\ x.req = r /\ x.from = procs[p].from
    BY <1>1, <1>2, <1>9, <2>1 DEF Proc
  <2>3. Holds(x, rows, linksMailed, S, now)
    BY <1>9, <2>2 DEF Holds
  <2>4. procs' = [procs EXCEPT ![p] = x]
    BY <1>11, <2>1
  <2> QED BY <1>1, <1>7, <1>8, <2>3, <2>4, WriteServices
<1>12. CASE Keep(p, "save", SetDue(c, NextReconcile(sts, t)))
  <2>1. NextReconcile(sts, t) \in Nat
    BY <1>5, NextReconcileType
  <2>2. PICK row : row = SetDue(c, NextReconcile(sts, t)) /\ Sound(row, linksMailed[r], S[r], now)
    BY <1>9, <2>1, SoundDue
  <2>3. PICK x : procs' = [procs EXCEPT ![p] = x] /\ Holds(x, rows, linksMailed, S, now)
    BY <1>1, <1>2, <1>12, <2>2, KeepHolds DEF Plain
  <2> QED BY <1>1, <1>7, <1>8, <2>3, WriteServices
<1> QED BY <1>2, <1>3, <1>4, <1>7, <1>10, <1>11, <1>12

\* The tombstone is written on behalf of a request every service has acked.
LEMMA PurgeErase ==
  ASSUME EraseInv, RowsAdvance, NEW p \in Procs, Purge(p)
  PROVE  EraseStep
<1>1. procs[p].pc = "purge" /\ procs[p].pc # "idle" /\ UNCHANGED <<rows, svcs, linksMailed, now, msgs>>
  BY DEF Purge, mail
<1>2. PICK r \in Reqs, c \in Request : r = procs[p].req /\ c = procs[p].loc
  BY <1>1, BusySound
<1>3. /\ procs[p] \in Proc /\ Sound(c, linksMailed[r], svcs[r], now) /\ c.state = "purging"
      /\ rows[r].state \in Erasing
  BY <1>1, <1>2, BusySound DEF Plans, Erasing
<1>4. \A s \in ParticipantsFor(c) : svcs[r][s].status = "acked"
  BY <1>1, <1>2 DEF EraseInv, SoundProcs, Holds
<1>5. users \in [Users -> UserBlock]
  BY SMTT(20) DEF EraseInv, SafeInv, TypeInv, TypeOK
<1>6. \/ UNCHANGED users
      \/ /\ c.scope = "account" /\ (users[c.user].del = "purged" \/ users[c.user].req = r)
         /\ users' = [users EXCEPT ![c.user].del = "purged", ![c.user].unlinked = {}]
      \/ \E n : users' = [users EXCEPT ![c.user].unlinked = n]
  BY <1>2 DEF Purge
<1>7. Grows
  BY <1>1, Stable
<1>8. Tombstones'
  <2>1. CASE UNCHANGED users \/ \E n : users' = [users EXCEPT ![c.user].unlinked = n]
    <3>1. \A u \in Users : users'[u].del = users[u].del /\ users'[u].req = users[u].req
      <4>1. CASE UNCHANGED users
        BY <4>1
      <4>2. ASSUME NEW n, users' = [users EXCEPT ![c.user].unlinked = n], NEW u \in Users
            PROVE  users'[u].del = users[u].del /\ users'[u].req = users[u].req
        <5>1. CASE u = c.user
          BY <1>5, <4>2, <5>1 DEF UserBlock
        <5>2. CASE u # c.user
          BY <1>5, <4>2, <5>2
        <5> QED BY <5>1, <5>2
      <4> QED BY <2>1, <4>1, <4>2
    <3> QED BY <1>7, <3>1, TombstonesKept
  <2>2. CASE /\ c.scope = "account" /\ (users[c.user].del = "purged" \/ users[c.user].req = r)
             /\ users' = [users EXCEPT ![c.user].del = "purged", ![c.user].unlinked = {}]
    <3>1. \A s \in Services : svcs[r][s].status = "acked"
      BY <1>4, <2>2 DEF ParticipantsFor
    <3>2. ASSUME NEW u \in Users, users'[u].del = "purged"
          PROVE  /\ users'[u].req \in Reqs /\ rows'[users'[u].req].state \in Erasing
                 /\ \A s \in Services : svcs'[users'[u].req][s].status = "acked"
      <4>1. users'[u].req = users[u].req
        BY <1>5, <2>2 DEF UserBlock
      <4>2. users[u].del = "purged" \/ users[u].req = r
        BY <1>5, <2>2, <3>2 DEF UserBlock
      <4>3. CASE users[u].req = r
        BY <1>1, <1>3, <3>1, <4>1, <4>3
      <4>4. CASE users[u].del = "purged"
        BY SMTT(20), <1>1, <4>1, <4>4 DEF EraseInv, Tombstones
      <4> QED BY <4>2, <4>3, <4>4
    <3> QED BY <3>2 DEF Tombstones
  <2> QED BY <1>6, <2>1, <2>2
<1>9. SoundProcs'
  <2>1. CASE Return(p)
    BY <1>7, <2>1, ReturnHolds
  <2>2. CASE Keep(p, "save", ClearDue([c EXCEPT !.state = "purged"]))
    <3>1. Sound([c EXCEPT !.state = "purged", !.due = NotDue], linksMailed[r], svcs[r], now)
      BY <1>3, <1>4, SoundEnded
    <3>2. PICK row : row = ClearDue([c EXCEPT !.state = "purged"]) /\ Sound(row, linksMailed[r], svcs[r], now)
      BY <3>1 DEF ClearDue
    <3>3. PICK x : procs' = [procs EXCEPT ![p] = x] /\ Holds(x, rows, linksMailed, svcs, now)
      BY <1>1, <1>2, <2>2, <3>2, KeepHolds DEF Plain
    <3>4. Holds(x, rows', linksMailed', svcs', now')
      BY <1>1, <3>3
    <3> QED BY <1>7, <3>3, <3>4, ProcsHold
  <2> QED BY <1>2, <2>1, <2>2 DEF Purge
<1>10. SoundRows' /\ Orders'
  BY <1>1, <1>7, RowsSound, OrdersKept
<1> QED BY <1>8, <1>9, <1>10 DEF EraseStep

\* An answer is recorded.
LEMMA SaveAckErase ==
  ASSUME EraseInv, RowsAdvance, NEW p \in Procs, SaveAck(p)
  PROVE  EraseStep /\ Grows
<1>1. procs[p].pc = "ackSave" /\ procs[p].pc # "idle" /\ UNCHANGED <<rows, linksMailed, now, users, msgs>>
  BY DEF SaveAck, mail
<1>2. PICK s \in procs[p].todo :
        /\ PutService(procs[p].req, s, procs[p].sts[s], "dispatched") \/ UNCHANGED svcs
        /\ Goto(p, "ackGet") \/ Return(p)
  BY DEF SaveAck
<1>3. procs[p].sts[s].status # "none"
  BY <1>1 DEF EraseInv, SoundProcs, Holds
<1>4. Grows
  BY <1>1, <1>2, <1>3, PutServiceGrows
<1>5. CASE Return(p)
  BY <1>1, <1>4, <1>5, IdleHolds, WriteServices DEF Return
<1>6. CASE Goto(p, "ackGet")
  <2>1. PICK S : S = svcs'
    OBVIOUS
  <2>2. Sound(procs[p].loc, linksMailed[procs[p].req], S[procs[p].req], now)
    BY <1>1, <1>4, <2>1, BusySound, SoundStable
  <2>3. PICK x : procs' = [procs EXCEPT ![p] = x] /\ Holds(x, rows, linksMailed, S, now)
    BY <1>1, <1>6, <2>2, KeepHolds DEF Plain
  <2> QED BY <1>1, <1>4, <2>1, <2>3, WriteServices
<1> QED BY <1>2, <1>4, <1>5, <1>6

LEMMA AckGetErase ==
  ASSUME EraseInv, RowsAdvance, NEW p \in Procs, AckGet(p)
  PROVE  EraseStep
<1>1. NoWrite /\ procs[p].pc # "idle"
  BY DEF AckGet, NoWrite, mail
<1>2. PICK r \in Reqs : r = procs[p].req /\ procs[p] \in Proc
  BY <1>1, BusySound
<1>3. CASE Return(p)
  BY <1>1, <1>3, QuietReturn
<1>4. CASE /\ rows[r].state = "purging"
           /\ procs' = [procs EXCEPT ![p].pc = "save", ![p].loc = SetDue(rows[r], now), ![p].from = "purging"]
  <2>1. PICK row : row = SetDue(rows[r], now)
    OBVIOUS
  <2>2. PICK x : x = [procs[p] EXCEPT !.pc = "save", !.loc = row, !.from = "purging"]
    OBVIOUS
  <2>3. x.pc = "save" /\ x.loc = row /\ x.req = r /\ x.from = "purging"
    BY <1>2, <2>2 DEF Proc
  <2>4. Sound(row, linksMailed[r], svcs[r], now)
    BY <2>1, RowSound, SoundDue
  <2>5. procs' = [procs EXCEPT ![p] = x]
    BY <1>4, <2>1, <2>2
  <2>6. x.from \in {"none", "awaiting_confirmation", rows[r].state}
    BY <1>4, <2>3
  <2> QED BY <1>1, <2>3, <2>4, <2>5, <2>6, QuietBegin DEF Plain
<1> QED BY <1>2, <1>3, <1>4 DEF AckGet

\* A redriven request goes back to purging.
LEMMA RedriveResumeErase ==
  ASSUME EraseInv, RowsAdvance, Grows, UNCHANGED <<rows, linksMailed, now, users, msgs>>, NEW p \in Procs,
         procs[p].pc \in {"redriveList", "redriveSave"}, RedriveResume(p) \/ Return(p)
  PROVE  EraseStep
<1>1. CASE Return(p)
  BY <1>1, IdleHolds, WriteServices DEF Return
<1>2. CASE procs[p].from = "stalled" /\ Keep(p, "save", SetDue([procs[p].loc EXCEPT !.state = "purging"], now))
  <2>1. procs[p].pc # "idle"
    OBVIOUS
  <2>2. PICK r \in Reqs, c \in Request : r = procs[p].req /\ c = procs[p].loc
    BY <2>1, BusySound
  <2>3. Sound(c, linksMailed[r], svcs[r], now) /\ c.state = "stalled" /\ now \in Nat
    BY <1>2, <2>1, <2>2, BusySound DEF Plans
  <2>4. PICK S : S = svcs'
    OBVIOUS
  <2>5. Sound(c, linksMailed[r], S[r], now)
    BY <2>3, <2>4, SoundStable
  <2>6. /\ now # NotDue /\ c.graceUntil <= now /\ c.scheduledSent
        /\ \A n \in ParticipantsFor(c) : S[r][n].status # "none"
    BY <2>3, <2>5 DEF NotDue, Sound, SoundTimes, SoundLinks, SoundAcks, Committed, Erasing
  <2>7. Sound([c EXCEPT !.state = "purging", !.due = now], linksMailed[r], S[r], now)
    BY <2>5, <2>6, SoundMoved
  <2>8. PICK row : row = SetDue([c EXCEPT !.state = "purging"], now) /\ Sound(row, linksMailed[r], S[r], now)
    BY <2>7 DEF SetDue
  <2>9. PICK x : procs' = [procs EXCEPT ![p] = x] /\ Holds(x, rows, linksMailed, S, now)
    BY <1>2, <2>1, <2>2, <2>8, KeepHolds DEF Plain
  <2> QED BY <2>4, <2>9, WriteServices
<1> QED BY <1>1, <1>2 DEF RedriveResume

LEMMA RedriveListErase ==
  ASSUME EraseInv, RowsAdvance, NEW p \in Procs, RedriveList(p)
  PROVE  EraseStep
<1>1. /\ NoWrite /\ procs[p].pc = "redriveList" /\ procs[p].pc # "idle"
      /\ UNCHANGED <<rows, svcs, linksMailed, now, users, msgs>>
  BY DEF RedriveList, NoWrite, mail
<1>2. CASE Goto(p, "redriveSave")
  BY <1>1, <1>2, QuietGoto DEF Plain
<1>3. CASE RedriveResume(p) \/ Return(p)
  BY <1>1, <1>3, Stable, RedriveResumeErase
<1> QED BY <1>2, <1>3 DEF RedriveList

LEMMA RedriveSaveErase ==
  ASSUME EraseInv, RowsAdvance, NEW p \in Procs, RedriveSave(p)
  PROVE  EraseStep /\ Grows
<1>1. procs[p].pc = "redriveSave" /\ UNCHANGED <<rows, linksMailed, now, users, msgs>>
  BY DEF RedriveSave, mail
<1>2. PICK s \in procs[p].todo : PutService(procs[p].req, s, Redriven, "blocked") \/ UNCHANGED svcs
  BY DEF RedriveSave
<1>3. Redriven.status # "none"
  BY DEF Redriven
<1>4. Grows
  BY <1>1, <1>2, <1>3, PutServiceGrows
<1>5. RedriveResume(p) \/ Return(p)
  BY DEF RedriveSave
<1> QED BY <1>1, <1>4, <1>5, RedriveResumeErase

-----------------------------------------------------------------------------
(* The theorems *)

\* The steps of the environment.
LEMMA EnvironmentErase ==
  ASSUME EraseInv, RowsAdvance, UNCHANGED vars \/ Tick \/ \E p \in Procs : Crash(p)
  PROVE  EraseStep
<1>1. ASSUME NEW p \in Procs, Crash(p) PROVE EraseStep
  <2>1. NoWrite /\ Return(p)
    BY <1>1 DEF Crash, NoWrite, mail
  <2> QED BY <2>1, QuietReturn
<1>2. CASE UNCHANGED vars \/ Tick
  <2>1. UNCHANGED <<rows, users, svcs, msgs, linksMailed, procs>> /\ now' \in {now, now + 1}
    BY <1>2 DEF Tick, vars, mail
  <2>2. Grows
    BY <2>1 DEF Grows, AcksFinal, EraseInv, SafeInv, TypeInv, TypeOK
  <2>3. ASSUME NEW q \in Procs PROVE Holds(procs'[q], rows', linksMailed', svcs', now')
    <3>1. procs[q] \in Proc /\ Busy(procs[q]) /\ Holds(procs[q], rows, linksMailed, svcs, now)
      BY DEF EraseInv, SoundProcs, SafeInv, TypeInv, TypeOK
    <3> QED BY <2>1, <2>2, <3>1, HoldsStable
  <2>4. SoundProcs'
    BY <2>3 DEF SoundProcs, Holds, Sound, SoundTimes, SoundLinks, SoundAcks
  <2>5. SoundRows' /\ Orders' /\ Tombstones'
    BY <2>1, <2>2, RowsSound, OrdersKept, TombstonesKept
  <2> QED BY <2>4, <2>5 DEF EraseStep
<1> QED BY <1>1, <1>2

LEMMA EraseNext ==
  ASSUME EraseInv, [Next]_vars
  PROVE  EraseInv' /\ AcksFinal
<1>1. RowsAdvance /\ SafeInv'
  BY NextSafe, SafeNext DEF EraseInv, SafeStep
<1>2. EraseStep
  <2>1. ASSUME NEW p \in Procs, Start(p) PROVE EraseStep
    BY <1>1, <2>1, StartErase, ProcessDueErase, AnswerErase DEF Start
  <2>2. ASSUME NEW p \in Procs, Continue(p) PROVE EraseStep
    BY <1>1, <2>2, CreateErase, ExpireUnconfirmedErase, SendConfirmErase, SaveErase, MarkErase,
       PublishErasing, SaveLockErase, RecheckErase, StoreLinkErase, SendLinkErase, ClearErase, OrderErase,
       PutServicesErase, ReconcileErase, BumpServiceErase, PurgeErase, SaveAckErase, AckGetErase,
       RedriveListErase, RedriveSaveErase DEF Continue
  <2> QED BY <1>1, <2>1, <2>2, EnvironmentErase DEF Next
<1>3. AcksFinal
  <2>1. ASSUME NEW p \in Procs, PutServices(p) \/ BumpService(p) \/ SaveAck(p) \/ RedriveSave(p) PROVE AcksFinal
    BY <1>1, <2>1, PutServicesGrows, BumpServiceErase, SaveAckErase, RedriveSaveErase DEF Grows
  <2>2. CASE UNCHANGED svcs
    BY <2>2 DEF AcksFinal
  <2>3. CASE UNCHANGED vars \/ Tick \/ \E p \in Procs : Crash(p)
    BY <2>2, <2>3 DEF vars, Tick, Crash
  <2>4. ASSUME NEW p \in Procs, Start(p) PROVE UNCHANGED svcs
    BY ZenonT(30), <2>4 DEF Start, OpenRequest, Confirm, Cancel, SupportCancel, CancelRow, ProcessDue, Ack,
                SetLegalHold, Redrive
  <2>5. ASSUME NEW p \in Procs, Continue(p)
        PROVE  UNCHANGED svcs \/ PutServices(p) \/ BumpService(p) \/ SaveAck(p) \/ RedriveSave(p)
    BY <2>5 DEF Continue, Create, ExpireUnconfirmed, SendConfirm, SaveConfirmed, MarkPendingDeletion,
                PublishLocked, SaveLock, Recheck, StoreLink, SendLink, SaveCancelled, ClearPendingDeletion,
                PublishUnlocked, PublishErase, Reconcile, Redispatch, Purge, AckGet, RedriveList, Save
  <2> QED BY <2>1, <2>2, <2>3, <2>4, <2>5 DEF Next
<1> QED BY <1>1, <1>2, <1>3 DEF EraseInv, EraseStep

LEMMA EraseInit == Init => EraseInv
<1> SUFFICES ASSUME Init PROVE EraseInv
  OBVIOUS
<1>1. SafeInv
  BY SafeInit
<1>2. SoundRows
  BY SoundFresh DEF Init, SoundRows
<1>3. SoundProcs
  BY IdleHolds DEF Init, SoundProcs
<1>4. Orders /\ Tombstones
  BY DEF Init, Orders, Tombstones
<1> QED BY <1>1, <1>2, <1>3, <1>4 DEF EraseInv

LEMMA EraseInvariant == Spec => []EraseInv
<1>1. EraseInv /\ [Next]_vars => EraseInv'
  BY EraseNext
<1> QED BY <1>1, EraseInit, PTL DEF Spec

\* What EraseInv says of every request.
LEMMA EveryRow ==
  ASSUME EraseInv, NEW r \in Reqs
  PROVE  SoundTimes(rows[r], now) /\ SoundLinks(rows[r], linksMailed[r]) /\ SoundAcks(rows[r], svcs[r])
BY RowSound DEF Sound

\* Whatever cancel, hold or redrive races the worker, and wherever it crashes, the
\* participants of a request are ordered to erase (orderErase, redispatch) only
\* when its grace period is over and it can no longer be cancelled.
THEOREM EraseCorrect == Spec => []EraseOnlyCommitted
<1>1. EraseInv => EraseOnlyCommitted
  <2> SUFFICES ASSUME EraseInv, NEW m \in msgs, m[1] = "erase"
               PROVE  rows[m[2]].state \in Committed /\ rows[m[2]].graceUntil <= now
    BY DEF EraseOnlyCommitted
  <2>1. m[2] \in Reqs
    BY DEF EraseInv, SafeInv, TypeInv, TypeOK
  <2>2. rows[m[2]].state \in Committed
    BY DEF EraseInv, Orders
  <2> QED BY <2>1, <2>2, EveryRow DEF SoundTimes
<1> QED BY <1>1, EraseInvariant, PTL

\* A request ends purged, and an account becomes a tombstone, only after every
\* participant it waits for acked, however acks, redrives and stale copies of the
\* request and of the SVC rows interleave.
THEOREM PurgeCorrect == Spec => []PurgedAfterAcks
<1>1. EraseInv => PurgedAfterAcks
  <2> SUFFICES ASSUME EraseInv PROVE PurgedAfterAcks
    OBVIOUS
  <2>1. ASSUME NEW r \in Reqs, rows[r].state = "purged", NEW s \in ParticipantsFor(rows[r])
        PROVE  svcs[r][s].status = "acked"
    BY <2>1, EveryRow DEF SoundAcks
  <2>2. ASSUME NEW u \in Users, users[u].del = "purged"
        PROVE  /\ rows[users[u].req].state \in {"purging", "stalled", "purged"}
               /\ \A s \in Services : svcs[users[u].req][s].status = "acked"
    BY <2>2 DEF EraseInv, Tombstones, Erasing
  <2> QED BY <2>1, <2>2 DEF PurgedAfterAcks
<1> QED BY <1>1, EraseInvariant, PTL

\* A recorded ack is final: the conditions of SaveService and PutServices refuse
\* every later answer, re-dispatch and redrive.
THEOREM AckCorrect == Spec => AckIsFinal
<1>1. EraseInv /\ [Next]_vars =>
        [\A r \in Reqs, s \in Services : svcs[r][s].status = "acked" => svcs'[r][s] = svcs[r][s]]_vars
  BY EraseNext DEF AcksFinal
<1> QED BY <1>1, EraseInvariant, PTL DEF Spec, AckIsFinal

\* A request that records its first cancel link as sent accepts some link that is
\* in the mailbox: Save writes the flag and the tokens of one copy together, and
\* sendCancelLink stores the token before the e-mail.
THEOREM LinkCorrect == Spec => []SentLinkWorks
<1>1. EraseInv => SentLinkWorks
  BY EveryRow DEF SentLinkWorks, SoundLinks
<1> QED BY <1>1, EraseInvariant, PTL

\* Nobody's deletion becomes irrevocable before a cancel link was e-mailed.
THEOREM NoLockCorrect == Spec => []NoLockWithoutLink
<1>1. EraseInv => NoLockWithoutLink
  BY EveryRow DEF NoLockWithoutLink, SoundLinks
<1> QED BY <1>1, EraseInvariant, PTL

\* A request the worker still owes a step stays in the due index, whatever copy of
\* it a slower process writes back.
THEOREM OwedCorrect == Spec => []OwedIsDue
<1>1. EraseInv => OwedIsDue
  BY EveryRow DEF OwedIsDue, SoundTimes, Owes
<1> QED BY <1>1, EraseInvariant, PTL

-----------------------------------------------------------------------------
(* What an operation in progress relies on: the times *)

\* The states of a request someone confirmed.
PastConfirm == States \ {"awaiting_confirmation", "expired"}

\* b has the dates and the scope of a.
Dated(b, a) == b.confirmBy = a.confirmBy /\ b.graceUntil = a.graceUntil /\ b.scope = a.scope

Timely(x, t) == x.pc # "idle" => x.start <= t /\ t <= x.start + OpSpan

\* A copy has the dates of its row from the moment they are final.
Copies(x, R) ==
  x.pc \notin NoCopy =>
    /\ x.loc.confirmBy = R[x.req].confirmBy /\ x.loc.scope = R[x.req].scope
    /\ x.pc # "confirmSave" /\ x.loc.state \in PastConfirm =>
         R[x.req].state \in PastConfirm /\ x.loc.graceUntil = R[x.req].graceUntil
    /\ x.from = "cancelled" => R[x.req].state = "cancelled"

\* The dates of a copy come from the start of its operation; a cancelled copy is
\* due now or never, and comes from a cancelled row.
Dates(x, t) ==
  /\ x.pc \in Creating => x.loc.confirmBy = x.start + ConfirmWindow /\ x.from = "none"
  /\ x.pc = "confirmSave" => x.loc.graceUntil = x.start + GracePeriod
  /\ x.pc = "mark" => x.loc.scope = "account"
  /\ x.pc \notin NoCopy /\ x.loc.state = "cancelled" =>
       x.loc.due <= t /\ (x.pc = "save" => x.from = "cancelled")

Keeps(x, R, t) == Timely(x, t) /\ Copies(x, R) /\ Dates(x, t)

Kept == \A p \in Procs : Keeps(procs[p], rows, now)

LateDue == \A r \in Reqs : rows[r].state = "cancelled" => rows[r].due <= now

\* A person is blocked on behalf of a request to delete that person's account.
OwnBlock ==
  \A u \in Users : users[u].req \in Reqs =>
    LET r == users[u].req
    IN rows[r].state # "none" /\ rows[r].user = u /\ rows[r].scope = "account"

KeepInv == EraseInv /\ Kept /\ LateDue /\ OwnBlock

-----------------------------------------------------------------------------
(* What one step of a process does to the rows and to the users *)

\* What is final of a row stays.
Lasts(a, b) ==
  a.state # "none" =>
    /\ b.state # "none" /\ b.user = a.user /\ b.confirmBy = a.confirmBy /\ b.scope = a.scope
    /\ a.state \in PastConfirm => b.state \in PastConfirm /\ b.graceUntil = a.graceUntil
    /\ a.state = "cancelled" => b.state = "cancelled"

RowMove(y, r) ==
  \/ rows'[r] = rows[r]
  \/ y.pc \in Creating /\ y.req = r /\ rows[r].state = "none" /\ rows'[r] = y.loc
  \/ y.pc \in SaveSteps /\ y.req = r /\ rows[r].state = y.from /\ rows'[r] = y.loc
  \/ /\ Dated(rows'[r], rows[r]) /\ rows'[r].user = rows[r].user
     /\ \/ rows[r].state = "awaiting_confirmation" /\ rows'[r].state = "expired"
        \/ rows[r].state \in {"pending_deletion", "blocked"} /\ rows'[r].state = rows[r].state

RowsMove(p) == \A r \in Reqs : RowMove(procs[p], r)

\* The block is left where it is, taken, or given up by its owner.
UsersMove(y) ==
  \/ \A u \in Users : users'[u].req = users[u].req /\ (users[u].del # "none" => users'[u].del # "none")
  \/ y.pc = "mark" /\ users' = [users EXCEPT ![y.loc.user].del = "pending", ![y.loc.user].req = y.req]
  \/ /\ y.pc = "clear" /\ users[y.loc.user].req = y.req
     /\ users' = [users EXCEPT ![y.loc.user].del = "none", ![y.loc.user].req = Nil]

\* A lock on behalf of a locked request that has taken the block.
LockTaken(x) ==
  /\ x.from = "locked"
  /\ x.pc \in {"publishLocked", "erase", "putServices"} \/ (x.pc = "save" /\ x.loc.state = "purging")

\* On the way to clear the block if the request turns out to be cancelled.
Unlocks(x) == x.pc \in {"publishLocked", "lockSave", "recheck", "clear"}

\* About to take a cancelled request out of the due index.
Settles(x) ==
  x.pc = "publishUnlocked" \/ (x.pc = "save" /\ x.loc.state = "cancelled" /\ x.loc.due = NotDue)

\* Where a step of y may lead.
Enters(y, x) ==
  /\ x.pc = "mark" => Open(rows'[x.req].state)
  /\ x.pc = "confirmSave" => x.start = now
  /\ LockTaken(x) =>
       \/ LockTaken(y) /\ y.req = x.req
       \/ x.loc.scope # "account"
       \/ users'[x.loc.user].req = x.req /\ users'[x.loc.user].del # "none"
  /\ faults' = 0 /\ Settles(x) =>
       \/ Settles(y) /\ y.req = x.req
       \/ x.loc.scope # "account"
       \/ users'[x.loc.user].req # x.req
       \/ x.pc = "save" /\ x.loc.due = rows'[x.req].due

Locking == {"mark", "publishLocked", "lockSave", "recheck", "clear", "cancelSave"}

\* Without a fault, a block is not left behind.
Leaves(y, x) ==
  faults' = 0 =>
    /\ y.pc = "mark" => x.pc = "publishLocked" /\ x.req = y.req
    /\ y.pc = "cancelSave" /\ y.loc.scope = "account" =>
         UNCHANGED rows \/ (x.pc = "clear" /\ x.req = y.req)
    /\ Unlocks(y) /\ rows[y.req].state = "cancelled" /\ y.loc.scope = "account" =>
         (Unlocks(x) /\ x.req = y.req) \/ users'[y.loc.user].req # y.req

Turn(p) ==
  /\ now' = now /\ RowsMove(p) /\ UsersMove(procs[p])
  /\ \E x : /\ procs' = [procs EXCEPT ![p] = x] /\ Keeps(x, rows', now)
            /\ Enters(procs[p], x) /\ Leaves(procs[p], x)

-----------------------------------------------------------------------------
(* The functions on a copy keep its dates *)

LEMMA DatedFields ==
  ASSUME NEW a \in Request, NEW d, NEW k, NEW s
  PROVE  /\ Dated(SetDue(a, d), a) /\ Dated(ClearDue(a), a) /\ Dated(ScheduleNext(a, d), a)
         /\ Dated(Expire(a), a) /\ Dated(Cancelled(a, d), a)
         /\ Dated([a EXCEPT !.state = s], a) /\ Dated([a EXCEPT !.hold = s], a)
         /\ Dated([a EXCEPT !.links = s], a)
         /\ Confirmed(a, d).confirmBy = a.confirmBy /\ Confirmed(a, d).scope = a.scope
         /\ Confirmed(a, d).graceUntil = d + GracePeriod
         /\ Cancelled(a, d).due = d /\ SetDue(a, d).due = d /\ ClearDue(a).due = NotDue
<1>1. Dated(SetDue(a, d), a) /\ Dated(ClearDue(a), a) /\ SetDue(a, d).due = d /\ ClearDue(a).due = NotDue
  BY DEF Dated, SetDue, ClearDue, Request
<1>2. Dated(ScheduleNext(a, d), a)
  <2>1. \A e : Dated(SetDue(a, e), a)
    BY DEF Dated, SetDue, Request
  <2> QED BY <1>1, <2>1 DEF ScheduleNext
<1>3. Dated(Expire(a), a) /\ Dated(Cancelled(a, d), a) /\ Cancelled(a, d).due = d
  BY DEF Dated, Expire, Cancelled, Request
<1>4. /\ Dated([a EXCEPT !.state = s], a) /\ Dated([a EXCEPT !.hold = s], a)
      /\ Dated([a EXCEPT !.links = s], a)
  BY DEF Dated, Request
<1>5. /\ Confirmed(a, d).confirmBy = a.confirmBy /\ Confirmed(a, d).scope = a.scope
      /\ Confirmed(a, d).graceUntil = d + GracePeriod
  BY DEF Confirmed, Request
<1> QED BY <1>1, <1>2, <1>3, <1>4, <1>5

LEMMA SentDated ==
  ASSUME NEW a \in Request, NEW d, NEW k
  PROVE  Dated(LinkSent(a, k, d), a) /\ Dated(LockRecorded(a, d), a)
<1> DEFINE q == [a EXCEPT !.scheduledSent   = a.scheduledSent \/ k = "scheduled",
                          !.reminded        = a.reminded \/ k = "reminder",
                          !.blockedNotified = a.blockedNotified \/ k = "blocked"]
           l == [a EXCEPT !.lockApplied = TRUE]
<1>1. q \in Request /\ l \in Request
  BY ZenonT(40) DEF Request
<1>2. Dated(q, a) /\ Dated(l, a)
  BY DEF Request, Dated
<1>3. LinkSent(a, k, d) = ScheduleNext(q, d) /\ LockRecorded(a, d) = ScheduleNext(l, d)
  BY DEF LinkSent, LockRecorded
<1> HIDE DEF q, l
<1>4. Dated(ScheduleNext(q, d), q) /\ Dated(ScheduleNext(l, d), l)
  BY <1>1, DatedFields
<1> QED BY <1>2, <1>3, <1>4 DEF Dated

\* A copy moved to state s.
LEMMA MovedDated ==
  ASSUME NEW a \in Request, NEW d, NEW s \in States
  PROVE  /\ Dated(SetDue([a EXCEPT !.state = s], d), a) /\ Dated(ClearDue([a EXCEPT !.state = s]), a)
<1>1. PICK q : q = [a EXCEPT !.state = s]
  OBVIOUS
<1>2. q \in Request /\ Dated(q, a)
  BY <1>1, WithState, DatedFields
<1>3. Dated(SetDue(q, d), q) /\ Dated(ClearDue(q), q)
  BY <1>2, DatedFields
<1> QED BY <1>1, <1>2, <1>3 DEF Dated

LEMMA NewDated ==
  ASSUME NEW u, NEW sc, NEW t
  PROVE  NewRequest(u, sc, t).confirmBy = t + ConfirmWindow
BY DEF NewRequest, NoRequest

-----------------------------------------------------------------------------
(* The rows last, and so do the copies *)

\* What KeepInv says of one busy process.
LEMMA BusyKept ==
  ASSUME KeepInv, NEW p \in Procs
  PROVE  /\ Keeps(procs[p], rows, now) /\ Knows(procs[p], rows) /\ Plans(procs[p]) /\ Busy(procs[p])
         /\ procs[p] \in Proc /\ procs[p].loc \in Request /\ now \in Nat /\ rows \in [Reqs -> Request]
         /\ procs[p].start \in Nat /\ (procs[p].pc # "idle" => procs[p].req \in Reqs)
<1>1. /\ Keeps(procs[p], rows, now) /\ Knows(procs[p], rows) /\ Plans(procs[p]) /\ Busy(procs[p])
      /\ procs[p] \in Proc /\ now \in Nat /\ rows \in [Reqs -> Request]
  BY DEF KeepInv, Kept, EraseInv, SafeInv, SafeProcs, TypeInv, TypeOK
<1>2. procs[p].loc \in Request /\ procs[p].start \in Nat
  BY <1>1 DEF Proc
<1> QED BY <1>1, <1>2 DEF Busy

LEMMA PastEdges ==
  ASSUME NEW a, NEW b, <<a, b>> \in Lifecycle!Edges
  PROVE  /\ a \in PastConfirm => b \in PastConfirm
         /\ a # "cancelled" /\ a # "none" /\ b # "none"
BY DEF Lifecycle!Edges, PastConfirm, States

\* A move of a row keeps what is final.
LEMMA MoveLasts ==
  ASSUME KeepInv, NEW p \in Procs, NEW r \in Reqs, RowMove(procs[p], r)
  PROVE  Lasts(rows[r], rows'[r])
<1> SUFFICES ASSUME rows[r].state # "none", rows'[r] # rows[r] PROVE Lasts(rows[r], rows'[r])
  BY DEF Lasts
<1>1. CASE procs[p].pc \in SaveSteps /\ procs[p].req = r /\ rows[r].state = procs[p].from /\ rows'[r] = procs[p].loc
  <2>1. PICK y : y = procs[p]
    OBVIOUS
  <2>2. /\ y.pc \in SaveSteps /\ y.req = r /\ rows[r].state = y.from /\ rows'[r] = y.loc
        /\ Copies(y, rows) /\ Knows(y, rows) /\ Plans(y)
    BY <1>1, <2>1, BusyKept DEF Keeps
  <2>3. y.pc \notin NoCopy
    BY <2>2 DEF SaveSteps, NoCopy, Creating
  <2>4. y.from \in States /\ (y.from = y.loc.state \/ <<y.from, y.loc.state>> \in Lifecycle!Edges)
    BY <2>1, <2>2, SaveMove DEF KeepInv, EraseInv
  <2>5. /\ y.loc.user = rows[r].user /\ y.loc.confirmBy = rows[r].confirmBy /\ y.loc.scope = rows[r].scope
        /\ y.loc.state # "none" /\ (rows[r].state = "cancelled" => y.loc.state = "cancelled")
    BY <2>2, <2>3, <2>4, PastEdges, StateNames DEF Knows, Copies
  <2>6. ASSUME rows[r].state \in PastConfirm
        PROVE  y.loc.state \in PastConfirm /\ y.loc.graceUntil = rows[r].graceUntil
    <3>1. y.loc.state \in PastConfirm
      BY <2>2, <2>4, <2>6, PastEdges
    <3>2. y.pc # "confirmSave"
      BY <2>2, <2>6 DEF Plans, PastConfirm
    <3> QED BY <2>2, <2>3, <3>1, <3>2 DEF Copies
  <2> QED BY <2>2, <2>5, <2>6 DEF Lasts
<1>2. CASE /\ Dated(rows'[r], rows[r]) /\ rows'[r].user = rows[r].user
           /\ \/ rows[r].state = "awaiting_confirmation" /\ rows'[r].state = "expired"
              \/ rows[r].state \in {"pending_deletion", "blocked"} /\ rows'[r].state = rows[r].state
  BY <1>2 DEF Lasts, Dated, PastConfirm
<1> QED BY <1>1, <1>2 DEF RowMove

RowsLast == \A r \in Reqs : Lasts(rows[r], rows'[r])

LEMMA MovesLast ==
  ASSUME KeepInv, NEW p \in Procs, RowsMove(p)
  PROVE  RowsLast
BY MoveLasts DEF RowsMove, RowsLast

LEMMA StillMoves ==
  ASSUME UNCHANGED rows, NEW p
  PROVE  RowsMove(p)
BY DEF RowsMove, RowMove

\* What a process keeps survives the steps of the others.
LEMMA CopiesLast ==
  ASSUME NEW x, Busy(x), Knows(x, rows), Copies(x, rows), RowsLast
  PROVE  Copies(x, rows')
<1> SUFFICES ASSUME x.pc \notin NoCopy
             PROVE  /\ x.loc.confirmBy = rows'[x.req].confirmBy /\ x.loc.scope = rows'[x.req].scope
                    /\ x.pc # "confirmSave" /\ x.loc.state \in PastConfirm =>
                         rows'[x.req].state \in PastConfirm /\ x.loc.graceUntil = rows'[x.req].graceUntil
                    /\ x.from = "cancelled" => rows'[x.req].state = "cancelled"
  BY DEF Copies
<1>1. x.req \in Reqs /\ rows[x.req].state # "none"
  BY DEF Busy, Knows, NoCopy
<1>2. Lasts(rows[x.req], rows'[x.req])
  BY <1>1 DEF RowsLast
<1> QED BY <1>1, <1>2 DEF Copies, Lasts

LEMMA KeepsLast ==
  ASSUME KeepInv, RowsLast, NEW q \in Procs
  PROVE  Keeps(procs[q], rows', now)
BY BusyKept, CopiesLast DEF Keeps

LEMMA KeepsIdle == \A R, t : Keeps(Idle, R, t)
<1>1. Idle.pc = "idle"
  BY DEF Idle
<1> QED BY <1>1 DEF Keeps, Timely, Copies, Dates, NoCopy, Creating

-----------------------------------------------------------------------------
(* How a process goes on *)

\* The process goes on with its operation, at step pc, with copy row.
Goes(p, x, pc, row, from) ==
  /\ procs' = [procs EXCEPT ![p] = x]
  /\ x.pc = pc /\ x.loc = row /\ x.from = from /\ x.req = procs[p].req /\ x.start = procs[p].start

LEMMA GoesOn ==
  ASSUME KeepInv, NEW p \in Procs, NEW pc, NEW row, NEW from
  PROVE  /\ Goto(p, pc) => \E x : Goes(p, x, pc, procs[p].loc, procs[p].from)
         /\ Keep(p, pc, row) => \E x : Goes(p, x, pc, row, procs[p].from)
         /\ procs' = [procs EXCEPT ![p].pc = pc, ![p].from = from] =>
              \E x : Goes(p, x, pc, procs[p].loc, from)
         /\ procs' = [procs EXCEPT ![p].pc = pc, ![p].loc = row, ![p].from = from] =>
              \E x : Goes(p, x, pc, row, from)
<1>1. procs[p] \in Proc
  BY BusyKept
<1>2. ASSUME Goto(p, pc) PROVE \E x : Goes(p, x, pc, procs[p].loc, procs[p].from)
  <2>1. PICK x : x = [procs[p] EXCEPT !.pc = pc]
    OBVIOUS
  <2>2. /\ x.pc = pc /\ x.loc = procs[p].loc /\ x.from = procs[p].from /\ x.req = procs[p].req
        /\ x.start = procs[p].start
    BY <1>1, <2>1 DEF Proc
  <2> QED BY <1>2, <2>1, <2>2 DEF Goto, Goes
<1>3. ASSUME Keep(p, pc, row) PROVE \E x : Goes(p, x, pc, row, procs[p].from)
  <2>1. PICK x : x = [procs[p] EXCEPT !.pc = pc, !.loc = row]
    OBVIOUS
  <2>2. /\ x.pc = pc /\ x.loc = row /\ x.from = procs[p].from /\ x.req = procs[p].req
        /\ x.start = procs[p].start
    BY <1>1, <2>1 DEF Proc
  <2> QED BY <1>3, <2>1, <2>2 DEF Keep, Goes
<1>4. ASSUME procs' = [procs EXCEPT ![p].pc = pc, ![p].from = from]
      PROVE  \E x : Goes(p, x, pc, procs[p].loc, from)
  <2>1. PICK x : x = [procs[p] EXCEPT !.pc = pc, !.from = from]
    OBVIOUS
  <2>2. /\ x.pc = pc /\ x.loc = procs[p].loc /\ x.from = from /\ x.req = procs[p].req
        /\ x.start = procs[p].start
    BY <1>1, <2>1 DEF Proc
  <2> QED BY <1>4, <2>1, <2>2 DEF Goes
<1>5. ASSUME procs' = [procs EXCEPT ![p].pc = pc, ![p].loc = row, ![p].from = from]
      PROVE  \E x : Goes(p, x, pc, row, from)
  <2>1. PICK x : x = [procs[p] EXCEPT !.pc = pc, !.loc = row, !.from = from]
    OBVIOUS
  <2>2. /\ x.pc = pc /\ x.loc = row /\ x.from = from /\ x.req = procs[p].req
        /\ x.start = procs[p].start
    BY <1>1, <2>1 DEF Proc
  <2> QED BY <1>5, <2>1, <2>2 DEF Goes
<1> QED BY <1>2, <1>3, <1>4, <1>5

\* A process that goes on with the dates of its copy keeps what it relied on.
LEMMA KeepsOn ==
  ASSUME KeepInv, RowsLast, NEW p \in Procs, procs[p].pc \notin NoCopy, procs[p].pc # "confirmSave",
         NEW x, NEW pc, NEW row, NEW from, Goes(p, x, pc, row, from),
         pc \notin NoCopy, pc \notin {"confirmSave", "mark"}, Dated(row, procs[p].loc),
         row.state \in PastConfirm => procs[p].loc.state \in PastConfirm,
         from = procs[p].from \/ (from = "cancelled" => rows'[procs[p].req].state = "cancelled"),
         row.state = "cancelled" => row.due <= now /\ (pc = "save" => from = "cancelled")
  PROVE  Keeps(x, rows', now)
<1>1. PICK y : y = procs[p]
  OBVIOUS
<1>2. x.pc = pc /\ x.loc = row /\ x.from = from /\ x.req = y.req /\ x.start = y.start
  BY <1>1 DEF Goes
<1>3. Keeps(y, rows', now)
  BY <1>1, KeepsLast
<1>4. Timely(x, now)
  BY <1>1, <1>2, <1>3 DEF Keeps, Timely, NoCopy
<1>5. Copies(x, rows')
  BY <1>1, <1>2, <1>3 DEF Keeps, Copies, Dated
<1>6. Dates(x, now)
  BY <1>2 DEF Dates, NoCopy
<1> QED BY <1>4, <1>5, <1>6 DEF Keeps

\* A process that has read a row keeps its dates.
LEMMA KeepsRead ==
  ASSUME KeepInv, UNCHANGED rows, NEW x, NEW r \in Reqs, x.req = r, Timely(x, now),
         x.pc \notin NoCopy, x.pc # "confirmSave", Dated(x.loc, rows[r]),
         x.loc.state \in PastConfirm => rows[r].state \in PastConfirm,
         x.from = "cancelled" => rows[r].state = "cancelled",
         x.pc = "mark" => x.loc.scope = "account",
         x.loc.state = "cancelled" => x.loc.due <= now /\ (x.pc = "save" => x.from = "cancelled")
  PROVE  Keeps(x, rows', now)
<1>1. Copies(x, rows)
  BY DEF Copies, Dated
<1>2. Copies(x, rows')
  BY <1>1 DEF Copies
<1>3. Dates(x, now)
  BY DEF Dates, NoCopy
<1> QED BY <1>2, <1>3 DEF Keeps

\* Turns that need no more said.
LEMMA TurnReturn ==
  ASSUME KeepInv, now' = now, NEW p \in Procs, RowsMove(p), UsersMove(procs[p]), Return(p),
         faults' # 0 \/ procs[p].pc \notin Locking \/ Leaves(procs[p], Idle)
  PROVE  Turn(p)
<1>1. Idle.pc = "idle"
  BY DEF Idle
<1>2. Enters(procs[p], Idle)
  BY <1>1 DEF Enters, LockTaken, Settles
<1>3. Leaves(procs[p], Idle)
  BY DEF Leaves, Locking, Unlocks
<1> QED BY <1>2, <1>3, KeepsIdle DEF Turn, Return

\* The steps that neither mark, nor hold the block, nor settle.
Calm(x) ==
  /\ x.pc \notin {"mark", "confirmSave", "publishLocked", "erase", "putServices", "publishUnlocked"}
  /\ x.pc = "save" => ~(x.from = "locked" /\ x.loc.state = "purging")
  /\ x.pc = "save" /\ x.loc.state = "cancelled" => x.loc.due # NotDue

LEMMA TurnCalm ==
  ASSUME KeepInv, now' = now, NEW p \in Procs, RowsMove(p), UsersMove(procs[p]),
         NEW x, procs' = [procs EXCEPT ![p] = x], Keeps(x, rows', now), Calm(x),
         faults' # 0 \/ procs[p].pc \notin Locking \/ Leaves(procs[p], x)
  PROVE  Turn(p)
<1>1. Enters(procs[p], x)
  BY DEF Enters, LockTaken, Settles, Calm
<1>2. Leaves(procs[p], x)
  BY DEF Leaves, Locking, Unlocks
<1> QED BY <1>1, <1>2 DEF Turn

LEMMA Faulty ==
  ASSUME KeepInv, Fault
  PROVE  faults' # 0
BY DEF KeepInv, EraseInv, SafeInv, TypeInv, TypeOK, Fault

\* The writes are moves.
LEMMA PutMoves ==
  ASSUME KeepInv, NEW p \in Procs, procs[p].pc \in SaveSteps, Put(p) \/ Unsaved
  PROVE  RowsMove(p)
<1>1. procs[p].pc # "idle" /\ rows \in [Reqs -> Request]
  BY BusyKept DEF SaveSteps
<1>2. \A r \in Reqs : rows'[r] = rows[r] \/ (r = procs[p].req /\ rows'[r] = procs[p].loc /\ rows[r].state = procs[p].from)
  BY <1>1 DEF Put, Unsaved, SaveAllowed
<1> QED BY <1>2 DEF RowsMove, RowMove

LEMMA PutNewMoves ==
  ASSUME KeepInv, NEW p \in Procs, procs[p].pc \in Creating, PutNew(p) \/ Unsaved
  PROVE  RowsMove(p)
<1>1. rows \in [Reqs -> Request] /\ NoRequest.state = "none"
  BY BusyKept DEF NoRequest
<1>2. \A r \in Reqs : rows'[r] = rows[r] \/ (r = procs[p].req /\ rows'[r] = procs[p].loc /\ rows[r].state = "none")
  BY <1>1 DEF PutNew, Unsaved, CreateAllowed
<1> QED BY <1>2 DEF RowsMove, RowMove

LEMMA StillUsers ==
  ASSUME UNCHANGED users, NEW y
  PROVE  UsersMove(y)
BY DEF UsersMove

-----------------------------------------------------------------------------
(* The turns that start an operation *)

Begun(p, x, pc, r, row, from) ==
  procs' = [procs EXCEPT ![p] = x] /\ x.pc = pc /\ x.req = r /\ x.loc = row /\ x.from = from /\ x.start = now

LEMMA BegunBy ==
  ASSUME NEW p \in Procs, NEW op, NEW pc, NEW r, NEW row, NEW from, NEW t, NEW kind
  PROVE  /\ Begin(p, op, pc, r, row, from) => \E x : Begun(p, x, pc, r, row, from)
         /\ Take(p, r, t, pc, row, kind) => \E x : Begun(p, x, pc, r, row, rows[r].state)
<1>1. ASSUME Begin(p, op, pc, r, row, from) PROVE \E x : Begun(p, x, pc, r, row, from)
  <2>1. PICK x : x = [Idle EXCEPT !.op = op, !.pc = pc, !.req = r, !.loc = row, !.from = from,
                                  !.at = now, !.start = now]
    OBVIOUS
  <2>2. x.pc = pc /\ x.req = r /\ x.loc = row /\ x.from = from /\ x.start = now
    BY <2>1 DEF Idle
  <2> QED BY <1>1, <2>1, <2>2 DEF Begin, Begun
<1>2. ASSUME Take(p, r, t, pc, row, kind) PROVE \E x : Begun(p, x, pc, r, row, rows[r].state)
  <2>1. PICK x : x = [Idle EXCEPT !.op = "worker", !.pc = pc, !.req = r, !.loc = row,
                                  !.from = rows[r].state, !.kind = kind, !.at = t, !.start = now]
    OBVIOUS
  <2>2. x.pc = pc /\ x.req = r /\ x.loc = row /\ x.from = rows[r].state /\ x.start = now
    BY <2>1 DEF Idle
  <2> QED BY <1>2, <2>1, <2>2 DEF Take, Begun
<1> QED BY <1>1, <1>2

LEMMA BegunTimely ==
  ASSUME KeepInv, NEW x, x.start = now
  PROVE  Timely(x, now)
BY ProcsAssumption DEF Timely, KeepInv, EraseInv, SafeInv, TypeInv, TypeOK

Still == UNCHANGED <<rows, users, now>>

LEMMA TurnBegun ==
  ASSUME KeepInv, Still, NEW p \in Procs, procs[p].pc = "idle", NEW x, procs' = [procs EXCEPT ![p] = x],
         Keeps(x, rows', now), Calm(x) \/ Enters(procs[p], x)
  PROVE  Turn(p)
<1>1. RowsMove(p) /\ UsersMove(procs[p]) /\ procs[p].pc \notin Locking
  BY StillMoves, StillUsers DEF Still, Locking
<1>2. Leaves(procs[p], x)
  BY DEF Leaves, Unlocks
<1> QED BY <1>1, <1>2, TurnCalm DEF Turn, Still

\* An operation that starts with the row it read, or with that row moved on.
LEMMA TurnRead ==
  ASSUME KeepInv, Still, NEW p \in Procs, procs[p].pc = "idle", NEW x, NEW pc, NEW r \in Reqs, NEW row,
         Begun(p, x, pc, r, row, rows[r].state), pc \notin NoCopy, pc # "confirmSave",
         Dated(row, rows[r]), row.state \in PastConfirm => rows[r].state \in PastConfirm,
         pc = "mark" => row.scope = "account",
         row.state = "cancelled" => row.due <= now /\ (pc = "save" => rows[r].state = "cancelled"),
         Calm(x) \/ Enters(procs[p], x)
  PROVE  Turn(p)
<1>1. Keeps(x, rows', now)
  BY BegunTimely, KeepsRead DEF Begun, Still
<1> QED BY <1>1, TurnBegun DEF Begun

LEMMA OpenRequestTurn ==
  ASSUME KeepInv, NEW p \in Procs, NEW u \in Users, NEW sc \in Scopes, NEW r \in Reqs, OpenRequest(p, u, sc, r)
  PROVE  Turn(p)
<1>1. Still /\ procs[p].pc = "idle"
  BY DEF OpenRequest, Still, Free
<1>2. PICK x : Begun(p, x, "create", r, NewRequest(u, sc, now), "none")
  BY BegunBy DEF OpenRequest
<1>3. x.loc.confirmBy = now + ConfirmWindow
  BY <1>2, NewDated DEF Begun
<1>4. Keeps(x, rows', now)
  BY <1>2, <1>3, BegunTimely DEF Keeps, Begun, Copies, Dates, NoCopy, Creating
<1> QED BY <1>1, <1>2, <1>4, TurnBegun DEF Begun, Calm

LEMMA ConfirmTurn ==
  ASSUME KeepInv, NEW p \in Procs, NEW r \in Reqs, Confirm(p, r)
  PROVE  Turn(p)
<1>1. Still /\ procs[p].pc = "idle" /\ rows[r] \in Request
  BY BusyKept DEF Confirm, Still, Free
<1>2. PICK x, row : row = Confirmed(rows[r], now) /\ Begun(p, x, "confirmSave", r, row, "awaiting_confirmation")
  BY BegunBy DEF Confirm
<1>3. /\ row.confirmBy = rows[r].confirmBy /\ row.scope = rows[r].scope
      /\ row.graceUntil = now + GracePeriod /\ row.state = "pending_deletion"
  <2>1. row = Confirmed(rows[r], now)
    BY <1>2
  <2>2. /\ row.confirmBy = rows[r].confirmBy /\ row.scope = rows[r].scope
        /\ row.graceUntil = now + GracePeriod
    BY <1>1, <2>1, DatedFields
  <2>3. row.state = "pending_deletion"
    BY <1>1, <2>1, CopyFields
  <2> QED BY <2>2, <2>3
<1>4. Copies(x, rows')
  BY <1>1, <1>2, <1>3 DEF Copies, Begun, Still
<1>5. Dates(x, now)
  BY <1>2, <1>3 DEF Dates, Begun, Creating
<1>6. Enters(procs[p], x)
  BY <1>2 DEF Enters, Begun, LockTaken, Settles
<1> QED BY <1>1, <1>2, <1>4, <1>5, <1>6, BegunTimely, TurnBegun DEF Keeps, Begun

LEMMA CancelTurn ==
  ASSUME KeepInv, NEW p \in Procs, NEW r \in Reqs, NEW op, CancelRow(p, op, r)
  PROVE  Turn(p)
<1>1. Still /\ procs[p].pc = "idle" /\ rows[r] \in Request /\ rows[r].state \in {"pending_deletion", "blocked"}
  BY BusyKept DEF CancelRow, Still, Free
<1>2. PICK x, row : row = Cancelled(rows[r], now) /\ Begun(p, x, "cancelSave", r, row, rows[r].state)
  BY BegunBy DEF CancelRow
<1>3. Dated(row, rows[r]) /\ row.due = now /\ rows[r].state \in PastConfirm
  BY <1>1, <1>2, DatedFields DEF PastConfirm, States
<1>4. now <= now
  BY BusyKept
<1> QED BY <1>1, <1>2, <1>3, <1>4, TurnRead DEF Begun, Calm, NoCopy, Creating

LEMMA LateRow ==
  ASSUME KeepInv, NEW r \in Reqs
  PROVE  rows[r] \in Request /\ now \in Nat /\ (rows[r].state = "cancelled" => rows[r].due <= now)
BY DEF KeepInv, LateDue, EraseInv, SafeInv, TypeInv, TypeOK

LEMMA HoldTurn ==
  ASSUME KeepInv, NEW p \in Procs, NEW r \in Reqs, NEW a \in Admins, NEW on \in BOOLEAN, SetLegalHold(p, r, a, on)
  PROVE  Turn(p)
<1>1. Still /\ procs[p].pc = "idle" /\ rows[r] \in Request
  BY LateRow DEF SetLegalHold, Still, Free
<1>2. PICK held, row : /\ held = [rows[r] EXCEPT !.hold = IF on THEN a ELSE Nil]
                       /\ row = held \/ (row = SetDue(held, now) /\ rows[r].state # "cancelled")
                       /\ Begin(p, "hold", "save", r, row, rows[r].state)
  BY DEF SetLegalHold
<1>3. held \in Request /\ Dated(held, rows[r]) /\ held.state = rows[r].state /\ held.due = rows[r].due
  BY <1>1, <1>2, WithHold DEF Dated, Request
<1>4. /\ Dated(row, rows[r]) /\ row.state = rows[r].state
      /\ row.state = "cancelled" => row.due = rows[r].due
  <2>1. CASE row = held
    BY <1>3, <2>1
  <2>2. CASE row = SetDue(held, now) /\ rows[r].state # "cancelled"
    <3>1. Dated(row, held) /\ row.state = held.state
      BY <1>3, <2>2, DatedFields, DueFields
    <3> QED BY <1>3, <2>2, <3>1 DEF Dated
  <2> QED BY <1>2, <2>1, <2>2
<1>5. PICK x : Begun(p, x, "save", r, row, rows[r].state)
  BY <1>2, BegunBy
<1>6. Enters(procs[p], x)
  BY <1>1, <1>4, <1>5 DEF Enters, Begun, LockTaken, Settles, Still
<1>7. PICK pc : pc = "save" /\ pc \notin NoCopy /\ pc \notin {"confirmSave", "mark"}
  BY DEF NoCopy, Creating
<1> QED BY <1>1, <1>4, <1>5, <1>6, <1>7, LateRow, TurnRead

LEMMA RedriveTurn ==
  ASSUME KeepInv, NEW p \in Procs, NEW r \in Reqs, NEW s \in Services, Redrive(p, r, s)
  PROVE  Turn(p)
<1>1. Still /\ procs[p].pc = "idle"
  BY DEF Redrive, Still, Free
<1>2. PICK x : x = [Idle EXCEPT !.op = "redrive", !.pc = "redriveList", !.req = r, !.loc = rows[r],
                                !.from = rows[r].state, !.todo = {s}, !.start = now]
  OBVIOUS
<1>3. Begun(p, x, "redriveList", r, rows[r], rows[r].state)
  BY <1>2 DEF Redrive, Begun, Idle
<1> QED BY <1>1, <1>3, LateRow, TurnRead DEF Begun, Calm, Dated, NoCopy, Creating

LEMMA AckTurn ==
  ASSUME KeepInv, NEW p \in Procs, NEW r \in Reqs, NEW s \in Services, NEW res, Ack(p, r, s, res)
  PROVE  Turn(p)
<1>1. Still /\ procs[p].pc = "idle"
  BY DEF Ack, Still, Free
<1>2. PICK x : x = [Idle EXCEPT !.op = "ack", !.pc = "ackSave", !.req = r, !.todo = {s}, !.start = now,
                                !.sts = [svcs[r] EXCEPT ![s].status = res]]
  OBVIOUS
<1>3. x.pc = "ackSave" /\ x.start = now /\ procs' = [procs EXCEPT ![p] = x]
  BY <1>2 DEF Ack, Idle
<1>4. Keeps(x, rows', now)
  BY <1>3, BegunTimely DEF Keeps, Copies, Dates, NoCopy, Creating
<1> QED BY <1>1, <1>3, <1>4, TurnBegun DEF Calm

\* The worker takes a due request.
LEMMA ProcessDueTurn ==
  ASSUME KeepInv, NEW w \in Procs, NEW r \in Reqs, ProcessDue(w, r)
  PROVE  Turn(w)
<1>1. Still /\ procs[w].pc = "idle"
  BY DEF ProcessDue, Still
<1>2. PICK t \in 0..now :
        \/ rows[r].state = "awaiting_confirmation" /\ StepAwaiting(w, r, t)
        \/ rows[r].state = "cancelled" /\ StepCancelled(w, r, t)
        \/ rows[r].state = "pending_deletion" /\ StepPending(w, r, t)
        \/ rows[r].state = "blocked" /\ StepBlocked(w, r, t)
        \/ rows[r].state = "locked" /\ StepLocked(w, r, t)
        \/ rows[r].state = "purging" /\ StepPurging(w, r, t)
  BY DEF ProcessDue
<1>3. rows[r] \in Request /\ (rows[r].state = "cancelled" => rows[r].due <= now)
  BY LateRow
\* A copy that moved on, to be saved.
<1>4. ASSUME NEW row, NEW kind, Take(w, r, t, "save", row, kind), Dated(row, rows[r]),
             row.state \in PastConfirm => rows[r].state \in PastConfirm, row.state \notin {"cancelled", "purging"}
               \/ (row.state = "purging" /\ rows[r].state = "purging")
      PROVE  Turn(w)
  <2>1. PICK x : Begun(w, x, "save", r, row, rows[r].state)
    BY <1>4, BegunBy
  <2>2. Calm(x)
    BY <1>4, <2>1 DEF Calm, Begun
  <2>3. PICK pc : pc = "save" /\ pc \notin NoCopy /\ pc \notin {"confirmSave", "mark"}
    BY DEF NoCopy, Creating
  <2>4. row.state # "cancelled"
    BY <1>4
  <2> QED BY <1>1, <1>4, <2>1, <2>2, <2>3, <2>4, TurnRead
\* The row as it is.
<1>5. ASSUME NEW pc, NEW kind, Take(w, r, t, pc, rows[r], kind),
             \/ pc = "mark" /\ rows[r].scope = "account" /\ Open(rows[r].state)
             \/ pc \in {"publishLocked", "publishUnlocked"} /\ rows[r].scope # "account"
             \/ pc \in {"clear", "link", "purge", "reconcile"}
      PROVE  Turn(w)
  <2>1. PICK x : Begun(w, x, pc, r, rows[r], rows[r].state)
    BY <1>5, BegunBy
  <2>2. Calm(x) \/ Enters(procs[w], x)
    BY <1>1, <1>5, <2>1 DEF Calm, Enters, Begun, LockTaken, Settles, Still
  <2>3. pc \notin NoCopy /\ pc # "confirmSave" /\ pc # "save"
    BY <1>5 DEF NoCopy, Creating
  <2> QED BY <1>1, <1>3, <1>5, <2>1, <2>2, <2>3, TurnRead DEF Dated
<1>6. ASSUME NEW kind, Take(w, r, t, LockStep(rows[r]), rows[r], kind), Open(rows[r].state) PROVE Turn(w)
  BY <1>5, <1>6 DEF LockStep
<1>7. ASSUME NEW d, Take(w, r, t, "save", SetDue(rows[r], d), Nil), rows[r].state # "cancelled" PROVE Turn(w)
  <2>1. Dated(SetDue(rows[r], d), rows[r]) /\ SetDue(rows[r], d).state = rows[r].state
    BY <1>3, DatedFields, DueFields
  <2> QED BY <1>4, <1>7, <2>1
<1>8. CASE rows[r].state = "awaiting_confirmation" /\ StepAwaiting(w, r, t)
  <2>1. Dated(Expire(rows[r]), rows[r]) /\ Expire(rows[r]).state = "expired"
    BY <1>3, DatedFields, CopyFields
  <2> QED BY <1>4, <1>8, <2>1 DEF StepAwaiting, PastConfirm
<1>9. CASE StepCancelled(w, r, t) \/ StepBlocked(w, r, t)
  BY <1>5, <1>9 DEF StepCancelled, StepBlocked, UnlockStep
<1>10. CASE rows[r].state = "locked" /\ StepLocked(w, r, t)
  BY <1>6, <1>10, StateNames DEF StepLocked, Open
<1>11. CASE rows[r].state = "pending_deletion" /\ StepPending(w, r, t)
  <2>1. Open(rows[r].state) /\ rows[r].state \in PastConfirm
    BY <1>11, StateNames DEF Open, PastConfirm
  <2>2. ASSUME NEW s \in {"blocked", "locked"},
               Take(w, r, t, "save", SetDue([rows[r] EXCEPT !.state = s], t), Nil)
        PROVE  Turn(w)
    <3>1. s \in States
      BY <2>2 DEF States
    <3>2. /\ Dated(SetDue([rows[r] EXCEPT !.state = s], t), rows[r])
          /\ SetDue([rows[r] EXCEPT !.state = s], t).state = s
      BY <1>3, <3>1, MovedDated, MovedFields
    <3> QED BY <1>4, <2>1, <2>2, <3>2
  <2>3. CASE EndGrace(w, r, t)
    BY <1>7, <1>11, <2>2, <2>3 DEF EndGrace
  <2>4. CASE Take(w, r, t, LockStep(rows[r]), rows[r], Nil)
    BY <1>6, <2>1, <2>4
  <2>5. CASE Take(w, r, t, "link", rows[r], "scheduled") \/ Take(w, r, t, "link", rows[r], "reminder")
    BY <1>5, <2>5
  <2> QED BY <1>11, <2>3, <2>4, <2>5 DEF StepPending
<1>12. CASE rows[r].state = "purging" /\ StepPurging(w, r, t)
  BY <1>5, <1>7, <1>12 DEF StepPurging
<1> QED BY <1>2, <1>8, <1>9, <1>10, <1>11, <1>12

-----------------------------------------------------------------------------
(* The turns that open a request *)

LEMMA CreateTurn ==
  ASSUME KeepInv, NEW p \in Procs, Create(p)
  PROVE  Turn(p)
<1>1. /\ procs[p].pc \in Creating /\ procs[p].pc # "idle" /\ procs[p].pc \notin Locking
      /\ now' = now /\ UsersMove(procs[p])
  BY StillUsers DEF Create, Creating, Locking
<1>2. RowsMove(p)
  BY <1>1, PutNewMoves DEF Create
<1>3. PICK y : y = procs[p] /\ Keeps(y, rows, now) /\ Knows(y, rows)
  BY BusyKept
<1>4. /\ Timely(y, now) /\ y.loc.confirmBy = y.start + ConfirmWindow /\ y.from = "none"
      /\ y.loc.state = "awaiting_confirmation"
  BY <1>1, <1>3 DEF Keeps, Dates, Knows
<1>5. CASE PutNew(p) /\ Goto(p, "confirmMail")
  <2>1. PICK x : Goes(p, x, "confirmMail", y.loc, y.from)
    BY <1>3, <1>5, GoesOn
  <2>2. rows'[y.req] = y.loc
    BY <1>1, <1>3, <1>5, PutNewSafe DEF KeepInv, EraseInv
  <2>3. Timely(x, now) /\ Copies(x, rows') /\ Dates(x, now)
    BY <1>1, <1>3, <1>4, <2>1, <2>2 DEF Goes, Timely, Copies, Dates, PastConfirm, Creating
  <2> QED BY <1>1, <1>2, <2>1, <2>3, TurnCalm DEF Goes, Calm, Keeps
<1>6. CASE Goto(p, "expireOpen")
  <2>1. PICK x : Goes(p, x, "expireOpen", y.loc, y.from)
    BY <1>3, <1>6, GoesOn
  <2>2. Timely(x, now) /\ Copies(x, rows') /\ Dates(x, now)
    BY <1>1, <1>3, <1>4, <2>1 DEF Goes, Timely, Copies, Dates, NoCopy, Creating
  <2> QED BY <1>1, <1>2, <2>1, <2>2, TurnCalm DEF Goes, Calm, Keeps
<1>7. CASE Return(p)
  BY <1>1, <1>2, <1>7, TurnReturn
<1> QED BY <1>5, <1>6, <1>7 DEF Create

LEMMA ExpireUnconfirmedTurn ==
  ASSUME KeepInv, NEW p \in Procs, ExpireUnconfirmed(p)
  PROVE  Turn(p)
<1>1. /\ procs[p].pc = "expireOpen" /\ procs[p].pc \in Creating /\ procs[p].pc \notin Locking
      /\ now' = now /\ UsersMove(procs[p])
  BY StillUsers DEF ExpireUnconfirmed, Creating, Locking
<1>2. PICK y : y = procs[p] /\ Keeps(y, rows, now) /\ Knows(y, rows)
  BY BusyKept
<1>3. PICK o : o = marker[y.loc.user]
  OBVIOUS
<1>4. RowsMove(p)
  <2>1. \/ UNCHANGED rows
        \/ /\ o # Nil /\ rows[o].state = "awaiting_confirmation"
           /\ rows' = [rows EXCEPT ![o] = Expire(@)]
    BY <1>2, <1>3 DEF ExpireUnconfirmed, Unsaved
  <2>2. CASE /\ o # Nil /\ rows[o].state = "awaiting_confirmation"
             /\ rows' = [rows EXCEPT ![o] = Expire(@)]
    <3>1. y.loc.user \in Users
      BY <1>1, <1>2 DEF Knows
    <3>2. o \in Reqs /\ rows \in [Reqs -> Request]
      BY <1>3, <2>2, <3>1 DEF KeepInv, EraseInv, SafeInv, TypeInv, TypeOK
    <3>3. PICK row : row = Expire(rows[o])
      OBVIOUS
    <3>4. Dated(row, rows[o]) /\ row.user = rows[o].user /\ row.state = "expired"
      BY <3>2, <3>3, DatedFields, CopyFields
    <3>5. \A r \in Reqs : rows'[r] = rows[r] \/ (r = o /\ rows'[r] = row)
      BY <2>2, <3>2, <3>3
    <3> QED BY <2>2, <3>4, <3>5 DEF RowsMove, RowMove
  <2> QED BY SMTT(20), <2>1, <2>2, StillMoves
<1>5. CASE Goto(p, "createAgain")
  <2>1. PICK x : Goes(p, x, "createAgain", y.loc, y.from)
    BY <1>2, <1>5, GoesOn
  <2>2. Timely(x, now) /\ Copies(x, rows') /\ Dates(x, now)
    BY <1>1, <1>2, <2>1 DEF Goes, Keeps, Timely, Copies, Dates, NoCopy, Creating
  <2> QED BY <1>1, <1>4, <2>1, <2>2, TurnCalm DEF Goes, Calm, Keeps
<1>6. CASE Return(p)
  BY <1>1, <1>4, <1>6, TurnReturn
<1> QED BY <1>5, <1>6 DEF ExpireUnconfirmed

LEMMA SendConfirmTurn ==
  ASSUME KeepInv, NEW p \in Procs, SendConfirm(p)
  PROVE  Turn(p)
<1>1. /\ procs[p].pc = "confirmMail" /\ procs[p].pc \notin Locking \cup NoCopy
      /\ now' = now /\ UsersMove(procs[p]) /\ RowsMove(p)
  BY StillUsers, StillMoves DEF SendConfirm, Locking, NoCopy, Creating
<1>2. CASE procs' = [procs EXCEPT ![p].pc = "save", ![p].loc = Expire(@), ![p].from = "awaiting_confirmation"]
  <2>0. PICK row : row = Expire(procs[p].loc)
    OBVIOUS
  <2>1. Dated(row, procs[p].loc) /\ row.state = "expired"
    BY <2>0, BusyKept, DatedFields, CopyFields
  <2>2. PICK x : Goes(p, x, "save", row, "awaiting_confirmation")
    BY <1>2, <2>0, GoesOn
  <2>3. row.state \notin PastConfirm /\ "save" \notin NoCopy
    BY <2>1 DEF PastConfirm, NoCopy, Creating
  <2>4. Keeps(x, rows', now)
    BY <1>1, <2>1, <2>2, <2>3, MovesLast, KeepsOn
  <2> QED BY <1>1, <2>1, <2>2, <2>4, TurnCalm DEF Goes, Calm
<1>3. CASE Return(p)
  BY <1>1, <1>3, TurnReturn
<1> QED BY <1>2, <1>3 DEF SendConfirm

-----------------------------------------------------------------------------
(* The turns of the lock *)

\* A process that goes on with the copy it has.
LEMMA KeepsSame ==
  ASSUME KeepInv, RowsLast, NEW p \in Procs, procs[p].pc \notin NoCopy, procs[p].pc # "confirmSave",
         NEW x, NEW pc, Goes(p, x, pc, procs[p].loc, procs[p].from),
         pc \notin NoCopy, pc \notin {"confirmSave", "mark", "save"}
  PROVE  Keeps(x, rows', now)
<1>1. Dates(procs[p], now)
  BY BusyKept DEF Keeps
<1>2. procs[p].loc.state = "cancelled" => procs[p].loc.due <= now
  BY <1>1 DEF Dates
<1> QED BY <1>2, KeepsOn DEF Dated

LEMMA SaveConfirmedTurn ==
  ASSUME KeepInv, NEW p \in Procs, SaveConfirmed(p)
  PROVE  Turn(p)
<1>1. /\ procs[p].pc = "confirmSave" /\ procs[p].pc \notin Locking \cup NoCopy /\ procs[p].pc \in SaveSteps
      /\ now' = now /\ UsersMove(procs[p])
  BY StillUsers DEF SaveConfirmed, Locking, NoCopy, Creating, SaveSteps
<1>2. RowsMove(p)
  BY <1>1, PutMoves DEF SaveConfirmed, Saved, StateChanged, SaveFailed
<1>3. CASE /\ Put(p)
           /\ procs' = [procs EXCEPT ![p].pc = LockStep(procs[p].loc), ![p].from = "pending_deletion"]
  <2>1. PICK y : y = procs[p] /\ Keeps(y, rows, now) /\ Plans(y) /\ y.req \in Reqs /\ rows \in [Reqs -> Request]
    BY <1>1, BusyKept
  <2>2. PICK x : Goes(p, x, LockStep(y.loc), y.loc, "pending_deletion")
    BY <1>3, <2>1, GoesOn
  <2>3. rows'[y.req] = y.loc /\ y.loc.state = "pending_deletion"
    BY <1>1, <1>3, <2>1 DEF Put, Plans
  <2>4. /\ x.pc \in {"mark", "publishLocked"} /\ (x.pc = "mark" => x.loc.scope = "account")
        /\ x.loc = y.loc /\ x.from = "pending_deletion" /\ x.req = y.req /\ x.start = y.start
    BY <2>1, <2>2 DEF Goes, LockStep
  <2>5. Timely(x, now) /\ Copies(x, rows') /\ Dates(x, now)
    BY <1>1, <2>1, <2>3, <2>4 DEF Keeps, Timely, Copies, Dates, PastConfirm, States, Creating
  <2>6. Enters(y, x)
    BY <2>3, <2>4, StateNames DEF Enters, LockTaken, Settles, Open
  <2>7. Leaves(y, x)
    BY <1>1, <2>1 DEF Leaves, Unlocks
  <2> QED BY <1>1, <1>2, <2>1, <2>2, <2>5, <2>6, <2>7 DEF Turn, Goes, Keeps
<1>4. CASE Return(p)
  BY <1>1, <1>2, <1>4, TurnReturn
<1> QED BY <1>3, <1>4 DEF SaveConfirmed, Saved

\* What follows applyLock.
LEMMA AfterLockTurn ==
  ASSUME KeepInv, now' = now, NEW p \in Procs, procs[p].pc \in {"mark", "publishLocked", "lockSave"},
         RowsMove(p), UsersMove(procs[p]), AfterLock(p),
         faults' # 0 \/ \A x : Leaves(procs[p], x)
  PROVE  Turn(p)
<1>1. CASE Return(p)
  BY <1>1, TurnReturn
<1>2. CASE procs' = [procs EXCEPT ![p].pc = "link", ![p].kind = "scheduled"]
  <2>1. procs[p] \in Proc /\ procs[p].pc \notin NoCopy /\ procs[p].pc # "confirmSave" /\ "link" \notin NoCopy
    BY BusyKept DEF NoCopy, Creating
  <2>2. PICK x : x = [procs[p] EXCEPT !.pc = "link", !.kind = "scheduled"]
    OBVIOUS
  <2>3. Goes(p, x, "link", procs[p].loc, procs[p].from)
    BY <1>2, <2>1, <2>2 DEF Goes, Proc
  <2>4. Keeps(x, rows', now)
    BY <2>1, <2>3, MovesLast, KeepsSame
  <2> QED BY <2>3, <2>4, TurnCalm DEF Goes, Calm
<1> QED BY <1>1, <1>2 DEF AfterLock

\* The owner of a copy.
LEMMA CopyOwner ==
  ASSUME KeepInv, NEW p \in Procs, procs[p].pc \notin NoCopy
  PROVE  /\ procs[p].req \in Reqs /\ procs[p].loc.user = rows[procs[p].req].user /\ procs[p].loc.user \in Users
         /\ procs[p].loc.scope = rows[procs[p].req].scope /\ rows[procs[p].req].state # "none"
<1>1. procs[p].req \in Reqs
  BY BusyKept DEF NoCopy
<1> QED BY <1>1, BusyKept DEF Knows, Keeps, Copies, KeepInv, EraseInv, SafeInv, Owned

LEMMA MarkTurn ==
  ASSUME KeepInv, NEW p \in Procs, MarkPendingDeletion(p)
  PROVE  Turn(p)
<1>1. /\ procs[p].pc = "mark" /\ procs[p].pc \notin NoCopy /\ procs[p].pc # "confirmSave"
      /\ now' = now /\ RowsMove(p)
  BY StillMoves DEF MarkPendingDeletion, NoCopy, Creating
<1>2. PICK y : y = procs[p] /\ y.loc.user \in Users
  BY <1>1, CopyOwner
<1>3. PICK marked : marked = [users EXCEPT ![y.loc.user].del = "pending", ![y.loc.user].req = y.req]
  OBVIOUS
<1>4. users' \in {users, marked}
  BY <1>2, <1>3 DEF MarkPendingDeletion
<1>5. UsersMove(y)
  BY <1>1, <1>2, <1>3, <1>4, StillUsers DEF UsersMove
<1>6. CASE users' = marked /\ Goto(p, "publishLocked")
  <2>1. PICK x : Goes(p, x, "publishLocked", y.loc, y.from)
    BY <1>2, <1>6, GoesOn
  <2>2. Keeps(x, rows', now)
    BY <1>1, <1>2, <2>1, MovesLast, KeepsSame DEF NoCopy, Creating
  <2>3. users'[y.loc.user].req = y.req /\ users'[y.loc.user].del = "pending"
    BY <1>2, <1>3, <1>6 DEF KeepInv, EraseInv, SafeInv, TypeInv, TypeOK, UserBlock
  <2>4. Enters(y, x)
    BY <1>2, <2>1, <2>3 DEF Enters, Goes, Settles
  <2>5. Leaves(y, x)
    BY <1>1, <1>2, <2>1 DEF Leaves, Goes, Unlocks
  <2> QED BY <1>1, <1>2, <1>5, <2>1, <2>2, <2>4, <2>5 DEF Turn, Goes
<1>7. CASE Fault /\ AfterLock(p)
  BY <1>1, <1>2, <1>5, <1>7, Faulty, AfterLockTurn
<1> QED BY <1>2, <1>3, <1>6, <1>7 DEF MarkPendingDeletion

LEMMA PublishLockedTurn ==
  ASSUME KeepInv, NEW p \in Procs, PublishLocked(p)
  PROVE  Turn(p)
<1>1. /\ procs[p].pc = "publishLocked" /\ procs[p].pc \notin NoCopy /\ procs[p].pc # "confirmSave"
      /\ now' = now /\ RowsMove(p) /\ UsersMove(procs[p])
  BY StillMoves, StillUsers DEF PublishLocked, NoCopy, Creating
<1>2. PICK y : y = procs[p] /\ Keeps(y, rows, now) /\ Knows(y, rows) /\ Plans(y) /\ y.loc \in Request
  BY BusyKept
<1>3. CASE y.from = "locked" /\ Goto(p, "erase")
  <2>1. PICK x : Goes(p, x, "erase", y.loc, y.from)
    BY <1>2, <1>3, GoesOn
  <2>0. PICK pc : pc = "erase" /\ pc \notin NoCopy /\ pc \notin {"confirmSave", "mark", "save"}
    BY DEF NoCopy, Creating
  <2>2. Keeps(x, rows', now)
    BY <1>1, <1>2, <2>1, <2>0, MovesLast, KeepsSame
  <2>3. Enters(y, x)
    BY <1>1, <1>2, <1>3, <2>1 DEF Enters, Goes, LockTaken, Settles
  <2>4. rows[y.req].state # "cancelled"
    BY <1>1, <1>2, <1>3 DEF Knows, Committed
  <2>5. Leaves(y, x)
    BY <1>1, <1>2, <2>4 DEF Leaves
  <2> QED BY <1>1, <1>2, <2>1, <2>2, <2>3, <2>5 DEF Turn, Goes
<1>4. CASE y.from # "locked" /\ Keep(p, "lockSave", LockRecorded(y.loc, now))
  <2>1. PICK row : row = LockRecorded(y.loc, now) /\ Dated(row, y.loc) /\ row.state = y.loc.state
    BY SMTT(20), <1>2, SentDated, SentFields
  <2>2. PICK x : Goes(p, x, "lockSave", row, y.from)
    BY <1>2, <1>4, <2>1, GoesOn
  <2>3. row.state = "pending_deletion"
    BY <1>1, <1>2, <1>4, <2>1 DEF Plans
  <2>0. PICK pc : pc = "lockSave" /\ pc \notin NoCopy /\ pc \notin {"confirmSave", "mark", "save"}
    BY DEF NoCopy, Creating
  <2>4. Keeps(x, rows', now)
    <3>1. row.state # "cancelled" /\ y.loc.state = row.state
      BY <2>1, <2>3
    <3> QED BY <1>1, <1>2, <2>1, <2>2, <2>0, <3>1, MovesLast, KeepsOn
  <2>5. Leaves(y, x) /\ Calm(x)
    BY <1>1, <1>2, <2>2 DEF Leaves, Goes, Unlocks, Calm
  <2> QED BY <1>1, <1>2, <2>2, <2>4, <2>5, TurnCalm DEF Goes
<1>5. CASE Fault /\ AfterLock(p)
  BY <1>1, <1>5, Faulty, AfterLockTurn
<1> QED BY <1>2, <1>3, <1>4, <1>5 DEF PublishLocked

LEMMA SaveLockTurn ==
  ASSUME KeepInv, NEW p \in Procs, SaveLock(p)
  PROVE  Turn(p)
<1>1. /\ procs[p].pc = "lockSave" /\ procs[p].pc \notin NoCopy /\ procs[p].pc # "confirmSave"
      /\ procs[p].pc \in SaveSteps /\ now' = now /\ UsersMove(procs[p])
  BY StillUsers DEF SaveLock, NoCopy, Creating, SaveSteps
<1>2. RowsMove(p)
  BY <1>1, PutMoves DEF SaveLock, Saved, StateChanged, SaveFailed
<1>3. CASE Saved(p) /\ AfterLock(p)
  <2>1. rows[procs[p].req].state = "pending_deletion"
    BY <1>1, <1>3, BusyKept DEF Saved, Put, SaveAllowed, Plans
  <2>2. \A x : Leaves(procs[p], x)
    BY <1>1, <2>1 DEF Leaves
  <2> QED BY <1>1, <1>2, <1>3, <2>2, AfterLockTurn
<1>4. CASE SaveFailed(p) /\ AfterLock(p)
  BY <1>1, <1>2, <1>4, Faulty, AfterLockTurn DEF SaveFailed
<1>5. CASE Goto(p, "recheck")
  <2>1. PICK x : Goes(p, x, "recheck", procs[p].loc, procs[p].from)
    BY <1>5, GoesOn
  <2>2. Keeps(x, rows', now)
    BY <1>1, <1>2, <2>1, MovesLast, KeepsSame DEF NoCopy, Creating
  <2>3. Leaves(procs[p], x) /\ Calm(x)
    BY <1>1, <2>1 DEF Leaves, Goes, Unlocks, Calm
  <2> QED BY <1>1, <1>2, <2>1, <2>2, <2>3, TurnCalm DEF Goes
<1> QED BY <1>3, <1>4, <1>5 DEF SaveLock

LEMMA RecheckTurn ==
  ASSUME KeepInv, NEW p \in Procs, Recheck(p)
  PROVE  Turn(p)
<1>1. /\ procs[p].pc = "recheck" /\ procs[p].pc \notin NoCopy /\ procs[p].pc # "idle"
      /\ now' = now /\ RowsMove(p) /\ UsersMove(procs[p]) /\ UNCHANGED rows
  BY StillMoves, StillUsers DEF Recheck, NoCopy, Creating
<1>2. PICK y : /\ y = procs[p] /\ Keeps(y, rows, now) /\ y \in Proc /\ y.req \in Reqs
               /\ y.loc.scope = rows[y.req].scope
  BY <1>1, BusyKept, CopyOwner
<1>3. CASE Fault /\ Return(p)
  BY <1>1, <1>3, Faulty, TurnReturn
<1>4. CASE rows[y.req].state # "cancelled" /\ Return(p)
  <2>1. Leaves(y, Idle)
    BY <1>1, <1>2, <1>4 DEF Leaves
  <2> QED BY <1>1, <1>2, <1>4, <2>1, TurnReturn
<1>5. CASE /\ rows[y.req].state = "cancelled"
           /\ procs' = [procs EXCEPT ![p].op = "undoLock", ![p].pc = UnlockStep(rows[y.req]),
                                     ![p].loc = rows[y.req], ![p].from = "cancelled"]
  <2>1. PICK x : x = [procs[p] EXCEPT !.op = "undoLock", !.pc = UnlockStep(rows[y.req]),
                                      !.loc = rows[y.req], !.from = "cancelled"]
    OBVIOUS
  <2>2. /\ x.pc = UnlockStep(rows[y.req]) /\ x.loc = rows[y.req] /\ x.from = "cancelled"
        /\ x.req = y.req /\ x.start = y.start /\ procs' = [procs EXCEPT ![p] = x]
    BY <1>2, <1>5, <2>1 DEF Proc
  <2>3. x.pc = "clear" \/ (x.pc = "publishUnlocked" /\ x.loc.scope # "account")
    BY <2>2 DEF UnlockStep
  <2>4. Timely(x, now)
    BY <1>1, <1>2, <2>2 DEF Keeps, Timely
  <2>5. Keeps(x, rows', now)
    BY <1>1, <1>2, <1>5, <2>2, <2>3, <2>4, LateRow, KeepsRead DEF Dated, NoCopy, Creating
  <2>6. Enters(y, x)
    BY <2>3 DEF Enters, LockTaken, Settles
  <2>7. Leaves(y, x)
    BY <1>1, <1>2, <2>2, <2>3 DEF Leaves, Unlocks
  <2> QED BY <1>1, <1>2, <2>2, <2>5, <2>6, <2>7 DEF Turn
<1> QED BY <1>2, <1>3, <1>4, <1>5 DEF Recheck

-----------------------------------------------------------------------------
(* The turns of the cancel link and of Cancel *)

\* A process that goes on, after a step that leaves the rows alone and is not of the lock.
LEMMA TurnOn ==
  ASSUME KeepInv, UNCHANGED <<rows, now>>, NEW p \in Procs, UsersMove(procs[p]),
         procs[p].pc \notin NoCopy, procs[p].pc \notin Locking, procs[p].pc # "confirmSave",
         NEW x, NEW pc, NEW row, Goes(p, x, pc, row, procs[p].from),
         pc \notin NoCopy, pc \notin {"confirmSave", "mark"}, Dated(row, procs[p].loc),
         row.state \in PastConfirm => procs[p].loc.state \in PastConfirm,
         row.state = "cancelled" => row.due <= now /\ (pc = "save" => procs[p].from = "cancelled"),
         Calm(x) \/ Enters(procs[p], x)
  PROVE  Turn(p)
<1>1. RowsMove(p)
  BY StillMoves
<1>2. Keeps(x, rows', now)
  BY <1>1, MovesLast, KeepsOn
<1>3. Leaves(procs[p], x)
  BY SMTT(20) DEF Leaves, Locking, Unlocks
<1> QED BY <1>1, <1>2, <1>3, TurnCalm DEF Turn, Goes

LEMMA StoreLinkTurn ==
  ASSUME KeepInv, NEW p \in Procs, StoreLink(p)
  PROVE  Turn(p)
<1>1. /\ procs[p].pc = "link" /\ procs[p].pc \notin NoCopy /\ procs[p].pc # "confirmSave"
      /\ procs[p].pc \notin Locking /\ now' = now /\ UsersMove(procs[p])
  BY StillUsers DEF StoreLink, NoCopy, Creating, Locking
<1>2. PICK y : /\ y = procs[p] /\ Keeps(y, rows, now) /\ Plans(y) /\ y \in Proc /\ y.loc \in Request
               /\ y.req \in Reqs /\ y.loc.user = rows[y.req].user /\ rows \in [Reqs -> Request]
  BY <1>1, BusyKept, CopyOwner
<1>3. y.loc.state \in {"pending_deletion", "blocked"} /\ y.loc.state \in PastConfirm
  BY <1>1, <1>2 DEF Plans, PastConfirm, States
<1>4. PICK k : k = linksMade[y.req] + 1
  OBVIOUS
<1>5. PICK row : row = [y.loc EXCEPT !.links = y.loc.links \cup {k}]
  OBVIOUS
<1>6. Dated(row, y.loc) /\ row.state = y.loc.state /\ row.user = y.loc.user
  BY <1>2, <1>5 DEF Request, Dated
<1>7. RowsMove(p)
  <2>1. UNCHANGED rows \/ (rows[y.req].state = y.loc.state /\ rows' = [rows EXCEPT ![y.req] = row])
    BY <1>2, <1>4, <1>5 DEF StoreLink
  <2>2. CASE rows[y.req].state = y.loc.state /\ rows' = [rows EXCEPT ![y.req] = row]
    <3>1. Dated(y.loc, rows[y.req])
      BY <1>1, <1>2, <1>3 DEF Keeps, Copies, Dated
    <3>2. Dated(row, rows[y.req]) /\ row.user = rows[y.req].user
      BY <1>2, <1>6, <3>1 DEF Dated
    <3>3. \A r \in Reqs : rows'[r] = rows[r] \/ (r = y.req /\ rows'[r] = row)
      BY <1>2, <2>2
    <3> QED BY <1>3, <1>6, <2>2, <3>2, <3>3 DEF RowsMove, RowMove
  <2> QED BY <2>1, <2>2, StillMoves
<1>8. CASE procs' = [procs EXCEPT ![p].pc = "linkMail", ![p].loc = row, ![p].link = k, ![p].from = row.state]
  <2>1. PICK x : x = [procs[p] EXCEPT !.pc = "linkMail", !.loc = row, !.link = k, !.from = row.state]
    OBVIOUS
  <2>2. Goes(p, x, "linkMail", row, row.state)
    BY <1>2, <1>8, <2>1 DEF Goes, Proc
  <2>3. PICK pc : pc = "linkMail" /\ pc \notin NoCopy /\ pc \notin {"confirmSave", "mark"}
    BY DEF NoCopy, Creating
  <2>4. row.state # "cancelled" /\ row.state = procs[p].loc.state
    BY <1>2, <1>3, <1>6
  <2>5. Keeps(x, rows', now)
    BY <1>1, <1>2, <1>6, <1>7, <2>2, <2>3, <2>4, MovesLast, KeepsOn
  <2> QED BY <1>1, <1>7, <2>2, <2>5, TurnCalm DEF Goes, Calm
<1>9. CASE Return(p)
  BY <1>1, <1>7, <1>9, TurnReturn
<1> QED BY <1>2, <1>4, <1>5, <1>8, <1>9 DEF StoreLink

LEMMA SendLinkTurn ==
  ASSUME KeepInv, NEW p \in Procs, SendLink(p)
  PROVE  Turn(p)
<1>1. /\ procs[p].pc = "linkMail" /\ procs[p].pc \notin NoCopy /\ procs[p].pc # "confirmSave"
      /\ procs[p].pc \notin Locking /\ UNCHANGED <<rows, now>> /\ UsersMove(procs[p]) /\ RowsMove(p)
  BY StillUsers, StillMoves DEF SendLink, NoCopy, Creating, Locking
<1>2. PICK y : y = procs[p] /\ Plans(y) /\ y.loc \in Request
  BY BusyKept
<1>3. CASE Keep(p, "save", LinkSent(y.loc, y.kind, now))
  <2>1. PICK row : row = LinkSent(y.loc, y.kind, now)
    OBVIOUS
  <2>2. Dated(row, y.loc) /\ row.state = y.loc.state /\ row.state \in {"pending_deletion", "blocked"}
    BY SMTT(20), <1>1, <1>2, <2>1, SentDated, SentFields DEF Plans
  <2>3. PICK x : Goes(p, x, "save", row, y.from)
    BY <1>2, <1>3, <2>1, GoesOn
  <2>4. Calm(x)
    BY <2>2, <2>3 DEF Calm, Goes
  <2>5. PICK pc : pc = "save" /\ pc \notin NoCopy /\ pc \notin {"confirmSave", "mark"}
    BY DEF NoCopy, Creating
  <2>6. row.state # "cancelled"
    BY <2>2
  <2> QED BY <1>1, <1>2, <2>2, <2>3, <2>4, <2>5, <2>6, TurnOn
<1>4. CASE Return(p)
  BY <1>1, <1>4, TurnReturn
<1> QED BY <1>2, <1>3, <1>4 DEF SendLink

LEMMA SaveCancelledTurn ==
  ASSUME KeepInv, NEW p \in Procs, SaveCancelled(p)
  PROVE  Turn(p)
<1>1. /\ procs[p].pc = "cancelSave" /\ procs[p].pc \notin NoCopy /\ procs[p].pc \in SaveSteps
      /\ now' = now /\ UsersMove(procs[p])
  BY StillUsers DEF SaveCancelled, NoCopy, Creating, SaveSteps
<1>2. RowsMove(p)
  BY <1>1, PutMoves DEF SaveCancelled, Saved, StateChanged, SaveFailed
<1>3. PICK y : y = procs[p] /\ Keeps(y, rows, now) /\ Plans(y) /\ y.req \in Reqs /\ rows \in [Reqs -> Request]
  BY <1>1, BusyKept
<1>4. CASE Put(p) /\ procs' = [procs EXCEPT ![p].pc = UnlockStep(procs[p].loc), ![p].from = "cancelled"]
  <2>1. PICK x : Goes(p, x, UnlockStep(y.loc), y.loc, "cancelled")
    BY <1>3, <1>4, GoesOn
  <2>2. rows'[y.req] = y.loc /\ y.loc.state = "cancelled"
    BY <1>1, <1>3, <1>4 DEF Put, Plans
  <2>3. /\ x.pc = "clear" \/ (x.pc = "publishUnlocked" /\ x.loc.scope # "account")
        /\ y.loc.scope = "account" => x.pc = "clear"
        /\ x.loc = y.loc /\ x.from = "cancelled" /\ x.req = y.req /\ x.start = y.start
    BY <1>3, <2>1 DEF Goes, UnlockStep
  <2>4. Timely(x, now) /\ Copies(x, rows') /\ Dates(x, now)
    BY <1>1, <1>3, <2>2, <2>3 DEF Keeps, Timely, Copies, Dates, PastConfirm, States, Creating
  <2>5. Enters(y, x)
    BY <2>3 DEF Enters, LockTaken, Settles
  <2>6. Leaves(y, x)
    BY <1>1, <1>3, <2>3 DEF Leaves, Unlocks
  <2> QED BY <1>1, <1>2, <1>3, <2>1, <2>4, <2>5, <2>6 DEF Turn, Goes, Keeps
<1>5. CASE (StateChanged(p) \/ SaveFailed(p)) /\ Return(p)
  <2>1. faults' # 0 \/ UNCHANGED rows
    BY <1>5, Faulty DEF StateChanged, SaveFailed, Unsaved
  <2>2. Leaves(procs[p], Idle)
    BY <1>1, <2>1 DEF Leaves, Unlocks
  <2> QED BY <1>1, <1>2, <1>5, <2>2, TurnReturn
<1> QED BY <1>4, <1>5 DEF SaveCancelled, Saved

LEMMA UnlockFailedTurn ==
  ASSUME KeepInv, NEW p \in Procs, UNCHANGED <<rows, now>>, UsersMove(procs[p]), faults' # 0,
         procs[p].pc \in {"clear", "publishUnlocked"}, UnlockFailed(p)
  PROVE  Turn(p)
<1>1. procs[p].pc \notin NoCopy /\ procs[p].pc # "confirmSave" /\ RowsMove(p)
  BY StillMoves DEF NoCopy, Creating
<1>2. PICK y : y = procs[p] /\ Plans(y) /\ y.loc \in Request /\ now \in Nat
  BY BusyKept
<1>3. CASE Keep(p, "save", SetDue(y.loc, now))
  <2>1. PICK row : row = SetDue(y.loc, now)
    OBVIOUS
  <2>2. Dated(row, y.loc) /\ row.state = y.loc.state /\ row.due = now /\ now <= now /\ y.from = "cancelled"
    <3>1. Dated(row, y.loc) /\ row.due = now
      BY <1>2, <2>1, DatedFields
    <3>2. row.state = y.loc.state
      BY <1>2, <2>1, DueFields
    <3>3. y.from = "cancelled"
      BY SMTT(20), <1>2 DEF Plans
    <3> QED BY <1>2, <3>1, <3>2, <3>3
  <2>3. PICK x : Goes(p, x, "save", row, y.from)
    BY <1>2, <1>3, <2>1, GoesOn
  <2>4. PICK pc : pc = "save" /\ pc \notin NoCopy /\ pc \notin {"confirmSave", "mark"}
    BY DEF NoCopy, Creating
  <2>5. Keeps(x, rows', now)
    BY <1>1, <1>2, <2>2, <2>3, <2>4, MovesLast, KeepsOn
  <2>6. Calm(x)
    BY <1>2, <2>2, <2>3 DEF Calm, Goes, NotDue
  <2> QED BY <1>1, <2>3, <2>5, <2>6, TurnCalm DEF Goes
<1>4. CASE Return(p)
  BY <1>1, <1>4, TurnReturn
<1> QED BY <1>2, <1>3, <1>4 DEF UnlockFailed

LEMMA ClearTurn ==
  ASSUME KeepInv, NEW p \in Procs, ClearPendingDeletion(p)
  PROVE  Turn(p)
<1>1. /\ procs[p].pc = "clear" /\ procs[p].pc \notin NoCopy /\ procs[p].pc # "confirmSave"
      /\ UNCHANGED <<rows, now>> /\ RowsMove(p)
  BY StillMoves DEF ClearPendingDeletion, NoCopy, Creating
<1>2. PICK y : y = procs[p] /\ Plans(y) /\ y.loc.user \in Users /\ y.req \in Reqs
  BY <1>1, BusyKept, CopyOwner
<1>3. PICK cleared : cleared = IF users[y.loc.user].req = y.req
                               THEN [users EXCEPT ![y.loc.user].del = "none", ![y.loc.user].req = Nil] ELSE users
  OBVIOUS
<1>4. users' \in {users, cleared}
  BY <1>2, <1>3 DEF ClearPendingDeletion
<1>5. UsersMove(y)
  BY <1>1, <1>2, <1>3, <1>4, StillUsers DEF UsersMove
<1>6. CASE users' = cleared /\ Goto(p, "publishUnlocked")
  <2>1. PICK x : Goes(p, x, "publishUnlocked", y.loc, y.from)
    BY <1>2, <1>6, GoesOn
  <2>2. PICK pc : pc = "publishUnlocked" /\ pc \notin NoCopy /\ pc \notin {"confirmSave", "mark", "save"}
    BY DEF NoCopy, Creating
  <2>3. Keeps(x, rows', now)
    BY <1>1, <1>2, <2>1, <2>2, MovesLast, KeepsSame
  <2>4. users'[y.loc.user].req # y.req
    BY <1>2, <1>3, <1>6, SetsAssumption DEF KeepInv, EraseInv, SafeInv, TypeInv, TypeOK, UserBlock
  <2>5. Enters(y, x)
    BY <1>1, <1>2, <2>1, <2>4 DEF Enters, Goes, LockTaken, Plans
  <2>6. Leaves(y, x)
    BY <1>1, <2>4, <1>2 DEF Leaves
  <2> QED BY <1>1, <1>2, <1>5, <2>1, <2>3, <2>5, <2>6 DEF Turn, Goes
<1>7. CASE Fault /\ UnlockFailed(p)
  BY <1>1, <1>2, <1>5, <1>7, Faulty, UnlockFailedTurn
<1> QED BY <1>2, <1>3, <1>6, <1>7 DEF ClearPendingDeletion

LEMMA PublishUnlockedTurn ==
  ASSUME KeepInv, NEW p \in Procs, PublishUnlocked(p)
  PROVE  Turn(p)
<1>1. /\ procs[p].pc = "publishUnlocked" /\ procs[p].pc \notin NoCopy /\ procs[p].pc # "confirmSave"
      /\ procs[p].pc \notin Locking /\ UNCHANGED <<rows, now>> /\ RowsMove(p) /\ UsersMove(procs[p])
  BY StillMoves, StillUsers DEF PublishUnlocked, NoCopy, Creating, Locking
<1>2. PICK y : y = procs[p] /\ Plans(y) /\ y.loc \in Request /\ now \in Nat
  BY BusyKept
<1>3. CASE Return(p)
  BY <1>1, <1>3, TurnReturn
<1>4. CASE Keep(p, "save", ClearDue(y.loc))
  <2>1. PICK row : row = ClearDue(y.loc)
    OBVIOUS
  <2>2. Dated(row, y.loc) /\ row.state = y.loc.state /\ row.due <= now /\ y.from = "cancelled"
    <3>1. Dated(row, y.loc) /\ row.due = NotDue
      BY <1>2, <2>1, DatedFields
    <3>2. row.state = y.loc.state
      BY <1>2, <2>1, CopyFields
    <3>3. y.from = "cancelled"
      BY SMTT(20), <1>1, <1>2 DEF Plans
    <3> QED BY <1>2, <3>1, <3>2, <3>3 DEF NotDue
  <2>3. PICK x : Goes(p, x, "save", row, y.from)
    BY <1>2, <1>4, <2>1, GoesOn
  <2>4. PICK pc : pc = "save" /\ pc \notin NoCopy /\ pc \notin {"confirmSave", "mark"}
    BY DEF NoCopy, Creating
  <2>5. Enters(y, x)
    BY <1>1, <1>2, <2>2, <2>3 DEF Enters, Goes, LockTaken, Settles
  <2> QED BY <1>1, <1>2, <2>2, <2>3, <2>4, <2>5, TurnOn
<1>5. CASE Fault /\ UnlockFailed(p)
  BY <1>1, <1>5, Faulty, UnlockFailedTurn
<1> QED BY <1>2, <1>3, <1>4, <1>5 DEF PublishUnlocked

-----------------------------------------------------------------------------
(* The turns of the erasure, of the answers and of support *)

Saga == {"erase", "putServices", "reconcile", "redispatch", "bump", "purge", "redriveList", "redriveSave"}

LEMMA SagaTurn ==
  ASSUME KeepInv, UNCHANGED <<rows, now>>, NEW p \in Procs, UsersMove(procs[p]), procs[p].pc \in Saga
  PROVE  /\ Return(p) => Turn(p)
         /\ \A x, pc :
              /\ Goes(p, x, pc, procs[p].loc, procs[p].from)
              /\ pc \in {"redispatch", "bump", "purge", "redriveSave"} \/ (pc = "putServices" /\ procs[p].pc = "erase")
              => Turn(p)
         /\ \A row :
              /\ Keep(p, "save", row) /\ Dated(row, procs[p].loc)
              /\ row.state \in {"purging", "stalled", "purged"} /\ procs[p].loc.state \in PastConfirm
              /\ procs[p].from = "locked" => procs[p].pc = "putServices"
              => Turn(p)
<1>1. PICK y : y = procs[p] /\ Plans(y) /\ Keeps(y, rows, now)
  BY BusyKept
<1>2. y.pc \notin NoCopy /\ y.pc # "confirmSave" /\ y.pc \notin Locking /\ RowsMove(p)
  BY <1>1, StillMoves DEF Saga, NoCopy, Creating, Locking
<1>3. y.loc.state = "cancelled" => y.loc.due <= now
  BY <1>1, <1>2 DEF Keeps, Dates
<1>4. ASSUME Return(p) PROVE Turn(p)
  BY <1>1, <1>2, <1>4, TurnReturn
<1>5. ASSUME NEW x, NEW pc, Goes(p, x, pc, y.loc, y.from),
             pc \in {"redispatch", "bump", "purge", "redriveSave"} \/ (pc = "putServices" /\ y.pc = "erase")
      PROVE  Turn(p)
  <2>1. pc \notin NoCopy /\ pc \notin {"confirmSave", "mark", "save", "publishUnlocked"}
    BY <1>5 DEF NoCopy, Creating
  <2>2. Calm(x) \/ Enters(y, x)
    <3>1. CASE pc = "putServices"
      <4>1. LockTaken(y) /\ y.req = x.req /\ x.pc = pc
        BY <1>1, <1>5, <3>1 DEF Plans, LockTaken, Goes
      <4> QED BY <3>1, <4>1 DEF Enters, Settles
    <3>2. CASE pc # "putServices"
      BY <1>5, <3>2 DEF Calm, Goes
    <3> QED BY <3>1, <3>2
  <2> QED BY <1>1, <1>2, <1>3, <1>5, <2>1, <2>2, TurnOn DEF Dated
<1>6. ASSUME NEW row, Keep(p, "save", row), Dated(row, y.loc), y.loc.state \in PastConfirm,
             row.state \in {"purging", "stalled", "purged"}, y.from = "locked" => y.pc = "putServices"
      PROVE  Turn(p)
  <2>1. PICK x : Goes(p, x, "save", row, y.from)
    BY <1>1, <1>6, GoesOn
  <2>2. Calm(x) \/ Enters(y, x)
    <3>1. CASE y.from = "locked"
      <4>1. LockTaken(y) /\ y.req = x.req /\ x.pc = "save" /\ x.loc.state # "cancelled"
        BY <1>1, <1>6, <2>1, <3>1 DEF LockTaken, Goes
      <4> QED BY <4>1 DEF Enters, Settles
    <3>2. CASE y.from # "locked"
      BY <1>6, <2>1, <3>2 DEF Calm, Goes
    <3> QED BY <3>1, <3>2
  <2>3. PICK pc : pc = "save" /\ pc \notin NoCopy /\ pc \notin {"confirmSave", "mark"}
    BY DEF NoCopy, Creating
  <2>4. row.state # "cancelled"
    BY <1>6
  <2> QED BY SMTT(20), <1>1, <1>2, <1>6, <2>1, <2>2, <2>3, <2>4, TurnOn
<1> QED BY <1>1, <1>4, <1>5, <1>6

\* The copy of an erase under way, moved on.
LEMMA MovedCopy ==
  ASSUME KeepInv, NEW p \in Procs, NEW s \in States, NEW d
  PROVE  /\ Dated(SetDue([procs[p].loc EXCEPT !.state = s], d), procs[p].loc)
         /\ Dated(ClearDue([procs[p].loc EXCEPT !.state = s]), procs[p].loc)
         /\ SetDue([procs[p].loc EXCEPT !.state = s], d).state = s
         /\ ClearDue([procs[p].loc EXCEPT !.state = s]).state = s
<1>1. PICK a \in Request : a = procs[p].loc
  BY BusyKept
<1>2. Dated(SetDue([a EXCEPT !.state = s], d), a) /\ Dated(ClearDue([a EXCEPT !.state = s]), a)
  BY MovedDated
<1>3. SetDue([a EXCEPT !.state = s], d).state = s /\ ClearDue([a EXCEPT !.state = s]).state = s
  BY MovedFields
<1> QED BY <1>1, <1>2, <1>3

LEMMA ErasingNames ==
  {"locked", "purging", "stalled", "purged"} \subseteq PastConfirm /\ PastConfirm \subseteq States
BY DEF PastConfirm, States

LEMMA OrderTurn ==
  ASSUME KeepInv, NEW p \in Procs, PublishErase(p) \/ Redispatch(p) \/ PutServices(p)
  PROVE  Turn(p)
<1>1. procs[p].pc \in Saga /\ UNCHANGED <<rows, now>> /\ UsersMove(procs[p])
  BY StillUsers DEF PublishErase, Redispatch, PutServices, Saga
<1>2. CASE PublishErase(p)
  <2>1. CASE Goto(p, "putServices")
    BY <1>1, <1>2, <2>1, GoesOn, SagaTurn DEF PublishErase
  <2>2. CASE Return(p)
    BY <1>1, <2>2, SagaTurn
  <2> QED BY SMTT(20), <1>2, <2>1, <2>2 DEF PublishErase
<1>3. CASE Redispatch(p)
  <2>1. CASE Goto(p, "bump")
    BY <1>1, <2>1, GoesOn, SagaTurn
  <2>2. CASE Return(p)
    BY SMTT(20), <1>1, <2>2, SagaTurn
  <2> QED BY SMTT(20), <1>3, <2>1, <2>2 DEF Redispatch
<1>4. CASE PutServices(p)
  <2>1. CASE Keep(p, "save", SetDue([procs[p].loc EXCEPT !.state = "purging"], procs[p].at))
    <3>1. procs[p].pc = "putServices" /\ procs[p].loc.state = "locked"
      BY <1>4, BusyKept DEF PutServices, Plans
    <3>2. PICK row : row = SetDue([procs[p].loc EXCEPT !.state = "purging"], procs[p].at)
      OBVIOUS
    <3>3. Dated(row, procs[p].loc) /\ row.state = "purging"
      BY <3>2, MovedCopy, ErasingNames
    <3> QED BY SMTT(20), <1>1, <2>1, <3>1, <3>2, <3>3, ErasingNames, SagaTurn
  <2>2. CASE Return(p)
    BY <1>1, <2>2, SagaTurn
  <2> QED BY <1>4, <2>1, <2>2 DEF PutServices
<1> QED BY <1>2, <1>3, <1>4

\* An erase under way is saved.
LEMMA SagaSave ==
  ASSUME KeepInv, UNCHANGED <<rows, now>>, NEW p \in Procs, UsersMove(procs[p]),
         procs[p].pc \in {"reconcile", "bump", "purge"}
  PROVE  /\ \A d : Keep(p, "save", SetDue(procs[p].loc, d)) => Turn(p)
         /\ \A s \in {"stalled", "purged"} :
              Keep(p, "save", ClearDue([procs[p].loc EXCEPT !.state = s])) => Turn(p)
<1>1. /\ procs[p].pc \in Saga /\ procs[p].loc.state = "purging" /\ procs[p].loc.state \in PastConfirm
      /\ procs[p].from = "purging" /\ procs[p].loc \in Request
  BY BusyKept, ErasingNames DEF Plans, Saga
<1>2. ASSUME NEW d, Keep(p, "save", SetDue(procs[p].loc, d)) PROVE Turn(p)
  <2>1. PICK row : row = SetDue(procs[p].loc, d)
    OBVIOUS
  <2>2. Dated(row, procs[p].loc) /\ row.state = "purging"
    BY <1>1, <2>1, DatedFields, DueFields
  <2> QED BY <1>1, <1>2, <2>1, <2>2, SagaTurn
<1>3. ASSUME NEW s \in {"stalled", "purged"}, Keep(p, "save", ClearDue([procs[p].loc EXCEPT !.state = s]))
      PROVE  Turn(p)
  <2>1. PICK row : row = ClearDue([procs[p].loc EXCEPT !.state = s])
    OBVIOUS
  <2>2. Dated(row, procs[p].loc) /\ row.state = s
    BY <1>3, <2>1, MovedCopy, ErasingNames
  <2> QED BY <1>1, <1>3, <2>1, <2>2, SagaTurn
<1> QED BY <1>2, <1>3

LEMMA ReconcileTurn ==
  ASSUME KeepInv, NEW p \in Procs, Reconcile(p)
  PROVE  Turn(p)
<1>1. /\ procs[p].pc = "reconcile" /\ procs[p].pc \in Saga /\ UNCHANGED <<rows, now>>
      /\ UsersMove(procs[p])
  BY SMTT(20), StillUsers DEF Reconcile, Saga
<1>2. PICK sts, t, todo :
        \/ Keep(p, "save", ClearDue([procs[p].loc EXCEPT !.state = "stalled"]))
        \/ Goto(p, "purge")
        \/ procs' = [procs EXCEPT ![p].pc = "redispatch", ![p].sts = sts, ![p].todo = todo]
        \/ Keep(p, "save", SetDue(procs[p].loc, t))
        \/ Return(p)
  BY DEF Reconcile
<1>3. CASE Keep(p, "save", ClearDue([procs[p].loc EXCEPT !.state = "stalled"])) \/ Keep(p, "save", SetDue(procs[p].loc, t))
  BY <1>1, <1>3, SagaSave
<1>4. CASE Goto(p, "purge")
  BY <1>1, <1>4, GoesOn, SagaTurn
<1>5. CASE procs' = [procs EXCEPT ![p].pc = "redispatch", ![p].sts = sts, ![p].todo = todo]
  <2>1. PICK x : x = [procs[p] EXCEPT !.pc = "redispatch", !.sts = sts, !.todo = todo]
    OBVIOUS
  <2>2. procs[p] \in Proc
    BY BusyKept
  <2>3. Goes(p, x, "redispatch", procs[p].loc, procs[p].from)
    BY <1>5, <2>1, <2>2 DEF Goes, Proc
  <2> QED BY <1>1, <2>3, SagaTurn
<1>6. CASE Return(p)
  BY <1>1, <1>6, SagaTurn
<1> QED BY SMTT(20), <1>2, <1>3, <1>4, <1>5, <1>6

LEMMA BumpServiceTurn ==
  ASSUME KeepInv, NEW p \in Procs, BumpService(p)
  PROVE  Turn(p)
<1>1. /\ procs[p].pc = "bump" /\ procs[p].pc \in Saga /\ UNCHANGED <<rows, now>>
      /\ UsersMove(procs[p])
  BY StillUsers DEF BumpService, Saga
<1>2. PICK todo, t :
        \/ procs' = [procs EXCEPT ![p].todo = todo]
        \/ Keep(p, "save", SetDue(procs[p].loc, t))
        \/ Return(p)
  BY DEF BumpService
<1>3. CASE procs' = [procs EXCEPT ![p].todo = todo]
  <2>1. PICK x : x = [procs[p] EXCEPT !.todo = todo]
    OBVIOUS
  <2>2. procs[p] \in Proc
    BY BusyKept
  <2>3. Goes(p, x, "bump", procs[p].loc, procs[p].from)
    BY <1>1, <1>3, <2>1, <2>2 DEF Goes, Proc
  <2> QED BY <1>1, <2>3, SagaTurn
<1>4. CASE Keep(p, "save", SetDue(procs[p].loc, t))
  BY <1>1, <1>4, SagaSave
<1>5. CASE Return(p)
  BY <1>1, <1>5, SagaTurn
<1> QED BY <1>2, <1>3, <1>4, <1>5

LEMMA PurgeTurn ==
  ASSUME KeepInv, NEW p \in Procs, Purge(p)
  PROVE  Turn(p)
<1>1. procs[p].pc = "purge" /\ procs[p].pc \in Saga /\ UNCHANGED <<rows, now>>
  BY DEF Purge, Saga
<1>2. UsersMove(procs[p])
  <2>1. PICK u, out :
          \/ UNCHANGED users
          \/ users' = [users EXCEPT ![u].del = "purged", ![u].unlinked = {}]
          \/ users' = [users EXCEPT ![u].unlinked = out]
    BY DEF Purge
  <2>2. users \in [Users -> UserBlock]
    BY DEF KeepInv, EraseInv, SafeInv, TypeInv, TypeOK
  <2>3. \A w \in Users : users'[w].req = users[w].req /\ (users[w].del # "none" => users'[w].del # "none")
    BY <2>1, <2>2 DEF UserBlock
  <2> QED BY SMTT(20), <2>3 DEF UsersMove
<1>3. CASE Keep(p, "save", ClearDue([procs[p].loc EXCEPT !.state = "purged"]))
  BY <1>1, <1>2, <1>3, SagaSave
<1>4. CASE Return(p)
  BY <1>1, <1>2, <1>4, SagaTurn
<1> QED BY SMTT(20), <1>3, <1>4 DEF Purge

LEMMA SaveAckTurn ==
  ASSUME KeepInv, NEW p \in Procs, SaveAck(p)
  PROVE  Turn(p)
<1>1. /\ procs[p].pc = "ackSave" /\ procs[p].pc \notin Locking /\ UNCHANGED <<rows, now>>
      /\ UsersMove(procs[p]) /\ RowsMove(p)
  BY StillUsers, StillMoves DEF SaveAck, Locking
<1>2. CASE Goto(p, "ackGet")
  <2>1. PICK x : Goes(p, x, "ackGet", procs[p].loc, procs[p].from)
    BY <1>2, GoesOn
  <2>2. Timely(procs[p], now)
    BY BusyKept DEF Keeps
  <2>3. Timely(x, now) /\ Copies(x, rows') /\ Dates(x, now)
    BY <1>1, <2>1, <2>2 DEF Goes, Timely, Copies, Dates, NoCopy, Creating
  <2> QED BY <1>1, <2>1, <2>3, TurnCalm DEF Goes, Calm, Keeps
<1>3. CASE Return(p)
  BY <1>1, <1>3, TurnReturn
<1> QED BY <1>2, <1>3 DEF SaveAck

LEMMA AckGetTurn ==
  ASSUME KeepInv, NEW p \in Procs, AckGet(p)
  PROVE  Turn(p)
<1>1. /\ procs[p].pc = "ackGet" /\ procs[p].pc \notin Locking /\ UNCHANGED <<rows, now>>
      /\ UsersMove(procs[p]) /\ RowsMove(p) /\ procs[p].req \in Reqs
  BY StillUsers, StillMoves, BusyKept DEF AckGet, Locking
<1>2. PICK y : y = procs[p] /\ Timely(y, now)
  BY BusyKept DEF Keeps
<1>3. PICK row : row = SetDue(rows[y.req], now)
  OBVIOUS
<1>4. CASE rows[y.req].state = "purging" /\ procs' = [procs EXCEPT ![p].pc = "save", ![p].loc = row, ![p].from = "purging"]
  <2>1. PICK x : Goes(p, x, "save", row, "purging")
    BY <1>4, GoesOn
  <2>2. Dated(row, rows[y.req]) /\ row.state = "purging"
    BY <1>1, <1>2, <1>3, <1>4, LateRow, DatedFields, DueFields
  <2>3. Timely(x, now) /\ x.pc = "save" /\ x.from = "purging" /\ x.loc = row /\ x.req = y.req
    BY <1>1, <1>2, <2>1 DEF Goes, Timely
  <2>4. x.pc \notin NoCopy
    BY <2>3 DEF NoCopy, Creating
  <2>5. Keeps(x, rows', now)
    BY <1>1, <1>2, <1>4, <2>2, <2>3, <2>4, KeepsRead, ErasingNames
  <2> QED BY <1>1, <2>1, <2>2, <2>3, <2>5, TurnCalm DEF Goes, Calm
<1>5. CASE Return(p)
  BY <1>1, <1>5, TurnReturn
<1> QED BY <1>2, <1>3, <1>4, <1>5 DEF AckGet

LEMMA RedriveStepTurn ==
  ASSUME KeepInv, NEW p \in Procs, RedriveList(p) \/ RedriveSave(p)
  PROVE  Turn(p)
<1>1. /\ procs[p].pc \in {"redriveList", "redriveSave"} /\ procs[p].pc \in Saga /\ UNCHANGED <<rows, now>>
      /\ UsersMove(procs[p])
  BY SMTT(20), StillUsers DEF RedriveList, RedriveSave, Saga
<1>2. CASE Goto(p, "redriveSave")
  BY <1>1, <1>2, GoesOn, SagaTurn
<1>3. CASE Return(p)
  BY <1>1, <1>3, SagaTurn
<1>4. CASE procs[p].from = "stalled" /\ Keep(p, "save", SetDue([procs[p].loc EXCEPT !.state = "purging"], now))
  <2>1. procs[p].loc.state = "stalled"
    BY <1>1, <1>4, BusyKept DEF Plans
  <2>2. PICK row : row = SetDue([procs[p].loc EXCEPT !.state = "purging"], now)
    OBVIOUS
  <2>3. Dated(row, procs[p].loc) /\ row.state = "purging"
    BY <2>2, MovedCopy, ErasingNames
  <2> QED BY <1>1, <1>4, <2>1, <2>2, <2>3, ErasingNames, SagaTurn
<1> QED BY <1>2, <1>3, <1>4 DEF RedriveList, RedriveSave, RedriveResume

LEMMA SaveTurn ==
  ASSUME KeepInv, NEW p \in Procs, Save(p)
  PROVE  Turn(p)
<1>1. /\ procs[p].pc = "save" /\ procs[p].pc \notin Locking /\ procs[p].pc \in SaveSteps /\ now' = now
      /\ UsersMove(procs[p]) /\ (Put(p) \/ Unsaved) /\ Return(p)
  BY StillUsers DEF Save, Saved, StateChanged, SaveFailed, Locking, SaveSteps
<1> QED BY <1>1, PutMoves, TurnReturn

LEMMA CrashTurn ==
  ASSUME KeepInv, NEW p \in Procs, Crash(p)
  PROVE  Turn(p)
BY StillMoves, StillUsers, Faulty, TurnReturn DEF Crash

-----------------------------------------------------------------------------
(* The times are kept *)

\* A step is a turn of a process, a tick of the clock, or changes none of this.
Pause ==
  /\ UNCHANGED <<rows, users, procs>> /\ now <= now' /\ now' \in Nat
  /\ now' = now \/ (faults' = faults /\ \A p \in Procs : procs[p].pc # "idle" => now' <= procs[p].start + OpSpan)

LEMMA NextTurn ==
  ASSUME KeepInv, [Next]_vars
  PROVE  Pause \/ \E p \in Procs : Turn(p)
<1>1. ASSUME NEW p \in Procs, Start(p) PROVE Turn(p)
  BY <1>1, OpenRequestTurn, ConfirmTurn, CancelTurn, ProcessDueTurn, AckTurn, HoldTurn, RedriveTurn
     DEF Start, Cancel, SupportCancel
<1>2. ASSUME NEW p \in Procs, Continue(p) PROVE Turn(p)
  BY <1>2, CreateTurn, ExpireUnconfirmedTurn, SendConfirmTurn, SaveConfirmedTurn, MarkTurn, PublishLockedTurn,
     SaveLockTurn, RecheckTurn, StoreLinkTurn, SendLinkTurn, SaveCancelledTurn, ClearTurn, PublishUnlockedTurn,
     OrderTurn, ReconcileTurn, BumpServiceTurn, PurgeTurn, SaveAckTurn, AckGetTurn, RedriveStepTurn, SaveTurn
     DEF Continue
<1>3. CASE Tick
  <2>1. UNCHANGED <<rows, users, procs>> /\ now' = now + 1 /\ now \in Nat /\ faults' = faults
    BY <1>3 DEF Tick, KeepInv, EraseInv, SafeInv, TypeInv, TypeOK
  <2>2. ASSUME NEW p \in Procs, procs[p].pc # "idle" PROVE now' <= procs[p].start + OpSpan
    <3>1. now - procs[p].start < OpSpan /\ procs[p].start \in Nat
      BY <1>3, <2>2, BusyKept DEF Tick
    <3> QED BY <2>1, <3>1, ProcsAssumption
  <2> QED BY <2>1, <2>2 DEF Pause
<1>4. CASE UNCHANGED vars
  BY <1>4 DEF vars, Pause, KeepInv, EraseInv, SafeInv, TypeInv, TypeOK
<1> QED BY <1>1, <1>2, <1>3, <1>4, CrashTurn DEF Next

LEMMA PauseKept ==
  ASSUME KeepInv, Pause
  PROVE  (Kept /\ LateDue /\ OwnBlock)'
<1>1. UNCHANGED <<rows, users, procs>> /\ now <= now' /\ now \in Nat /\ now' \in Nat
  BY DEF Pause, KeepInv, EraseInv, SafeInv, TypeInv, TypeOK
<1>2. ASSUME NEW p \in Procs PROVE Keeps(procs[p], rows, now')
  <2>1. PICK x : x = procs[p] /\ Keeps(x, rows, now) /\ x.start \in Nat /\ x.loc.due \in Int
    BY BusyKept DEF Request
  <2>2. Timely(x, now')
    BY <1>1, <2>1, ProcsAssumption DEF Pause, Keeps, Timely
  <2>3. Dates(x, now')
    BY <1>1, <2>1 DEF Keeps, Dates
  <2> QED BY <2>1, <2>2, <2>3 DEF Keeps
<1>3. Kept'
  BY <1>1, <1>2 DEF Kept, Keeps, Timely, Copies, Dates
<1>4. LateDue'
  <2>1. ASSUME NEW r \in Reqs, rows[r].state = "cancelled" PROVE rows[r].due <= now'
    <3>1. rows[r].due \in Int /\ rows[r].due <= now
      BY <2>1, LateRow DEF Request
    <3> QED BY <1>1, <3>1
  <2> QED BY <1>1, <2>1 DEF LateDue
<1>5. OwnBlock'
  BY <1>1 DEF OwnBlock, KeepInv
<1> QED BY <1>3, <1>4, <1>5

\* A cancelled row was due before it was cancelled, or its copy was.
LEMMA TurnLate ==
  ASSUME KeepInv, NEW p \in Procs, RowsMove(p), NEW r \in Reqs, rows'[r].state = "cancelled"
  PROVE  rows'[r].due <= now
<1>1. PICK y : y = procs[p] /\ Keeps(y, rows, now) /\ Knows(y, rows)
  BY BusyKept
<1>2. CASE rows'[r] = rows[r]
  BY <1>2, LateRow
<1>3. CASE y.pc \in Creating /\ rows'[r] = y.loc
  BY <1>1, <1>3 DEF Knows
<1>4. CASE y.pc \in SaveSteps /\ rows'[r] = y.loc
  <2>1. y.pc \notin NoCopy
    BY <1>4 DEF SaveSteps, NoCopy, Creating
  <2> QED BY <1>1, <1>4, <2>1 DEF Keeps, Dates
<1> QED BY <1>1, <1>2, <1>3, <1>4 DEF RowsMove, RowMove

LEMMA TurnOwn ==
  ASSUME KeepInv, NEW p \in Procs, RowsMove(p), UsersMove(procs[p])
  PROVE  OwnBlock'
<1>1. PICK y : y = procs[p] /\ Keeps(y, rows, now)
  BY BusyKept
<1>2. users \in [Users -> UserBlock] /\ Nil \notin Reqs
  BY SMTT(20), SetsAssumption DEF KeepInv, EraseInv, SafeInv, TypeInv, TypeOK
<1>3. \A u \in Users : \/ users'[u].req = users[u].req
                       \/ y.pc = "mark" /\ users'[u].req = y.req /\ u = y.loc.user
                       \/ users'[u].req \notin Reqs
  BY <1>1, <1>2 DEF UsersMove, UserBlock
<1>4. ASSUME NEW u \in Users, NEW r \in Reqs, users'[u].req = r
      PROVE  rows[r].state # "none" /\ rows[r].user = u /\ rows[r].scope = "account"
  <2>1. CASE users[u].req = r
    BY <2>1 DEF KeepInv, OwnBlock
  <2>2. CASE y.pc = "mark" /\ r = y.req /\ u = y.loc.user
    BY <1>1, <2>2, CopyOwner DEF NoCopy, Creating, Keeps, Dates
  <2> QED BY <1>3, <1>4, <2>1, <2>2
<1>5. RowsLast
  BY MovesLast
<1> QED BY <1>4, <1>5 DEF OwnBlock, RowsLast, Lasts

LEMMA TurnKept ==
  ASSUME KeepInv, NEW p \in Procs, Turn(p)
  PROVE  (Kept /\ LateDue /\ OwnBlock)'
<1>1. PICK x : procs' = [procs EXCEPT ![p] = x] /\ Keeps(x, rows', now)
  BY DEF Turn
<1>2. now' = now /\ RowsMove(p) /\ UsersMove(procs[p]) /\ RowsLast /\ procs \in [Procs -> Proc]
  BY MovesLast DEF Turn, KeepInv, EraseInv, SafeInv, TypeInv, TypeOK
<1>3. ASSUME NEW q \in Procs PROVE Keeps(procs'[q], rows', now')
  BY <1>1, <1>2, KeepsLast
<1>4. Kept'
  BY <1>3 DEF Kept, Keeps, Timely, Copies, Dates
<1>5. LateDue'
  BY <1>2, TurnLate DEF LateDue
<1> QED BY <1>2, <1>4, <1>5, TurnOwn

LEMMA KeepNext ==
  ASSUME KeepInv, [Next]_vars
  PROVE  KeepInv'
BY NextTurn, PauseKept, TurnKept, EraseNext DEF KeepInv

LEMMA KeepInit == Init => KeepInv
<1> SUFFICES ASSUME Init PROVE KeepInv
  OBVIOUS
<1>1. Kept
  BY KeepsIdle DEF Init, Kept
<1>2. LateDue /\ OwnBlock
  BY SetsAssumption DEF Init, LateDue, OwnBlock, NoRequest
<1> QED BY <1>1, <1>2, EraseInit DEF KeepInv

-----------------------------------------------------------------------------
(* The block of an erase under way *)

\* The states between the confirmation and the end of a request.
Underway == {"pending_deletion", "blocked", "locked", "purging", "stalled"}

ConfirmedAt(r) == rows[r].graceUntil - GracePeriod

Superseded(r) == \E q \in Reqs : OpenedSince(q, r)

\* A lock about to take the block is not later than the confirmation of any other
\* request of that person, except of a purged one it came after.
Marks ==
  \A p \in Procs, r \in Reqs :
    procs[p].pc = "mark" /\ procs[p].req # r /\ procs[p].loc.user = rows[r].user =>
      /\ rows[r].state = "awaiting_confirmation" =>
           \A c \in Procs : procs[c].pc = "confirmSave" /\ procs[c].req = r => procs[p].start <= procs[c].start
      /\ rows[r].state \in Underway => procs[p].start <= ConfirmedAt(r)
      /\ rows[r].state = "purged" => procs[p].start <= ConfirmedAt(r) \/ OpenedSince(procs[p].req, r)

\* A request open beside a purged one came after it.
Newer ==
  \A q \in Reqs, r \in Reqs :
    rows[r].state = "purged" /\ q # r /\ Open(rows[q].state) /\ rows[q].user = rows[r].user => OpenedSince(q, r)

Blocks ==
  \A r \in Reqs : rows[r].scope = "account" =>
    /\ rows[r].state \in {"purging", "stalled"} => HasBlock(r)
    /\ rows[r].state = "purged" => HasBlock(r) \/ Superseded(r)
    /\ rows[r].state = "locked" /\ (\E p \in Procs : procs[p].req = r /\ LockTaken(procs[p])) => HasBlock(r)

\* The inductive invariant.
BlockInv == KeepInv /\ Marks /\ Newer /\ Blocks

\* No request is opened by a step that closes one, and a confirmation dates from
\* the start of its operation.
LEMMA MoveEdge ==
  ASSUME KeepInv, NEW p \in Procs, NEW r \in Reqs, RowMove(procs[p], r)
  PROVE  \/ rows'[r].state = rows[r].state
         \/ rows[r].state = "none" /\ rows'[r].state = "awaiting_confirmation"
         \/ <<rows[r].state, rows'[r].state>> \in Lifecycle!Edges
<1>1. PICK y : y = procs[p] /\ Knows(y, rows)
  BY BusyKept
<1>2. CASE y.pc \in Creating /\ rows[r].state = "none" /\ rows'[r] = y.loc
  BY <1>1, <1>2 DEF Knows
<1>3. CASE y.pc \in SaveSteps /\ rows[r].state = y.from /\ rows'[r] = y.loc
  BY <1>1, <1>3, SaveMove DEF KeepInv, EraseInv
<1>4. CASE \/ rows[r].state = "awaiting_confirmation" /\ rows'[r].state = "expired"
           \/ rows'[r].state = rows[r].state
  BY <1>4 DEF Lifecycle!Edges
<1> QED BY <1>1, <1>2, <1>3, <1>4 DEF RowMove

LEMMA ConfirmMove ==
  ASSUME KeepInv, NEW p \in Procs, NEW r \in Reqs, RowMove(procs[p], r),
         rows[r].state = "awaiting_confirmation", rows'[r].state = "pending_deletion"
  PROVE  procs[p].pc = "confirmSave" /\ procs[p].req = r /\ rows'[r].graceUntil = procs[p].start + GracePeriod
<1>1. PICK y : y = procs[p] /\ Keeps(y, rows, now)
  BY BusyKept
<1>2. y.pc \in SaveSteps /\ y.req = r /\ rows'[r] = y.loc
  BY <1>1 DEF RowMove
<1>3. y.pc \notin NoCopy
  BY <1>2 DEF SaveSteps, NoCopy, Creating
<1>4. rows[r].state \notin PastConfirm /\ "pending_deletion" \in PastConfirm
  BY DEF PastConfirm, States
<1>5. y.pc = "confirmSave"
  BY <1>1, <1>2, <1>3, <1>4 DEF Keeps, Copies
<1> QED BY <1>1, <1>2, <1>5 DEF Keeps, Dates

LEMMA CreateMove ==
  ASSUME KeepInv, NEW p \in Procs, NEW r \in Reqs, RowMove(procs[p], r),
         rows[r].state = "none", rows'[r].state # "none"
  PROVE  /\ procs[p].pc \in Creating /\ procs[p].req = r
         /\ rows'[r].confirmBy = procs[p].start + ConfirmWindow
         /\ now <= procs[p].start + OpSpan
<1>1. PICK y : y = procs[p] /\ Keeps(y, rows, now)
  BY BusyKept
<1>2. y.pc \in SaveSteps => y.from # "none"
  BY <1>1, SaveMove, StateNames DEF KeepInv, EraseInv
<1>3. y.pc \in Creating /\ y.req = r /\ rows'[r] = y.loc
  BY <1>1, <1>2 DEF RowMove
<1>4. y.pc # "idle"
  BY <1>3 DEF Creating
<1> QED BY <1>1, <1>3, <1>4 DEF Keeps, Dates, Timely

LEMMA PurgeMove ==
  ASSUME KeepInv, NEW p \in Procs, NEW r \in Reqs, RowMove(procs[p], r),
         rows[r].state # "purged", rows'[r].state = "purged"
  PROVE  procs[p].pc \in SaveSteps /\ rows[r].state = "purging"
<1>1. procs[p].pc \in Creating => procs[p].loc.state # "purged"
  BY BusyKept DEF Knows
<1>2. procs[p].pc \in SaveSteps
  BY <1>1 DEF RowMove
<1>3. rows[r].state = "purging"
  BY MoveEdge DEF Lifecycle!Edges
<1> QED BY <1>2, <1>3

\* Requests opened after the confirmation of another stay so.
LEMMA SinceLasts ==
  ASSUME RowsLast, NEW q \in Reqs, NEW r \in Reqs, OpenedSince(q, r), rows[r].state \in PastConfirm
  PROVE  OpenedSince(q, r)'
<1>1. Lasts(rows[q], rows'[q]) /\ Lasts(rows[r], rows'[r]) /\ rows[r].state # "none"
  BY DEF RowsLast, PastConfirm, States
<1> QED BY <1>1 DEF OpenedSince, Lasts

LEMMA UnderwayNames ==
  /\ Underway \subseteq PastConfirm /\ "purged" \in PastConfirm
  /\ \A s \in Underway : Open(s) /\ s # "none"
  /\ Open("awaiting_confirmation") /\ ~Open("none") /\ ~Open("purged") /\ ~Open("cancelled") /\ ~Open("expired")
BY DEF Underway, PastConfirm, Open, States

\* Committed requests are past their grace period.
LEMMA PastGrace ==
  ASSUME KeepInv, NEW r \in Reqs, rows[r].state \in Committed
  PROVE  rows[r].graceUntil <= now /\ rows[r].graceUntil \in Nat /\ now \in Nat
<1>1. rows[r] \in Request /\ now \in Nat
  BY LateRow
<1>2. SoundTimes(rows[r], now)
  BY EveryRow DEF KeepInv
<1> QED BY <1>1, <1>2 DEF SoundTimes, Request

\* A request opens beside a purged one after its grace period: later than its
\* confirmation, since no operation lasts a grace period.
LEMMA NewerStep ==
  ASSUME BlockInv, KeepInv', OpSpan < GracePeriod, NEW p \in Procs, Turn(p)
  PROVE  Newer'
<1> SUFFICES ASSUME NEW q \in Reqs, NEW r \in Reqs, rows'[r].state = "purged", q # r,
                    Open(rows'[q].state), rows'[q].user = rows'[r].user
             PROVE  OpenedSince(q, r)'
  BY DEF Newer
<1>1. KeepInv /\ RowsMove(p) /\ RowsLast /\ now' = now
  BY MovesLast DEF BlockInv, Turn
<1>2. RowMove(procs[p], r) /\ RowMove(procs[p], q) /\ Lasts(rows[r], rows'[r]) /\ Lasts(rows[q], rows'[q])
  BY <1>1 DEF RowsMove, RowsLast
<1>3. rows[r].state \in {"purging", "purged"} /\ rows[r].state \in PastConfirm /\ rows[r].state # "none"
  BY <1>1, <1>2, PurgeMove, UnderwayNames DEF Underway
<1>4. rows'[r].user = rows[r].user /\ rows'[r].graceUntil = rows[r].graceUntil
  BY <1>2, <1>3 DEF Lasts
<1>5. Open(rows[q].state) \/ rows[q].state = "none"
  BY <1>1, <1>2, MoveEdge, EdgeFacts
<1>6. CASE Open(rows[q].state)
  <2>1. rows[q].user = rows[r].user
    BY <1>2, <1>4, <1>6, UnderwayNames DEF Lasts
  <2>2. rows[r].state = "purged"
    <3>1. rows[q].user \in Users
      BY <1>1, <1>6, UnderwayNames DEF KeepInv, EraseInv, SafeInv, Owned
    <3>2. Open(rows[r].state) => marker[rows[q].user] = q /\ marker[rows[q].user] = r
      BY <1>1, <1>6, <2>1, <3>1 DEF KeepInv, EraseInv, SafeInv, MarkerIffOpen
    <3> QED BY <1>3, <3>2, UnderwayNames DEF Underway
  <2> QED BY <1>1, <1>3, <1>6, <2>1, <2>2, SinceLasts DEF BlockInv, Newer
<1>7. CASE rows[q].state = "none"
  <2>1. rows'[q].state # "none"
    BY UnderwayNames
  <2>2. /\ procs[p].pc \in Creating /\ rows'[q].confirmBy = procs[p].start + ConfirmWindow
        /\ now <= procs[p].start + OpSpan /\ procs[p].start \in Nat
    BY <1>1, <1>2, <1>7, <2>1, CreateMove, BusyKept
  <2>3. procs[p].pc \notin SaveSteps
    BY <2>2 DEF Creating, SaveSteps
  <2>4. rows[r].state = "purged" /\ rows[r].state \in Committed
    BY <1>1, <1>2, <2>3, PurgeMove DEF Committed
  <2>5. rows[r].graceUntil <= now /\ rows[r].graceUntil \in Nat /\ now \in Nat
    BY <1>1, <2>4, PastGrace
  <2>6. rows'[q].confirmBy - ConfirmWindow > rows'[r].graceUntil - GracePeriod
    <3>1. ConfirmWindow \in Nat /\ GracePeriod \in Nat /\ OpSpan \in Nat
      BY TimesAssumption, ProcsAssumption
    <3>2. PICK b \in Nat, g \in Nat : b = procs[p].start /\ g = rows[r].graceUntil
      BY <2>2, <2>5
    <3>3. g <= now /\ now <= b + OpSpan
      BY <2>2, <2>5, <3>2
    <3>4. (b + ConfirmWindow) - ConfirmWindow > g - GracePeriod
      BY <2>5, <3>1, <3>3
    <3> QED BY <1>4, <2>2, <3>2, <3>4
  <2> QED BY <2>1, <2>6 DEF OpenedSince
<1> QED BY <1>5, <1>6, <1>7

\* A lock does not reach the user's row later than the confirmation of another request.
LEMMA MarksStep ==
  ASSUME BlockInv, KeepInv', Newer', NEW p \in Procs, Turn(p)
  PROVE  Marks'
<1> SUFFICES ASSUME NEW m \in Procs, NEW r \in Reqs, NEW z, z = procs'[m],
                    z.pc = "mark", z.req # r, z.loc.user = rows'[r].user
             PROVE  /\ rows'[r].state = "awaiting_confirmation" =>
                         \A c \in Procs : procs'[c].pc = "confirmSave" /\ procs'[c].req = r => z.start <= procs'[c].start
                    /\ rows'[r].state \in Underway => z.start <= ConfirmedAt(r)'
                    /\ rows'[r].state = "purged" => z.start <= ConfirmedAt(r)' \/ OpenedSince(z.req, r)'
  BY DEF Marks, ConfirmedAt, OpenedSince
<1>1. KeepInv /\ RowsMove(p) /\ RowsLast /\ now' = now /\ procs \in [Procs -> Proc]
  BY MovesLast DEF BlockInv, Turn, KeepInv, EraseInv, SafeInv, TypeInv, TypeOK
<1>2. PICK x : procs' = [procs EXCEPT ![p] = x] /\ Enters(procs[p], x)
  BY DEF Turn
<1>3. RowMove(procs[p], r) /\ Lasts(rows[r], rows'[r])
  BY <1>1 DEF RowsMove, RowsLast
\* The lock is about to start: no other request of the person is open.
<1>4. CASE m = p
  <2>1. z = x /\ Open(rows'[z.req].state)
    BY <1>1, <1>2, <1>4 DEF Enters
  <2>2. z.req \in Reqs /\ z.loc.user = rows'[z.req].user /\ rows'[z.req].user \in Users
    <3>1. z.req \in Reqs
      BY DEF KeepInv, EraseInv, SafeInv, TypeInv, Busy
    <3>2. rows'[z.req].state # "none" /\ z.loc.user = rows'[z.req].user
      BY DEF KeepInv, EraseInv, SafeInv, SafeProcs, Knows, NoCopy, Creating
    <3> QED BY <3>1, <3>2 DEF KeepInv, EraseInv, SafeInv, Owned
  <2>3. Open(rows'[r].state) => marker'[z.loc.user] = z.req /\ marker'[z.loc.user] = r
    BY <2>1, <2>2 DEF KeepInv, EraseInv, SafeInv, MarkerIffOpen
  <2>4. ~Open(rows'[r].state)
    BY <2>3
  <2>5. rows'[r].state = "purged" => OpenedSince(z.req, r)'
    BY <2>1, <2>2 DEF Newer
  <2> QED BY <2>4, <2>5, UnderwayNames
\* The lock was there before.
<1>5. CASE m # p
  <2>1. z = procs[m] /\ Keeps(z, rows, now) /\ z.start \in Nat /\ z.req \in Reqs /\ z.start <= now
    BY <1>1, <1>2, <1>5, BusyKept DEF Keeps, Timely
  <2>2. ASSUME rows[r].state # "none" PROVE rows[r].user = z.loc.user
    BY <1>3, <2>2 DEF Lasts
  <2>3. ASSUME rows'[r].state = "awaiting_confirmation",
               NEW c \in Procs, procs'[c].pc = "confirmSave", procs'[c].req = r
        PROVE  z.start <= procs'[c].start
    <3>1. CASE c = p
      BY <1>1, <1>2, <2>1, <2>3, <3>1 DEF Enters
    <3>2. CASE c # p
      <4>1. procs'[c] = procs[c] /\ Knows(procs[c], rows)
        BY <1>1, <1>2, <3>2, BusyKept
      <4>2. rows[r].state # "none"
        BY <2>3, <4>1 DEF Knows, NoCopy, Creating
      <4>3. rows[r].state = "awaiting_confirmation"
        BY <1>1, <1>3, <2>3, <4>2, MoveEdge DEF Lifecycle!Edges
      <4> QED BY <2>1, <2>2, <2>3, <4>1, <4>2, <4>3 DEF BlockInv, Marks
    <3> QED BY <3>1, <3>2
  <2>4. ASSUME rows'[r].state \in Underway PROVE z.start <= ConfirmedAt(r)'
    <3>1. CASE rows[r].state \in Underway
      <4>1. z.start <= ConfirmedAt(r)
        BY <2>1, <2>2, <3>1, UnderwayNames DEF BlockInv, Marks
      <4>2. rows'[r].graceUntil = rows[r].graceUntil
        BY <1>3, <3>1, UnderwayNames DEF Lasts
      <4> QED BY <4>1, <4>2 DEF ConfirmedAt
    <3>2. CASE rows[r].state \notin Underway
      <4>1. rows[r].state = "awaiting_confirmation" /\ rows'[r].state = "pending_deletion"
        BY <1>1, <1>3, <2>4, <3>2, MoveEdge DEF Lifecycle!Edges, Underway
      <4>2. procs[p].pc = "confirmSave" /\ procs[p].req = r /\ rows'[r].graceUntil = procs[p].start + GracePeriod
        BY <1>1, <1>3, <4>1, ConfirmMove
      <4>3. z.start <= procs[p].start
        BY <2>1, <2>2, <4>1, <4>2 DEF BlockInv, Marks
      <4>4. (procs[p].start + GracePeriod) - GracePeriod = procs[p].start
        BY <1>1, BusyKept, TimesAssumption
      <4> QED BY <4>2, <4>3, <4>4 DEF ConfirmedAt
    <3> QED BY <3>1, <3>2
  <2>5. ASSUME rows'[r].state = "purged" PROVE z.start <= ConfirmedAt(r)' \/ OpenedSince(z.req, r)'
    <3>1. rows[r].state \in {"purging", "purged"}
      BY <1>1, <1>3, <2>5, PurgeMove
    <3>2. rows[r].state \in PastConfirm /\ rows[r].state # "none"
      BY <3>1, UnderwayNames DEF Underway
    <3>3. rows'[r].graceUntil = rows[r].graceUntil
      BY <1>3, <3>2 DEF Lasts
    <3>4. z.start <= ConfirmedAt(r) \/ OpenedSince(z.req, r)
      BY SMTT(20), <2>1, <2>2, <3>1, <3>2 DEF BlockInv, Marks, Underway
    <3> QED BY <1>1, <2>1, <3>2, <3>3, <3>4, SinceLasts DEF ConfirmedAt
  <2> QED BY <2>3, <2>4, <2>5
<1> QED BY <1>4, <1>5

\* Neither a lock nor an unlock of another request takes the block of an erase
\* that is committed, while the other is not newer than it.
LEMMA BlockKept ==
  ASSUME BlockInv, OpSpan < GracePeriod, NEW p \in Procs, Turn(p), NEW r \in Reqs,
         rows[r].state \in Committed, HasBlock(r)
  PROVE  HasBlock(r)' \/ (rows[r].state = "purged" /\ Superseded(r))
<1>1. KeepInv /\ RowsMove(p) /\ RowsLast /\ UsersMove(procs[p]) /\ users \in [Users -> UserBlock]
  BY MovesLast DEF BlockInv, Turn, KeepInv, EraseInv, SafeInv, TypeInv, TypeOK
<1>2. PICK y : y = procs[p] /\ Keeps(y, rows, now) /\ Plans(y) /\ y.start \in Nat
  BY <1>1, BusyKept
<1>3. PICK u \in Users : u = rows[r].user /\ u = rows'[r].user
  BY <1>1 DEF KeepInv, EraseInv, SafeInv, Owned, RowsLast, Lasts, Committed
<1>4. users[u].req = r /\ users[u].del # "none"
  BY <1>3 DEF HasBlock
<1>5. CASE users'[u].req = r /\ users'[u].del # "none"
  BY <1>3, <1>5 DEF HasBlock
<1>6. CASE y.pc = "clear" /\ users[y.loc.user].req = y.req
           /\ users' = [users EXCEPT ![y.loc.user].del = "none", ![y.loc.user].req = Nil]
  <2>1. y.loc.user # u
    <3>1. rows[y.req].state = "cancelled"
      BY <1>2, <1>6 DEF Keeps, Copies, Plans, NoCopy, Creating
    <3> QED BY <1>4, <1>6, <3>1 DEF Committed
  <2>2. users'[u] = users[u]
    BY <1>1, <1>6, <2>1
  <2> QED BY <1>4, <1>5, <2>2
<1>7. CASE y.pc = "mark" /\ users' = [users EXCEPT ![y.loc.user].del = "pending", ![y.loc.user].req = y.req]
  <2>1. CASE y.loc.user = u /\ y.req # r
    <3>1. y.start > ConfirmedAt(r)
      <4>1. rows[r].graceUntil <= now /\ rows[r].graceUntil \in Nat /\ now \in Nat
        BY <1>1, PastGrace
      <4>2. now <= y.start + OpSpan
        BY <1>2, <1>7 DEF Keeps, Timely
      <4>3. GracePeriod \in Nat /\ OpSpan \in Nat
        BY TimesAssumption, ProcsAssumption
      <4> QED BY <1>2, <4>1, <4>2, <4>3 DEF ConfirmedAt
    <3>2. ConfirmedAt(r) \in Int
      BY <1>1, PastGrace, TimesAssumption DEF ConfirmedAt
    <3>3. rows[r].state \in Underway => y.start <= ConfirmedAt(r)
      BY <1>2, <1>3, <1>7, <2>1 DEF BlockInv, Marks
    <3>4. rows[r].state = "purged" => y.start <= ConfirmedAt(r) \/ OpenedSince(y.req, r)
      BY <1>2, <1>3, <1>7, <2>1 DEF BlockInv, Marks
    <3>5. rows[r].state = "purged" /\ OpenedSince(y.req, r)
      BY <1>2, <3>1, <3>2, <3>3, <3>4 DEF Committed, Underway
    <3>6. y.req \in Reqs
      BY <1>2, <1>7, CopyOwner, <1>1 DEF NoCopy, Creating
    <3> QED BY <3>5, <3>6 DEF Superseded
  <2>2. CASE y.loc.user = u /\ y.req = r
    BY <1>1, <1>5, <1>7, <2>2 DEF UserBlock
  <2>3. CASE y.loc.user # u
    BY <1>1, <1>4, <1>5, <1>7, <2>3
  <2> QED BY <2>1, <2>2, <2>3
<1> QED BY <1>1, <1>2, <1>4, <1>5, <1>6, <1>7 DEF UsersMove

LEMMA BlocksStep ==
  ASSUME BlockInv, KeepInv', OpSpan < GracePeriod, NEW p \in Procs, Turn(p)
  PROVE  Blocks'
<1>1. /\ KeepInv /\ RowsMove(p) /\ RowsLast /\ now' = now /\ procs \in [Procs -> Proc]
      /\ Blocks
  BY MovesLast DEF BlockInv, Turn, KeepInv, EraseInv, SafeInv, TypeInv, TypeOK
<1>2. PICK x : procs' = [procs EXCEPT ![p] = x] /\ Enters(procs[p], x) /\ Keeps(x, rows', now)
  BY DEF Turn
<1>3. PICK y : y = procs[p] /\ Keeps(y, rows, now) /\ Plans(y) /\ Knows(y, rows)
  BY <1>1, BusyKept
<1> SUFFICES ASSUME NEW r \in Reqs, rows'[r].scope = "account"
             PROVE  /\ rows'[r].state \in {"purging", "stalled"} => HasBlock(r)'
                    /\ rows'[r].state = "purged" => HasBlock(r)' \/ Superseded(r)'
                    /\ rows'[r].state = "locked" /\ (\E m \in Procs : procs'[m].req = r /\ LockTaken(procs'[m]))
                         => HasBlock(r)'
  BY DEF Blocks, HasBlock, Superseded, OpenedSince, LockTaken
<1>4. RowMove(procs[p], r) /\ Lasts(rows[r], rows'[r])
  BY <1>1 DEF RowsMove, RowsLast
<1>5. ASSUME rows[r].state \in Committed
      PROVE  rows[r].scope = "account" /\ rows[r].state \in PastConfirm
  BY <1>4, <1>5 DEF Lasts, Committed, PastConfirm, States
\* The lock that puts the participants to work has taken the block.
<1>6. ASSUME rows[r].state = "locked", rows'[r].state = "purging" PROVE HasBlock(r)
  <2>1. y.pc \in SaveSteps /\ y.req = r /\ y.from = "locked" /\ y.loc.state = "purging"
    BY <1>3, <1>4, <1>6 DEF RowMove, Knows
  <2>2. LockTaken(y)
    BY <1>3, <2>1 DEF LockTaken, Plans, SaveSteps
  <2> QED BY <1>1, <1>3, <1>5, <1>6, <2>1, <2>2 DEF Blocks, Committed
<1>7. ASSUME rows'[r].state \in {"purging", "stalled"} PROVE HasBlock(r)'
  <2>1. \/ rows[r].state = "locked" /\ rows'[r].state = "purging"
        \/ rows[r].state \in {"purging", "stalled"}
    BY <1>1, <1>4, <1>7, MoveEdge DEF Lifecycle!Edges
  <2>2. rows[r].state \in Committed /\ rows[r].state # "purged"
    BY <2>1 DEF Committed
  <2>3. HasBlock(r)
    BY <1>1, <1>5, <1>6, <2>1, <2>2 DEF Blocks
  <2> QED BY <2>2, <2>3, BlockKept
<1>8. ASSUME rows'[r].state = "purged" PROVE HasBlock(r)' \/ Superseded(r)'
  <2>1. rows[r].state \in {"purging", "purged"}
    BY <1>1, <1>4, <1>8, PurgeMove
  <2>2. rows[r].state \in Committed
    BY <2>1 DEF Committed
  <2>3. HasBlock(r) \/ (rows[r].state = "purged" /\ Superseded(r))
    BY <1>1, <1>5, <2>1, <2>2 DEF Blocks
  <2>4. Superseded(r) => Superseded(r)'
    BY <1>1, <1>5, <2>2, SinceLasts DEF Superseded
  <2> QED BY <2>2, <2>3, <2>4, BlockKept
<1>9. ASSUME rows'[r].state = "locked", NEW m \in Procs, procs'[m].req = r, LockTaken(procs'[m])
      PROVE  HasBlock(r)'
  <2>1. CASE LockTaken(procs[m]) /\ procs[m].req = r
    <3>1. rows[r].state \in Committed
      <4>1. procs[m].from \in Committed /\ procs[m].pc # "idle"
        BY <2>1 DEF LockTaken, Committed
      <4> QED BY <1>1, <2>1, <4>1, BusyKept DEF Knows
    <3>2. rows[r].state = "locked"
      BY <1>1, <1>4, <1>9, <3>1, MoveEdge DEF Lifecycle!Edges, Committed
    <3>3. HasBlock(r)
      BY <1>1, <1>5, <2>1, <3>1, <3>2 DEF Blocks
    <3> QED BY <3>1, <3>2, <3>3, BlockKept
  <2>2. CASE m = p /\ ~(LockTaken(procs[m]) /\ procs[m].req = r)
    <3>1. procs'[m] = x /\ x.req = r /\ LockTaken(x)
      BY <1>1, <1>2, <1>9, <2>2
    <3>2. x.pc \notin NoCopy
      BY <3>1 DEF LockTaken, NoCopy, Creating
    <3>3. x.loc.scope = "account"
      BY <1>2, <3>1, <3>2 DEF Keeps, Copies
    <3>4. users'[x.loc.user].req = r /\ users'[x.loc.user].del # "none"
      BY <1>2, <2>2, <3>1, <3>3 DEF Enters
    <3>5. x.loc.user = rows'[r].user
      BY <3>1, <3>2 DEF KeepInv, EraseInv, SafeInv, SafeProcs, Knows
    <3> QED BY <3>4, <3>5 DEF HasBlock
  <2>3. CASE m # p
    BY <1>1, <1>2, <1>9, <2>1, <2>3
  <2> QED BY <2>1, <2>2, <2>3
<1> QED BY <1>7, <1>8, <1>9

LEMMA PauseBlock ==
  ASSUME BlockInv, Pause
  PROVE  (Marks /\ Newer /\ Blocks)'
BY DEF BlockInv, Pause, Marks, Newer, Blocks, ConfirmedAt, OpenedSince, HasBlock, Superseded, LockTaken

LEMMA BlockNext ==
  ASSUME BlockInv, [Next]_vars, OpSpan < GracePeriod
  PROVE  BlockInv'
<1>1. KeepInv'
  BY KeepNext DEF BlockInv
<1>2. ASSUME NEW p \in Procs, Turn(p) PROVE (Marks /\ Newer /\ Blocks)'
  BY <1>1, <1>2, NewerStep, MarksStep, BlocksStep
<1> QED BY <1>1, <1>2, NextTurn, PauseBlock DEF BlockInv

LEMMA BlockInit == Init => BlockInv
<1> SUFFICES ASSUME Init PROVE BlockInv
  OBVIOUS
<1>1. \A r \in Reqs : rows[r].state = "none"
  BY DEF Init, NoRequest
<1>2. Marks /\ Newer /\ Blocks
  BY <1>1, UnderwayNames DEF Marks, Newer, Blocks
<1> QED BY <1>2, KeepInit DEF BlockInv

\* While an erase is under way, sign-in stays blocked on its behalf: whatever lock
\* (MarkPendingDeletion) or unlock (ClearPendingDeletion) of an older request is
\* late, crashes or fails, it leaves the block and afterwards the tombstone alone,
\* as long as no operation lasts a whole grace period.
THEOREM BlockCorrect == ASSUME OpSpan < GracePeriod PROVE Spec => []PurgingStaysBlocked
<1>1. BlockInv /\ [Next]_vars => BlockInv'
  BY BlockNext
<1>2. BlockInv => PurgingStaysBlocked
  BY DEF BlockInv, Blocks, Superseded, PurgingStaysBlocked
<1> QED BY <1>1, <1>2, BlockInit, PTL DEF Spec

-----------------------------------------------------------------------------
(* No block is left behind *)

\* A block of a cancelled request is on the way to be cleared, or the worker will
\* come back to it, and nobody is about to take it out of the due index.
Strand ==
  faults = 0 =>
    \A r \in Reqs : rows[r].state = "cancelled" /\ users[rows[r].user].req = r =>
      \/ \E p \in Procs : procs[p].req = r /\ Unlocks(procs[p])
      \/ rows[r].due # NotDue /\ \A p \in Procs : procs[p].req = r => ~Settles(procs[p])

StrandInv == KeepInv /\ Strand

LEMMA FaultsCount ==
  ASSUME [Next]_vars
  PROVE  faults' = faults \/ faults' = faults + 1
<1>1. ASSUME NEW p \in Procs, Start(p) PROVE faults' = faults
  BY ZenonT(30), <1>1 DEF Start, OpenRequest, Confirm, Cancel, SupportCancel, CancelRow, ProcessDue, Ack, SetLegalHold, Redrive
<1>2. ASSUME NEW p \in Procs, Continue(p) PROVE Fault \/ NoFault
  <2>1. CASE Create(p) \/ ExpireUnconfirmed(p) \/ SendConfirm(p) \/ SaveConfirmed(p) \/ MarkPendingDeletion(p)
             \/ PublishLocked(p) \/ SaveLock(p) \/ Recheck(p) \/ StoreLink(p) \/ SendLink(p)
    BY ZenonT(30), <2>1 DEF Create, ExpireUnconfirmed, SendConfirm, SaveConfirmed, MarkPendingDeletion, PublishLocked,
                SaveLock, Recheck, StoreLink, SendLink, Saved, StateChanged, SaveFailed
  <2>2. CASE SaveCancelled(p) \/ ClearPendingDeletion(p) \/ PublishUnlocked(p) \/ PublishErase(p) \/ PutServices(p)
             \/ Reconcile(p) \/ Redispatch(p)
    BY ZenonT(30), <2>2 DEF SaveCancelled, ClearPendingDeletion, PublishUnlocked, PublishErase, PutServices, Reconcile,
                Redispatch, Saved, StateChanged, SaveFailed
  <2>3. CASE BumpService(p) \/ Purge(p) \/ SaveAck(p) \/ AckGet(p) \/ RedriveList(p) \/ RedriveSave(p) \/ Save(p)
    BY <2>3 DEF BumpService, Purge, SaveAck, AckGet, RedriveList, RedriveSave, Save, Saved, StateChanged, SaveFailed
  <2> QED BY <1>2, <2>1, <2>2, <2>3 DEF Continue
<1>3. ASSUME NEW p \in Procs, Crash(p) PROVE Fault
  BY <1>3 DEF Crash
<1>4. CASE Tick \/ UNCHANGED vars
  BY <1>4 DEF Tick, vars
<1> QED BY SMTT(20), <1>1, <1>2, <1>3, <1>4 DEF Next, Fault, NoFault

\* Only SaveCancelled cancels a request, and only a plain Save writes a cancelled one.
LEMMA CancelMove ==
  ASSUME KeepInv, NEW p \in Procs, NEW r \in Reqs, RowMove(procs[p], r), rows'[r].state = "cancelled",
         rows'[r] # rows[r]
  PROVE  /\ procs[p].req = r /\ rows'[r] = procs[p].loc
         /\ rows[r].state # "cancelled" => procs[p].pc = "cancelSave"
         /\ rows[r].state = "cancelled" => procs[p].pc = "save"
<1>1. PICK y : y = procs[p] /\ Keeps(y, rows, now) /\ Knows(y, rows) /\ Plans(y)
  BY BusyKept
<1>2. y.pc \in SaveSteps /\ y.req = r /\ rows'[r] = y.loc /\ rows[r].state = y.from
  BY <1>1 DEF RowMove, Knows
<1>3. y.pc \notin NoCopy
  BY <1>2 DEF SaveSteps, NoCopy, Creating
<1>4. y.pc = "cancelSave" \/ (y.pc = "save" /\ y.from = "cancelled")
  BY <1>1, <1>2, <1>3 DEF SaveSteps, Plans, Keeps, Dates
<1>5. y.pc = "cancelSave" => y.from # "cancelled"
  BY <1>1 DEF Plans
<1> QED BY <1>1, <1>2, <1>4, <1>5

LEMMA StrandStep ==
  ASSUME StrandInv, KeepInv', faults' = 0, faults = 0, NEW p \in Procs, Turn(p)
  PROVE  Strand'
<1>1. KeepInv /\ RowsMove(p) /\ RowsLast /\ UsersMove(procs[p]) /\ procs \in [Procs -> Proc]
      /\ users \in [Users -> UserBlock] /\ Nil \notin Reqs
  BY MovesLast, SetsAssumption DEF StrandInv, Turn, KeepInv, EraseInv, SafeInv, TypeInv, TypeOK
<1>2. PICK x : procs' = [procs EXCEPT ![p] = x] /\ Enters(procs[p], x) /\ Leaves(procs[p], x) /\ Keeps(x, rows', now)
  BY DEF Turn
<1>3. PICK y : y = procs[p] /\ Keeps(y, rows, now)
  BY <1>1, BusyKept
<1>4. procs'[p] = x /\ \A q \in Procs : q # p => procs'[q] = procs[q]
  BY <1>1, <1>2
<1> SUFFICES ASSUME NEW r \in Reqs, rows'[r].state = "cancelled", users'[rows'[r].user].req = r
             PROVE  \/ \E q \in Procs : procs'[q].req = r /\ Unlocks(procs'[q])
                    \/ rows'[r].due # NotDue /\ \A q \in Procs : procs'[q].req = r => ~Settles(procs'[q])
  BY DEF Strand, Unlocks, Settles
<1>5. PICK u \in Users : u = rows'[r].user /\ users'[u].req = r /\ rows'[r].scope = "account"
  <2>1. rows'[r].user \in Users
    BY StateNames DEF KeepInv, EraseInv, SafeInv, Owned
  <2> QED BY <2>1 DEF KeepInv, OwnBlock
<1>6. RowMove(procs[p], r) /\ Lasts(rows[r], rows'[r])
  BY <1>1 DEF RowsMove, RowsLast
<1>7. CASE rows[r].state # "cancelled"
  <2>1. y.req = r /\ rows'[r] = y.loc /\ y.pc = "cancelSave"
    BY <1>1, <1>3, <1>6, <1>7, CancelMove
  <2>2. Unlocks(x) /\ x.req = r
    BY <1>2, <1>3, <1>5, <1>7, <2>1 DEF Leaves, Unlocks
  <2> QED BY <1>4, <2>2
<1>8. CASE rows[r].state = "cancelled" /\ users[u].req # r
  <2>1. y.pc = "mark" /\ y.req = r
    BY <1>1, <1>3, <1>5, <1>8 DEF UsersMove, UserBlock
  <2>2. Unlocks(x) /\ x.req = r
    BY <1>2, <1>3, <2>1 DEF Leaves, Unlocks
  <2> QED BY <1>4, <2>2
<1>9. CASE rows[r].state = "cancelled" /\ users[u].req = r
  <2>1. rows[r].user = u /\ rows[r].scope = "account"
    BY <1>5, <1>6, <1>9 DEF Lasts
  <2>2. ASSUME NEW q \in Procs, procs[q].req = r, Unlocks(procs[q])
        PROVE  procs'[q].req = r /\ Unlocks(procs'[q])
    <3>1. CASE q # p
      BY <1>4, <2>2, <3>1
    <3>2. CASE q = p
      <4>1. y.loc.scope = "account" /\ y.loc.user = u
        BY <1>1, <1>3, <2>1, <2>2, <3>2, CopyOwner DEF Unlocks, NoCopy, Creating
      <4> QED BY <1>2, <1>3, <1>4, <1>5, <1>9, <2>2, <3>2, <4>1 DEF Leaves
    <3> QED BY <3>1, <3>2
  <2>3. ASSUME rows[r].due # NotDue, \A q \in Procs : procs[q].req = r => ~Settles(procs[q])
        PROVE  rows'[r].due # NotDue /\ \A q \in Procs : procs'[q].req = r => ~Settles(procs'[q])
    <3>1. rows'[r].due # NotDue
      <4>1. CASE rows'[r] = rows[r]
        BY <2>3, <4>1
      <4>2. CASE rows'[r] # rows[r]
        <5>1. y.req = r /\ rows'[r] = y.loc /\ y.pc = "save"
          BY <1>1, <1>3, <1>6, <1>9, <4>2, CancelMove
        <5> QED BY <1>3, <2>3, <5>1 DEF Settles
      <4> QED BY <4>1, <4>2
    <3>2. ASSUME x.req = r PROVE ~Settles(x)
      <4> SUFFICES ASSUME Settles(x) PROVE FALSE
        OBVIOUS
      <4>1. x.pc \notin NoCopy
        BY DEF Settles, NoCopy, Creating
      <4>2. x.loc.scope = "account"
        BY <1>2, <1>5, <3>2, <4>1 DEF Keeps, Copies
      <4>3. x.loc.user = u
        <5>1. Knows(x, rows')
          BY <1>4 DEF KeepInv, EraseInv, SafeInv, SafeProcs, Knows
        <5> QED BY <1>5, <3>2, <4>1, <5>1 DEF Knows
      <4>4. x.pc = "save" => x.loc.due = NotDue
        BY DEF Settles
      <4> QED BY <1>2, <1>3, <1>5, <2>3, <3>1, <3>2, <4>2, <4>3, <4>4 DEF Enters
    <3> QED BY <1>4, <2>3, <3>1, <3>2
  <2>4. \/ \E q \in Procs : procs[q].req = r /\ Unlocks(procs[q])
        \/ rows[r].due # NotDue /\ \A q \in Procs : procs[q].req = r => ~Settles(procs[q])
    BY <1>9, <2>1 DEF StrandInv, Strand
  <2> QED BY <2>2, <2>3, <2>4
<1> QED BY <1>7, <1>8, <1>9

LEMMA StrandNext ==
  ASSUME StrandInv, [Next]_vars
  PROVE  StrandInv'
<1>1. KeepInv /\ KeepInv' /\ faults \in Nat
  BY KeepNext DEF StrandInv, KeepInv, EraseInv, SafeInv, TypeInv, TypeOK
<1>2. Strand'
  <2> SUFFICES ASSUME faults' = 0 PROVE Strand'
    BY DEF Strand
  <2>1. faults = 0
    BY <1>1, FaultsCount
  <2>2. ASSUME NEW p \in Procs, Turn(p) PROVE Strand'
    BY <1>1, <2>1, <2>2, StrandStep
  <2>3. CASE Pause
    BY <2>1, <2>3 DEF StrandInv, Strand, Pause, Unlocks, Settles
  <2> QED BY <1>1, <2>2, <2>3, NextTurn
<1> QED BY <1>1, <1>2 DEF StrandInv

\* As long as no call fails and no instance crashes, a cancelled request that the
\* worker is finished with does not block its user: applyLock undoes a lock that
\* lost the race to a cancel, and finishCancel leaves the request due until the
\* block is cleared.
THEOREM StrandedCorrect == Spec => [](faults = 0 => NoStrandedBlock)
<1>1. StrandInv /\ [Next]_vars => StrandInv'
  BY StrandNext
<1>2. StrandInv => (faults = 0 => NoStrandedBlock)
  BY LateRow DEF StrandInv, Strand, NoStrandedBlock, IsDue
<1>3. Init => StrandInv
  <2>1. Init => \A r \in Reqs : rows[r].state = "none"
    BY DEF Init, NoRequest
  <2> QED BY <2>1, KeepInit DEF StrandInv, Strand
<1> QED BY <1>1, <1>2, <1>3, PTL DEF Spec
=============================================================================
