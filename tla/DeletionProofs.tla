--------------------------- MODULE DeletionProofs ---------------------------
(***************************************************************************)
(* Theorems about Deletion for every set of users, requests, services and  *)
(* processes, every length of the windows and every number of failures.    *)
(***************************************************************************)
EXTENDS Deletion, TLAPS, WellFoundedInduction

-----------------------------------------------------------------------------
(* The pure functions keep the types *)

\* A non-empty set of natural numbers has a least element.
LEMMA NatMin ==
  ASSUME NEW T, T \subseteq Nat, T # {}
  PROVE  \E m \in T : \A x \in T : m <= x
<1>1. PICK m \in T : \A y \in T : ~(<<y, m>> \in OpToRel(<, Nat))
  BY NatLessThanWellFounded, WFMin
<1>2. ASSUME NEW y \in T PROVE m <= y
  <2>1. <<y, m>> \in Nat \X Nat
    OBVIOUS
  <2>2. ~(y < m)
    BY <1>1, <2>1, Zenon DEF OpToRel
  <2> QED BY <2>2
<1> QED BY <1>2

\* The states named in the code.
LEMMA StateNames ==
  /\ "awaiting_confirmation" \in States /\ "pending_deletion" \in States
  /\ "cancelled" \in States /\ "expired" \in States /\ "locked" \in States
  /\ "purging" \in States /\ "stalled" \in States /\ "blocked" \in States
  /\ "purged" \in States /\ "none" \notin States
BY DEF States

\* Changing the due time, the state or a flag of a request leaves a request.
LEMMA WithDue ==
  ASSUME NEW r \in Request, NEW d \in Int
  PROVE  SetDue(r, d) \in Request
BY DEF Request, SetDue

LEMMA WithState ==
  ASSUME NEW r \in Request, NEW s \in States
  PROVE  [r EXCEPT !.state = s] \in Request
BY DEF Request

LEMMA WithStateDue ==
  ASSUME NEW r \in Request, NEW s \in States, NEW d \in Int
  PROVE  [r EXCEPT !.state = s, !.due = d] \in Request
BY DEF Request

LEMMA WithGrace ==
  ASSUME NEW r \in Request, NEW g \in Nat
  PROVE  [r EXCEPT !.graceUntil = g] \in Request
BY DEF Request

LEMMA WithLinks ==
  ASSUME NEW r \in Request, NEW k \in Links
  PROVE  [r EXCEPT !.links = @ \cup {k}] \in Request
BY DEF Request

LEMMA WithHold ==
  ASSUME NEW r \in Request, NEW a \in Admins \cup {Nil}
  PROVE  [r EXCEPT !.hold = a] \in Request
BY DEF Request

\* The functions of model.go and service.go that change a request's copy return
\* a request.
LEMMA ClearDueType ==
  ASSUME NEW r \in Request
  PROVE  ClearDue(r) \in Request
<1>1. NotDue \in Int
  BY DEF NotDue
<1>2. ClearDue(r) = SetDue(r, NotDue)
  BY DEF ClearDue, SetDue
<1> QED BY <1>1, <1>2, WithDue

LEMMA ScheduleNextType ==
  ASSUME NEW r \in Request, NEW t \in Nat
  PROVE  ScheduleNext(r, t) \in Request
<1>1. NextDue(r, t) \in Int
  BY TimesAssumption DEF NextDue, Request
<1>2. SetDue(r, NextDue(r, t)) \in Request /\ SetDue(r, t) \in Request
  BY <1>1, WithDue
<1> QED BY <1>2, ClearDueType DEF ScheduleNext

LEMMA LockRecordedType ==
  ASSUME NEW r \in Request, NEW t \in Nat
  PROVE  LockRecorded(r, t) \in Request
<1>1. [r EXCEPT !.lockApplied = TRUE] \in Request
  BY DEF Request
<1> QED BY <1>1, ScheduleNextType DEF LockRecorded

LEMMA LinkSentType ==
  ASSUME NEW r \in Request, NEW t \in Nat, NEW k
  PROVE  LinkSent(r, k, t) \in Request
<1>1. [r EXCEPT !.scheduledSent   = r.scheduledSent \/ k = "scheduled",
                !.reminded        = r.reminded \/ k = "reminder",
                !.blockedNotified = r.blockedNotified \/ k = "blocked"] \in Request
  BY ZenonT(40) DEF Request
<1> QED BY <1>1, ScheduleNextType DEF LinkSent

LEMMA ExpireType ==
  ASSUME NEW r \in Request
  PROVE  Expire(r) \in Request
<1>1. "expired" \in States /\ NotDue \in Int
  BY DEF States, NotDue
<1> QED BY <1>1, WithStateDue DEF Expire

LEMMA CancelledType ==
  ASSUME NEW r \in Request, NEW t \in Nat
  PROVE  Cancelled(r, t) \in Request
<1>1. "cancelled" \in States /\ t \in Int
  BY DEF States
<1> QED BY <1>1, WithStateDue DEF Cancelled

LEMMA ConfirmedType ==
  ASSUME NEW r \in Request, NEW t \in Nat
  PROVE  Confirmed(r, t) \in Request
<1>1. "pending_deletion" \in States /\ t \in Int /\ t + GracePeriod \in Nat
  BY TimesAssumption DEF States
<1> DEFINE q == [r EXCEPT !.graceUntil = t + GracePeriod]
<1>2. q \in Request
  BY <1>1, WithGrace
<1>3. Confirmed(r, t) = [q EXCEPT !.state = "pending_deletion", !.due = t]
  BY DEF Confirmed, Request
<1> HIDE DEF q
<1>4. [q EXCEPT !.state = "pending_deletion", !.due = t] \in Request
  BY <1>1, <1>2, WithStateDue
<1> QED BY <1>3, <1>4

\* A blank row, and a request just opened, are requests.
LEMMA NoRequestType == NoRequest \in Request
BY DEF NoRequest, Request, Scopes, NotDue

LEMMA NewRequestType ==
  ASSUME NEW u \in Users, NEW sc \in Scopes, NEW t \in Nat
  PROVE  NewRequest(u, sc, t) \in Request
<1>1. t + ConfirmWindow \in Nat /\ t + ConfirmWindow \in Int
  BY TimesAssumption
<1>2. "awaiting_confirmation" \in States
  BY DEF States
<1> DEFINE q1 == [NoRequest EXCEPT !.user = u]
           q2 == [q1 EXCEPT !.scope = sc]
           q3 == [q2 EXCEPT !.state = "awaiting_confirmation"]
           q4 == [q3 EXCEPT !.confirmBy = t + ConfirmWindow]
<1>3. q1 \in Request
  BY NoRequestType DEF Request
<1> HIDE DEF q1
<1>4. q2 \in Request
  BY <1>3 DEF Request
<1> HIDE DEF q2
<1>5. q3 \in Request
  BY <1>2, <1>4, WithState
<1> HIDE DEF q3
<1>6. q4 \in Request
  BY <1>1, <1>5 DEF Request
<1> HIDE DEF q4
<1>7. SetDue(q4, t + ConfirmWindow) \in Request
  BY <1>1, <1>6, WithDue
<1> QED BY <1>7 DEF NewRequest, SetDue, q1, q2, q3, q4

LEMMA StatusFunctions ==
  ASSUME NEW st \in ServiceStatus, NEW t \in Nat
  PROVE  /\ Dispatched(st, t) \in ServiceStatus
         /\ FirstDispatch(t) \in ServiceStatus /\ Redriven \in ServiceStatus
         /\ NoStatus \in ServiceStatus
         /\ NextDispatch(st) \in Nat
<1>1. Len(AckBackoff) \in Nat \ {0}
  BY TimesAssumption
<1>2. \A i \in 1..Len(AckBackoff) : AckBackoff[i] \in Nat
  BY TimesAssumption
<1>3. Dispatched(st, t) \in ServiceStatus
  <2> DEFINE n == IF st.attempts < Len(AckBackoff) THEN st.attempts + 1 ELSE st.attempts
             q == [st EXCEPT !.attempts = n]
  <2>1. n \in 0..Len(AckBackoff)
    BY <1>1 DEF ServiceStatus
  <2> HIDE DEF n
  <2>2. q \in ServiceStatus
    BY <2>1 DEF ServiceStatus
  <2> HIDE DEF q
  <2>3. [q EXCEPT !.last = t] \in ServiceStatus
    BY <2>2 DEF ServiceStatus
  <2> QED BY <2>3 DEF Dispatched, q, n
<1>4. /\ FirstDispatch(t) \in ServiceStatus /\ Redriven \in ServiceStatus
      /\ NoStatus \in ServiceStatus
  BY <1>1 DEF FirstDispatch, Redriven, NoStatus, ServiceStatus
<1>5. NextDispatch(st) \in Nat
  BY <1>1, <1>2 DEF NextDispatch, ServiceStatus
<1> QED BY <1>3, <1>4, <1>5

\* When some participant is still dispatched, reconcile has a next due time.
LEMMA NextReconcileType ==
  ASSUME NEW sts \in [Services -> ServiceStatus], NEW t \in Nat,
         NEW x \in Services, sts[x].status = "dispatched"
  PROVE  NextReconcile(sts, t) \in Nat
<1> DEFINE after == [s \in Services |-> IF s \in Silent(sts, t) THEN Dispatched(sts[s], t)
                                                                ELSE sts[s]]
           times == {NextDispatch(after[s]) : s \in {y \in Services : sts[y].status = "dispatched"}}
<1>1. \A s \in Services : after[s] \in ServiceStatus
  BY StatusFunctions
<1>2. times \subseteq Nat
  BY <1>1, StatusFunctions
<1>3. times # {}
  OBVIOUS
<1> HIDE DEF times
<1>4. \E m \in times : \A y \in times : m <= y
  BY <1>2, <1>3, NatMin
<1>5. (CHOOSE m \in times : \A y \in times : m <= y) \in times
  BY <1>4
<1>6. NextReconcile(sts, t) = CHOOSE m \in times : \A y \in times : m <= y
  BY DEF NextReconcile, times
<1>7. NextReconcile(sts, t) \in times
  BY <1>5, <1>6, Zenon
<1>8. \A m \in times : m \in Nat
  BY <1>2
<1> QED BY <1>7, <1>8, Zenon

-----------------------------------------------------------------------------
(* Type correctness *)

\* What a process in the middle of an operation knows: which request it works
\* on, that the rows it re-dispatches were read as dispatched, and the link it
\* is about to e-mail.
Busy(x) ==
  /\ x.pc # "idle" => x.req \in Reqs
  /\ x.pc \in {"redispatch", "bump"} => \A s \in x.todo : x.sts[s].status = "dispatched"
  /\ x.pc = "linkMail" => x.link \in Links

ProcsOK == procs \in [Procs -> Proc] /\ \A p \in Procs : Busy(procs[p])

\* The inductive strengthening of TypeOK.
TypeInv == TypeOK /\ \A p \in Procs : Busy(procs[p])

LEMMA StepNames ==
  /\ "idle" \in Steps /\ "create" \in Steps /\ "expireOpen" \in Steps
  /\ "createAgain" \in Steps /\ "confirmMail" \in Steps /\ "confirmSave" \in Steps
  /\ "mark" \in Steps /\ "publishLocked" \in Steps /\ "lockSave" \in Steps
  /\ "recheck" \in Steps /\ "clear" \in Steps /\ "publishUnlocked" \in Steps
  /\ "link" \in Steps /\ "linkMail" \in Steps /\ "cancelSave" \in Steps
  /\ "erase" \in Steps /\ "putServices" \in Steps /\ "reconcile" \in Steps
  /\ "redispatch" \in Steps /\ "bump" \in Steps /\ "purge" \in Steps
  /\ "ackSave" \in Steps /\ "ackGet" \in Steps /\ "redriveList" \in Steps
  /\ "redriveSave" \in Steps /\ "save" \in Steps
BY DEF Steps

LEMMA ProcsUpdate ==
  ASSUME ProcsOK, NEW p \in Procs, NEW x \in Proc, Busy(x),
         procs' = [procs EXCEPT ![p] = x]
  PROVE  ProcsOK'
<1>1. procs' \in [Procs -> Proc]
  BY DEF ProcsOK
<1>2. \A q \in Procs : Busy(procs'[q])
  BY DEF ProcsOK
<1> QED BY <1>1, <1>2 DEF ProcsOK, Busy

LEMMA IdleType == Idle \in Proc /\ Busy(Idle)
<1>1. /\ "idle" \in Steps /\ 0 \in 0..MaxLinks
  BY TimesAssumption DEF Steps
<1>2. [s \in Services |-> NoStatus] \in [Services -> ServiceStatus]
  <2>1. NoStatus \in ServiceStatus
    BY TimesAssumption DEF NoStatus, ServiceStatus
  <2> QED BY <2>1
<1>3. Idle \in Proc
  BY <1>1, <1>2, NoRequestType DEF Idle, Proc
<1> QED BY <1>3 DEF Busy, Idle

LEMMA ReturnType ==
  ASSUME ProcsOK, NEW p \in Procs, Return(p)
  PROVE  ProcsOK'
BY IdleType, ProcsUpdate DEF Return

LEMMA GotoType ==
  ASSUME ProcsOK, NEW p \in Procs, procs[p].pc # "idle",
         NEW pc \in Steps \ {"redispatch", "linkMail"}, pc = "bump" => procs[p].pc = "redispatch",
         Goto(p, pc)
  PROVE  ProcsOK'
<1> DEFINE x == [procs[p] EXCEPT !.pc = pc]
<1>1. x \in Proc
  BY DEF ProcsOK, Proc
<1>2. Busy(x)
  BY DEF ProcsOK, Proc, Busy
<1>3. procs' = [procs EXCEPT ![p] = x]
  BY DEF Goto
<1> HIDE DEF x
<1> QED BY <1>1, <1>2, <1>3, ProcsUpdate

LEMMA KeepType ==
  ASSUME ProcsOK, NEW p \in Procs, procs[p].pc # "idle",
         NEW pc \in Steps \ {"redispatch", "bump", "linkMail"}, NEW r \in Request, Keep(p, pc, r)
  PROVE  ProcsOK'
<1> DEFINE x == [procs[p] EXCEPT !.pc = pc, !.loc = r]
<1>1. x \in Proc
  BY ZenonT(40) DEF ProcsOK, Proc
<1>2. Busy(x)
  BY DEF ProcsOK, Proc, Busy
<1>3. procs' = [procs EXCEPT ![p] = x]
  BY DEF Keep
<1> HIDE DEF x
<1> QED BY <1>1, <1>2, <1>3, ProcsUpdate

LEMMA BeginType ==
  ASSUME ProcsOK, now \in Nat, NEW p \in Procs, NEW op \in OpNames, NEW pc \in Steps,
         NEW r \in Reqs, NEW row \in Request, NEW from \in States \cup {"none"},
         pc \notin {"redispatch", "bump", "linkMail"}, Begin(p, op, pc, r, row, from)
  PROVE  ProcsOK'
<1> DEFINE x == [Idle EXCEPT !.op = op, !.pc = pc, !.req = r, !.loc = row, !.from = from,
                             !.at = now, !.start = now]
<1>1. x \in Proc
  BY IdleType DEF Proc
<1>2. x.pc = pc /\ x.req = r
  BY IdleType DEF Proc
<1>3. procs' = [procs EXCEPT ![p] = x]
  BY DEF Begin
<1> HIDE DEF x
<1>4. Busy(x)
  BY <1>2 DEF Busy
<1> QED BY <1>1, <1>3, <1>4, ProcsUpdate

LEMMA TakeType ==
  ASSUME ProcsOK, now \in Nat, rows \in [Reqs -> Request],
         NEW w \in Procs, NEW r \in Reqs, NEW t \in Nat,
         NEW pc \in Steps, pc \notin {"redispatch", "bump", "linkMail"},
         NEW row \in Request, NEW kind \in LinkKinds \cup {Nil},
         Take(w, r, t, pc, row, kind)
  PROVE  ProcsOK'
<1> DEFINE x == [Idle EXCEPT !.op = "worker", !.pc = pc, !.req = r, !.loc = row,
                             !.from = rows[r].state, !.kind = kind, !.at = t, !.start = now]
<1>1. x \in Proc
  <2>1. rows[r].state \in States \cup {"none"}
    BY DEF Request
  <2>2. "worker" \in OpNames
    BY DEF OpNames
  <2> QED BY <2>1, <2>2, IdleType DEF Proc
<1>2. x.pc = pc /\ x.req = r
  BY IdleType DEF Proc
<1>3. procs' = [procs EXCEPT ![w] = x]
  BY DEF Take
<1> HIDE DEF x
<1>4. Busy(x)
  BY <1>2 DEF Busy
<1> QED BY <1>1, <1>3, <1>4, ProcsUpdate

\* Save's transaction keeps the rows and the markers typed.
LEMMA PutType ==
  ASSUME TypeInv, NEW p \in Procs, procs[p].pc # "idle", Put(p) \/ Unsaved
  PROVE  rows' \in [Reqs -> Request] /\ marker' \in [Users -> Reqs \cup {Nil}]
<1>1. procs[p].loc \in Request /\ procs[p].req \in Reqs
  BY DEF TypeInv, TypeOK, Proc, Busy
<1> QED BY <1>1 DEF TypeInv, TypeOK, Put, Unsaved

LEMMA SaveType ==
  ASSUME TypeInv, NEW p \in Procs, procs[p].pc # "idle",
         Saved(p) \/ StateChanged(p) \/ SaveFailed(p)
  PROVE  /\ rows' \in [Reqs -> Request] /\ marker' \in [Users -> Reqs \cup {Nil}]
         /\ faults' \in Nat
<1>1. Put(p) \/ Unsaved
  BY DEF Saved, StateChanged, SaveFailed
<1>2. faults' \in Nat
  BY DEF TypeInv, TypeOK, Saved, StateChanged, SaveFailed, Fault, NoFault
<1> QED BY <1>1, <1>2, PutType

LEMMA PublishType ==
  ASSUME TypeInv, NEW p \in Procs, procs[p].pc # "idle", NEW type \in MsgTypes,
         NEW names \in SUBSET Services, Publish(p, type, names) \/ UNCHANGED msgs
  PROVE  msgs' \subseteq MsgTypes \X Reqs \X Services
<1>1. procs[p].req \in Reqs
  BY DEF TypeInv, Busy
<1>2. ({type} \X {procs[p].req} \X (names \cap ParticipantsFor(procs[p].loc)))
        \subseteq MsgTypes \X Reqs \X Services
  BY <1>1
<1> QED BY <1>2 DEF TypeInv, TypeOK, Publish

LEMMA PutServiceType ==
  ASSUME TypeInv, NEW r \in Reqs, NEW s \in Services, NEW st \in ServiceStatus, NEW from,
         PutService(r, s, st, from) \/ UNCHANGED svcs
  PROVE  svcs' \in [Reqs -> [Services -> ServiceStatus]]
<1>1. svcs \in [Reqs -> [Services -> ServiceStatus]]
  BY DEF TypeInv, TypeOK
<1>2. [svcs EXCEPT ![r][s] = st] \in [Reqs -> [Services -> ServiceStatus]]
  BY <1>1
<1> QED BY <1>1, <1>2 DEF PutService

LEMMA FaultType ==
  ASSUME TypeInv, Fault \/ NoFault
  PROVE  faults' \in Nat
BY DEF TypeInv, TypeOK, Fault, NoFault

\* What TypeInv says of one busy process.
LEMMA BusyFacts ==
  ASSUME TypeInv, NEW p \in Procs, procs[p].pc # "idle"
  PROVE  /\ ProcsOK /\ procs[p].req \in Reqs /\ procs[p].loc \in Request
         /\ rows[procs[p].req] \in Request /\ procs[p].at \in Nat
         /\ procs[p].sts \in [Services -> ServiceStatus] /\ procs[p].todo \subseteq Services
         /\ procs[p].kind \in LinkKinds \cup {Nil} /\ procs[p].link \in 0..MaxLinks
         /\ svcs[procs[p].req] \in [Services -> ServiceStatus]
<1>1. procs[p] \in Proc /\ procs[p].req \in Reqs /\ ProcsOK
  BY DEF TypeInv, TypeOK, ProcsOK, Busy
<1> QED BY <1>1 DEF TypeInv, TypeOK, Proc

\* The steps that open a request keep the types.
LEMMA OpeningTypes ==
  ASSUME TypeInv, NEW p \in Procs,
         \/ \E u \in Users, sc \in Scopes, r \in Reqs : OpenRequest(p, u, sc, r)
         \/ Create(p) \/ ExpireUnconfirmed(p) \/ SendConfirm(p)
  PROVE  TypeInv'
<1>1. ASSUME NEW u \in Users, NEW sc \in Scopes, NEW r \in Reqs, OpenRequest(p, u, sc, r)
      PROVE  TypeInv'
  <2>1. ProcsOK /\ now \in Nat
    BY DEF TypeInv, TypeOK, ProcsOK
  <2>2. NewRequest(u, sc, now) \in Request
    BY <2>1, NewRequestType
  <2>3. "request" \in OpNames /\ "create" \in Steps
    BY DEF OpNames, Steps
  <2>4. Begin(p, "request", "create", r, NewRequest(u, sc, now), "none")
    BY <1>1 DEF OpenRequest
  <2>5. ProcsOK'
    BY <2>1, <2>2, <2>3, <2>4, BeginType
  <2> QED BY <1>1, <2>5 DEF TypeInv, TypeOK, ProcsOK, OpenRequest, mail
<1>2. ASSUME Create(p) PROVE TypeInv'
  <2>1. procs[p].pc # "idle" /\ ProcsOK
    BY <1>2 DEF Create, TypeInv, TypeOK, ProcsOK
  <2>2. procs[p].loc \in Request /\ procs[p].req \in Reqs
    BY <2>1, BusyFacts
  <2>3. /\ Fault \/ NoFault
        /\ Goto(p, "confirmMail") \/ Goto(p, "expireOpen") \/ Return(p)
    BY <1>2 DEF Create
  <2>4. rows' \in [Reqs -> Request] /\ marker' \in [Users -> Reqs \cup {Nil}]
    BY <1>2, <2>2 DEF TypeInv, TypeOK, Create, PutNew, Unsaved
  <2>5. ProcsOK'
    BY <2>1, <2>3, StepNames, GotoType, ReturnType
  <2>6. faults' \in Nat
    BY <1>2, FaultType DEF Create
  <2> QED BY <1>2, <2>4, <2>5, <2>6 DEF TypeInv, TypeOK, ProcsOK, Create, mail
<1>3. ASSUME ExpireUnconfirmed(p) PROVE TypeInv'
  <2>1. procs[p].pc # "idle" /\ ProcsOK
    BY ZenonT(30), <1>3 DEF ExpireUnconfirmed, TypeInv, TypeOK, ProcsOK
  <2>2. /\ Goto(p, "createAgain") \/ Return(p)
        /\ Fault \/ NoFault
        /\ \/ Unsaved
           \/ /\ rows' = [rows EXCEPT ![marker[procs[p].loc.user]] = Expire(@)]
              /\ marker' = [marker EXCEPT ![procs[p].loc.user] = Nil]
    BY <1>3 DEF ExpireUnconfirmed
  <2>3. \A r \in Reqs : Expire(rows[r]) \in Request
    BY ExpireType DEF TypeInv, TypeOK
  <2>4. rows' \in [Reqs -> Request] /\ marker' \in [Users -> Reqs \cup {Nil}]
    BY <2>2, <2>3, SMTT(20) DEF TypeInv, TypeOK, Unsaved
  <2>5. ProcsOK'
    BY <2>1, <2>2, StepNames, GotoType, ReturnType
  <2>6. faults' \in Nat
    BY <2>2, FaultType
  <2> QED BY ZenonT(30), <1>3, <2>4, <2>5, <2>6 DEF TypeInv, TypeOK, ProcsOK, ExpireUnconfirmed, mail
<1>4. ASSUME SendConfirm(p) PROVE TypeInv'
  <2>1. procs[p].pc # "idle"
    BY <1>4 DEF SendConfirm
  <2>2. ProcsOK /\ procs[p].loc \in Request /\ procs[p].req \in Reqs
    BY <2>1, BusyFacts
  <2> DEFINE x == [procs[p] EXCEPT !.pc = "save", !.loc = Expire(@),
                                   !.from = "awaiting_confirmation"]
  <2>3. Return(p) \/ procs' = [procs EXCEPT ![p] = x]
    BY <1>4 DEF SendConfirm
  <2>4. x \in Proc /\ Busy(x)
    <3>1. Expire(procs[p].loc) \in Request /\ "awaiting_confirmation" \in States
      BY <2>2, ExpireType, StateNames
    <3>2. procs[p] \in Proc
      BY <2>2 DEF ProcsOK
    <3>3. x \in Proc
      BY <3>1, <3>2, StepNames DEF Proc
    <3>4. x.pc = "save" /\ x.req = procs[p].req
      BY <3>2 DEF Proc
    <3> QED BY <2>2, <3>3, <3>4 DEF Busy
  <2> HIDE DEF x
  <2>5. ProcsOK'
    BY <2>2, <2>3, <2>4, ReturnType, ProcsUpdate
  <2>6. faults' \in Nat /\ confirmMailed' \subseteq Reqs
    BY <1>4, <2>2, FaultType DEF SendConfirm, TypeInv, TypeOK
  <2> QED BY <1>4, <2>5, <2>6 DEF TypeInv, TypeOK, ProcsOK, SendConfirm
<1> QED BY <1>1, <1>2, <1>3, <1>4

LEMMA AfterLockType ==
  ASSUME TypeInv, NEW p \in Procs, procs[p].pc # "idle", AfterLock(p)
  PROVE  ProcsOK'
<1>1. ProcsOK /\ procs[p] \in Proc /\ procs[p].req \in Reqs
  BY BusyFacts DEF ProcsOK
<1> DEFINE x == [procs[p] EXCEPT !.pc = "link", !.kind = "scheduled"]
<1>2. Return(p) \/ procs' = [procs EXCEPT ![p] = x]
  BY DEF AfterLock
<1>3. x \in Proc /\ x.pc = "link" /\ x.req = procs[p].req
  BY <1>1, StepNames DEF Proc, LinkKinds
<1> HIDE DEF x
<1>4. Busy(x)
  BY <1>1, <1>3 DEF Busy
<1> QED BY <1>1, <1>2, <1>3, <1>4, ReturnType, ProcsUpdate

\* A step that sets pc and the state the next Save expects.
LEMMA ExpectType ==
  ASSUME TypeInv, NEW p \in Procs, procs[p].pc # "idle",
         NEW pc \in Steps, pc \notin {"redispatch", "bump", "linkMail"}, NEW s \in States,
         procs' = [procs EXCEPT ![p].pc = pc, ![p].from = s]
  PROVE  ProcsOK'
<1>1. ProcsOK /\ procs[p] \in Proc /\ procs[p].req \in Reqs
  BY BusyFacts DEF ProcsOK
<1> DEFINE x == [procs[p] EXCEPT !.pc = pc, !.from = s]
<1>2. procs' = [procs EXCEPT ![p] = x]
  OBVIOUS
<1>3. x \in Proc /\ x.pc = pc /\ x.req = procs[p].req
  BY <1>1 DEF Proc
<1> HIDE DEF x
<1>4. Busy(x)
  BY <1>1, <1>3 DEF Busy
<1> QED BY <1>1, <1>2, <1>3, <1>4, ProcsUpdate

\* Setting or clearing a user's block, and the tombstone.
LEMMA UserBlockType ==
  ASSUME NEW U \in [Users -> UserBlock], NEW u, NEW d \in {"none", "pending", "purged"},
         NEW r \in Reqs \cup {Nil}, NEW L \in SUBSET Services
  PROVE  /\ [U EXCEPT ![u].del = d, ![u].req = r] \in [Users -> UserBlock]
         /\ [U EXCEPT ![u].del = d, ![u].unlinked = L] \in [Users -> UserBlock]
         /\ [U EXCEPT ![u].unlinked = L] \in [Users -> UserBlock]
<1> DEFINE V == [U EXCEPT ![u].del = d]
<1>1. V \in [Users -> UserBlock]
  BY DEF UserBlock
<1> HIDE DEF V
<1>2. [V EXCEPT ![u].req = r] \in [Users -> UserBlock]
  BY <1>1 DEF UserBlock
<1>3. [V EXCEPT ![u].unlinked = L] \in [Users -> UserBlock]
  BY <1>1 DEF UserBlock
<1>4. [U EXCEPT ![u].unlinked = L] \in [Users -> UserBlock]
  BY DEF UserBlock
<1> QED BY <1>2, <1>3, <1>4 DEF V

\* Confirm and the lock keep the types.
LEMMA ConfirmTypes ==
  ASSUME TypeInv, NEW p \in Procs,
         \/ \E r \in Reqs : Confirm(p, r)
         \/ SaveConfirmed(p) \/ MarkPendingDeletion(p) \/ PublishLocked(p)
         \/ SaveLock(p) \/ Recheck(p)
  PROVE  TypeInv'
<1>1. ASSUME NEW r \in Reqs, Confirm(p, r) PROVE TypeInv'
  <2>1. ProcsOK /\ now \in Nat /\ rows[r] \in Request
    BY DEF TypeInv, TypeOK, ProcsOK
  <2>2. Confirmed(rows[r], now) \in Request
    BY <2>1, ConfirmedType
  <2>3. "confirm" \in OpNames /\ "confirmSave" \in Steps /\ "awaiting_confirmation" \in States
    BY DEF OpNames, Steps, States
  <2>4. Begin(p, "confirm", "confirmSave", r, Confirmed(rows[r], now), "awaiting_confirmation")
    BY <1>1 DEF Confirm
  <2>5. ProcsOK'
    BY <2>1, <2>2, <2>3, <2>4, BeginType
  <2> QED BY <1>1, <2>5 DEF TypeInv, TypeOK, ProcsOK, Confirm, mail
<1>2. ASSUME SaveConfirmed(p) PROVE TypeInv'
  <2>1. procs[p].pc # "idle" /\ ProcsOK
    BY <1>2 DEF SaveConfirmed, TypeInv, TypeOK, ProcsOK
  <2>2. LockStep(procs[p].loc) \in Steps /\ LockStep(procs[p].loc) \notin {"redispatch", "bump", "linkMail"}
    BY StepNames DEF LockStep
  <2>3. \/ Return(p)
        \/ procs' = [procs EXCEPT ![p].pc = LockStep(procs[p].loc), ![p].from = "pending_deletion"]
    BY <1>2 DEF SaveConfirmed
  <2>4. ProcsOK'
    BY <2>1, <2>2, <2>3, StateNames, ExpectType, ReturnType
  <2>5. Saved(p) \/ StateChanged(p) \/ SaveFailed(p)
    BY <1>2 DEF SaveConfirmed
  <2>6. /\ rows' \in [Reqs -> Request] /\ marker' \in [Users -> Reqs \cup {Nil}]
        /\ faults' \in Nat
    BY <2>1, <2>5, SaveType
  <2> QED BY <1>2, <2>4, <2>6 DEF TypeInv, TypeOK, ProcsOK, SaveConfirmed, mail
<1>3. ASSUME MarkPendingDeletion(p) PROVE TypeInv'
  <2>1. procs[p].pc # "idle"
    BY <1>3 DEF MarkPendingDeletion
  <2>2. ProcsOK /\ procs[p].req \in Reqs
    BY <2>1, BusyFacts
  <2>3. Goto(p, "publishLocked") \/ AfterLock(p)
    BY <1>3 DEF MarkPendingDeletion
  <2>4. ProcsOK'
    BY <2>1, <2>2, <2>3, StepNames, GotoType, AfterLockType
  <2>5. [users EXCEPT ![procs[p].loc.user].del = "pending",
                      ![procs[p].loc.user].req = procs[p].req] \in [Users -> UserBlock]
    BY <2>2, UserBlockType DEF TypeInv, TypeOK
  <2>6. users' \in [Users -> UserBlock] /\ faults' \in Nat
    BY <1>3, <2>5, FaultType DEF MarkPendingDeletion, TypeInv, TypeOK
  <2> QED BY <1>3, <2>4, <2>6 DEF TypeInv, TypeOK, ProcsOK, MarkPendingDeletion, mail
<1>4. ASSUME PublishLocked(p) PROVE TypeInv'
  <2>1. procs[p].pc # "idle"
    BY <1>4 DEF PublishLocked
  <2>2. ProcsOK /\ procs[p].loc \in Request /\ now \in Nat
    BY <2>1, BusyFacts DEF TypeInv, TypeOK
  <2>3. \/ Goto(p, "erase") \/ AfterLock(p)
        \/ Keep(p, "lockSave", LockRecorded(procs[p].loc, now))
    BY <1>4 DEF PublishLocked
  <2>4. LockRecorded(procs[p].loc, now) \in Request
    BY <2>2, LockRecordedType
  <2>5. ProcsOK'
    BY <2>1, <2>2, <2>3, <2>4, StepNames, GotoType, KeepType, AfterLockType
  <2>6. Publish(p, "locked", Services) \/ UNCHANGED msgs
    BY <1>4 DEF PublishLocked
  <2>7. msgs' \subseteq MsgTypes \X Reqs \X Services
    <3>1. "locked" \in MsgTypes /\ Services \in SUBSET Services
      BY DEF MsgTypes
    <3> QED BY <2>1, <2>6, <3>1, PublishType
  <2>8. faults' \in Nat
    BY <1>4, FaultType DEF PublishLocked
  <2> QED BY <1>4, <2>5, <2>7, <2>8 DEF TypeInv, TypeOK, ProcsOK, PublishLocked, mail
<1>5. ASSUME SaveLock(p) PROVE TypeInv'
  <2>1. procs[p].pc # "idle" /\ ProcsOK
    BY <1>5 DEF SaveLock, TypeInv, TypeOK, ProcsOK
  <2>2. /\ AfterLock(p) \/ Goto(p, "recheck")
        /\ Saved(p) \/ StateChanged(p) \/ SaveFailed(p)
    BY <1>5 DEF SaveLock
  <2>3. ProcsOK'
    BY <2>1, <2>2, StepNames, GotoType, AfterLockType
  <2>4. /\ rows' \in [Reqs -> Request] /\ marker' \in [Users -> Reqs \cup {Nil}]
        /\ faults' \in Nat
    BY <2>1, <2>2, SaveType
  <2> QED BY <1>5, <2>3, <2>4 DEF TypeInv, TypeOK, ProcsOK, SaveLock, mail
<1>6. ASSUME Recheck(p) PROVE TypeInv'
  <2>1. procs[p].pc # "idle"
    BY <1>6 DEF Recheck
  <2>2. ProcsOK /\ procs[p] \in Proc /\ procs[p].req \in Reqs /\ rows[procs[p].req] \in Request
    BY <2>1, BusyFacts DEF ProcsOK
  <2> DEFINE x == [procs[p] EXCEPT !.op = "undoLock", !.pc = UnlockStep(rows[procs[p].req]),
                                   !.loc = rows[procs[p].req], !.from = "cancelled"]
  <2>3. Return(p) \/ procs' = [procs EXCEPT ![p] = x]
    BY <1>6 DEF Recheck
  <2>4. UnlockStep(rows[procs[p].req]) \in Steps \ {"redispatch", "bump", "linkMail"}
    BY StepNames DEF UnlockStep
  <2>5. x \in Proc
    BY <2>2, <2>4, StateNames DEF Proc
  <2>6. x.pc = UnlockStep(rows[procs[p].req]) /\ x.req = procs[p].req
    BY <2>2 DEF Proc
  <2> HIDE DEF x
  <2>7. Busy(x)
    BY <2>2, <2>4, <2>6 DEF Busy
  <2>8. ProcsOK'
    BY <2>2, <2>3, <2>5, <2>7, ReturnType, ProcsUpdate
  <2>9. faults' \in Nat
    BY <1>6, FaultType DEF Recheck
  <2> QED BY <1>6, <2>8, <2>9 DEF TypeInv, TypeOK, ProcsOK, Recheck, mail
<1> QED BY <1>1, <1>2, <1>3, <1>4, <1>5, <1>6

\* The cancel links keep the types.
LEMMA LinkTypes ==
  ASSUME TypeInv, NEW p \in Procs, StoreLink(p) \/ SendLink(p)
  PROVE  TypeInv'
<1>1. ASSUME StoreLink(p) PROVE TypeInv'
  <2>1. procs[p].pc # "idle"
    BY <1>1 DEF StoreLink
  <2>2. /\ ProcsOK /\ procs[p] \in Proc /\ procs[p].req \in Reqs
        /\ procs[p].loc \in Request
    BY <2>1, BusyFacts DEF ProcsOK
  <2> DEFINE k == linksMade[procs[p].req] + 1
             r == [procs[p].loc EXCEPT !.links = @ \cup {k}]
             x == [procs[p] EXCEPT !.pc = "linkMail", !.loc = r, !.link = k, !.from = r.state]
  <2>3. k \in Links /\ k \in 0..MaxLinks
    <3>1. linksMade[procs[p].req] \in 0..MaxLinks
      BY SMTT(20), <2>2 DEF TypeInv, TypeOK
    <3>2. linksMade[procs[p].req] < MaxLinks /\ MaxLinks \in Nat
      BY SMTT(20), <1>1, TimesAssumption DEF StoreLink
    <3> QED BY <3>1, <3>2 DEF Links
  <2>4. /\ Return(p) \/ procs' = [procs EXCEPT ![p] = x]
        /\ Fault \/ NoFault
        /\ UNCHANGED rows \/ rows' = [rows EXCEPT ![procs[p].req] = r]
        /\ linksMade' = [linksMade EXCEPT ![procs[p].req] = k]
    BY <1>1 DEF StoreLink
  <2> HIDE DEF k
  <2>5. r \in Request /\ r.state = procs[p].loc.state
    BY <2>2, <2>3, WithLinks DEF Request
  <2> HIDE DEF r
  <2>6. x \in Proc /\ x.pc = "linkMail" /\ x.req = procs[p].req /\ x.link = k
    <3>1. r.state \in States \cup {"none"}
      BY <2>5 DEF Request
    <3> QED BY <2>2, <2>3, <2>5, <3>1, StepNames DEF Proc
  <2> HIDE DEF x
  <2>7. Busy(x)
    BY <2>2, <2>3, <2>6 DEF Busy
  <2>8. ProcsOK'
    BY <2>2, <2>4, <2>6, <2>7, ReturnType, ProcsUpdate
  <2>9. faults' \in Nat
    BY <2>4, FaultType
  <2>10. rows' \in [Reqs -> Request] /\ linksMade' \in [Reqs -> 0..MaxLinks]
    BY <2>2, <2>3, <2>4, <2>5 DEF TypeInv, TypeOK
  <2> QED BY SMTT(20), <1>1, <2>8, <2>9, <2>10 DEF TypeInv, TypeOK, ProcsOK, StoreLink
<1>2. ASSUME SendLink(p) PROVE TypeInv'
  <2>1. procs[p].pc # "idle"
    BY <1>2 DEF SendLink
  <2>2. /\ ProcsOK /\ procs[p].req \in Reqs /\ procs[p].loc \in Request /\ now \in Nat
        /\ procs[p].link \in Links
    BY <1>2, <2>1, BusyFacts DEF TypeInv, TypeOK, Busy, SendLink
  <2>3. Return(p) \/ Keep(p, "save", LinkSent(procs[p].loc, procs[p].kind, now))
    BY <1>2 DEF SendLink
  <2>4. ProcsOK'
    BY <2>1, <2>2, <2>3, StepNames, LinkSentType, ReturnType, KeepType
  <2>5. linksMailed' \in [Reqs -> SUBSET Links]
    BY <1>2, <2>2 DEF SendLink, TypeInv, TypeOK
  <2>6. faults' \in Nat
    BY <1>2, FaultType DEF SendLink
  <2> QED BY <1>2, <2>4, <2>5, <2>6 DEF TypeInv, TypeOK, ProcsOK, SendLink
<1> QED BY <1>1, <1>2

LEMMA UnlockFailedType ==
  ASSUME TypeInv, NEW p \in Procs, procs[p].pc # "idle", UnlockFailed(p)
  PROVE  ProcsOK'
<1>1. ProcsOK /\ procs[p].loc \in Request /\ now \in Int
  BY BusyFacts DEF TypeInv, TypeOK
<1>2. SetDue(procs[p].loc, now) \in Request
  BY <1>1, WithDue
<1> QED BY <1>1, <1>2, StepNames, ReturnType, KeepType DEF UnlockFailed

\* Cancelling and unlocking keep the types.
LEMMA CancelTypes ==
  ASSUME TypeInv, NEW p \in Procs,
         \/ \E r \in Reqs : Cancel(p, r) \/ SupportCancel(p, r)
         \/ SaveCancelled(p) \/ ClearPendingDeletion(p) \/ PublishUnlocked(p)
  PROVE  TypeInv'
<1>1. ASSUME NEW r \in Reqs, NEW op \in OpNames, CancelRow(p, op, r) PROVE TypeInv'
  <2>1. ProcsOK /\ now \in Nat /\ rows[r] \in Request
    BY DEF TypeInv, TypeOK, ProcsOK
  <2>2. Cancelled(rows[r], now) \in Request /\ rows[r].state \in States \cup {"none"}
    BY <2>1, CancelledType DEF Request
  <2>3. Begin(p, op, "cancelSave", r, Cancelled(rows[r], now), rows[r].state)
    BY <1>1 DEF CancelRow
  <2>4. ProcsOK'
    BY <2>1, <2>2, <2>3, StepNames, BeginType
  <2> QED BY <1>1, <2>4 DEF TypeInv, TypeOK, ProcsOK, CancelRow, mail
<1>2. ASSUME SaveCancelled(p) PROVE TypeInv'
  <2>1. procs[p].pc # "idle" /\ ProcsOK
    BY <1>2 DEF SaveCancelled, TypeInv, TypeOK, ProcsOK
  <2>2. /\ UnlockStep(procs[p].loc) \in Steps
        /\ UnlockStep(procs[p].loc) \notin {"redispatch", "bump", "linkMail"}
    BY StepNames DEF UnlockStep
  <2>3. \/ Return(p)
        \/ procs' = [procs EXCEPT ![p].pc = UnlockStep(procs[p].loc), ![p].from = "cancelled"]
    BY <1>2 DEF SaveCancelled
  <2>4. ProcsOK'
    BY <2>1, <2>2, <2>3, StateNames, ExpectType, ReturnType
  <2>5. Saved(p) \/ StateChanged(p) \/ SaveFailed(p)
    BY <1>2 DEF SaveCancelled
  <2>6. /\ rows' \in [Reqs -> Request] /\ marker' \in [Users -> Reqs \cup {Nil}]
        /\ faults' \in Nat
    BY <2>1, <2>5, SaveType
  <2> QED BY <1>2, <2>4, <2>6 DEF TypeInv, TypeOK, ProcsOK, SaveCancelled, mail
<1>3. ASSUME ClearPendingDeletion(p) PROVE TypeInv'
  <2>1. procs[p].pc # "idle" /\ ProcsOK
    BY SMTT(20), <1>3 DEF ClearPendingDeletion, TypeInv, TypeOK, ProcsOK
  <2>2. Goto(p, "publishUnlocked") \/ UnlockFailed(p)
    BY <1>3 DEF ClearPendingDeletion
  <2>3. ProcsOK'
    BY <2>1, <2>2, StepNames, GotoType, UnlockFailedType
  <2>4. [users EXCEPT ![procs[p].loc.user].del = "none", ![procs[p].loc.user].req = Nil]
          \in [Users -> UserBlock]
    BY UserBlockType DEF TypeInv, TypeOK
  <2>5. users' \in [Users -> UserBlock] /\ faults' \in Nat
    BY <1>3, <2>4, FaultType DEF ClearPendingDeletion, TypeInv, TypeOK
  <2> QED BY <1>3, <2>3, <2>5 DEF TypeInv, TypeOK, ProcsOK, ClearPendingDeletion, mail
<1>4. ASSUME PublishUnlocked(p) PROVE TypeInv'
  <2>1. procs[p].pc # "idle"
    BY <1>4 DEF PublishUnlocked
  <2>2. ProcsOK /\ procs[p].loc \in Request
    BY <2>1, BusyFacts
  <2>3. Return(p) \/ Keep(p, "save", ClearDue(procs[p].loc)) \/ UnlockFailed(p)
    BY <1>4 DEF PublishUnlocked
  <2>4. ProcsOK'
    BY <2>1, <2>2, <2>3, StepNames, ClearDueType, ReturnType, KeepType, UnlockFailedType
  <2>5. Publish(p, "unlocked", Services) \/ UNCHANGED msgs
    BY <1>4 DEF PublishUnlocked
  <2>6. msgs' \subseteq MsgTypes \X Reqs \X Services
    <3>1. "unlocked" \in MsgTypes /\ Services \in SUBSET Services
      BY DEF MsgTypes
    <3> QED BY <2>1, <2>5, <3>1, PublishType
  <2>7. faults' \in Nat
    BY <1>4, FaultType DEF PublishUnlocked
  <2> QED BY <1>4, <2>4, <2>6, <2>7 DEF TypeInv, TypeOK, ProcsOK, PublishUnlocked, mail
<1>5. "cancel" \in OpNames /\ "supportCancel" \in OpNames
  BY DEF OpNames
<1>6. ASSUME NEW r \in Reqs, Cancel(p, r) \/ SupportCancel(p, r) PROVE TypeInv'
  BY <1>1, <1>5, <1>6 DEF Cancel, SupportCancel
<1> QED BY <1>2, <1>3, <1>4, <1>6

\* The worker's steps and the final Save keep the types.
LEMMA WorkerTypes ==
  ASSUME TypeInv, NEW p \in Procs, (\E r \in Reqs : ProcessDue(p, r)) \/ Save(p)
  PROVE  TypeInv'
<1>1. ASSUME NEW r \in Reqs, ProcessDue(p, r) PROVE TypeInv'
  <2>1. ProcsOK /\ now \in Nat /\ rows \in [Reqs -> Request] /\ rows[r] \in Request
    BY DEF TypeInv, TypeOK, ProcsOK
  <2>2. PICK t \in Nat : \/ StepAwaiting(p, r, t) \/ StepCancelled(p, r, t)
                         \/ StepPending(p, r, t) \/ StepBlocked(p, r, t)
                         \/ StepLocked(p, r, t) \/ StepPurging(p, r, t)
    BY <1>1, <2>1 DEF ProcessDue
  <2>3. \E pc \in {"save", "clear", "publishUnlocked", "link", "mark", "publishLocked",
                   "purge", "reconcile"},
           row \in Request, kind \in LinkKinds \cup {Nil} : Take(p, r, t, pc, row, kind)
    <3>1. CASE StepAwaiting(p, r, t)
      BY <2>1, <3>1, ExpireType DEF StepAwaiting
    <3>2. CASE StepCancelled(p, r, t)
      BY <2>1, <3>2 DEF StepCancelled, UnlockStep
    <3>3. CASE StepBlocked(p, r, t)
      BY <2>1, <3>3 DEF StepBlocked, LinkKinds
    <3>4. CASE StepLocked(p, r, t)
      BY <2>1, <3>4 DEF StepLocked, LockStep
    <3>5. SetDue(rows[r], t + LegalHoldRecheck) \in Request
      BY <2>1, TimesAssumption, WithDue
    <3>6. CASE StepPurging(p, r, t)
      BY <2>1, <3>5, <3>6 DEF StepPurging
    <3>7. CASE EndGrace(p, r, t)
      <4>1. ASSUME NEW s \in {"blocked", "locked"}
            PROVE  SetDue([rows[r] EXCEPT !.state = s], t) \in Request
        <5>1. [rows[r] EXCEPT !.state = s] \in Request
          BY <2>1, StateNames, WithState
        <5> QED BY <5>1, WithDue
      <4> QED BY <3>5, <3>7, <4>1 DEF EndGrace
    <3>8. CASE StepPending(p, r, t)
      <4>1. \/ Take(p, r, t, LockStep(rows[r]), rows[r], Nil)
            \/ Take(p, r, t, "link", rows[r], "scheduled")
            \/ Take(p, r, t, "link", rows[r], "reminder")
            \/ EndGrace(p, r, t)
        BY <3>8 DEF StepPending
      <4> QED BY <2>1, <3>7, <4>1 DEF LockStep, LinkKinds
    <3> QED BY <2>2, <3>1, <3>2, <3>3, <3>4, <3>6, <3>8
  <2>4. ProcsOK'
    BY <2>1, <2>3, StepNames, TakeType
  <2> QED BY <1>1, <2>4 DEF TypeInv, TypeOK, ProcsOK, ProcessDue, mail
<1>2. ASSUME Save(p) PROVE TypeInv'
  <2>1. procs[p].pc # "idle" /\ ProcsOK
    BY <1>2 DEF Save, TypeInv, TypeOK, ProcsOK
  <2>2. ProcsOK'
    BY <1>2, <2>1, ReturnType DEF Save
  <2>3. Saved(p) \/ StateChanged(p) \/ SaveFailed(p)
    BY <1>2 DEF Save
  <2>4. /\ rows' \in [Reqs -> Request] /\ marker' \in [Users -> Reqs \cup {Nil}]
        /\ faults' \in Nat
    BY <2>1, <2>3, SaveType
  <2> QED BY <1>2, <2>2, <2>4 DEF TypeInv, TypeOK, ProcsOK, Save, mail
<1> QED BY <1>1, <1>2

LEMMA PutServicesType ==
  ASSUME TypeInv, NEW p \in Procs, PutServices(p)
  PROVE  TypeInv'
<1>1. procs[p].pc # "idle"
  BY DEF PutServices
<1>2. ProcsOK /\ procs[p].loc \in Request /\ procs[p].at \in Nat /\ procs[p].req \in Reqs
  BY <1>1, BusyFacts
<1>3. PICK done \in SUBSET ParticipantsFor(procs[p].loc) :
        /\ svcs' = [svcs EXCEPT ![procs[p].req] = [s \in Services |->
                     IF s \in done /\ @[s].status = "none" THEN FirstDispatch(procs[p].at)
                                                            ELSE @[s]]]
        /\ \/ Keep(p, "save", SetDue([procs[p].loc EXCEPT !.state = "purging"], procs[p].at))
           \/ Return(p)
        /\ Fault \/ NoFault
  BY DEF PutServices
<1>4. [procs[p].loc EXCEPT !.state = "purging"] \in Request
  BY <1>2, StateNames, WithState
<1>5. SetDue([procs[p].loc EXCEPT !.state = "purging"], procs[p].at) \in Request
  BY <1>2, <1>4, WithDue
<1>6. ProcsOK'
  BY <1>1, <1>2, <1>3, <1>5, StepNames, KeepType, ReturnType
<1>7. svcs' \in [Reqs -> [Services -> ServiceStatus]]
  <2>1. svcs \in [Reqs -> [Services -> ServiceStatus]]
    BY DEF TypeInv, TypeOK
  <2>2. FirstDispatch(procs[p].at) \in ServiceStatus
    BY <1>2, TimesAssumption DEF FirstDispatch, ServiceStatus
  <2> DEFINE new == [s \in Services |-> IF s \in done /\ svcs[procs[p].req][s].status = "none"
                                        THEN FirstDispatch(procs[p].at)
                                        ELSE svcs[procs[p].req][s]]
  <2>3. new \in [Services -> ServiceStatus]
    BY <1>2, <2>1, <2>2
  <2>4. svcs' = [svcs EXCEPT ![procs[p].req] = new]
    BY <1>3
  <2> HIDE DEF new
  <2> QED BY <2>1, <2>3, <2>4
<1>8. faults' \in Nat
  BY <1>3, FaultType
<1> QED BY <1>6, <1>7, <1>8 DEF TypeInv, TypeOK, ProcsOK, PutServices, mail

LEMMA ReconcileType ==
  ASSUME TypeInv, NEW p \in Procs, Reconcile(p)
  PROVE  TypeInv'
<1>1. procs[p].pc # "idle"
  BY DEF Reconcile
<1>2. /\ ProcsOK /\ procs[p] \in Proc /\ procs[p].loc \in Request /\ procs[p].at \in Nat
      /\ procs[p].req \in Reqs /\ svcs[procs[p].req] \in [Services -> ServiceStatus]
  BY SMTT(20), <1>1, BusyFacts DEF ProcsOK
<1> DEFINE sts == svcs[procs[p].req]
           t == procs[p].at
           silent == Silent(sts, t)
           x == [procs[p] EXCEPT !.pc = "redispatch", !.sts = sts, !.todo = silent]
<1>3. \/ Keep(p, "save", ClearDue([procs[p].loc EXCEPT !.state = "stalled"]))
      \/ Goto(p, "purge") \/ Return(p)
      \/ procs' = [procs EXCEPT ![p] = x]
      \/ /\ \E s \in Services : sts[s].status = "dispatched"
         /\ Keep(p, "save", SetDue(procs[p].loc, NextReconcile(sts, t)))
  BY DEF Reconcile
<1>4. silent \subseteq Services /\ \A s \in silent : sts[s].status = "dispatched"
  BY DEF Silent
<1>5. sts \in [Services -> ServiceStatus] /\ t \in Nat
  BY <1>2
<1> HIDE DEF silent, sts, t
<1>6. x \in Proc /\ x.pc = "redispatch" /\ x.req = procs[p].req /\ x.sts = sts /\ x.todo = silent
  BY <1>2, <1>4, <1>5, StepNames DEF Proc
<1> HIDE DEF x
<1>7. Busy(x)
  BY <1>2, <1>4, <1>6 DEF Busy
<1>8. ClearDue([procs[p].loc EXCEPT !.state = "stalled"]) \in Request
  <2>1. [procs[p].loc EXCEPT !.state = "stalled"] \in Request
    BY <1>2, StateNames, WithState
  <2> QED BY <2>1, ClearDueType
<1>9. ASSUME \E s \in Services : sts[s].status = "dispatched"
      PROVE  SetDue(procs[p].loc, NextReconcile(sts, t)) \in Request
  <2>1. NextReconcile(sts, t) \in Int
    BY <1>5, <1>9, NextReconcileType
  <2> QED BY <1>2, <2>1, WithDue
<1>10. ProcsOK'
  <2>1. CASE Keep(p, "save", ClearDue([procs[p].loc EXCEPT !.state = "stalled"]))
    BY <1>1, <1>2, <1>8, <2>1, StepNames, KeepType
  <2>2. CASE Goto(p, "purge") \/ Return(p)
    BY <1>1, <1>2, <2>2, StepNames, GotoType, ReturnType
  <2>3. CASE procs' = [procs EXCEPT ![p] = x]
    BY <1>2, <1>6, <1>7, <2>3, ProcsUpdate
  <2>4. CASE /\ \E s \in Services : sts[s].status = "dispatched"
             /\ Keep(p, "save", SetDue(procs[p].loc, NextReconcile(sts, t)))
    BY <1>1, <1>2, <1>9, <2>4, StepNames, KeepType
  <2> QED BY <1>3, <2>1, <2>2, <2>3, <2>4
<1>11. faults' \in Nat
  BY FaultType DEF Reconcile
<1> QED BY SMTT(20), <1>10, <1>11 DEF TypeInv, TypeOK, ProcsOK, Reconcile, mail

LEMMA BumpServiceType ==
  ASSUME TypeInv, NEW p \in Procs, BumpService(p)
  PROVE  TypeInv'
<1>1. procs[p].pc = "bump" /\ procs[p].pc # "idle"
  BY DEF BumpService
<1>2. /\ ProcsOK /\ procs[p] \in Proc /\ procs[p].loc \in Request /\ procs[p].at \in Nat
      /\ procs[p].req \in Reqs /\ procs[p].sts \in [Services -> ServiceStatus]
      /\ procs[p].todo \subseteq Services
  BY <1>1, BusyFacts DEF ProcsOK
<1>3. \A s \in procs[p].todo : procs[p].sts[s].status = "dispatched"
  BY <1>1, <1>2 DEF ProcsOK, Busy
<1>4. PICK s \in procs[p].todo :
        /\ \/ PutService(procs[p].req, s, Dispatched(procs[p].sts[s], procs[p].at), "dispatched")
           \/ UNCHANGED svcs
        /\ \/ procs' = [procs EXCEPT ![p].todo = @ \ {s}]
           \/ Keep(p, "save", SetDue(procs[p].loc, NextReconcile(procs[p].sts, procs[p].at)))
           \/ Return(p)
        /\ Fault \/ NoFault
  BY DEF BumpService
<1>5. s \in Services /\ procs[p].sts[s] \in ServiceStatus
  BY <1>2
<1>6. SetDue(procs[p].loc, NextReconcile(procs[p].sts, procs[p].at)) \in Request
  <2>1. NextReconcile(procs[p].sts, procs[p].at) \in Int
    BY <1>2, <1>3, <1>5, NextReconcileType
  <2> QED BY <1>2, <2>1, WithDue
<1> DEFINE x == [procs[p] EXCEPT !.todo = @ \ {s}]
<1>7. /\ x \in Proc /\ x.pc = "bump" /\ x.req = procs[p].req /\ x.sts = procs[p].sts
      /\ x.todo = procs[p].todo \ {s}
  BY <1>1, <1>2 DEF Proc
<1>8. ProcsOK'
  <2>1. CASE procs' = [procs EXCEPT ![p].todo = @ \ {s}]
    <3>1. procs' = [procs EXCEPT ![p] = x]
      BY <2>1
    <3> HIDE DEF x
    <3>2. Busy(x)
      BY <1>2, <1>3, <1>7 DEF Busy
    <3> QED BY <1>2, <1>7, <3>1, <3>2, ProcsUpdate
  <2>2. CASE Keep(p, "save", SetDue(procs[p].loc, NextReconcile(procs[p].sts, procs[p].at)))
    BY <1>1, <1>2, <1>6, <2>2, StepNames, KeepType
  <2>3. CASE Return(p)
    BY <1>2, <2>3, ReturnType
  <2> QED BY <1>4, <2>1, <2>2, <2>3
<1>9. svcs' \in [Reqs -> [Services -> ServiceStatus]]
  <2>1. Dispatched(procs[p].sts[s], procs[p].at) \in ServiceStatus
    BY <1>2, <1>5, StatusFunctions
  <2> QED BY <1>2, <1>4, <1>5, <2>1, PutServiceType
<1>10. faults' \in Nat
  BY <1>4, FaultType
<1> QED BY <1>8, <1>9, <1>10 DEF TypeInv, TypeOK, ProcsOK, BumpService, mail

LEMMA PurgeType ==
  ASSUME TypeInv, NEW p \in Procs, Purge(p)
  PROVE  TypeInv'
<1>1. procs[p].pc # "idle"
  BY DEF Purge
<1>2. ProcsOK /\ procs[p].loc \in Request
  BY SMTT(20), <1>1, BusyFacts
<1> DEFINE u == procs[p].loc.user
<1>3. /\ Return(p) \/ Keep(p, "save", ClearDue([procs[p].loc EXCEPT !.state = "purged"]))
      /\ Fault \/ NoFault
      /\ \/ UNCHANGED users
         \/ users' = [users EXCEPT ![u].del = "purged", ![u].unlinked = {}]
         \/ /\ procs[p].loc.scope # "account"
            /\ users' = [users EXCEPT ![u].unlinked = users[u].unlinked \cup {procs[p].loc.scope}]
  BY DEF Purge
<1>4. ClearDue([procs[p].loc EXCEPT !.state = "purged"]) \in Request
  <2>1. [procs[p].loc EXCEPT !.state = "purged"] \in Request
    BY <1>2, StateNames, WithState
  <2> QED BY <2>1, ClearDueType
<1>5. ProcsOK'
  BY SMTT(20), <1>1, <1>2, <1>3, <1>4, StepNames, KeepType, ReturnType
<1>6. users' \in [Users -> UserBlock]
  <2>1. users \in [Users -> UserBlock] /\ {} \in SUBSET Services
    BY DEF TypeInv, TypeOK
  <2>2. [users EXCEPT ![u].del = "purged", ![u].unlinked = {}] \in [Users -> UserBlock]
    BY <2>1, UserBlockType
  <2>3. ASSUME procs[p].loc.scope # "account"
        PROVE  [users EXCEPT ![u].unlinked = users[u].unlinked \cup {procs[p].loc.scope}]
                 \in [Users -> UserBlock]
    <3>1. procs[p].loc.scope \in Services
      BY <1>2, <2>3 DEF Request, Scopes
    <3>2. CASE u \in Users
      <4>1. users[u].unlinked \cup {procs[p].loc.scope} \in SUBSET Services
        BY <2>1, <3>1, <3>2 DEF UserBlock
      <4> QED BY <2>1, <4>1, UserBlockType
    <3>3. CASE u \notin Users
      BY <2>1, <3>3
    <3> QED BY <3>2, <3>3
  <2> QED BY <1>3, <2>1, <2>2, <2>3
<1>7. faults' \in Nat
  BY <1>3, FaultType
<1> QED BY SMTT(20), <1>5, <1>6, <1>7 DEF TypeInv, TypeOK, ProcsOK, Purge, mail

\* The erasure saga keeps the types.
LEMMA SagaTypes ==
  ASSUME TypeInv, NEW p \in Procs,
         PublishErase(p) \/ PutServices(p) \/ Reconcile(p) \/ Redispatch(p)
         \/ BumpService(p) \/ Purge(p)
  PROVE  TypeInv'
<1>1. ASSUME PublishErase(p) \/ Redispatch(p) PROVE TypeInv'
  <2>1. procs[p].pc \in {"erase", "redispatch"} /\ procs[p].pc # "idle"
    BY <1>1 DEF PublishErase, Redispatch
  <2>2. ProcsOK /\ procs[p].todo \subseteq Services
    BY <2>1, BusyFacts
  <2>3. \/ Goto(p, "putServices") \/ Return(p)
        \/ procs[p].pc = "redispatch" /\ Goto(p, "bump")
    BY <1>1 DEF PublishErase, Redispatch
  <2>4. ProcsOK'
    BY <2>1, <2>2, <2>3, StepNames, GotoType, ReturnType
  <2>5. /\ \/ Publish(p, "erase", Services) \/ Publish(p, "erase", procs[p].todo)
           \/ UNCHANGED msgs
        /\ Fault \/ NoFault
    BY <1>1 DEF PublishErase, Redispatch
  <2>6. msgs' \subseteq MsgTypes \X Reqs \X Services
    <3>1. "erase" \in MsgTypes /\ Services \in SUBSET Services /\ procs[p].todo \in SUBSET Services
      BY <2>2 DEF MsgTypes
    <3> QED BY <2>1, <2>5, <3>1, PublishType
  <2>7. faults' \in Nat
    BY <2>5, FaultType
  <2> QED BY <1>1, <2>4, <2>6, <2>7
        DEF TypeInv, TypeOK, ProcsOK, PublishErase, Redispatch, mail
<1> QED BY <1>1, PutServicesType, ReconcileType, BumpServiceType, PurgeType

LEMMA RedriveResumeType ==
  ASSUME TypeInv, NEW p \in Procs, procs[p].pc # "idle", RedriveResume(p)
  PROVE  ProcsOK'
<1>1. ProcsOK /\ procs[p].loc \in Request /\ now \in Int
  BY BusyFacts DEF TypeInv, TypeOK
<1>2. [procs[p].loc EXCEPT !.state = "purging"] \in Request
  BY <1>1, StateNames, WithState
<1>3. SetDue([procs[p].loc EXCEPT !.state = "purging"], now) \in Request
  BY <1>1, <1>2, WithDue
<1> QED BY <1>1, <1>3, StepNames, ReturnType, KeepType DEF RedriveResume

\* A participant's answer keeps the types.
LEMMA AckTypes ==
  ASSUME TypeInv, NEW p \in Procs,
         \/ \E r \in Reqs, s \in Services, res \in {"acked", "blocked"} : Ack(p, r, s, res)
         \/ SaveAck(p) \/ AckGet(p)
  PROVE  TypeInv'
<1>1. ASSUME NEW r \in Reqs, NEW s \in Services, NEW res \in {"acked", "blocked"}, Ack(p, r, s, res)
      PROVE  TypeInv'
  <2> DEFINE new == [svcs[r] EXCEPT ![s].status = res]
             x == [Idle EXCEPT !.op = "ack", !.pc = "ackSave", !.req = r, !.todo = {s},
                               !.start = now, !.sts = new]
  <2>1. ProcsOK /\ now \in Nat /\ svcs[r] \in [Services -> ServiceStatus]
    BY DEF TypeInv, TypeOK, ProcsOK
  <2>2. new \in [Services -> ServiceStatus]
    BY <2>1 DEF ServiceStatus
  <2>3. procs' = [procs EXCEPT ![p] = x]
    BY <1>1 DEF Ack
  <2> HIDE DEF new
  <2>4. x \in Proc /\ x.pc = "ackSave" /\ x.req = r
    <3>1. "ack" \in OpNames
      BY DEF OpNames
    <3> QED BY <2>1, <2>2, <3>1, StepNames, IdleType DEF Proc
  <2> HIDE DEF x
  <2>5. Busy(x)
    BY <2>4 DEF Busy
  <2>6. ProcsOK'
    BY <2>1, <2>3, <2>4, <2>5, ProcsUpdate
  <2> QED BY <1>1, <2>6 DEF TypeInv, TypeOK, ProcsOK, Ack, mail
<1>2. ASSUME SaveAck(p) PROVE TypeInv'
  <2>1. procs[p].pc # "idle"
    BY <1>2 DEF SaveAck
  <2>2. /\ ProcsOK /\ procs[p].req \in Reqs /\ procs[p].todo \subseteq Services
        /\ procs[p].sts \in [Services -> ServiceStatus]
    BY <2>1, BusyFacts
  <2>3. PICK s \in procs[p].todo :
          /\ PutService(procs[p].req, s, procs[p].sts[s], "dispatched") \/ UNCHANGED svcs
          /\ Goto(p, "ackGet") \/ Return(p)
          /\ Fault \/ NoFault
    BY <1>2 DEF SaveAck
  <2>4. s \in Services /\ procs[p].sts[s] \in ServiceStatus
    BY <2>2
  <2>5. ProcsOK'
    BY <2>1, <2>2, <2>3, StepNames, GotoType, ReturnType
  <2>6. svcs' \in [Reqs -> [Services -> ServiceStatus]] /\ faults' \in Nat
    BY <2>2, <2>3, <2>4, PutServiceType, FaultType
  <2> QED BY <1>2, <2>5, <2>6 DEF TypeInv, TypeOK, ProcsOK, SaveAck, mail
<1>3. ASSUME AckGet(p) PROVE TypeInv'
  <2>1. procs[p].pc # "idle"
    BY <1>3 DEF AckGet
  <2>2. /\ ProcsOK /\ procs[p] \in Proc /\ procs[p].req \in Reqs
        /\ rows[procs[p].req] \in Request /\ now \in Int
    BY <2>1, BusyFacts DEF ProcsOK, TypeInv, TypeOK
  <2> DEFINE x == [procs[p] EXCEPT !.pc = "save", !.loc = SetDue(rows[procs[p].req], now),
                                   !.from = "purging"]
  <2>3. (Return(p) \/ procs' = [procs EXCEPT ![p] = x]) /\ (Fault \/ NoFault)
    BY <1>3 DEF AckGet
  <2>4. SetDue(rows[procs[p].req], now) \in Request
    BY <2>2, WithDue
  <2>5. x \in Proc /\ x.pc = "save" /\ x.req = procs[p].req
    BY <2>2, <2>4, StepNames, StateNames DEF Proc
  <2> HIDE DEF x
  <2>6. Busy(x)
    BY <2>2, <2>5 DEF Busy
  <2>7. ProcsOK'
    BY <2>2, <2>3, <2>5, <2>6, ReturnType, ProcsUpdate
  <2>8. faults' \in Nat
    BY <2>3, FaultType
  <2> QED BY <1>3, <2>7, <2>8 DEF TypeInv, TypeOK, ProcsOK, AckGet, mail
<1> QED BY <1>1, <1>2, <1>3

\* The support tools keep the types.
LEMMA SupportTypes ==
  ASSUME TypeInv, NEW p \in Procs,
         \/ \E r \in Reqs, a \in Admins, on \in BOOLEAN : SetLegalHold(p, r, a, on)
         \/ \E r \in Reqs, s \in Services : Redrive(p, r, s)
         \/ RedriveList(p) \/ RedriveSave(p)
  PROVE  TypeInv'
<1>1. ASSUME NEW r \in Reqs, NEW a \in Admins, NEW on \in BOOLEAN, SetLegalHold(p, r, a, on)
      PROVE  TypeInv'
  <2>1. ProcsOK /\ now \in Nat /\ rows[r] \in Request
    BY DEF TypeInv, TypeOK, ProcsOK
  <2> DEFINE h == IF on THEN a ELSE Nil
             held == [rows[r] EXCEPT !.hold = h]
  <2>2. \E row \in {held, SetDue(held, now)} : Begin(p, "hold", "save", r, row, rows[r].state)
    BY <1>1 DEF SetLegalHold
  <2>3. h \in Admins \cup {Nil}
    OBVIOUS
  <2> HIDE DEF h
  <2>4. held \in Request
    BY <2>1, <2>3, WithHold
  <2> HIDE DEF held
  <2>5. SetDue(held, now) \in Request
    BY <2>1, <2>4, WithDue
  <2>6. "hold" \in OpNames /\ rows[r].state \in States \cup {"none"}
    BY <2>1 DEF OpNames, Request
  <2>7. ProcsOK'
    BY <2>1, <2>2, <2>4, <2>5, <2>6, StepNames, BeginType
  <2> QED BY <1>1, <2>7 DEF TypeInv, TypeOK, ProcsOK, SetLegalHold, mail
<1>2. ASSUME NEW r \in Reqs, NEW s \in Services, Redrive(p, r, s) PROVE TypeInv'
  <2>1. ProcsOK /\ now \in Nat /\ rows[r] \in Request
    BY DEF TypeInv, TypeOK, ProcsOK
  <2> DEFINE x == [Idle EXCEPT !.op = "redrive", !.pc = "redriveList", !.req = r,
                               !.loc = rows[r], !.from = rows[r].state, !.todo = {s},
                               !.start = now]
  <2>2. procs' = [procs EXCEPT ![p] = x]
    BY <1>2 DEF Redrive
  <2>3. x \in Proc /\ x.pc = "redriveList" /\ x.req = r
    <3>1. "redrive" \in OpNames /\ rows[r].state \in States \cup {"none"}
      BY <2>1 DEF OpNames, Request
    <3> QED BY <2>1, <3>1, StepNames, IdleType DEF Proc
  <2> HIDE DEF x
  <2>4. Busy(x)
    BY <2>3 DEF Busy
  <2>5. ProcsOK'
    BY <2>1, <2>2, <2>3, <2>4, ProcsUpdate
  <2> QED BY <1>2, <2>5 DEF TypeInv, TypeOK, ProcsOK, Redrive, mail
<1>3. ASSUME RedriveList(p) PROVE TypeInv'
  <2>1. procs[p].pc # "idle" /\ ProcsOK
    BY <1>3 DEF RedriveList, TypeInv, TypeOK, ProcsOK
  <2>2. /\ Goto(p, "redriveSave") \/ RedriveResume(p) \/ Return(p)
        /\ Fault \/ NoFault
    BY <1>3 DEF RedriveList
  <2>3. ProcsOK'
    BY <2>1, <2>2, StepNames, GotoType, RedriveResumeType, ReturnType
  <2>4. faults' \in Nat
    BY <2>2, FaultType
  <2> QED BY <1>3, <2>3, <2>4 DEF TypeInv, TypeOK, ProcsOK, RedriveList, mail
<1>4. ASSUME RedriveSave(p) PROVE TypeInv'
  <2>1. procs[p].pc # "idle"
    BY <1>4 DEF RedriveSave
  <2>2. ProcsOK /\ procs[p].req \in Reqs /\ procs[p].todo \subseteq Services
    BY <2>1, BusyFacts
  <2>3. PICK s \in procs[p].todo :
          /\ PutService(procs[p].req, s, Redriven, "blocked") \/ UNCHANGED svcs
          /\ RedriveResume(p) \/ Return(p)
          /\ Fault \/ NoFault
    BY <1>4 DEF RedriveSave
  <2>4. s \in Services /\ Redriven \in ServiceStatus
    BY <2>2, TimesAssumption DEF Redriven, ServiceStatus
  <2>5. ProcsOK'
    BY <2>1, <2>2, <2>3, RedriveResumeType, ReturnType
  <2>6. svcs' \in [Reqs -> [Services -> ServiceStatus]] /\ faults' \in Nat
    BY <2>2, <2>3, <2>4, PutServiceType, FaultType
  <2> QED BY <1>4, <2>5, <2>6 DEF TypeInv, TypeOK, ProcsOK, RedriveSave, mail
<1> QED BY <1>1, <1>2, <1>3, <1>4

LEMMA TypeInit == Init => TypeInv
<1>1. ASSUME Init PROVE TypeInv
  <2>1. NoStatus \in ServiceStatus
    BY TimesAssumption DEF NoStatus, ServiceStatus
  <2>2. procs \in [Procs -> Proc] /\ \A p \in Procs : Busy(procs[p])
    BY <1>1, IdleType DEF Init
  <2>3. rows \in [Reqs -> Request] /\ svcs \in [Reqs -> [Services -> ServiceStatus]]
    BY <1>1, <2>1, NoRequestType DEF Init
  <2>4. linksMade \in [Reqs -> 0..MaxLinks] /\ linksMailed \in [Reqs -> SUBSET Links]
    BY <1>1, TimesAssumption DEF Init
  <2>5. users \in [Users -> UserBlock]
    BY <1>1 DEF Init, UserBlock
  <2> QED BY <1>1, <2>2, <2>3, <2>4, <2>5 DEF Init, TypeInv, TypeOK
<1> QED BY <1>1

LEMMA TypeStep == TypeInv /\ [Next]_vars => TypeInv'
<1> SUFFICES ASSUME TypeInv, [Next]_vars PROVE TypeInv'
  OBVIOUS
<1>1. CASE UNCHANGED vars
  BY <1>1 DEF TypeInv, TypeOK, Busy, vars
<1>2. CASE Tick
  BY <1>2 DEF TypeInv, TypeOK, Busy, Tick, mail
<1>3. ASSUME NEW p \in Procs, Crash(p) PROVE TypeInv'
  <2>1. ProcsOK /\ ProcsOK'
    BY <1>3, ReturnType DEF TypeInv, TypeOK, ProcsOK, Crash
  <2>2. faults' \in Nat
    BY <1>3, FaultType DEF Crash
  <2> QED BY <1>3, <2>1, <2>2 DEF TypeInv, TypeOK, ProcsOK, Crash, mail
<1>4. ASSUME NEW p \in Procs, Start(p) PROVE TypeInv'
  BY <1>4, OpeningTypes, ConfirmTypes, CancelTypes, WorkerTypes, AckTypes, SupportTypes
     DEF Start
<1>5. ASSUME NEW p \in Procs, Continue(p) PROVE TypeInv'
  BY <1>5, OpeningTypes, ConfirmTypes, LinkTypes, CancelTypes, WorkerTypes, SagaTypes,
     AckTypes, SupportTypes DEF Continue
<1> QED BY <1>1, <1>2, <1>3, <1>4, <1>5 DEF Next

\* Every reachable state of the deletion component is well typed, whatever the
\* number of people, requests, participants, processes and failures: in particular
\* the index into the back-off list never runs past its end, and every due time
\* reconcile computes exists.
THEOREM TypeCorrect == Spec => []TypeOK
<1>1. TypeInv => TypeOK
  BY DEF TypeInv
<1> QED BY <1>1, TypeInit, TypeStep, PTL DEF Spec

THEOREM TypeInvariant == Spec => []TypeInv
BY TypeInit, TypeStep, PTL DEF Spec
=============================================================================
