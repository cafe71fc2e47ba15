------------------------------ MODULE DueQueue ------------------------------
(***************************************************************************)
(* The due index of one deletion-request state and the worker that polls   *)
(* it (ListDue and ProcessDue of api/internal/domain/deletion).  What a    *)
(* step does to the request is in Deletion; here it succeeds, and the      *)
(* request leaves the state, or fails, and the request stays due.          *)
(***************************************************************************)
EXTENDS Integers, FiniteSets

CONSTANTS
  Requests,
  Batch,       \* dueBatch
  MaxBroken,   \* how many requests may be failing
  MaxTime      \* bound of the clock

VARIABLES
  due,      \* request -> next_action_at; Waiting before, Gone after this state
  broken,   \* the requests whose step can fail
  batch,    \* the listed ids the pass has left
  at,       \* the time the pass read
  now

vars == <<due, broken, batch, at, now>>

Waiting == -1
Gone == -2

Init ==
  /\ due = [r \in Requests |-> Waiting]
  /\ broken = {} /\ batch = {} /\ at = 0 /\ now = 0

IsDue(r, t) == due[r] >= 0 /\ due[r] <= t

-----------------------------------------------------------------------------
\* A request enters the state, due now or later.
Arrive(r, t) ==
  /\ due[r] = Waiting /\ t \in now..(now + 1)
  /\ due' = [due EXCEPT ![r] = t]
  /\ UNCHANGED <<broken, batch, at, now>>

\* Another process moves the request on, whether or not it is listed.
Leave(r) ==
  /\ due[r] >= 0
  /\ due' = [due EXCEPT ![r] = Gone]
  /\ UNCHANGED <<broken, batch, at, now>>

\* Something the request's step depends on fails, from now on or now and then.
Break(r) ==
  /\ r \notin broken /\ Cardinality(broken) < MaxBroken
  /\ broken' = broken \cup {r}
  /\ UNCHANGED <<due, batch, at, now>>

Limit == Batch

\* The first Limit rows of the index in order of next_action_at; rows with the
\* same time come in any order.
Page(ids, t) ==
  LET all == {r \in Requests : IsDue(r, t)}
  IN /\ ids \subseteq all
     /\ Cardinality(ids) = IF Cardinality(all) < Limit THEN Cardinality(all) ELSE Limit
     /\ \A r \in ids, q \in all \ ids : due[r] <= due[q]

\* A pass reads the clock once and lists the state's due requests.
ListDue ==
  /\ batch = {}
  /\ \E r \in Requests : IsDue(r, now)
  /\ \E ids \in SUBSET Requests : Page(ids, now) /\ batch' = ids
  /\ at' = now
  /\ UNCHANGED <<due, broken, now>>

\* The next listed request is read again and stepped if it is still due; the
\* error of a failing one is logged, and the pass goes on.
Step(r) ==
  /\ r \in batch
  /\ batch' = batch \ {r}
  /\ \/ IsDue(r, at) /\ due' = [due EXCEPT ![r] = Gone]
     \/ (~IsDue(r, at) \/ r \in broken) /\ UNCHANGED due
  /\ UNCHANGED <<broken, at, now>>

Tick ==
  /\ now < MaxTime
  /\ now' = now + 1
  /\ UNCHANGED <<due, broken, batch, at>>

Next ==
  \/ Tick \/ ListDue
  \/ \E r \in Requests : Leave(r) \/ Break(r) \/ Step(r)
  \/ \E r \in Requests, t \in 0..(MaxTime + 1) : Arrive(r, t)

\* The supervisor runs a pass every minute, and a pass runs to its end.
FairSpec ==
  /\ Init /\ [][Next]_vars
  /\ WF_vars(ListDue) /\ WF_vars(\E r \in Requests : Step(r)) /\ WF_vars(Tick)

-----------------------------------------------------------------------------
\* Every due request gets its turn, however many others keep failing.
DueGetsTurn ==
  \A r \in Requests : IsDue(r, now) ~> (r \in batch \/ due[r] = Gone)
=============================================================================
