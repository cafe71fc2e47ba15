------------------------ MODULE DeletionLifecycle ------------------------
(***************************************************************************)
(* What the deletion component promises its users, without processes,      *)
(* copies, retries or time: the states a request moves through, one open   *)
(* request per person, and erase orders that are never taken back.         *)
(***************************************************************************)
EXTENDS Integers

CONSTANTS Users, Reqs, Nil

VARIABLES
  state,    \* request -> its state
  owner,    \* request -> who opened it
  ordered   \* the requests whose participants were told to erase

lvars == <<state, owner, ordered>>

Closed == {"none", "expired", "cancelled", "purged"}

\* The moves of a request.  Nothing leads from locked back to cancelled.
Edges == {<<"awaiting_confirmation", "expired">>,
          <<"awaiting_confirmation", "pending_deletion">>,
          <<"pending_deletion", "cancelled">>,
          <<"pending_deletion", "blocked">>,
          <<"pending_deletion", "locked">>,
          <<"blocked", "cancelled">>,
          <<"locked", "purging">>,
          <<"purging", "stalled">>,
          <<"stalled", "purging">>,
          <<"purging", "purged">>}

LInit ==
  /\ state = [r \in Reqs |-> "none"]
  /\ owner = [r \in Reqs |-> Nil]
  /\ ordered = {}

\* A person with no open request opens one.
LOpen(r, u) ==
  /\ state[r] = "none"
  /\ \A q \in Reqs : owner[q] = u => state[q] \in Closed
  /\ state' = [state EXCEPT ![r] = "awaiting_confirmation"]
  /\ owner' = [owner EXCEPT ![r] = u]
  /\ UNCHANGED ordered

LMove(r, s) ==
  /\ <<state[r], s>> \in Edges
  /\ state' = [state EXCEPT ![r] = s]
  /\ UNCHANGED <<owner, ordered>>

\* The erase order goes out, again on every retry.
LOrder(r) ==
  /\ state[r] \in {"locked", "purging", "stalled", "purged"}
  /\ ordered' = ordered \cup {r}
  /\ UNCHANGED <<state, owner>>

LNext ==
  \E r \in Reqs :
    \/ \E u \in Users : LOpen(r, u)
    \/ \E e \in Edges : LMove(r, e[2])
    \/ LOrder(r)

LSpec == LInit /\ [][LNext]_lvars
=============================================================================
