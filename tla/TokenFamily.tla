---------------------------- MODULE TokenFamily ----------------------------
(***************************************************************************)
(* What sessions promise: each session and client have at most one usable  *)
(* refresh token; it is replaced only by a new one; nothing of an ended    *)
(* session is usable and no session opens twice.                           *)
(***************************************************************************)
EXTENDS Naturals

CONSTANTS Sids, Clients, MaxTokens

VARIABLES
  opened,   \* the sessions that were ever open
  alive,    \* the open ones
  current,  \* session -> client -> its usable token, 0 for none
  seen      \* the tokens that were ever generated

fvars == <<opened, alive, current, seen>>

FInit ==
  /\ alive \in SUBSET Sids /\ opened = alive
  /\ seen \in {{}, {1}}
  /\ current \in [Sids -> [Clients -> seen \cup {0}]]
  /\ \A s \in Sids, c \in Clients : current[s][c] # 0 => s \in alive

FOpen(s) ==
  /\ s \notin opened
  /\ opened' = opened \cup {s} /\ alive' = alive \cup {s}
  /\ UNCHANGED <<current, seen>>

\* A token is generated; it becomes the usable one of a chain, or is lost.
FAdvance(h) ==
  /\ h \notin seen
  /\ seen' = seen \cup {h}
  /\ \/ UNCHANGED current
     \/ \E s \in alive, c \in Clients : current' = [current EXCEPT ![s][c] = h]
  /\ UNCHANGED <<opened, alive>>

FDrop(s, c) ==
  /\ current' = [current EXCEPT ![s][c] = 0]
  /\ UNCHANGED <<opened, alive, seen>>

\* Sessions end by revocation or by time; their tokens end with them.
FEnd(dead) ==
  /\ alive' = alive \ dead
  /\ current' = [s \in Sids |-> IF s \in dead THEN [c \in Clients |-> 0] ELSE current[s]]
  /\ UNCHANGED <<opened, seen>>

FNext ==
  \/ \E s \in Sids : FOpen(s)
  \/ \E h \in 1..MaxTokens : FAdvance(h)
  \/ \E s \in Sids, c \in Clients : FDrop(s, c)
  \/ \E dead \in SUBSET Sids : FEnd(dead)

FSpec == FInit /\ [][FNext]_fvars
=============================================================================
