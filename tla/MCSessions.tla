---------------------------- MODULE MCSessions ----------------------------
(* Finite instances of Sessions for TLC. *)
EXTENDS Sessions, TLC

CONSTANTS s1, s2, c1, c2, p1, p2

Tokens == {"legacy", "exchange", "refresh", "revokeToken", "logout"}

\* Two clients of one session.
TwoClients(s) ==
  [ops |-> Tokens, sids |-> {s}, clients |-> {c1, c2}, product |-> {}, ttl |-> 0, time |-> 0,
   tokens |-> 2, faults |-> 0]

\* Rows that expire, and are pruned at some later time.
Expiring(s) ==
  [ops |-> Tokens \cup {"ttl"}, sids |-> {s}, clients |-> {c1}, product |-> {}, ttl |-> 0,
   time |-> 1, tokens |-> 2, faults |-> 0]

\* One chain of tokens to its end, with one failed call or crash.
OneChain(s) ==
  [ops |-> Tokens, sids |-> {s}, clients |-> {c1}, product |-> {}, ttl |-> 0, time |-> 1,
   tokens |-> 3, faults |-> 1]

\* What ends sessions races what uses them, on two sessions.
TwoSessions(ops) ==
  [ops |-> ops \cup {"login", "refresh"}, sids |-> Sids, clients |-> {c1}, product |-> {c1},
   ttl |-> 0, time |-> 0, tokens |-> 2, faults |-> 0]

AllScenes ==
  {TwoClients(s) : s \in Sids} \cup {Expiring(s) : s \in Sids} \cup {OneChain(s) : s \in Sids}
    \cup {TwoSessions({"exchange", "revokeAll", "lock"}),
          TwoSessions({"exchange", "logout", "stepUp", "unlink"}),
          TwoSessions({"stepUp", "revokeAll", "lock"})}

\* A new sign-in of a client while its refresh is in flight.
NewSignIn ==
  {[ops |-> {"login", "exchange", "refresh"}, sids |-> {s1}, clients |-> {c1}, product |-> {},
    ttl |-> 1, time |-> 1, tokens |-> 3, faults |-> 0]}

Symmetry == Permutations(Procs) \cup Permutations(Sids)
=============================================================================
