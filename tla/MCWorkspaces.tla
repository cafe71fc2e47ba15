---------------------------- MODULE MCWorkspaces ----------------------------
\* Workspaces for TLC: the rights of one workspace, or the plan limits of spaces.
\* The two share no row, so a behaviour is about one of them and leaves the
\* other as it was.
EXTENDS Workspaces, SpacePlans, TLC

CONSTANTS u1, u2, u3, c1, c2, q1, q2, p1, p2, p3

VARIABLE focus

\* What is asked for together: enough requests for each race, no more.
MembersScopes ==
  {[ops |-> {"role", "invite"}, invites |-> 2],
   [ops |-> {"transfer", "invite"}, invites |-> 2],
   [ops |-> {"role", "remove", "transfer", "invite"}, invites |-> 1],
   [ops |-> {"invite", "remove", "delete"}, invites |-> 1],
   [ops |-> {"company", "transfer", "delete"}, invites |-> 0],
   [ops |-> {"company", "invite"}, invites |-> 1]}

QuotaScopes ==
  {[ops |-> {"create", "transfer"}, requests |-> 2],
   [ops |-> {"transfer", "fault", "crash"}, requests |-> 1],
   [ops |-> {"create", "fault", "crash"}, requests |-> 2],
   [ops |-> {"invite", "accept", "remove", "revoke", "expire", "transfer"}, requests |-> 2],
   [ops |-> {"invite", "accept", "remove", "fault"}, requests |-> 2]}

\* A person whose plan knows no limit beside two with one space each.
OneSpaceEach == p1 :> 1 @@ p2 :> 1 @@ p3 :> Unlimited

Init ==
  /\ focus \in {"members", "plans"}
  /\ WorkspaceInit /\ PlansInit
  /\ focus # "members" => scope = CHOOSE x \in Scopes : TRUE
  /\ focus # "plans" => /\ planScope = CHOOSE x \in PlanScopes : TRUE
                        /\ \A s \in Spaces : holder[s] = NoPerson

Next ==
  \/ focus = "members" /\ WorkspaceNext /\ UNCHANGED <<focus, pVars>>
  \/ focus = "plans" /\ PlansNext /\ UNCHANGED <<focus, wVars>>

Spec == Init /\ [][Next]_<<focus, wVars, pVars>>

MCTypeOK == WorkspaceTypeOK /\ PlansTypeOK

Symmetry ==
  Permutations(People)
  \cup Permutations({q1, q2})
=============================================================================
