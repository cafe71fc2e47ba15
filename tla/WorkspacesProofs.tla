-------------------------- MODULE WorkspacesProofs --------------------------
(***************************************************************************)
(* Two parts.  First the rights in one workspace, for every number of      *)
(* people, companies, requests and invitations.  A role or a company is    *)
(* written steps after it was asked for; the inductive invariant says what *)
(* the decision at the time still means when the write lands (Ready): the  *)
(* role was one that can be granted, somebody who owned the workspace      *)
(* asked for an admin, and a space is not the workspace a company or an    *)
(* admin is on its way to.                                                 *)
(*                                                                         *)
(* Then the plan limits on spaces, for every number of people, spaces and  *)
(* requests.  GuardInv says what a counter and a check that read it are    *)
(* worth while the index lags; ReportInv says of every owner that either   *)
(* billing is right or something still knows that it is not.               *)
(***************************************************************************)
EXTENDS Workspaces, SpacePlans, FiniteSetTheorems, TLAPS

Space == org.row /\ org.kind = "personal"

\* An invitation offers no ownership, and admin only from an owner, never in a space.
SoundInvite(i) == i.role # "owner" /\ (i.role = "admin" => i.by \in owners /\ ~Space)

\* What request x may rely on.
ReadyRole(x) ==
  /\ x.pc \in {"setTarget", "setWrite"} => /\ x.role \notin {None, "owner"}
                                           /\ x.role = "admin" => ~Space
                                           /\ x.read = "owner" => x.actor \in owners
  /\ x.pc = "setWrite" /\ x.role = "admin" => x.actor \in owners
  /\ x.pc \in {"inviteWrite", "acceptWrite"} => SoundInvite(x.inv) /\ x.inv.token \in 1..MaxInvites

ReadyFirm(x) ==
  /\ x.pc \in {"registerWrite", "actorWrite"} => x.firm \in Firms /\ ~Space
  /\ x.pc = "registerWrite" => x.actor \in People
  /\ x.pc \in {"acceptWrite", "grant"} => x.actor \in People
  /\ x.pc \in {"setTarget", "setWrite", "inviteWrite", "actorWrite"} => x.target \in People
  /\ x.pc \in {"transferTarget", "transferWrite"} => x.actor \in People /\ x.target \in People

Ready(x) == ReadyRole(x) /\ ReadyFirm(x)

OwnersNoted == \A u \in People : roles[u] = "owner" => u \in owners

InvitesOK ==
  \A u \in People : SoundInvite(invites[u]) /\ (invites[u] # NoInvite => invites[u].token \in 1..MaxInvites)

\* Nothing happens before the workspace is created.
Fresh ==
  owners = {} =>
    /\ org = NoOrg /\ firms = {} /\ actors = {} /\ erasure = "none"
    /\ \A u \in People : roles[u] = None /\ invites[u] = NoInvite
    /\ \A q \in Requests : reqs[q] = Idle

\* The inductive invariant.
WInv ==
  /\ WorkspaceTypeOK /\ RowsAgree /\ AdminsComeFromOwners
  /\ OwnersNoted /\ InvitesOK /\ Fresh
  /\ \A q \in Requests : Ready(reqs[q])

-----------------------------------------------------------------------------
(* Roles and records *)

LEMMA Ranks ==
  /\ \A f : ~AtLeast(None, f)
  /\ \A r : Outranks(r, "admin") => r = "owner"
  /\ \A r : IsGrantableRole(r) => r \notin {None, "owner"}
  /\ \A k, r : IsGrantableRoleIn(k, r) /\ k = "personal" => r # "admin"
BY DEF AtLeast, Outranks, RoleRank, IsGrantableRole, IsGrantableRoleIn, None

LEMMA Constants ==
  /\ Idle \in Request /\ Idle.pc = "idle" /\ NoInvite \in Invitation /\ NoInvite.role = None
  /\ Idle.inv = NoInvite /\ NoOrg \in Organization /\ NoOrg.row = FALSE
  /\ \A pc \in {"setTarget", "setWrite", "removeActor", "removeWrite", "transferTarget",
                "transferWrite", "inviteWrite", "revokeWrite", "acceptWrite", "grant",
                "registerWrite", "actorWrite"} : pc \in Steps
<1>1. NoInvite \in Invitation /\ NoInvite.role = None
  BY WorkspacesAssumption DEF NoInvite, Invitation
<1>2. Idle \in Request /\ Idle.inv = NoInvite /\ Idle.pc = "idle"
  BY <1>1 DEF Idle, Request, Steps
<1>3. NoOrg \in Organization /\ NoOrg.row = FALSE
  BY DEF NoOrg, Organization, Kinds
<1> QED BY <1>1, <1>2, <1>3 DEF Steps

LEMMA IdleReady ==
  ASSUME NEW x, x.pc \in {"idle", "removeActor", "removeWrite", "revokeWrite"}
  PROVE  Ready(x)
BY DEF Ready, ReadyRole, ReadyFirm

\* No one's rights shrink: who owned it owned it, and no other workspace becomes a space.
Steady == owners \subseteq owners' /\ (Space' => Space)

LEMMA ReadyStable ==
  ASSUME NEW x, Steady, Ready(x)
  PROVE  Ready(x)'
BY DEF Steady, Ready, ReadyRole, ReadyFirm, SoundInvite

LEMMA RequestSet ==
  ASSUME WInv, Steady, NEW q \in Requests, NEW x \in Request, Ready(x), reqs' = [reqs EXCEPT ![q] = x]
  PROVE  /\ reqs' \in [Requests -> Request]
         /\ \A r \in Requests : Ready(reqs[r])'
<1>1. reqs \in [Requests -> Request]
  BY DEF WInv, WorkspaceTypeOK
<1>2. reqs' \in [Requests -> Request]
  BY <1>1
<1>3. ASSUME NEW r \in Requests PROVE Ready(reqs[r])'
  <2>1. PICK y : y = reqs'[r] /\ (y = x \/ y = reqs[r])
    BY <1>1
  <2>2. Ready(y)
    BY <2>1 DEF WInv
  <2>3. Ready(y)'
    BY <2>2, ReadyStable
  <2> QED BY <2>1, <2>3 DEF Ready, ReadyRole, ReadyFirm, SoundInvite
<1> QED BY <1>2, <1>3

\* A step of request q that writes no row.
LEMMA DecideStep ==
  ASSUME WInv, owners # {}, UNCHANGED <<org, roles, invites, companyRows, deletion, wSeen>>,
         nextInvite' \in 1..(MaxInvites + 1),
         NEW q \in Requests, NEW x \in Request, Ready(x), reqs' = [reqs EXCEPT ![q] = x]
  PROVE  WInv'
<1>1. UNCHANGED <<scope, org, roles, invites, firms, taxLock, actors, leaving, erasure, owners, blessed, spent, lost>>
  BY DEF companyRows, deletion, wSeen
<1>2. Steady
  BY <1>1 DEF Steady, Space
<1>3. reqs' \in [Requests -> Request] /\ \A r \in Requests : Ready(reqs[r])'
  BY <1>2, RequestSet
<1>4. WorkspaceTypeOK'
  BY <1>1, <1>3 DEF WInv, WorkspaceTypeOK
<1>5. RowsAgree' /\ AdminsComeFromOwners' /\ OwnersNoted'
  BY <1>1 DEF WInv, RowsAgree, OneOwner, SpaceStaysASpace, OneCompanyPerTaxID, AdminsComeFromOwners, OwnersNoted
<1>6. InvitesOK' /\ Fresh'
  BY <1>1 DEF WInv, InvitesOK, SoundInvite, Space, Fresh
<1> QED BY <1>3, <1>4, <1>5, <1>6 DEF WInv

\* Who has a role, holds an invitation or is in a request does so in a created workspace.
LEMMA Created ==
  ASSUME WInv
  PROVE  /\ \A a \in People : \A f : AtLeast(roles[a], f) => owners # {}
         /\ \A u \in People : invites[u] # NoInvite => owners # {}
         /\ \A q \in Requests : reqs[q].pc # "idle" => owners # {}
BY Ranks, Constants DEF WInv, Fresh

-----------------------------------------------------------------------------
(* Requests arrive *)

LEMMA ArriveInv ==
  ASSUME WInv, NEW q \in Requests, NEW a \in People, NEW t \in People,
         \/ \E r \in Ladder : SetRole(q, a, t, r)
         \/ RevokeInvitation(q, a, t) \/ Remove(q, a, t) \/ Transfer(q, a, t)
         \/ \E c \in Firms : GrantActor(q, a, t, c)
         \/ \E c \in Firms : Register(q, a, c)
  PROVE  WInv'
<1>1. /\ owners # {} /\ UNCHANGED <<org, roles, invites, nextInvite, companyRows, deletion, wSeen>>
      /\ nextInvite' \in 1..(MaxInvites + 1)
  BY Created DEF SetRole, RevokeInvitation, Remove, Transfer, GrantActor, Register, RequireOrgRole,
                 inviteRows, WInv, WorkspaceTypeOK
<1>2. roles[a] \in Ladder \cup {None} /\ roles[t] \in Ladder \cup {None}
  BY DEF WInv, WorkspaceTypeOK
<1>3. ASSUME NEW pc \in Steps, NEW r \in Ladder \cup {None}, Begin(q, pc, a, t, r)
      PROVE  \E x \in Request : /\ reqs' = [reqs EXCEPT ![q] = x]
                                /\ x.pc = pc /\ x.actor = a /\ x.target = t /\ x.role = r /\ x.read = roles[a]
  <2>1. PICK x : x = [Idle EXCEPT !.pc = pc, !.actor = a, !.target = t, !.role = r, !.read = roles[a]]
    OBVIOUS
  <2>2. x \in Request /\ x.pc = pc /\ x.actor = a /\ x.target = t /\ x.role = r /\ x.read = roles[a]
    BY <1>2, <2>1, Constants DEF Request
  <2>3. reqs' = [reqs EXCEPT ![q] = x]
    BY <1>3, <2>1 DEF Begin
  <2> QED BY <2>2, <2>3
<1>4. ASSUME NEW r \in Ladder, SetRole(q, a, t, r) PROVE WInv'
  <2>1. PICK x \in Request : /\ reqs' = [reqs EXCEPT ![q] = x]
                             /\ x.pc = "setTarget" /\ x.actor = a /\ x.target = t /\ x.role = r /\ x.read = roles[a]
    BY <1>3, <1>4, Constants DEF SetRole
  <2>2. Ready(x)
    BY <1>4, <2>1, Ranks DEF SetRole, RequireGrantableIn, Ready, ReadyRole, ReadyFirm, Space, WInv, OwnersNoted
  <2> QED BY <1>1, <2>1, <2>2, DecideStep
<1>5. ASSUME RevokeInvitation(q, a, t) \/ Transfer(q, a, t) PROVE WInv'
  <2>1. PICK x \in Request : /\ reqs' = [reqs EXCEPT ![q] = x] /\ x.pc \in {"revokeWrite", "transferTarget"}
                             /\ x.actor = a /\ x.target = t
    BY <1>3, <1>5, Constants DEF RevokeInvitation, Transfer
  <2>2. Ready(x)
    BY <2>1 DEF Ready, ReadyRole, ReadyFirm
  <2> QED BY <1>1, <2>1, <2>2, DecideStep
<1>6. ASSUME Remove(q, a, t) PROVE WInv'
  <2>1. PICK x : x = [Idle EXCEPT !.actor = a, !.target = t, !.read = roles[t],
                                  !.pc = IF a = t THEN "removeWrite" ELSE "removeActor"]
    OBVIOUS
  <2>2. x \in Request /\ x.pc \in {"removeWrite", "removeActor"}
    BY <1>2, <2>1, Constants DEF Request
  <2>3. reqs' = [reqs EXCEPT ![q] = x]
    BY <1>6, <2>1 DEF Remove
  <2>4. Ready(x)
    BY <2>2, IdleReady
  <2> QED BY <1>1, <2>2, <2>3, <2>4, DecideStep
<1>7. ASSUME NEW c \in Firms, GrantActor(q, a, t, c) PROVE WInv'
  <2>1. PICK x : x = [Idle EXCEPT !.pc = "actorWrite", !.target = t, !.firm = c]
    OBVIOUS
  <2>2. x \in Request /\ x.pc = "actorWrite" /\ x.target = t /\ x.firm = c
    BY <2>1, Constants DEF Request
  <2>3. ~Space
    BY <1>7 DEF GrantActor, WInv, RowsAgree, SpaceStaysASpace, Space
  <2>4. Ready(x)
    BY <2>2, <2>3 DEF Ready, ReadyRole, ReadyFirm
  <2>5. reqs' = [reqs EXCEPT ![q] = x]
    BY <1>7, <2>1 DEF GrantActor
  <2> QED BY <1>1, <2>2, <2>4, <2>5, DecideStep
<1>8. ASSUME NEW c \in Firms, Register(q, a, c) PROVE WInv'
  <2>1. PICK x : x = [Idle EXCEPT !.pc = "registerWrite", !.actor = a, !.firm = c]
    OBVIOUS
  <2>2. x \in Request /\ x.pc = "registerWrite" /\ x.actor = a /\ x.firm = c
    BY <2>1, Constants DEF Request
  <2>3. Ready(x)
    BY <1>8, <2>2 DEF Register, Ready, ReadyRole, ReadyFirm, Space
  <2>4. reqs' = [reqs EXCEPT ![q] = x]
    BY <1>8, <2>1 DEF Register
  <2> QED BY <1>1, <2>2, <2>3, <2>4, DecideStep
<1> QED BY <1>4, <1>5, <1>6, <1>7, <1>8

LEMMA InviteInv ==
  ASSUME WInv, NEW q \in Requests, NEW a \in People, NEW t \in People, NEW r \in Ladder, NEW f \in BOOLEAN,
         Invite(q, a, t, r, f)
  PROVE  WInv'
<1>1. /\ owners # {} /\ UNCHANGED <<org, roles, invites, companyRows, deletion, wSeen>>
      /\ nextInvite \in 1..MaxInvites /\ nextInvite' \in 1..(MaxInvites + 1) /\ nextInvite \in 0..MaxInvites
  BY Created, WorkspacesAssumption DEF Invite, RequireOrgRole, WInv, WorkspaceTypeOK
<1>2. PICK i : i = [token |-> nextInvite, role |-> r, by |-> a, firms |-> f]
  OBVIOUS
<1>3. i \in Invitation /\ i.token = nextInvite /\ i.role = r /\ i.by = a
  BY <1>1, <1>2 DEF Invitation
<1>4. SoundInvite(i)
  BY <1>3, Ranks DEF Invite, RequireGrantableIn, SoundInvite, Space, WInv, OwnersNoted
<1>5. PICK x : x = [Idle EXCEPT !.pc = "inviteWrite", !.actor = a, !.target = t, !.inv = i]
  OBVIOUS
<1>6. x \in Request /\ x.pc = "inviteWrite" /\ x.target = t /\ x.inv = i
  BY <1>3, <1>5, Constants DEF Request
<1>7. Ready(x)
  BY <1>1, <1>3, <1>4, <1>6 DEF Ready, ReadyRole, ReadyFirm
<1>8. reqs' = [reqs EXCEPT ![q] = x]
  BY <1>2, <1>5 DEF Invite
<1> QED BY <1>1, <1>6, <1>7, <1>8, DecideStep

LEMMA AcceptInv ==
  ASSUME WInv, NEW q \in Requests, NEW u \in People, Accept(q, u)
  PROVE  WInv'
<1>1. /\ owners # {} /\ UNCHANGED <<org, roles, invites, nextInvite, companyRows, deletion, wSeen>>
      /\ nextInvite' \in 1..(MaxInvites + 1)
  BY Created DEF Accept, inviteRows, WInv, WorkspaceTypeOK
<1>2. invites[u] \in Invitation /\ SoundInvite(invites[u]) /\ invites[u].token \in 1..MaxInvites
  BY DEF Accept, WInv, WorkspaceTypeOK, InvitesOK
<1>3. PICK x : x = [Idle EXCEPT !.pc = "acceptWrite", !.actor = u, !.inv = invites[u]]
  OBVIOUS
<1>4. x \in Request /\ x.pc = "acceptWrite" /\ x.actor = u /\ x.inv = invites[u]
  BY <1>2, <1>3, Constants DEF Request
<1>5. Ready(x)
  BY <1>2, <1>4 DEF Ready, ReadyRole, ReadyFirm
<1>6. reqs' = [reqs EXCEPT ![q] = x]
  BY <1>3 DEF Accept
<1> QED BY <1>1, <1>4, <1>5, <1>6, DecideStep

LEMMA DecideInv ==
  ASSUME WInv, NEW q \in Requests,
         SetRoleTarget(q) \/ RemoveActor(q) \/ TransferTarget(q) \/ GrantInvited(q) \/ Crash(q)
  PROVE  WInv'
<1>1. /\ owners # {} /\ UNCHANGED <<org, roles, invites, nextInvite, companyRows, deletion, wSeen>>
      /\ nextInvite' \in 1..(MaxInvites + 1)
  BY Created DEF SetRoleTarget, RemoveActor, TransferTarget, GrantInvited, Crash, inviteRows, WInv, WorkspaceTypeOK
<1>2. reqs[q] \in Request /\ Ready(reqs[q])
  BY DEF WInv, WorkspaceTypeOK
<1>3. CASE Answer(q)
  <2>1. Idle \in Request /\ Ready(Idle)
    BY Constants, IdleReady
  <2> QED BY <1>1, <1>3, <2>1, DecideStep DEF Answer
<1>4. ASSUME NEW pc \in {"removeWrite", "transferWrite"}, Goto(q, pc),
             pc = "transferWrite" => reqs[q].pc = "transferTarget"
      PROVE  WInv'
  <2>1. PICK x : x = [reqs[q] EXCEPT !.pc = pc]
    OBVIOUS
  <2>2. x \in Request /\ x.pc = pc /\ x.actor = reqs[q].actor /\ x.target = reqs[q].target
    BY <1>2, <2>1, Constants DEF Request
  <2>3. reqs' = [reqs EXCEPT ![q] = x]
    BY <1>4, <2>1 DEF Goto
  <2>4. Ready(x)
    BY <1>2, <1>4, <2>2 DEF Ready, ReadyRole, ReadyFirm
  <2> QED BY <1>1, <2>2, <2>3, <2>4, DecideStep
<1>5. ASSUME reqs[q].pc = "setTarget", Outranks(reqs[q].read, reqs[q].role), Goto(q, "setWrite") PROVE WInv'
  <2>1. PICK x : x = [reqs[q] EXCEPT !.pc = "setWrite"]
    OBVIOUS
  <2>2. /\ x \in Request /\ x.pc = "setWrite" /\ x.role = reqs[q].role /\ x.read = reqs[q].read
        /\ x.actor = reqs[q].actor /\ x.target = reqs[q].target
    BY <1>2, <2>1, Constants DEF Request
  <2>3. Ready(x)
    BY <1>2, <1>5, <2>2, Ranks DEF Ready, ReadyRole, ReadyFirm
  <2>4. reqs' = [reqs EXCEPT ![q] = x]
    BY <1>5, <2>1 DEF Goto
  <2> QED BY <1>1, <2>2, <2>3, <2>4, DecideStep
<1>6. ASSUME reqs[q].pc = "grant", NEW c \in firms,
             reqs' = [reqs EXCEPT ![q] = [Idle EXCEPT !.pc = "actorWrite", !.target = reqs[q].actor, !.firm = c]]
      PROVE  WInv'
  <2>1. PICK x : x = [Idle EXCEPT !.pc = "actorWrite", !.target = reqs[q].actor, !.firm = c]
    OBVIOUS
  <2>2. c \in Firms /\ reqs[q].actor \in People
    BY <1>2, <1>6 DEF Ready, ReadyFirm, WInv, WorkspaceTypeOK
  <2>3. x \in Request /\ x.pc = "actorWrite" /\ x.target = reqs[q].actor /\ x.firm = c
    BY <2>1, <2>2, Constants DEF Request
  <2>4. ~Space
    BY <1>6 DEF WInv, RowsAgree, SpaceStaysASpace, Space
  <2>5. Ready(x)
    BY <2>2, <2>3, <2>4 DEF Ready, ReadyRole, ReadyFirm
  <2>6. reqs' = [reqs EXCEPT ![q] = x]
    BY <1>6, <2>1
  <2> QED BY <1>1, <2>3, <2>5, <2>6, DecideStep
<1>7. CASE SetRoleTarget(q)
  BY <1>3, <1>5, <1>7 DEF SetRoleTarget
<1>8. CASE RemoveActor(q)
  BY <1>3, <1>4, <1>8 DEF RemoveActor
<1>9. CASE TransferTarget(q)
  BY <1>3, <1>4, <1>9 DEF TransferTarget
<1>10. CASE GrantInvited(q)
  BY <1>3, <1>6, <1>10 DEF GrantInvited
<1> QED BY <1>3, <1>7, <1>8, <1>9, <1>10 DEF Crash

-----------------------------------------------------------------------------
(* Roles change *)

LEMMA InvitesCleared ==
  ASSUME WInv, Steady, \A u \in People : invites'[u] = invites[u] \/ invites'[u] = NoInvite
  PROVE  InvitesOK'
<1> SUFFICES ASSUME NEW u \in People
             PROVE  SoundInvite(invites[u])' /\ (invites'[u] # NoInvite => invites'[u].token \in 1..MaxInvites)
  BY DEF InvitesOK
<1>1. SoundInvite(NoInvite)'
  BY Constants DEF SoundInvite, None
<1>2. PICK i : i = invites'[u] /\ (i = invites[u] \/ i = NoInvite)
  OBVIOUS
<1>3. SoundInvite(i)' /\ (i # NoInvite => i.token \in 1..MaxInvites)
  BY <1>1, <1>2 DEF WInv, InvitesOK, SoundInvite, Steady
<1> QED BY <1>2, <1>3 DEF SoundInvite

\* Somebody but an owner gets a role, or loses it.
LEMMA RoleStep ==
  ASSUME WInv, owners # {}, NEW t \in People, NEW role \in Ladder \cup {None},
         UNCHANGED <<scope, org, nextInvite, firms, taxLock, actors, leaving, erasure, owners, lost>>,
         roles' = [roles EXCEPT ![t] = role], roles[t] # "owner", role # "owner",
         role = "admin" => t \in blessed' \cup owners /\ ~Space,
         blessed \subseteq blessed', blessed' \subseteq People, spent' \in [1..MaxInvites -> Nat],
         invites' \in [People -> Invitation],
         \A u \in People : invites'[u] = invites[u] \/ invites'[u] = NoInvite,
         NEW q \in Requests, NEW x \in Request, Ready(x), reqs' = [reqs EXCEPT ![q] = x]
  PROVE  WInv'
<1>1. Steady
  BY DEF Steady, Space
<1>2. reqs' \in [Requests -> Request] /\ \A r \in Requests : Ready(reqs[r])'
  BY <1>1, RequestSet
<1>3. /\ roles \in [People -> Ladder \cup {None}] /\ roles' \in [People -> Ladder \cup {None}]
      /\ roles'[t] = role /\ \A u \in People : u # t => roles'[u] = roles[u]
  BY DEF WInv, WorkspaceTypeOK
<1>4. WorkspaceTypeOK'
  BY <1>2, <1>3 DEF WInv, WorkspaceTypeOK
<1>5. OneOwner'
  <2>1. {u \in People : roles'[u] = "owner"} = {u \in People : roles[u] = "owner"}
    BY <1>3
  <2> QED BY <2>1 DEF WInv, RowsAgree, OneOwner
<1>6. SpaceStaysASpace' /\ OneCompanyPerTaxID'
  <2>1. NoInvite.role # "admin"
    BY Constants DEF None
  <2> QED BY <1>3, <2>1 DEF WInv, RowsAgree, SpaceStaysASpace, OneCompanyPerTaxID, Space
<1>7. AdminsComeFromOwners' /\ OwnersNoted'
  BY <1>3 DEF WInv, AdminsComeFromOwners, OwnersNoted
<1>8. InvitesOK'
  BY <1>1, InvitesCleared
<1> QED BY <1>2, <1>4, <1>5, <1>6, <1>7, <1>8 DEF WInv, RowsAgree, Fresh

LEMMA SetRoleWriteInv ==
  ASSUME WInv, NEW q \in Requests, SetRoleWrite(q)
  PROVE  WInv'
<1>1. reqs[q] \in Request /\ Ready(reqs[q]) /\ reqs[q].pc = "setWrite" /\ owners # {}
  BY Created DEF WInv, WorkspaceTypeOK, SetRoleWrite
<1>2. PICK t \in People, role \in Ladder, a \in People \cup {NoOne} :
        /\ t = reqs[q].target /\ role = reqs[q].role /\ a = reqs[q].actor /\ role # "owner"
        /\ role = "admin" => a \in owners /\ ~Space
  BY <1>1 DEF Ready, ReadyRole, ReadyFirm, Request
<1>3. /\ UNCHANGED <<scope, org, nextInvite, invites, firms, taxLock, actors, leaving, erasure, owners, spent, lost>>
      /\ reqs' = [reqs EXCEPT ![q] = Idle]
  BY DEF SetRoleWrite, Answer, inviteRows, companyRows, deletion
<1>4. Idle \in Request /\ Ready(Idle)
  BY Constants, IdleReady
<1>5. CASE NotOwner(t)
  <2>1. roles' = [roles EXCEPT ![t] = role] /\ Bless(a, t, role)
    BY <1>2, <1>5 DEF SetRoleWrite
  <2>2. blessed \subseteq People /\ invites \in [People -> Invitation] /\ spent \in [1..MaxInvites -> Nat]
    BY DEF WInv, WorkspaceTypeOK
  <2>3. blessed \subseteq blessed' /\ blessed' \subseteq People /\ (role = "admin" => t \in blessed')
    BY <1>2, <2>1, <2>2 DEF Bless
  <2> QED BY <1>1, <1>2, <1>3, <1>4, <1>5, <2>1, <2>2, <2>3, RoleStep DEF NotOwner
<1>6. CASE ~NotOwner(t)
  <2>1. UNCHANGED <<org, roles, invites, companyRows, deletion, wSeen>> /\ nextInvite' \in 1..(MaxInvites + 1)
    BY <1>2, <1>3, <1>6 DEF SetRoleWrite, companyRows, deletion, wSeen, WInv, WorkspaceTypeOK
  <2> QED BY <1>1, <1>3, <1>4, <2>1, DecideStep
<1> QED BY <1>5, <1>6

LEMMA RemoveMembershipInv ==
  ASSUME WInv, NEW q \in Requests, RemoveMembership(q)
  PROVE  WInv'
<1>1. reqs[q].pc = "removeWrite" /\ owners # {}
  BY Created DEF RemoveMembership
<1>2. PICK t : t = reqs[q].target
  OBVIOUS
<1>3. /\ UNCHANGED <<scope, org, nextInvite, invites, firms, taxLock, actors, leaving, erasure, owners, blessed, spent, lost>>
      /\ reqs' = [reqs EXCEPT ![q] = Idle]
      /\ roles' = IF NotOwner(t) THEN [roles EXCEPT ![t] = None] ELSE roles
  BY <1>2 DEF RemoveMembership, Answer, inviteRows, companyRows, deletion, wSeen
<1>4. Idle \in Request /\ Ready(Idle)
  BY Constants, IdleReady
<1>5. /\ blessed \subseteq People /\ invites \in [People -> Invitation] /\ spent \in [1..MaxInvites -> Nat]
      /\ roles \in [People -> Ladder \cup {None}] /\ nextInvite \in 1..(MaxInvites + 1)
  BY DEF WInv, WorkspaceTypeOK
<1>6. CASE NotOwner(t) /\ t \in People
  <2>1. roles[t] # "owner" /\ None # "owner" /\ None # "admin" /\ roles' = [roles EXCEPT ![t] = None]
    BY <1>3, <1>6 DEF NotOwner, None
  <2> QED BY <1>1, <1>3, <1>4, <1>5, <1>6, <2>1, RoleStep
<1>7. CASE ~(NotOwner(t) /\ t \in People)
  <2>1. roles' = roles
    BY <1>3, <1>5, <1>7
  <2>2. UNCHANGED <<org, roles, invites, companyRows, deletion, wSeen>> /\ nextInvite' \in 1..(MaxInvites + 1)
    BY <1>3, <1>5, <2>1 DEF companyRows, deletion, wSeen
  <2> QED BY <1>1, <1>3, <1>4, <2>2, DecideStep
<1> QED BY <1>6, <1>7

LEMMA AcceptInvitationInv ==
  ASSUME WInv, NEW q \in Requests, AcceptInvitation(q)
  PROVE  WInv'
<1>1. reqs[q] \in Request /\ Ready(reqs[q]) /\ reqs[q].pc = "acceptWrite" /\ owners # {}
  BY Created DEF WInv, WorkspaceTypeOK, AcceptInvitation
<1>2. PICK u, role, by, n :
        u = reqs[q].actor /\ role = reqs[q].inv.role /\ by = reqs[q].inv.by /\ n = reqs[q].inv.token
  OBVIOUS
<1> u \in People /\ role \in Ladder \cup {None} /\ n \in 1..MaxInvites
  BY <1>1, <1>2 DEF Ready, ReadyRole, ReadyFirm, Request, Invitation
<1>2a. role # "owner" /\ (role = "admin" => by \in owners /\ ~Space)
  BY <1>1, <1>2 DEF Ready, ReadyRole, SoundInvite
<1>3. UNCHANGED <<scope, org, nextInvite, firms, taxLock, actors, leaving, erasure, owners, lost>>
  BY DEF AcceptInvitation, companyRows, deletion
<1>4. /\ blessed \subseteq People /\ invites \in [People -> Invitation] /\ spent \in [1..MaxInvites -> Nat]
      /\ roles \in [People -> Ladder \cup {None}] /\ nextInvite \in 1..(MaxInvites + 1)
  BY DEF WInv, WorkspaceTypeOK
<1>5. CASE JoinAllowed(u)
  <2>1. /\ roles' = [roles EXCEPT ![u] = role] /\ invites' = [invites EXCEPT ![u] = NoInvite]
        /\ spent' = [spent EXCEPT ![n] = @ + 1] /\ Bless(by, u, role)
        /\ Goto(q, "grant") \/ Answer(q)
    BY <1>2, <1>5 DEF AcceptInvitation
  <2>2. PICK x \in Request : reqs' = [reqs EXCEPT ![q] = x] /\ Ready(x)
    <3>1. CASE Answer(q)
      <4>1. Idle \in Request /\ Ready(Idle)
        BY Constants, IdleReady
      <4> QED BY <3>1, <4>1 DEF Answer
    <3>2. CASE Goto(q, "grant")
      <4>1. PICK x : x = [reqs[q] EXCEPT !.pc = "grant"]
        OBVIOUS
      <4>2. x \in Request /\ x.pc = "grant" /\ x.actor = u
        BY <1>1, <1>2, <4>1, Constants DEF Request
      <4>3. Ready(x)
        BY <4>2 DEF Ready, ReadyRole, ReadyFirm
      <4>4. reqs' = [reqs EXCEPT ![q] = x]
        BY <3>2, <4>1 DEF Goto
      <4> QED BY <4>2, <4>3, <4>4
    <3> QED BY <2>1, <3>1, <3>2
  <2>3. blessed \subseteq blessed' /\ blessed' \subseteq People /\ (role = "admin" => u \in blessed')
    BY <1>2a, <1>4, <2>1 DEF Bless
  <2>4. /\ spent' \in [1..MaxInvites -> Nat] /\ invites' \in [People -> Invitation]
        /\ \A v \in People : invites'[v] = invites[v] \/ invites'[v] = NoInvite
    BY <1>4, <2>1, Constants
  <2>5. roles[u] # "owner"
    BY <1>5 DEF JoinAllowed, None
  <2> QED BY <1>1, <1>2a, <1>3, <2>1, <2>2, <2>3, <2>4, <2>5, RoleStep
<1>6. CASE ~JoinAllowed(u)
  <2>1. reqs' = [reqs EXCEPT ![q] = Idle] /\ UNCHANGED <<roles, invites, spent, blessed>>
    BY <1>2, <1>6 DEF AcceptInvitation, Answer
  <2>2. UNCHANGED <<org, roles, invites, companyRows, deletion, wSeen>> /\ nextInvite' \in 1..(MaxInvites + 1)
    BY <1>3, <1>4, <2>1 DEF companyRows, deletion, wSeen
  <2>3. Idle \in Request /\ Ready(Idle)
    BY Constants, IdleReady
  <2> QED BY <1>1, <2>1, <2>2, <2>3, DecideStep
<1> QED BY <1>5, <1>6

\* The only step that makes an owner takes the ownership from the one before.
LEMMA TransferOwnershipInv ==
  ASSUME WInv, NEW q \in Requests, TransferOwnership(q)
  PROVE  WInv'
<1>1. reqs[q] \in Request /\ Ready(reqs[q]) /\ reqs[q].pc = "transferWrite" /\ owners # {}
  BY Created DEF WInv, WorkspaceTypeOK, TransferOwnership
<1>2. PICK a \in People, t \in People : a = reqs[q].actor /\ t = reqs[q].target
  BY <1>1 DEF Ready, ReadyFirm
<1>3. /\ UNCHANGED <<scope, nextInvite, invites, firms, taxLock, actors, leaving, erasure, blessed, spent, lost>>
      /\ reqs' = [reqs EXCEPT ![q] = Idle]
  BY DEF TransferOwnership, Answer, inviteRows, companyRows, deletion
<1>4. Idle \in Request /\ Ready(Idle)
  BY Constants, IdleReady
<1>5. /\ roles \in [People -> Ladder \cup {None}] /\ nextInvite \in 1..(MaxInvites + 1) /\ org \in Organization
      /\ owners \subseteq People
  BY DEF WInv, WorkspaceTypeOK
<1>6. CASE TransferAllowed(a, t)
  <2>1. /\ roles' = [roles EXCEPT ![a] = DemoteTo, ![t] = "owner"] /\ org' = [org EXCEPT !.owner = t]
        /\ owners' = owners \cup {t}
    BY <1>2, <1>6 DEF TransferOwnership
  <2>2. roles[a] = "owner" /\ roles[t] \notin {None, "owner"} /\ org.row /\ a # t /\ a \in owners
    BY <1>6 DEF TransferAllowed, WInv, OwnersNoted
  <2>3. DemoteTo \in Ladder /\ DemoteTo # "owner" /\ (Space => DemoteTo # "admin")
    BY DEF DemoteTo, Ladder, Space
  <2>4. /\ roles' \in [People -> Ladder \cup {None}] /\ roles'[a] = DemoteTo /\ roles'[t] = "owner"
        /\ \A u \in People : u # a /\ u # t => roles'[u] = roles[u]
    BY <1>5, <1>6, <2>1, <2>2, <2>3 DEF Ladder
  <2>5. org' \in Organization /\ org'.row = org.row /\ org'.kind = org.kind /\ org'.owner = t
    BY <1>5, <1>6, <2>1 DEF Organization
  <2>6. Steady /\ (Space' <=> Space)
    BY <2>1, <2>5 DEF Steady, Space
  <2>7. reqs' \in [Requests -> Request] /\ \A r \in Requests : Ready(reqs[r])'
    BY <1>3, <1>4, <2>6, RequestSet
  <2>8. WorkspaceTypeOK'
    BY <1>3, <1>5, <1>6, <2>1, <2>4, <2>5, <2>7 DEF WInv, WorkspaceTypeOK
  <2>9. OneOwner'
    <3> SUFFICES ASSUME org.row, erasure \notin {"members", "invitations"}
                 PROVE  {u \in People : roles'[u] = "owner"} = {t}
      BY <1>3, <2>5 DEF OneOwner
    <3>1. {u \in People : roles[u] = "owner"} = {org.owner}
      BY DEF WInv, RowsAgree, OneOwner
    <3>2. org.owner = a
      BY <1>6, <2>2, <3>1
    <3>3. \A u \in People : roles'[u] = "owner" => u = t
      BY <2>3, <2>4, <3>1, <3>2
    <3> QED BY <1>6, <2>4, <3>3
  <2>10. SpaceStaysASpace' /\ OneCompanyPerTaxID'
    <3>1. Space => \A u \in People : roles[u] # "admin"
      BY DEF WInv, RowsAgree, SpaceStaysASpace, Space
    <3>2. Space => \A u \in People : roles'[u] # "admin"
      BY <2>3, <2>4, <3>1
    <3> QED BY <1>3, <2>5, <3>2 DEF WInv, RowsAgree, SpaceStaysASpace, OneCompanyPerTaxID, Space
  <2>11. AdminsComeFromOwners' /\ OwnersNoted'
    BY <1>3, <2>1, <2>2, <2>3, <2>4 DEF WInv, AdminsComeFromOwners, OwnersNoted
  <2>12. InvitesOK'
    BY <1>3, <2>6, InvitesCleared
  <2>13. Fresh'
    BY <2>1 DEF Fresh
  <2> QED BY <2>7, <2>8, <2>9, <2>10, <2>11, <2>12, <2>13 DEF WInv, RowsAgree
<1>7. CASE ~TransferAllowed(a, t)
  <2>1. UNCHANGED <<org, roles, invites, companyRows, deletion, wSeen>> /\ nextInvite' \in 1..(MaxInvites + 1)
    BY <1>2, <1>3, <1>5, <1>7 DEF TransferOwnership, companyRows, deletion, wSeen
  <2> QED BY <1>1, <1>3, <1>4, <2>1, DecideStep
<1> QED BY <1>6, <1>7

-----------------------------------------------------------------------------
(* Invitations and companies *)

\* Steps that leave the workspace's row, its roles and what happened alone.
LEMMA RowsStep ==
  ASSUME WInv, owners # {}, UNCHANGED <<scope, org, roles, leaving, erasure, owners, blessed, spent, lost>>,
         invites' \in [People -> Invitation], nextInvite' \in 1..(MaxInvites + 1), InvitesOK',
         firms' \subseteq Firms, taxLock' \in Firms \cup {NoFirm}, actors' \subseteq Firms \X People,
         OneCompanyPerTaxID', Space => firms' = {} /\ actors' = {},
         reqs' \in [Requests -> Request], \A r \in Requests : Ready(reqs[r])'
  PROVE  WInv'
<1>1. WorkspaceTypeOK'
  BY DEF WInv, WorkspaceTypeOK
<1>2. OneOwner' /\ AdminsComeFromOwners' /\ OwnersNoted'
  BY DEF WInv, RowsAgree, OneOwner, AdminsComeFromOwners, OwnersNoted
<1>3. SpaceStaysASpace'
  <2>1. Space => \A u \in People : invites'[u].role # "admin"
    BY DEF InvitesOK, SoundInvite, Space
  <2> QED BY <2>1 DEF WInv, RowsAgree, SpaceStaysASpace, Space
<1> QED BY <1>1, <1>2, <1>3 DEF WInv, RowsAgree, Fresh

LEMMA AnswerOK ==
  ASSUME WInv, Steady, NEW q \in Requests, Answer(q)
  PROVE  reqs' \in [Requests -> Request] /\ \A r \in Requests : Ready(reqs[r])'
<1>1. Idle \in Request /\ Ready(Idle)
  BY Constants, IdleReady
<1> QED BY <1>1, RequestSet DEF Answer

LEMMA ReqsKept ==
  ASSUME WInv, Steady, UNCHANGED reqs
  PROVE  reqs' \in [Requests -> Request] /\ \A r \in Requests : Ready(reqs[r])'
<1>1. ASSUME NEW r \in Requests PROVE Ready(reqs[r])'
  <2>1. PICK y : y = reqs[r]
    OBVIOUS
  <2>2. Ready(y)'
    BY <2>1, ReadyStable DEF WInv
  <2> QED BY <2>1, <2>2 DEF Ready, ReadyRole, ReadyFirm, SoundInvite
<1> QED BY <1>1 DEF WInv, WorkspaceTypeOK

LEMMA PutInvitationInv ==
  ASSUME WInv, NEW q \in Requests, PutInvitation(q)
  PROVE  WInv'
<1>1. reqs[q] \in Request /\ Ready(reqs[q]) /\ reqs[q].pc = "inviteWrite" /\ owners # {}
  BY Created DEF WInv, WorkspaceTypeOK, PutInvitation
<1>2. PICK t, i : t = reqs[q].target /\ i = reqs[q].inv
  OBVIOUS
<1>3. t \in People /\ i \in Invitation /\ SoundInvite(i) /\ i.token \in 1..MaxInvites
  BY <1>1, <1>2 DEF Ready, ReadyRole, ReadyFirm, Request
<1>4. UNCHANGED <<scope, org, roles, nextInvite, firms, taxLock, actors, leaving, erasure, owners, blessed, spent, lost>>
  BY DEF PutInvitation, companyRows, deletion, wSeen
<1>5. Steady
  BY <1>4 DEF Steady, Space
<1>6. reqs' \in [Requests -> Request] /\ \A r \in Requests : Ready(reqs[r])'
  BY <1>5, AnswerOK DEF PutInvitation
<1>7. invites \in [People -> Invitation] /\ invites' = [invites EXCEPT ![t] = i]
  BY <1>2 DEF PutInvitation, WInv, WorkspaceTypeOK
<1>8. InvitesOK'
  <2> SUFFICES ASSUME NEW u \in People
               PROVE  SoundInvite(invites[u])' /\ (invites'[u] # NoInvite => invites'[u].token \in 1..MaxInvites)
    BY DEF InvitesOK
  <2>1. PICK j : j = invites'[u] /\ (j = i \/ j = invites[u])
    BY <1>7
  <2>2. SoundInvite(j) /\ (j # NoInvite => j.token \in 1..MaxInvites)
    BY <1>3, <2>1 DEF WInv, InvitesOK
  <2> QED BY <1>4, <2>1, <2>2 DEF SoundInvite, Space
<1>9. invites' \in [People -> Invitation]
  BY <1>3, <1>7
<1>10. OneCompanyPerTaxID' /\ (Space => firms' = {} /\ actors' = {})
  BY <1>4 DEF WInv, RowsAgree, OneCompanyPerTaxID, SpaceStaysASpace, Space
<1>11. firms' \subseteq Firms /\ taxLock' \in Firms \cup {NoFirm} /\ actors' \subseteq Firms \X People /\ nextInvite' \in 1..(MaxInvites + 1)
  BY <1>4 DEF WInv, WorkspaceTypeOK
<1> QED BY <1>1, <1>4, <1>6, <1>8, <1>9, <1>10, <1>11, RowsStep

LEMMA InviteGoneInv ==
  ASSUME WInv, \/ \E q \in Requests : DeleteInvitation(q)
               \/ \E u \in People : Expire(u)
  PROVE  WInv'
<1>1. /\ owners # {}
      /\ UNCHANGED <<scope, org, roles, nextInvite, firms, taxLock, actors, leaving, erasure, owners, blessed, spent, lost>>
  BY Created DEF DeleteInvitation, Expire, companyRows, deletion, wSeen
<1>2. Steady
  BY <1>1 DEF Steady, Space
<1>3. reqs' \in [Requests -> Request] /\ \A r \in Requests : Ready(reqs[r])'
  <2>1. CASE \E q \in Requests : DeleteInvitation(q)
    BY <1>2, <2>1, AnswerOK DEF DeleteInvitation
  <2>2. CASE \E u \in People : Expire(u)
    BY <1>2, <2>2, ReqsKept DEF Expire
  <2> QED BY <2>1, <2>2
<1>4. PICK t : invites' = [invites EXCEPT ![t] = NoInvite]
  BY DEF DeleteInvitation, Expire
<1>5. /\ invites' \in [People -> Invitation]
      /\ \A u \in People : invites'[u] = invites[u] \/ invites'[u] = NoInvite
  BY <1>4, Constants DEF WInv, WorkspaceTypeOK
<1>6. InvitesOK'
  BY <1>2, <1>5, InvitesCleared
<1>7. OneCompanyPerTaxID' /\ (Space => firms' = {} /\ actors' = {})
  BY <1>1 DEF WInv, RowsAgree, OneCompanyPerTaxID, SpaceStaysASpace, Space
<1>8. firms' \subseteq Firms /\ taxLock' \in Firms \cup {NoFirm} /\ actors' \subseteq Firms \X People /\ nextInvite' \in 1..(MaxInvites + 1)
  BY <1>1 DEF WInv, WorkspaceTypeOK
<1> QED BY <1>1, <1>3, <1>5, <1>6, <1>7, <1>8, RowsStep

LEMMA CompanyInv ==
  ASSUME WInv, NEW q \in Requests, CreateCompany(q) \/ PutActor(q)
  PROVE  WInv'
<1>1. /\ reqs[q] \in Request /\ Ready(reqs[q]) /\ reqs[q].pc \in {"registerWrite", "actorWrite"} /\ owners # {}
      /\ CreateCompany(q) <=> reqs[q].pc = "registerWrite"
  BY Created DEF WInv, WorkspaceTypeOK, CreateCompany, PutActor
<1>2. UNCHANGED <<scope, org, roles, invites, nextInvite, leaving, erasure, owners, blessed, spent, lost>>
  BY DEF CreateCompany, PutActor, inviteRows, deletion, wSeen
<1>3. Steady
  BY <1>2 DEF Steady, Space
<1>4. reqs' \in [Requests -> Request] /\ \A r \in Requests : Ready(reqs[r])'
  BY <1>3, AnswerOK DEF CreateCompany, PutActor
<1>5. PICK c \in Firms, t \in People :
        /\ c = reqs[q].firm
        /\ actors' \subseteq actors \cup {<<c, t>>}
        /\ \/ UNCHANGED <<firms, taxLock>>
           \/ TaxIDFree /\ firms' = firms \cup {c} /\ taxLock' = c
  <2>1. PICK c, a, t : c = reqs[q].firm /\ a = reqs[q].actor /\ t = reqs[q].target
    OBVIOUS
  <2>2. CASE CreateCompany(q)
    <3>1. c \in Firms /\ a \in People
      BY <1>1, <2>1, <2>2 DEF Ready, ReadyFirm
    <3>2. actors' \subseteq actors \cup {<<c, a>>}
      BY <2>1, <2>2 DEF CreateCompany, companyRows
    <3> QED BY <2>1, <2>2, <3>1, <3>2 DEF CreateCompany, companyRows
  <2>3. CASE PutActor(q)
    <3>1. c \in Firms /\ t \in People
      BY <1>1, <2>1, <2>3 DEF PutActor, Ready, ReadyFirm
    <3> QED BY <2>1, <2>3, <3>1 DEF PutActor
  <2> QED BY <2>2, <2>3
<1>6. ~Space
  BY <1>1 DEF Ready, ReadyFirm
<1>7. firms' \subseteq Firms /\ taxLock' \in Firms \cup {NoFirm} /\ actors' \subseteq Firms \X People
  BY <1>5 DEF WInv, WorkspaceTypeOK
<1>8. OneCompanyPerTaxID'
  BY <1>5, WorkspacesAssumption DEF WInv, RowsAgree, OneCompanyPerTaxID, TaxIDFree
<1>9. invites' \in [People -> Invitation] /\ nextInvite' \in 1..(MaxInvites + 1)
  BY <1>2 DEF WInv, WorkspaceTypeOK
<1>10. InvitesOK'
  BY <1>2, <1>3, InvitesCleared
<1> QED BY <1>1, <1>2, <1>4, <1>6, <1>7, <1>8, <1>9, <1>10, RowsStep

LEMMA RevokeActorInv ==
  ASSUME WInv, NEW q \in Requests, NEW a \in People, NEW t \in People, NEW c \in Firms, RevokeActor(q, a, t, c)
  PROVE  WInv'
<1>1. /\ owners # {}
      /\ UNCHANGED <<scope, org, roles, invites, nextInvite, firms, taxLock, reqs, leaving, erasure, owners, blessed, spent, lost>>
      /\ actors' \subseteq actors
  BY Created DEF RevokeActor, RequireOrgRole, inviteRows, deletion, wSeen
<1>2. Steady
  BY <1>1 DEF Steady, Space
<1>3. reqs' \in [Requests -> Request] /\ \A r \in Requests : Ready(reqs[r])'
  BY <1>1, <1>2, ReqsKept
<1>4. InvitesOK'
  BY <1>1, <1>2, InvitesCleared
<1>5. OneCompanyPerTaxID' /\ (Space => firms' = {} /\ actors' = {})
  BY <1>1 DEF WInv, RowsAgree, OneCompanyPerTaxID, SpaceStaysASpace, Space
<1>6. /\ firms' \subseteq Firms /\ taxLock' \in Firms \cup {NoFirm} /\ actors' \subseteq Firms \X People
      /\ nextInvite' \in 1..(MaxInvites + 1) /\ invites' \in [People -> Invitation]
  BY <1>1 DEF WInv, WorkspaceTypeOK
<1> QED BY <1>1, <1>3, <1>4, <1>5, <1>6, RowsStep

-----------------------------------------------------------------------------
(* Creation and erasure *)

LEMMA CreateInv ==
  ASSUME WInv, NEW u \in People, NEW kind \in Kinds, CreateWithOwner(u, kind)
  PROVE  WInv'
<1>1. /\ owners = {} /\ owners' = {u} /\ org' = [row |-> TRUE, kind |-> kind, owner |-> u]
      /\ roles' = [roles EXCEPT ![u] = "owner"]
      /\ UNCHANGED <<scope, invites, nextInvite, firms, taxLock, actors, reqs, leaving, erasure, blessed, spent, lost>>
  BY DEF CreateWithOwner, inviteRows, companyRows, deletion
<1>2. /\ firms = {} /\ actors = {} /\ erasure = "none" /\ \A v \in People : roles[v] = None /\ invites[v] = NoInvite
      /\ \A q \in Requests : reqs[q] = Idle
  BY <1>1 DEF WInv, Fresh
<1>3. org' \in Organization /\ org'.row = TRUE /\ org'.kind = kind /\ org'.owner = u
  BY <1>1 DEF Organization
<1>4. /\ roles' \in [People -> Ladder \cup {None}] /\ roles'[u] = "owner"
      /\ \A v \in People : v # u => roles'[v] = None
  BY <1>1, <1>2 DEF WInv, WorkspaceTypeOK, Ladder
<1>5. WorkspaceTypeOK'
  BY <1>1, <1>3, <1>4 DEF WInv, WorkspaceTypeOK
<1>6. OneOwner'
  BY <1>3, <1>4 DEF OneOwner, None
<1>7. SpaceStaysASpace' /\ OneCompanyPerTaxID'
  <2>1. \A v \in People : invites'[v].role # "admin" /\ roles'[v] # "admin"
    BY <1>1, <1>2, <1>4, Constants DEF None
  <2> QED BY <1>1, <1>2, <2>1 DEF WInv, RowsAgree, OneCompanyPerTaxID, SpaceStaysASpace
<1>8. AdminsComeFromOwners' /\ OwnersNoted' /\ Fresh'
  BY <1>1, <1>4 DEF AdminsComeFromOwners, OwnersNoted, Fresh, None
<1>9. InvitesOK'
  <2>1. \A v \in People : invites'[v] = NoInvite
    BY <1>1, <1>2
  <2> QED BY <2>1, Constants DEF InvitesOK, SoundInvite, None
<1>10. ASSUME NEW r \in Requests PROVE Ready(reqs[r])'
  <2>1. reqs'[r].pc = "idle"
    BY <1>1, <1>2, Constants
  <2> QED BY <2>1 DEF Ready, ReadyRole, ReadyFirm
<1> QED BY <1>5, <1>6, <1>7, <1>8, <1>9, <1>10 DEF WInv, RowsAgree

\* A step of the deletion: roles, companies and invitations only go.
LEMMA GoneStep ==
  ASSUME WInv, owners # {}, UNCHANGED <<scope, nextInvite, reqs, owners, blessed, spent>>,
         org' = org \/ org' = NoOrg,
         leaving' \in People \cup {NoOne}, erasure' \in Erasures, lost' \subseteq People,
         roles' \in [People -> Ladder \cup {None}], \A u \in People : roles'[u] \in {roles[u], None},
         OneOwner', OneCompanyPerTaxID', firms' \subseteq firms, taxLock' \in Firms \cup {NoFirm},
         actors' \subseteq actors,
         invites' \in [People -> Invitation], \A u \in People : invites'[u] = invites[u] \/ invites'[u] = NoInvite
  PROVE  WInv'
<1>1. Steady /\ (Space' => Space) /\ org' \in Organization
  BY Constants DEF Steady, Space, WInv, WorkspaceTypeOK
<1>2. reqs' \in [Requests -> Request] /\ \A r \in Requests : Ready(reqs[r])'
  BY <1>1, ReqsKept
<1>3. InvitesOK'
  BY <1>1, InvitesCleared
<1>4. WorkspaceTypeOK'
  BY <1>1, <1>2 DEF WInv, WorkspaceTypeOK
<1>5. SpaceStaysASpace'
  <2>1. Space' => \A u \in People : invites'[u].role # "admin"
    BY <1>3 DEF InvitesOK, SoundInvite
  <2>2. Space' => firms' = {} /\ actors' = {} /\ \A u \in People : roles'[u] # "admin"
    BY <1>1 DEF WInv, RowsAgree, SpaceStaysASpace, Space, None
  <2> QED BY <2>1, <2>2 DEF SpaceStaysASpace, Space
<1>6. AdminsComeFromOwners' /\ OwnersNoted' /\ Fresh'
  BY DEF WInv, AdminsComeFromOwners, OwnersNoted, Fresh, None
<1> QED BY <1>2, <1>3, <1>4, <1>5, <1>6 DEF WInv, RowsAgree

LEMMA ErasureInv ==
  ASSUME WInv, (\E u \in People : LockAccount(u)) \/ Erasing
  PROVE  WInv'
<1>1. /\ owners # {} /\ UNCHANGED <<scope, nextInvite, reqs, owners, blessed, spent>>
  BY DEF LockAccount, Erasing, Assess, EraseForOrganization, EraseMembers, EraseInvitations, EraseOrganization,
         inviteRows, wSeen, WInv, Fresh
<1>2. /\ org \in Organization /\ roles \in [People -> Ladder \cup {None}] /\ leaving \in People \cup {NoOne}
      /\ invites \in [People -> Invitation] /\ erasure \in Erasures /\ lost \subseteq People
      /\ OneOwner /\ OneCompanyPerTaxID /\ taxLock \in Firms \cup {NoFirm}
  BY DEF WInv, WorkspaceTypeOK, RowsAgree
<1>3. CASE \E u \in People : LockAccount(u)
  <2>1. /\ UNCHANGED <<org, roles, invites, firms, taxLock, actors, lost>> /\ leaving' \in People \cup {NoOne}
        /\ erasure = "none" /\ erasure' = "locked"
    BY <1>3 DEF LockAccount, inviteRows, companyRows, wSeen
  <2>2. OneOwner' /\ OneCompanyPerTaxID' /\ erasure' \in Erasures
    BY <1>2, <2>1 DEF OneOwner, OneCompanyPerTaxID, Erasures
  <2> QED BY <1>1, <1>2, <2>1, <2>2, GoneStep
<1>4. CASE Assess
  <2>1. /\ UNCHANGED <<org, invites, firms, taxLock, lost>> /\ leaving' \in People \cup {NoOne}
        /\ erasure = "locked" /\ erasure' \in {"frozen", "none", "done"} /\ actors' \subseteq actors
        /\ roles' = roles \/ (roles[leaving] # "owner" /\ roles' = [roles EXCEPT ![leaving] = None])
    BY <1>2, <1>4 DEF Assess, inviteRows, wSeen
  <2>2. /\ roles' \in [People -> Ladder \cup {None}] /\ \A u \in People : roles'[u] \in {roles[u], None}
        /\ \A u \in People : roles'[u] = "owner" <=> roles[u] = "owner"
    BY <1>2, <2>1 DEF None
  <2>3. OneOwner' /\ OneCompanyPerTaxID' /\ erasure' \in Erasures
    BY <1>2, <2>1, <2>2 DEF OneOwner, OneCompanyPerTaxID, Erasures
  <2> QED BY <1>1, <1>2, <2>1, <2>2, <2>3, GoneStep
<1>5. CASE EraseForOrganization
  <2>1. /\ UNCHANGED <<org, roles, invites, leaving, lost>> /\ firms' = {} /\ actors' = {} /\ taxLock' = NoFirm
        /\ erasure = "frozen" /\ erasure' = "companies"
    BY <1>5 DEF EraseForOrganization, inviteRows, wSeen
  <2>2. OneOwner' /\ OneCompanyPerTaxID' /\ erasure' \in Erasures
    BY <1>2, <2>1 DEF OneOwner, OneCompanyPerTaxID, Erasures
  <2> QED BY <1>1, <1>2, <2>1, <2>2, GoneStep
<1>6. CASE EraseMembers
  <2>1. /\ UNCHANGED <<org, invites, firms, taxLock, actors, leaving>> /\ erasure' = "members"
        /\ roles' = [u \in People |-> None] /\ lost' \subseteq People
    BY <1>2, <1>6 DEF EraseMembers, inviteRows, companyRows
  <2>2. OneOwner' /\ OneCompanyPerTaxID' /\ erasure' \in Erasures
    BY <1>2, <2>1 DEF OneOwner, OneCompanyPerTaxID, Erasures
  <2> QED BY <1>1, <1>2, <2>1, <2>2, GoneStep
<1>7. CASE EraseInvitations
  <2>1. /\ UNCHANGED <<org, roles, firms, taxLock, actors, leaving, lost>> /\ erasure' = "invitations"
        /\ invites' = [u \in People |-> NoInvite]
    BY <1>7 DEF EraseInvitations, companyRows, wSeen
  <2>2. OneOwner' /\ OneCompanyPerTaxID' /\ erasure' \in Erasures
    BY <1>2, <2>1 DEF OneOwner, OneCompanyPerTaxID, Erasures
  <2> QED BY <1>1, <1>2, <2>1, <2>2, Constants, GoneStep
<1>8. CASE EraseOrganization
  <2>1. UNCHANGED <<roles, invites, firms, taxLock, actors, leaving, lost>> /\ org' = NoOrg /\ erasure' = "done"
    BY <1>8 DEF EraseOrganization, inviteRows, companyRows, wSeen
  <2>2. OneOwner' /\ OneCompanyPerTaxID' /\ erasure' \in Erasures
    BY <1>2, <2>1, Constants DEF OneOwner, OneCompanyPerTaxID, Erasures
  <2> QED BY <1>1, <1>2, <2>1, <2>2, GoneStep
<1> QED BY <1>3, <1>4, <1>5, <1>6, <1>7, <1>8 DEF Erasing

-----------------------------------------------------------------------------
(* The theorems *)

LEMMA InitWInv == WorkspaceInit => WInv
<1> SUFFICES ASSUME WorkspaceInit PROVE WInv
  OBVIOUS
<1> USE DEF WorkspaceInit
<1>1. WorkspaceTypeOK
  BY Constants, WorkspacesAssumption DEF WorkspaceTypeOK, Erasures
<1>2. RowsAgree /\ AdminsComeFromOwners /\ OwnersNoted
  BY Constants DEF RowsAgree, OneOwner, SpaceStaysASpace, OneCompanyPerTaxID, AdminsComeFromOwners, OwnersNoted, None
<1>3. InvitesOK /\ Fresh
  BY Constants DEF InvitesOK, SoundInvite, Fresh, None
<1>4. ASSUME NEW q \in Requests PROVE Ready(reqs[q])
  <2>1. reqs[q].pc = "idle"
    BY Constants
  <2> QED BY <2>1, IdleReady
<1> QED BY <1>1, <1>2, <1>3, <1>4 DEF WInv

LEMMA NextWInv == WInv /\ [WorkspaceNext]_wVars => WInv'
<1> SUFFICES ASSUME WInv, [WorkspaceNext]_wVars PROVE WInv'
  OBVIOUS
<1>1. ASSUME NEW u \in People, NEW k \in Kinds, CreateWithOwner(u, k) PROVE WInv'
  BY <1>1, CreateInv
<1>2. ASSUME NEW q \in Requests, NEW a \in People, NEW t \in People,
             \/ \E r \in Ladder : SetRole(q, a, t, r)
             \/ \E r \in Ladder, f \in BOOLEAN : Invite(q, a, t, r, f)
             \/ RevokeInvitation(q, a, t) \/ Remove(q, a, t) \/ Transfer(q, a, t)
             \/ \E c \in Firms : GrantActor(q, a, t, c) \/ RevokeActor(q, a, t, c)
      PROVE  WInv'
  <2>1. CASE \E r \in Ladder, f \in BOOLEAN : Invite(q, a, t, r, f)
    BY <2>1, InviteInv
  <2>2. CASE \E c \in Firms : RevokeActor(q, a, t, c)
    BY <2>2, RevokeActorInv
  <2> QED BY <1>2, <2>1, <2>2, ArriveInv
<1>3. ASSUME NEW q \in Requests, NEW a \in People, NEW c \in Firms, Register(q, a, c) PROVE WInv'
  BY <1>3, ArriveInv
<1>4. ASSUME NEW q \in Requests, NEW u \in People, Accept(q, u) PROVE WInv'
  BY <1>4, AcceptInv
<1>5. ASSUME NEW q \in Requests, Continue(q) PROVE WInv'
  BY <1>5, DecideInv, SetRoleWriteInv, RemoveMembershipInv, TransferOwnershipInv, PutInvitationInv, InviteGoneInv,
     AcceptInvitationInv, CompanyInv DEF Continue
<1>6. ASSUME NEW u \in People, Expire(u) PROVE WInv'
  BY <1>6, InviteGoneInv
<1>7. ASSUME (\E u \in People : LockAccount(u)) \/ Erasing PROVE WInv'
  BY <1>7, ErasureInv
<1>8. CASE UNCHANGED wVars
  BY <1>8 DEF wVars, WInv, WorkspaceTypeOK, RowsAgree, OneOwner, SpaceStaysASpace, OneCompanyPerTaxID,
              AdminsComeFromOwners, OwnersNoted, InvitesOK, SoundInvite, Space, Fresh, Ready, ReadyRole, ReadyFirm
<1>9. CASE WorkspaceNext
  BY <1>1, <1>2, <1>3, <1>4, <1>5, <1>6, <1>7, <1>9 DEF WorkspaceNext
<1> QED BY <1>8, <1>9

LEMMA WorkspaceInvariant == WorkspaceSpec => []WInv
BY InitWInv, NextWInv, PTL DEF WorkspaceSpec

\* The state of a workspace and of every request on it keeps its type: a role, an
\* invitation or a company a request carries from a read to a write is one the
\* workspace knows.
THEOREM WorkspaceTypeCorrect == WorkspaceSpec => []WorkspaceTypeOK
<1>1. WInv => WorkspaceTypeOK
  BY DEF WInv
<1> QED BY <1>1, WorkspaceInvariant, PTL

\* However many requests change roles, accept invitations, transfer, register
\* companies or are lost between their read and their write, and whatever the
\* deletion of an owner erases meanwhile: the workspace has the one owner its row
\* names, a space has no admin and no company, and a tax id one company.
THEOREM RowsCorrect == WorkspaceSpec => []RowsAgree
<1>1. WInv => RowsAgree
  BY DEF WInv
<1> QED BY <1>1, WorkspaceInvariant, PTL

\* Nobody becomes admin but through an owner: the check that the caller outranks
\* the role (Outranks in SetRole and Invite) holds up although the role it read may
\* be gone when the write lands.
THEOREM AdminsCorrect == WorkspaceSpec => []AdminsComeFromOwners
<1>1. WInv => AdminsComeFromOwners
  BY DEF WInv
<1> QED BY <1>1, WorkspaceInvariant, PTL

-----------------------------------------------------------------------------
(* Plan limits on spaces: what is where *)

Guarding == {"owned", "counter", "write"}
Inviting == {"existing", "guests", "pending", "peopleCounter", "putInvite"}
Telling == {"decrement", "left", "mark", "count", "send"}

\* What request x may rely on: its space exists, or will not before x creates it,
\* and it has somebody to report about once it has written.
Sound(x, h) ==
  /\ x.pc = "idle" <=> x.op = "none"
  /\ x.pc # "idle" => x.s \in Spaces
  /\ x.op = "create" => x.u \in Persons /\ x.pc \in Guarding \cup Telling
  /\ x.op = "create" /\ x.pc \in Guarding => h[x.s] = NoPerson
  /\ x.op \notin {"none", "create"} => h[x.s] # NoPerson /\ x.g \in Persons
  /\ x.pc \in Guarding => x.op \in {"create", "transfer"} /\ x.u \in Persons
  /\ x.pc \in Inviting \cup {"schedule"} => x.op = "invite"
  /\ x.op \in {"invite", "revoke"} => x.u \in Persons
  /\ x.pc = "decrement" => x.op = "transfer"
  /\ x.pc = "join" => x.op = "accept"
  /\ x.pc = "drop" => x.op \in {"remove", "revoke"}
  /\ x.pc \in Telling <=> x.tell # <<>> /\ x.pc # "schedule"

SoundCall(x) == Sound(x, holder)

OneCreator ==
  \A c, d \in Calls :
    calls[c].op = "create" /\ calls[d].op = "create" /\ calls[c].s = calls[d].s => c = d

\* The type invariant, as strong as the requests need it to be inductive.
PlansTypes ==
  /\ PlansTypeOK /\ OneCreator
  /\ \A c \in Calls : SoundCall(calls[c])
  /\ \A s \in Spaces : pending[s] # {} \/ guests[s] # {} => holder[s] # NoPerson
  /\ worker.pc # "idle" => worker.u \in Persons

-----------------------------------------------------------------------------
LEMMA PlansConstants ==
  /\ Absent \in Counts /\ <<>> \in Tells /\ NoLevels \in LevelsType
  /\ Free \in CallRecord /\ Free.pc = "idle" /\ Free.op = "none" /\ Free.tell = <<>>
  /\ Rest \in WorkerRecord /\ Rest.pc = "idle"
<1>1. Absent \in Counts /\ NoLevels \in LevelsType /\ GuardAttempts \in Nat /\ <<>> \in Tells
  BY DEF Tells, Absent, Counts, NoLevels, LevelsType, GuardAttempts
<1>2. Free \in CallRecord
  BY <1>1 DEF Free, CallRecord, GuardAttempts
<1>3. Rest \in WorkerRecord
  BY <1>1 DEF Rest, WorkerRecord
<1> QED BY <1>1, <1>2, <1>3 DEF Free, Rest

LEMMA FreeSound == SoundCall(Free)
BY DEF SoundCall, Sound, Free, Guarding, Inviting, Telling

\* The levels of an owner are numbers.
LEMMA LevelsTyped ==
  ASSUME PlansTypeOK, NEW u \in Persons
  PROVE  /\ OwnedSpaces(u) \subseteq Spaces /\ IsFiniteSet(OwnedSpaces(u)) /\ Cardinality(OwnedSpaces(u)) \in Nat
         /\ Truly(u) \subseteq Spaces /\ IsFiniteSet(Truly(u)) /\ Cardinality(Truly(u)) \in Nat
         /\ Levels(u) \in LevelsType /\ TrueLevels(u) \in LevelsType
<1>1. OwnedSpaces(u) \subseteq Spaces /\ Truly(u) \subseteq Spaces
  BY DEF OwnedSpaces, Truly
<1>2. \A S \in SUBSET Spaces : IsFiniteSet(S) /\ Cardinality(S) \in Nat
  BY SpacePlansAssumption, FS_Subset, FS_CardinalityType
<1>3. \A S \in SUBSET Spaces : PeopleOf(S) \subseteq Persons
  BY DEF PlansTypeOK, PeopleOf
<1>4. \A S \in SUBSET Spaces : Cardinality(PeopleOf(S)) \in Nat
  BY <1>3, SpacePlansAssumption, FS_Subset, FS_CardinalityType
<1> QED BY <1>1, <1>2, <1>4 DEF Levels, TrueLevels, LevelsType

\* Persons and spaces of a step of request c, the others being where they were.
LEMMA CallTypes ==
  ASSUME PlansTypes, NEW c \in Calls, NEW y \in CallRecord, calls' = [calls EXCEPT ![c] = y], Sound(y, holder'),
         \A s \in Spaces : holder[s] # NoPerson => holder'[s] # NoPerson,
         \A d \in Calls \ {c} : calls[d].op = "create" /\ calls[d].pc \in Guarding => holder'[calls[d].s] = NoPerson,
         y.op = "create" => \A d \in Calls \ {c} : calls[d].op = "create" => calls[d].s # y.s
  PROVE  /\ calls' \in [Calls -> CallRecord] /\ OneCreator'
         /\ \A d \in Calls : SoundCall(calls[d])'
<1>1. calls \in [Calls -> CallRecord] /\ OneCreator
  BY DEF PlansTypes, PlansTypeOK
<1>2. calls' \in [Calls -> CallRecord]
  BY <1>1
<1>3. calls'[c] = y /\ \A d \in Calls \ {c} : calls'[d] = calls[d]
  BY <1>1
<1>4. OneCreator'
  BY <1>1, <1>3 DEF OneCreator
<1>5. ASSUME NEW d \in Calls PROVE SoundCall(calls[d])'
  <2>1. CASE d = c
    BY <1>3, <2>1 DEF SoundCall, Sound
  <2>2. CASE d # c
    <3>1. SoundCall(calls[d]) /\ calls'[d] = calls[d]
      BY <1>3, <2>2 DEF PlansTypes
    <3>2. calls[d].op # "none" => calls[d].s \in Spaces
      BY <3>1 DEF SoundCall, Sound
    <3> QED BY <2>2, <3>1, <3>2 DEF SoundCall, Sound
  <2> QED BY <2>1, <2>2
<1> QED BY <1>2, <1>4, <1>5

\* What a request knows when it arrives.
Arrives(op, pc, w, s, g) ==
  /\ w \in Persons \cup {NoPerson} /\ g \in Persons \cup {NoPerson}
  /\ \/ op = "create" /\ pc = "owned" /\ w \in Persons /\ holder[s] = NoPerson
        /\ \A x \in Calls : ~(calls[x].op = "create" /\ calls[x].s = s)
     \/ op = "transfer" /\ pc = "owned" /\ w \in Persons /\ g \in Persons /\ holder[s] # NoPerson
     \/ op = "invite" /\ pc = "existing" /\ w \in Persons /\ w = holder[s] /\ g \in Persons
     \/ op = "accept" /\ pc = "join" /\ g \in Persons /\ holder[s] # NoPerson
     \/ op = "remove" /\ pc = "drop" /\ g \in Persons /\ holder[s] # NoPerson
     \/ op = "revoke" /\ pc = "drop" /\ w \in Persons /\ w = holder[s] /\ g \in Persons

SameRows == UNCHANGED <<planScope, holder, idx, guests, pending, spaceN, peopleN, marks, waits, ats, due, told,
                        worker, undercut, unmarked>>

LEMMA ArriveShape ==
  ASSUME PlansTypes, NEW c \in Calls, NEW u \in Persons, NEW s \in Spaces,
         CreateSpace(c, u, s) \/ TransferSpace(c, s, u) \/ InviteGuest(c, s, u)
         \/ AcceptGuest(c, s, u) \/ RemoveGuest(c, s, u) \/ RevokeGuest(c, s, u)
  PROVE  SameRows /\ \E op, pc, w, g : Open(c, op, pc, w, s, g) /\ Arrives(op, pc, w, s, g)
<1>1. SameRows
  BY DEF CreateSpace, TransferSpace, InviteGuest, AcceptGuest, RemoveGuest, RevokeGuest, tables, counters, queue,
         SameRows
<1>2. holder[s] \in Persons \cup {NoPerson} /\ (pending[s] # {} \/ guests[s] # {} => holder[s] # NoPerson)
  BY DEF PlansTypes, PlansTypeOK
<1>3. CASE CreateSpace(c, u, s)
  <2>1. Open(c, "create", "owned", u, s, NoPerson) /\ Arrives("create", "owned", u, s, NoPerson)
    BY <1>3 DEF CreateSpace, Arrives
  <2> QED BY <1>1, <2>1
<1>4. CASE TransferSpace(c, s, u)
  <2>1. Open(c, "transfer", "owned", u, s, holder[s]) /\ Arrives("transfer", "owned", u, s, holder[s])
    BY <1>2, <1>4 DEF TransferSpace, Arrives
  <2> QED BY <1>1, <2>1
<1>5. CASE InviteGuest(c, s, u)
  <2>1. Open(c, "invite", "existing", holder[s], s, u) /\ Arrives("invite", "existing", holder[s], s, u)
    BY <1>2, <1>5 DEF InviteGuest, Arrives
  <2> QED BY <1>1, <2>1
<1>6. CASE AcceptGuest(c, s, u)
  <2>1. Open(c, "accept", "join", NoPerson, s, u) /\ Arrives("accept", "join", NoPerson, s, u)
    BY <1>2, <1>6 DEF AcceptGuest, Arrives
  <2> QED BY <1>1, <2>1
<1>7. CASE RemoveGuest(c, s, u)
  <2>1. Open(c, "remove", "drop", NoPerson, s, u) /\ Arrives("remove", "drop", NoPerson, s, u)
    BY <1>2, <1>7 DEF RemoveGuest, Arrives
  <2> QED BY <1>1, <2>1
<1>8. CASE RevokeGuest(c, s, u)
  <2>1. Open(c, "revoke", "drop", holder[s], s, u) /\ Arrives("revoke", "drop", holder[s], s, u)
    BY <1>2, <1>8 DEF RevokeGuest, Arrives
  <2> QED BY <1>1, <2>1
<1> QED BY <1>3, <1>4, <1>5, <1>6, <1>7, <1>8

Arriving(op, pc, w, s, g) == [Free EXCEPT !.pc = pc, !.op = op, !.u = w, !.s = s, !.g = g]

LEMMA ArrivingRecord ==
  ASSUME NEW op, NEW pc, NEW w, NEW g, NEW s \in Spaces, Arrives(op, pc, w, s, g), PlansTypes
  PROVE  LET y == Arriving(op, pc, w, s, g) IN
         /\ y \in CallRecord /\ SoundCall(y)
         /\ y.pc = pc /\ y.op = op /\ y.u = w /\ y.s = s /\ y.g = g /\ y.tell = <<>>
<1> DEFINE y == Arriving(op, pc, w, s, g)
<1>1. y \in CallRecord
  <2>1. /\ pc \in {"owned", "existing", "join", "drop"}
        /\ op \in {"create", "transfer", "invite", "accept", "remove", "revoke"}
        /\ w \in Persons \cup {NoPerson} /\ g \in Persons \cup {NoPerson}
    BY DEF Arrives
  <2> QED BY <2>1, PlansConstants DEF Arriving, CallRecord
<1>2. y.pc = pc /\ y.op = op /\ y.u = w /\ y.s = s /\ y.g = g /\ y.tell = <<>>
  BY DEF Arriving, Free
<1>3. SoundCall(y)
  BY <1>2, SpacePlansAssumption DEF Arrives, SoundCall, Sound, Guarding, Inviting, Telling
<1> QED BY <1>1, <1>2, <1>3

LEMMA ArriveTypes ==
  ASSUME PlansTypes, NEW c \in Calls, NEW op, NEW pc, NEW w, NEW g, NEW s \in Spaces,
         SameRows, Open(c, op, pc, w, s, g), Arrives(op, pc, w, s, g)
  PROVE  PlansTypes'
<1> DEFINE y == Arriving(op, pc, w, s, g)
<1>1. y \in CallRecord /\ SoundCall(y) /\ y.op = op /\ y.s = s
  BY ArrivingRecord
<1>2. calls' = [calls EXCEPT ![c] = y] /\ budget' \in 0..planScope.requests
  BY SpacePlansAssumption DEF Open, PlansTypes, PlansTypeOK, Arriving
<1>3. y.op = "create" => \A d \in Calls \ {c} : calls[d].op = "create" => calls[d].s # y.s
  BY <1>1 DEF Arrives
<1>4. calls' \in [Calls -> CallRecord] /\ OneCreator' /\ \A d \in Calls : SoundCall(calls[d])'
  <2> HIDE DEF y
  <2>1. Sound(y, holder')
    BY <1>1 DEF SoundCall, Sound, SameRows
  <2>2. \A d \in Calls : calls[d].op = "create" /\ calls[d].pc \in Guarding => holder[calls[d].s] = NoPerson
    BY DEF PlansTypes, SoundCall, Sound
  <2> QED BY <1>1, <1>2, <1>3, <2>1, <2>2, CallTypes DEF SameRows
<1> QED BY <1>2, <1>4 DEF PlansTypes, PlansTypeOK, SameRows
-----------------------------------------------------------------------------
\* Request c goes on as y.
GoesOn(c, y) ==
  /\ y \in CallRecord /\ calls' = [calls EXCEPT ![c] = y] /\ Sound(y, holder')
  /\ y = Free \/ (y.op = calls[c].op /\ y.s = calls[c].s)

RowsTyped ==
  /\ planScope \in PlanScopes /\ budget \in 0..planScope.requests
  /\ holder \in [Spaces -> Persons \cup {NoPerson}] /\ idx \in [Spaces -> Persons \cup {NoPerson}]
  /\ guests \in [Spaces -> SUBSET Persons] /\ pending \in [Spaces -> SUBSET Persons]
  /\ spaceN \in [Persons -> Counts] /\ peopleN \in [Spaces -> Counts]
  /\ marks \in [Persons -> {"none", "new", "read"}]
  /\ waits \in [Persons -> SUBSET (Spaces \cup Calls)]
  /\ ats \subseteq Persons \X Spaces \X Persons /\ due \subseteq AtRows
  /\ told \in [Persons -> LevelsType]
  /\ undercut \subseteq Persons /\ unmarked \subseteq Persons
  /\ \A s \in Spaces : pending[s] # {} \/ guests[s] # {} => holder[s] # NoPerson

LEMMA Rows == PlansTypes => RowsTyped
BY DEF PlansTypes, PlansTypeOK, RowsTyped

\* The record of a request in progress.
LEMMA CallAt ==
  ASSUME PlansTypes, NEW c \in Calls
  PROVE  /\ calls[c] \in CallRecord /\ SoundCall(calls[c])
         /\ calls[c].pc # "idle" => calls[c].s \in Spaces /\ calls[c].op # "none"
BY DEF PlansTypes, PlansTypeOK, SoundCall, Sound

LEMMA StepTypes ==
  ASSUME PlansTypes, NEW c \in Calls, calls[c].pc # "idle", NEW y, GoesOn(c, y), RowsTyped', worker' = worker,
         \A s \in Spaces : holder[s] # NoPerson => holder'[s] # NoPerson,
         \A s \in Spaces : holder'[s] = holder[s] \/ s = calls[c].s
  PROVE  PlansTypes'
<1>1. /\ y \in CallRecord /\ calls' = [calls EXCEPT ![c] = y] /\ Sound(y, holder')
      /\ y.op = "create" => calls[c].op = "create" /\ y.s = calls[c].s
  BY PlansConstants DEF GoesOn
<1>2. y.op = "create" => \A d \in Calls \ {c} : calls[d].op = "create" => calls[d].s # y.s
  BY <1>1 DEF PlansTypes, OneCreator
<1>3. ASSUME NEW d \in Calls \ {c}, calls[d].op = "create", calls[d].pc \in Guarding
      PROVE  holder'[calls[d].s] = NoPerson
  <2>1. calls[d].s \in Spaces /\ holder[calls[d].s] = NoPerson
    BY <1>3, CallAt DEF SoundCall, Sound, Guarding
  <2>2. CASE calls[c].op = "create"
    <3>1. calls[d].s # calls[c].s
      BY <1>3, <2>2 DEF PlansTypes, OneCreator
    <3> QED BY <2>1, <3>1
  <2>3. CASE calls[c].op # "create"
    <3>1. holder[calls[c].s] # NoPerson
      BY <2>3, CallAt DEF SoundCall, Sound
    <3> QED BY <2>1, <3>1
  <2> QED BY <2>2, <2>3
<1>4. calls' \in [Calls -> CallRecord] /\ OneCreator' /\ \A d \in Calls : SoundCall(calls[d])'
  BY <1>1, <1>2, <1>3, CallTypes
<1> QED BY <1>4 DEF PlansTypes, PlansTypeOK, RowsTyped

\* Four ways for a request to go on.
LEMMA Closing ==
  ASSUME PlansTypes, NEW c \in Calls, Close(c)
  PROVE  GoesOn(c, Free) /\ waits' \in [Persons -> SUBSET (Spaces \cup Calls)]
<1>1. Sound(Free, holder')
  BY DEF SoundCall, Sound, Free, Guarding, Inviting, Telling
<1>2. waits \in [Persons -> SUBSET (Spaces \cup Calls)]
  BY DEF PlansTypes, PlansTypeOK
<1> QED BY <1>1, <1>2, PlansConstants DEF Close, GoesOn

Moved(c, pc) == [calls[c] EXCEPT !.pc = pc]
Told(c, list, pc) == [calls[c] EXCEPT !.pc = pc, !.tell = list]

LEMMA Moving ==
  ASSUME PlansTypes, NEW c \in Calls, NEW pc, Move(c, pc), Moved(c, pc) \in CallRecord, Sound(Moved(c, pc), holder')
  PROVE  GoesOn(c, Moved(c, pc)) /\ waits' \in [Persons -> SUBSET (Spaces \cup Calls)]
<1>1. calls[c] \in CallRecord /\ waits \in [Persons -> SUBSET (Spaces \cup Calls)]
  BY DEF PlansTypes, PlansTypeOK
<1>2. Moved(c, pc).op = calls[c].op /\ Moved(c, pc).s = calls[c].s
  BY <1>1 DEF Moved, CallRecord
<1>3. calls' = [calls EXCEPT ![c] = Moved(c, pc)]
  BY DEF Move, Moved
<1> QED BY <1>1, <1>2, <1>3 DEF GoesOn, Move

LEMMA TellingOn ==
  ASSUME PlansTypes, NEW c \in Calls, NEW pc, NEW list, Tell(c, list, pc),
         Told(c, list, pc) \in CallRecord, Sound(Told(c, list, pc), holder')
  PROVE  GoesOn(c, Told(c, list, pc)) /\ waits' \in [Persons -> SUBSET (Spaces \cup Calls)]
<1>1. calls[c] \in CallRecord /\ waits \in [Persons -> SUBSET (Spaces \cup Calls)]
  BY DEF PlansTypes, PlansTypeOK
<1>2. Told(c, list, pc).op = calls[c].op /\ Told(c, list, pc).s = calls[c].s
  BY <1>1 DEF Told, CallRecord
<1>3. calls' = [calls EXCEPT ![c] = Told(c, list, pc)]
  BY DEF Tell, Told
<1> QED BY <1>1, <1>2, <1>3 DEF GoesOn, Tell

LEMMA TellSeq ==
  ASSUME NEW t \in Tells
  PROVE  /\ t # <<>> => Head(t) \in Persons /\ t[1] = Head(t) /\ Len(t) \in {1, 2}
         /\ Len(t) > 1 => Tail(t) \in Tells /\ Tail(t) # <<>> /\ Tail(t) = <<t[2]>> /\ t[2] \in Persons
<1>1. CASE t = <<>>
  BY <1>1
<1>2. ASSUME NEW u \in Persons, t = <<u>> PROVE Head(t) = u /\ t[1] = u /\ Len(t) = 1
  BY <1>2
<1>3. ASSUME NEW u \in Persons, NEW v \in Persons, t = <<u, v>>
      PROVE  Head(t) = u /\ t[1] = u /\ Len(t) = 2 /\ Tail(t) = <<v>> /\ t[2] = v /\ Tail(t) # <<>>
  BY <1>3
<1>4. \A v \in Persons : <<v>> \in Tells
  BY DEF Tells
<1>5. t = <<>> \/ (\E u \in Persons : t = <<u>>) \/ (\E u, v \in Persons : t = <<u, v>>)
  BY DEF Tells
<1>6. CASE \E u \in Persons : t = <<u>>
  <2>1. PICK u \in Persons : t = <<u>>
    BY <1>6
  <2>2. t[1] = u /\ Head(t) = u /\ Len(t) = 1
    BY <1>2, <2>1
  <2> QED BY <2>2
<1>7. CASE \E u, v \in Persons : t = <<u, v>>
  <2>1. PICK u \in Persons, v \in Persons : t = <<u, v>>
    BY <1>7
  <2>2. Head(t) = u /\ t[1] = u /\ Len(t) = 2 /\ Tail(t) = <<v>> /\ t[2] = v /\ Tail(t) # <<>>
    BY <1>3, <2>1
  <2>3. <<v>> \in Tells
    BY <1>4
  <2> QED BY <2>2, <2>3
<1> QED BY <1>1, <1>5, <1>6, <1>7

LEMMA TellsOf ==
  /\ \A u \in Persons : <<u>> \in Tells /\ <<u>> # <<>>
  /\ \A u, v \in Persons : <<u, v>> \in Tells /\ <<u, v>> # <<>>
BY DEF Tells

-----------------------------------------------------------------------------
\* The steps of a request, one by one.
LEMMA ReadOwnedTypes ==
  ASSUME PlansTypes, NEW c \in Calls, ReadOwned(c)
  PROVE  PlansTypes'
<1> DEFINE y == [calls[c] EXCEPT !.pc = "counter", !.used = Cardinality(OwnedSpaces(calls[c].u))]
<1>1. calls[c].pc = "owned" /\ calls[c] \in CallRecord /\ SoundCall(calls[c])
  BY CallAt DEF ReadOwned
<1>2. Cardinality(OwnedSpaces(calls[c].u)) \in Nat
  BY <1>1, LevelsTyped DEF PlansTypes, SoundCall, Sound, Guarding
<1>3. y \in CallRecord /\ calls' = [calls EXCEPT ![c] = y]
  BY <1>1, <1>2 DEF ReadOwned, CallRecord
<1>4. Sound(y, holder')
  BY <1>1 DEF ReadOwned, tables, CallRecord, SoundCall, Sound, Guarding, Inviting, Telling
<1>5. GoesOn(c, y)
  BY <1>1, <1>3, <1>4 DEF GoesOn, CallRecord
<1>6. RowsTyped' /\ worker' = worker /\ holder' = holder
  BY Rows DEF RowsTyped, ReadOwned, scene, tables, counters, queue
<1> QED BY <1>1, <1>5, <1>6, StepTypes

LEMMA SpaceGuardTypes ==
  ASSUME PlansTypes, NEW c \in Calls, SpaceGuard(c)
  PROVE  PlansTypes'
<1> DEFINE n == Used(calls[c].used, spaceN[calls[c].u])
           y == [calls[c] EXCEPT !.pc = "write", !.used = n, !.seen = spaceN[calls[c].u]]
<1>1. calls[c].pc = "counter" /\ calls[c] \in CallRecord /\ SoundCall(calls[c])
  BY CallAt DEF SpaceGuard
<1>2. holder' = holder /\ worker' = worker /\ (waits' \in [Persons -> SUBSET (Spaces \cup Calls)] => RowsTyped')
  BY Rows DEF RowsTyped, SpaceGuard, scene, tables, counters
<1>3. CASE Close(c)
  BY <1>1, <1>2, <1>3, Closing, StepTypes
<1>4. CASE calls' = [calls EXCEPT ![c].pc = "write", ![c].used = n, ![c].seen = spaceN[calls[c].u]]
           /\ UNCHANGED waits
  <2>1. calls[c].u \in Persons
    BY <1>1 DEF SoundCall, Sound, Guarding
  <2>2. spaceN[calls[c].u] \in Counts /\ calls[c].used \in Nat
    BY <1>1, <2>1 DEF PlansTypes, PlansTypeOK, CallRecord
  <2>3. n \in Nat
    BY <2>2 DEF Used, Larger, Counts, Absent
  <2>4. y \in CallRecord /\ calls' = [calls EXCEPT ![c] = y]
    BY <1>1, <1>4, <2>2, <2>3 DEF CallRecord
  <2>5. Sound(y, holder')
    BY <1>1, <1>2 DEF CallRecord, SoundCall, Sound, Guarding, Inviting, Telling
  <2>6. GoesOn(c, y)
    BY <1>1, <2>4, <2>5 DEF GoesOn, CallRecord
  <2>7. waits' \in [Persons -> SUBSET (Spaces \cup Calls)]
    BY <1>4, Rows DEF RowsTyped
  <2> QED BY <1>1, <1>2, <2>6, <2>7, StepTypes
<1> QED BY <1>3, <1>4 DEF SpaceGuard

\* A retry, whatever it goes back to.
LEMMA Retrying ==
  ASSUME PlansTypes, NEW c \in Calls, NEW pc, Retry(c, pc),
         \/ pc = "owned" /\ calls[c].pc = "write"
         \/ pc = "existing" /\ calls[c].pc = "putInvite",
         holder' = holder, worker' = worker, waits' \in [Persons -> SUBSET (Spaces \cup Calls)] => RowsTyped'
  PROVE  PlansTypes'
<1> DEFINE y == [calls[c] EXCEPT !.pc = pc, !.tries = @ + 1]
<1>1. calls[c] \in CallRecord /\ SoundCall(calls[c]) /\ calls[c].pc # "idle"
  BY CallAt
<1>2. CASE Close(c)
  BY <1>1, <1>2, Closing, StepTypes
<1>3. CASE calls[c].tries + 1 < GuardAttempts
           /\ calls' = [calls EXCEPT ![c].pc = pc, ![c].tries = @ + 1] /\ UNCHANGED waits
  <2>1. calls[c].tries + 1 \in 0..GuardAttempts
    BY <1>1, <1>3 DEF CallRecord, GuardAttempts
  <2>2. y \in CallRecord /\ calls' = [calls EXCEPT ![c] = y]
    BY <1>1, <1>3, <2>1 DEF CallRecord
  <2>3. Sound(y, holder')
    BY <1>1 DEF CallRecord, SoundCall, Sound, Guarding, Inviting, Telling
  <2>4. GoesOn(c, y)
    BY <1>1, <2>2, <2>3 DEF GoesOn, CallRecord
  <2>5. waits' \in [Persons -> SUBSET (Spaces \cup Calls)]
    BY <1>3, Rows DEF RowsTyped
  <2> QED BY <1>1, <2>4, <2>5, StepTypes
<1> QED BY <1>2, <1>3 DEF Retry

LEMMA OwnerAt ==
  ASSUME PlansTypes, NEW c \in Calls, calls[c].op \notin {"none", "create"}
  PROVE  calls[c].s \in Spaces /\ holder[calls[c].s] \in Persons /\ calls[c].g \in Persons
<1>1. calls[c].pc # "idle" /\ SoundCall(calls[c])
  BY CallAt DEF SoundCall, Sound
<1>2. holder \in [Spaces -> Persons \cup {NoPerson}]
  BY Rows DEF RowsTyped
<1> QED BY <1>1, <1>2 DEF SoundCall, Sound

LEMMA CountsOnly == \A n \in Counts : Lowered(n) \in Counts
BY DEF Counts, Absent, Lowered

LEMMA CreateTypes ==
  ASSUME PlansTypes, NEW c \in Calls, CreateWithOwnerGuarded(c)
  PROVE  PlansTypes'
<1> DEFINE x == calls[c]
<1>1. x.pc = "write" /\ x.op = "create" /\ x \in CallRecord /\ SoundCall(x) /\ x.s \in Spaces /\ x.u \in Persons
  BY CallAt DEF CreateWithOwnerGuarded, SoundCall, Sound
<1>2. CASE GuardHolds(Quota[x.u], spaceN[x.u], x.seen)
  <2>1. /\ holder' = [holder EXCEPT ![x.s] = x.u] /\ spaceN' = [spaceN EXCEPT ![x.u] = x.used + 1]
        /\ Tell(c, <<x.u>>, "mark")
        /\ worker' = worker
    BY <1>1, <1>2 DEF CreateWithOwnerGuarded
  <2>2. Told(c, <<x.u>>, "mark") \in CallRecord
    BY <1>1, TellsOf DEF Told, CallRecord
  <2>3. holder'[x.s] = x.u /\ x.u # NoPerson /\ \A s \in Spaces : holder[s] # NoPerson => holder'[s] # NoPerson
    BY <1>1, <2>1, Rows, SpacePlansAssumption DEF RowsTyped
  <2>4. Sound(Told(c, <<x.u>>, "mark"), holder')
    BY <1>1, <2>3, TellsOf DEF Told, CallRecord, SoundCall, Sound, Guarding, Inviting, Telling
  <2>5. GoesOn(c, Told(c, <<x.u>>, "mark")) /\ waits' \in [Persons -> SUBSET (Spaces \cup Calls)]
    BY <2>1, <2>2, <2>4, TellingOn
  <2>6. x.used + 1 \in Counts
    BY <1>1 DEF CallRecord, Counts
  <2>7. RowsTyped'
    BY <1>1, <2>1, <2>3, <2>5, <2>6, Rows DEF RowsTyped, CreateWithOwnerGuarded, scene
  <2>8. \A s \in Spaces : holder'[s] = holder[s] \/ s = x.s
    BY <2>1, Rows DEF RowsTyped
  <2> QED BY <1>1, <2>1, <2>3, <2>5, <2>7, <2>8, StepTypes
<1>3. CASE ~GuardHolds(Quota[x.u], spaceN[x.u], x.seen)
  <2>1. Retry(c, "owned") /\ holder' = holder /\ worker' = worker
    BY <1>1, <1>3 DEF CreateWithOwnerGuarded
  <2>2. waits' \in [Persons -> SUBSET (Spaces \cup Calls)] => RowsTyped'
    BY <1>1, <1>3, Rows DEF RowsTyped, CreateWithOwnerGuarded, scene
  <2> QED BY <1>1, <2>1, <2>2, Retrying
<1> QED BY <1>2, <1>3

LEMMA TransferTypes ==
  ASSUME PlansTypes, NEW c \in Calls, TransferOwnershipGuarded(c)
  PROVE  PlansTypes'
<1> DEFINE x == calls[c]
<1>1. x.pc = "write" /\ x.op = "transfer" /\ x \in CallRecord /\ SoundCall(x) /\ x.s \in Spaces /\ x.u \in Persons
      /\ x.g \in Persons
  BY CallAt, OwnerAt DEF TransferOwnershipGuarded, SoundCall, Sound, Guarding
<1>2. worker' = worker
  BY DEF TransferOwnershipGuarded
<1>3. CASE holder' = [holder EXCEPT ![x.s] = x.u] /\ guests' = [guests EXCEPT ![x.s] = (@ \ {x.u}) \cup {x.g}]
           /\ spaceN' = [spaceN EXCEPT ![x.u] = x.used + 1] /\ Tell(c, <<x.g, x.u>>, "decrement")
  <2>1. Told(c, <<x.g, x.u>>, "decrement") \in CallRecord
    BY <1>1, TellsOf DEF Told, CallRecord
  <2>2. holder'[x.s] = x.u /\ x.u # NoPerson /\ \A s \in Spaces : holder[s] # NoPerson => holder'[s] # NoPerson
    BY <1>1, <1>3, Rows, SpacePlansAssumption DEF RowsTyped
  <2>3. Sound(Told(c, <<x.g, x.u>>, "decrement"), holder')
    BY <1>1, <2>2, TellsOf DEF Told, CallRecord, SoundCall, Sound, Guarding, Inviting, Telling
  <2>4. GoesOn(c, Told(c, <<x.g, x.u>>, "decrement")) /\ waits' \in [Persons -> SUBSET (Spaces \cup Calls)]
    BY <1>3, <2>1, <2>3, TellingOn
  <2>5. x.used + 1 \in Counts
    BY <1>1 DEF CallRecord, Counts
  <2>6. RowsTyped'
    BY <1>1, <1>3, <2>2, <2>4, <2>5, Rows DEF RowsTyped, TransferOwnershipGuarded, scene
  <2>7. \A s \in Spaces : holder'[s] = holder[s] \/ s = x.s
    BY <1>3, Rows DEF RowsTyped
  <2> QED BY <1>1, <1>2, <2>2, <2>4, <2>6, <2>7, StepTypes
<1>4. CASE Retry(c, "owned") /\ UNCHANGED <<holder, guests, spaceN>>
  <2>1. waits' \in [Persons -> SUBSET (Spaces \cup Calls)] => RowsTyped'
    BY <1>4, Rows DEF RowsTyped, TransferOwnershipGuarded, scene
  <2> QED BY <1>1, <1>2, <1>4, <2>1, Retrying
<1>5. CASE Close(c) /\ UNCHANGED <<holder, guests, spaceN>>
  <2>1. GoesOn(c, Free) /\ waits' \in [Persons -> SUBSET (Spaces \cup Calls)]
    BY <1>5, Closing
  <2>2. RowsTyped'
    BY <1>5, <2>1, Rows DEF RowsTyped, TransferOwnershipGuarded, scene
  <2> QED BY <1>1, <1>2, <1>5, <2>1, <2>2, StepTypes
<1> QED BY <1>3, <1>4, <1>5 DEF TransferOwnershipGuarded

LEMMA DecrementTypes ==
  ASSUME PlansTypes, NEW c \in Calls, DecrementSpaceCounter(c)
  PROVE  PlansTypes'
<1> DEFINE x == calls[c]
<1>1. x.pc = "decrement" /\ x.op = "transfer" /\ x \in CallRecord /\ SoundCall(x) /\ x.s \in Spaces /\ x.g \in Persons
  BY CallAt, OwnerAt DEF DecrementSpaceCounter, SoundCall, Sound
<1>2. Moved(c, "mark") \in CallRecord
  BY <1>1 DEF Moved, CallRecord
<1>3. Sound(Moved(c, "mark"), holder')
  BY <1>1 DEF DecrementSpaceCounter, tables, Moved, CallRecord, SoundCall, Sound, Guarding, Inviting, Telling
<1>4. GoesOn(c, Moved(c, "mark")) /\ waits' \in [Persons -> SUBSET (Spaces \cup Calls)]
  BY <1>2, <1>3, Moving DEF DecrementSpaceCounter
<1>5. spaceN' \in [Persons -> Counts] /\ undercut' \subseteq Persons /\ due' \subseteq AtRows
  BY <1>1, Rows, CountsOnly DEF RowsTyped, DecrementSpaceCounter, AtRows
<1>6. RowsTyped' /\ holder' = holder /\ worker' = worker
  BY <1>4, <1>5, Rows DEF RowsTyped, DecrementSpaceCounter, scene, tables
<1> QED BY <1>1, <1>4, <1>6, StepTypes

LEMMA GetInvitationTypes ==
  ASSUME PlansTypes, NEW c \in Calls, GetInvitation(c)
  PROVE  PlansTypes'
<1> DEFINE x == calls[c]
<1>1. x.pc = "existing" /\ x.op = "invite" /\ x \in CallRecord /\ SoundCall(x) /\ x.u \in Persons
  BY CallAt DEF GetInvitation, SoundCall, Sound, Inviting
<1>2. holder' = holder /\ worker' = worker /\ (waits' \in [Persons -> SUBSET (Spaces \cup Calls)] => RowsTyped')
  BY Rows DEF RowsTyped, GetInvitation, scene, tables, counters
<1>3. CASE Tell(c, <<x.u>>, "mark")
  <2>1. Told(c, <<x.u>>, "mark") \in CallRecord
    BY <1>1, TellsOf DEF Told, CallRecord
  <2>2. Sound(Told(c, <<x.u>>, "mark"), holder')
    BY <1>1, <1>2, TellsOf DEF Told, CallRecord, SoundCall, Sound, Guarding, Inviting, Telling
  <2> QED BY <1>1, <1>2, <1>3, <2>1, <2>2, TellingOn, StepTypes
<1>4. CASE Move(c, "guests")
  <2>1. Moved(c, "guests") \in CallRecord
    BY <1>1 DEF Moved, CallRecord
  <2>2. Sound(Moved(c, "guests"), holder')
    BY <1>1, <1>2 DEF Moved, CallRecord, SoundCall, Sound, Guarding, Inviting, Telling
  <2> QED BY <1>1, <1>2, <1>4, <2>1, <2>2, Moving, StepTypes
<1> QED BY <1>3, <1>4 DEF GetInvitation

\* The people of a space are a number.
LEMMA PeopleTyped ==
  ASSUME RowsTyped, NEW s \in Spaces
  PROVE  Cardinality(guests[s]) \in Nat /\ Cardinality(pending[s]) \in Nat
<1>1. guests[s] \subseteq Persons /\ pending[s] \subseteq Persons
  BY DEF RowsTyped
<1> QED BY <1>1, SpacePlansAssumption, FS_Subset, FS_CardinalityType

LEMMA ListTypes ==
  ASSUME PlansTypes, NEW c \in Calls, ListMembers(c) \/ ListInvitations(c)
  PROVE  PlansTypes'
<1> DEFINE x == calls[c]
           m == [x EXCEPT !.pc = "pending", !.used = Cardinality(guests[x.s])]
           i == [x EXCEPT !.pc = "peopleCounter", !.used = @ + Cardinality(pending[x.s])]
<1>1. x.pc \in {"guests", "pending"} /\ x.op = "invite" /\ x \in CallRecord /\ SoundCall(x) /\ x.s \in Spaces
  BY CallAt DEF ListMembers, ListInvitations, SoundCall, Sound, Inviting
<1>2. holder' = holder /\ worker' = worker /\ RowsTyped'
  BY Rows DEF RowsTyped, ListMembers, ListInvitations, scene, tables, counters, queue
<1>3. Cardinality(guests[x.s]) \in Nat /\ Cardinality(pending[x.s]) \in Nat /\ x.used \in Nat
  BY <1>1, Rows, PeopleTyped DEF CallRecord
<1>4. CASE ListMembers(c)
  <2>1. m \in CallRecord /\ calls' = [calls EXCEPT ![c] = m]
    BY <1>1, <1>3, <1>4 DEF ListMembers, CallRecord
  <2>2. Sound(m, holder')
    BY <1>1, <1>2 DEF CallRecord, SoundCall, Sound, Guarding, Inviting, Telling
  <2>3. GoesOn(c, m)
    BY <1>1, <2>1, <2>2 DEF GoesOn, CallRecord
  <2> QED BY <1>1, <1>2, <2>3, StepTypes
<1>5. CASE ListInvitations(c)
  <2>4. x.used + Cardinality(pending[x.s]) \in Nat
    BY <1>3
  <2>5. i \in CallRecord
    BY <1>1, <2>4 DEF CallRecord
  <2>1. i \in CallRecord /\ calls' = [calls EXCEPT ![c] = i]
    BY <1>1, <1>5, <2>5 DEF ListInvitations
  <2>2. Sound(i, holder')
    BY <1>1, <1>2 DEF CallRecord, SoundCall, Sound, Guarding, Inviting, Telling
  <2>3. GoesOn(c, i)
    BY <1>1, <2>1, <2>2 DEF GoesOn, CallRecord
  <2> QED BY <1>1, <1>2, <2>3, StepTypes
<1> QED BY <1>4, <1>5

LEMMA PeopleCounterTypes ==
  ASSUME PlansTypes, NEW c \in Calls, PeopleCounter(c)
  PROVE  PlansTypes'
<1> DEFINE x == calls[c]
           y == [x EXCEPT !.pc = "putInvite", !.seen = peopleN[x.s]]
<1>1. x.pc = "peopleCounter" /\ x.op = "invite" /\ x \in CallRecord /\ SoundCall(x) /\ x.s \in Spaces
  BY CallAt DEF PeopleCounter, SoundCall, Sound, Inviting
<1>2. holder' = holder /\ worker' = worker /\ (waits' \in [Persons -> SUBSET (Spaces \cup Calls)] => RowsTyped')
  BY Rows DEF RowsTyped, PeopleCounter, scene, tables, counters
<1>3. CASE Close(c)
  BY <1>1, <1>2, <1>3, Closing, StepTypes
<1>4. CASE calls' = [calls EXCEPT ![c].pc = "putInvite", ![c].seen = peopleN[x.s]] /\ UNCHANGED waits
  <2>1. peopleN[x.s] \in Counts /\ waits' \in [Persons -> SUBSET (Spaces \cup Calls)]
    BY <1>1, <1>4, Rows DEF RowsTyped
  <2>2. y \in CallRecord /\ calls' = [calls EXCEPT ![c] = y]
    BY <1>1, <1>4, <2>1 DEF CallRecord
  <2>3. Sound(y, holder')
    BY <1>1, <1>2 DEF CallRecord, SoundCall, Sound, Guarding, Inviting, Telling
  <2>4. GoesOn(c, y)
    BY <1>1, <2>2, <2>3 DEF GoesOn, CallRecord
  <2> QED BY <1>1, <1>2, <2>1, <2>4, StepTypes
<1> QED BY <1>3, <1>4 DEF PeopleCounter

LEMMA PutInvitationTypes ==
  ASSUME PlansTypes, NEW c \in Calls, PutInvitationGuarded(c)
  PROVE  PlansTypes'
<1> DEFINE x == calls[c]
           t == Told(c, <<x.u>>, "mark")
<1>1. x.pc = "putInvite" /\ x.op = "invite" /\ x \in CallRecord /\ SoundCall(x) /\ x.s \in Spaces /\ x.u \in Persons
      /\ x.g \in Persons /\ holder[x.s] \in Persons
  BY CallAt, OwnerAt DEF PutInvitationGuarded, SoundCall, Sound, Inviting
<1>2. holder' = holder /\ worker' = worker
  BY DEF PutInvitationGuarded
<1>3. CASE pending' = [pending EXCEPT ![x.s] = @ \cup {x.g}] /\ peopleN' = [peopleN EXCEPT ![x.s] = x.used + 1]
           /\ Tell(c, <<x.u>>, "mark")
  <2>1. t \in CallRecord
    BY <1>1, TellsOf DEF Told, CallRecord
  <2>2. Sound(t, holder')
    BY <1>1, <1>2, TellsOf DEF Told, CallRecord, SoundCall, Sound, Guarding, Inviting, Telling
  <2>3. GoesOn(c, t) /\ waits' \in [Persons -> SUBSET (Spaces \cup Calls)]
    BY <1>3, <2>1, <2>2, TellingOn
  <2>4. x.used + 1 \in Counts
    BY <1>1 DEF CallRecord, Counts
  <2>5. RowsTyped'
    BY <1>1, <1>3, <2>3, <2>4, Rows, SpacePlansAssumption DEF RowsTyped, PutInvitationGuarded, scene
  <2> QED BY <1>1, <1>2, <2>3, <2>5, StepTypes
<1>4. CASE Retry(c, "existing") /\ UNCHANGED <<pending, peopleN>>
  <2>1. waits' \in [Persons -> SUBSET (Spaces \cup Calls)] => RowsTyped'
    BY <1>4, Rows DEF RowsTyped, PutInvitationGuarded, scene
  <2>2. Retry(c, "existing")
    BY <1>4
  <2> QED BY <1>1, <1>2, <2>1, <2>2, Retrying
<1> QED BY <1>3, <1>4 DEF PutInvitationGuarded

LEMMA UnguardedTypes ==
  ASSUME PlansTypes, NEW c \in Calls, PutInvitationUnguarded(c)
  PROVE  PlansTypes'
<1> DEFINE x == calls[c]
<1>1. x.pc = "existing" /\ x.op = "invite" /\ x \in CallRecord /\ x.s \in Spaces /\ x.g \in Persons
      /\ holder[x.s] \in Persons
  BY CallAt, OwnerAt DEF PutInvitationUnguarded, SoundCall, Sound, Inviting
<1>2. GoesOn(c, Free) /\ waits' \in [Persons -> SUBSET (Spaces \cup Calls)]
  BY Closing DEF PutInvitationUnguarded, Untold
<1>3. RowsTyped' /\ holder' = holder /\ worker' = worker
  BY <1>1, <1>2, Rows, SpacePlansAssumption DEF RowsTyped, PutInvitationUnguarded, Untold, scene, counters
<1> QED BY <1>1, <1>2, <1>3, StepTypes

\* A write that tells the owners, or is over with nothing told.
LEMMA TellOrClose ==
  ASSUME PlansTypes, NEW c \in Calls, NEW list \in Tells, NEW pc \in {"mark", "left"},
         calls[c].pc \in {"join", "drop"}, list # <<>>, Tell(c, list, pc) \/ Close(c),
         UNCHANGED <<scene, holder, idx, counters, marks, ats, due, told, worker, undercut>>,
         unmarked' \in {unmarked, unmarked \cup {holder[calls[c].s]}},
         \/ guests' = guests
         \/ guests' = [guests EXCEPT ![calls[c].s] = @ \cup {calls[c].g}]
         \/ guests' = [guests EXCEPT ![calls[c].s] = @ \ {calls[c].g}],
         pending' = pending \/ pending' = [pending EXCEPT ![calls[c].s] = @ \ {calls[c].g}]
  PROVE  PlansTypes'
<1> DEFINE x == calls[c]
           t == Told(c, list, pc)
<1>1. x \in CallRecord /\ SoundCall(x) /\ x.s \in Spaces /\ x.g \in Persons /\ x.pc # "idle"
      /\ holder[x.s] \in Persons /\ x.op \in {"accept", "remove", "revoke"}
  BY CallAt, OwnerAt DEF SoundCall, Sound
<1>2. holder' = holder /\ worker' = worker
  OBVIOUS
<1>3. \E y : GoesOn(c, y) /\ waits' \in [Persons -> SUBSET (Spaces \cup Calls)]
  <2>1. CASE Close(c)
    BY <2>1, Closing
  <2>2. CASE Tell(c, list, pc)
    <3>1. t \in CallRecord
      BY <1>1 DEF Told, CallRecord
    <3>2. Sound(t, holder')
      BY <1>1, <1>2 DEF Told, CallRecord, SoundCall, Sound, Guarding, Inviting, Telling
    <3> QED BY <2>2, <3>1, <3>2, TellingOn
  <2> QED BY <2>1, <2>2
<1>4. guests' \in [Spaces -> SUBSET Persons] /\ pending' \in [Spaces -> SUBSET Persons]
      /\ \A s \in Spaces : pending'[s] # {} \/ guests'[s] # {} => holder[s] # NoPerson
  <2>1. guests \in [Spaces -> SUBSET Persons] /\ pending \in [Spaces -> SUBSET Persons]
        /\ \A s \in Spaces : pending[s] # {} \/ guests[s] # {} => holder[s] # NoPerson
    BY Rows DEF RowsTyped
  <2>2. /\ guests' \in [Spaces -> SUBSET Persons]
        /\ \A s \in Spaces : guests'[s] = guests[s] \/ s = x.s
    BY <1>1, <2>1
  <2>3. /\ pending' \in [Spaces -> SUBSET Persons]
        /\ \A s \in Spaces : pending'[s] = pending[s] \/ s = x.s
    BY <1>1, <2>1
  <2>4. holder[x.s] # NoPerson
    BY <1>1, SpacePlansAssumption
  <2> QED BY <2>1, <2>2, <2>3, <2>4
<1>5. unmarked' \subseteq Persons
  BY <1>1, Rows DEF RowsTyped
<1>6. RowsTyped'
  BY <1>2, <1>3, <1>4, <1>5, Rows DEF RowsTyped, scene, counters
<1> QED BY <1>1, <1>2, <1>3, <1>6, StepTypes

LEMMA JoinTypes ==
  ASSUME PlansTypes, NEW c \in Calls, JoinSpace(c)
  PROVE  PlansTypes'
<1> DEFINE x == calls[c]
<1>1. x.pc = "join" /\ holder[x.s] \in Persons
      /\ UNCHANGED <<scene, holder, idx, counters, marks, ats, due, told, worker, undercut>>
  BY CallAt, OwnerAt DEF JoinSpace, SoundCall, Sound
<1>2. <<holder[x.s]>> \in Tells /\ <<holder[x.s]>> # <<>>
  BY <1>1, TellsOf
<1>3. Tell(c, <<holder[x.s]>>, "mark") \/ Close(c)
  BY DEF JoinSpace, Untold
<1>4. unmarked' \in {unmarked, unmarked \cup {holder[x.s]}}
  BY DEF JoinSpace, Untold
<1>5. /\ guests' = guests \/ guests' = [guests EXCEPT ![x.s] = @ \cup {x.g}]
      /\ pending' = pending \/ pending' = [pending EXCEPT ![x.s] = @ \ {x.g}]
  BY DEF JoinSpace
<1> QED BY <1>1, <1>2, <1>3, <1>4, <1>5, TellOrClose

LEMMA RemoveTypes ==
  ASSUME PlansTypes, NEW c \in Calls, RemoveWrite(c)
  PROVE  PlansTypes'
<1> DEFINE x == calls[c]
<1>1. x.pc = "drop" /\ holder[x.s] \in Persons
      /\ UNCHANGED <<scene, holder, idx, counters, marks, ats, due, told, worker, undercut>>
  BY CallAt, OwnerAt DEF RemoveWrite, SoundCall, Sound
<1>2. <<holder[x.s]>> \in Tells /\ <<holder[x.s]>> # <<>>
  BY <1>1, TellsOf
<1>3. Tell(c, <<holder[x.s]>>, "left") \/ Close(c)
  BY DEF RemoveWrite, Untold
<1>4. unmarked' \in {unmarked, unmarked \cup {holder[x.s]}}
  BY DEF RemoveWrite, Untold
<1>5. /\ guests' = guests \/ guests' = [guests EXCEPT ![x.s] = @ \ {x.g}]
      /\ pending' = pending
  BY DEF RemoveWrite
<1> QED BY <1>1, <1>2, <1>3, <1>4, <1>5, TellOrClose

LEMMA RevokeTypes ==
  ASSUME PlansTypes, NEW c \in Calls, RevokeWrite(c)
  PROVE  PlansTypes'
<1> DEFINE x == calls[c]
<1>1. x.pc = "drop" /\ x.u \in Persons
      /\ UNCHANGED <<scene, holder, idx, counters, marks, ats, due, told, worker, undercut>>
  BY CallAt DEF RevokeWrite, SoundCall, Sound
<1>2. <<x.u>> \in Tells /\ <<x.u>> # <<>>
  BY <1>1, TellsOf
<1>3. Tell(c, <<x.u>>, "left") \/ Close(c)
  BY DEF RevokeWrite, Untold
<1>4. unmarked' \in {unmarked, unmarked \cup {holder[x.s]}}
  BY DEF RevokeWrite, Untold
<1>5. /\ guests' = guests
      /\ pending' = [pending EXCEPT ![x.s] = @ \ {x.g}]
  BY DEF RevokeWrite
<1> QED BY <1>1, <1>2, <1>3, <1>4, <1>5, TellOrClose

LEMMA LeftTypes ==
  ASSUME PlansTypes, NEW c \in Calls, DecrementPeopleCounter(c)
  PROVE  PlansTypes'
<1> DEFINE x == calls[c]
<1>1. x.pc = "left" /\ x \in CallRecord /\ SoundCall(x) /\ x.s \in Spaces
  BY CallAt DEF DecrementPeopleCounter
<1>2. Moved(c, "mark") \in CallRecord
  BY <1>1 DEF Moved, CallRecord
<1>3. Sound(Moved(c, "mark"), holder')
  BY <1>1 DEF DecrementPeopleCounter, tables, Moved, CallRecord, SoundCall, Sound, Guarding, Inviting, Telling
<1>4. GoesOn(c, Moved(c, "mark")) /\ waits' \in [Persons -> SUBSET (Spaces \cup Calls)]
  BY <1>2, <1>3, Moving DEF DecrementPeopleCounter
<1>5. peopleN' \in [Spaces -> Counts]
  BY <1>1, Rows, CountsOnly DEF RowsTyped, DecrementPeopleCounter
<1>6. RowsTyped' /\ holder' = holder /\ worker' = worker
  BY <1>4, <1>5, Rows DEF RowsTyped, DecrementPeopleCounter, scene, tables
<1> QED BY <1>1, <1>4, <1>6, StepTypes

\* The owner a telling request is busy with.
LEMMA FirstTold ==
  ASSUME PlansTypes, NEW c \in Calls, calls[c].pc \in Telling
  PROVE  /\ calls[c].tell \in Tells /\ calls[c].tell # <<>> /\ Head(calls[c].tell) \in Persons
         /\ calls[c].tell[1] = Head(calls[c].tell) /\ Len(calls[c].tell) \in {1, 2}
<1>1. calls[c].tell \in Tells /\ calls[c].tell # <<>>
  BY CallAt DEF CallRecord, SoundCall, Sound, Telling
<1> QED BY <1>1, TellSeq

LEMMA MarkTypes ==
  ASSUME PlansTypes, NEW c \in Calls, MarkNow(c)
  PROVE  PlansTypes'
<1> DEFINE x == calls[c]
           y == [x EXCEPT !.pc = "count"]
<1>1. x.pc = "mark" /\ x \in CallRecord /\ SoundCall(x) /\ Head(x.tell) \in Persons
  BY CallAt, FirstTold DEF MarkNow, Telling
<1>2. y \in CallRecord /\ calls' = [calls EXCEPT ![c] = y]
  BY <1>1 DEF MarkNow, CallRecord
<1>3. Sound(y, holder')
  BY <1>1 DEF MarkNow, tables, CallRecord, SoundCall, Sound, Guarding, Inviting, Telling
<1>4. GoesOn(c, y)
  BY <1>1, <1>2, <1>3 DEF GoesOn, CallRecord
<1>5. Unsettled \subseteq Spaces \cup Calls
  BY DEF Unsettled
<1>6. RowsTyped' /\ holder' = holder /\ worker' = worker
  BY <1>1, <1>5, Rows DEF RowsTyped, MarkNow, scene, tables, counters
<1> QED BY <1>1, <1>4, <1>6, StepTypes

LEMMA CountTypes ==
  ASSUME PlansTypes, NEW c \in Calls, CountLevels(c)
  PROVE  PlansTypes'
<1> DEFINE x == calls[c]
           y == [x EXCEPT !.pc = "send", !.counted = Levels(Head(x.tell))]
<1>1. x.pc = "count" /\ x \in CallRecord /\ SoundCall(x) /\ Head(x.tell) \in Persons
  BY CallAt, FirstTold DEF CountLevels, Telling
<1>2. Levels(Head(x.tell)) \in LevelsType
  BY <1>1, LevelsTyped DEF PlansTypes
<1>3. y \in CallRecord /\ calls' = [calls EXCEPT ![c] = y]
  BY <1>1, <1>2 DEF CountLevels, CallRecord
<1>4. Sound(y, holder')
  BY <1>1 DEF CountLevels, tables, CallRecord, SoundCall, Sound, Guarding, Inviting, Telling
<1>5. GoesOn(c, y)
  BY <1>1, <1>3, <1>4 DEF GoesOn, CallRecord
<1>6. RowsTyped' /\ holder' = holder /\ worker' = worker
  BY Rows DEF RowsTyped, CountLevels, scene, tables, counters, queue
<1> QED BY <1>1, <1>5, <1>6, StepTypes

\* What a report leaves billing with.
LEMMA ReportTyped ==
  ASSUME told \in [Persons -> LevelsType], NEW u \in Persons, NEW l \in LevelsType,
         told' = [told EXCEPT ![u] = l] \/ FailedReport(u, l)
  PROVE  told' \in [Persons -> LevelsType]
<1>1. [told EXCEPT ![u].spaces = l.spaces] \in [Persons -> LevelsType]
  BY DEF LevelsType
<1> QED BY <1>1 DEF FailedReport

LEMMA ReportTypes ==
  ASSUME PlansTypes, NEW c \in Calls, ReportLevel(c)
  PROVE  PlansTypes'
<1> DEFINE x == calls[c]
           t == Told(c, Tail(x.tell), "mark")
<1>1. x.pc = "send" /\ x \in CallRecord /\ SoundCall(x) /\ Head(x.tell) \in Persons /\ x.tell \in Tells
      /\ x.counted \in LevelsType
  BY CallAt, FirstTold DEF ReportLevel, Telling, CallRecord
<1>2. told' \in [Persons -> LevelsType]
  BY <1>1, Rows, ReportTyped DEF RowsTyped, ReportLevel
<1>3. holder' = holder /\ worker' = worker /\ (waits' \in [Persons -> SUBSET (Spaces \cup Calls)] => RowsTyped')
  BY <1>2, Rows DEF RowsTyped, ReportLevel, scene, tables, counters
<1>4. CASE Len(x.tell) > 1 /\ Tell(c, Tail(x.tell), "mark")
  <2>1. Tail(x.tell) \in Tells /\ Tail(x.tell) # <<>>
    BY <1>1, <1>4, TellSeq
  <2>2. t \in CallRecord
    BY <1>1, <2>1 DEF Told, CallRecord
  <2>3. Sound(t, holder')
    BY <1>1, <1>3, <2>1 DEF Told, CallRecord, SoundCall, Sound, Guarding, Inviting, Telling
  <2> QED BY <1>1, <1>3, <1>4, <2>2, <2>3, TellingOn, StepTypes
<1>5. CASE x.op = "invite" /\ Move(c, "schedule")
  <2>1. Moved(c, "schedule") \in CallRecord
    BY <1>1 DEF Moved, CallRecord
  <2>2. Sound(Moved(c, "schedule"), holder')
    BY <1>1, <1>3, <1>5 DEF Moved, CallRecord, SoundCall, Sound, Guarding, Inviting, Telling
  <2> QED BY <1>1, <1>3, <1>5, <2>1, <2>2, Moving, StepTypes
<1>6. CASE Close(c)
  BY <1>1, <1>3, <1>6, Closing, StepTypes
<1> QED BY <1>4, <1>5, <1>6 DEF ReportLevel

LEMMA ScheduleTypes ==
  ASSUME PlansTypes, NEW c \in Calls, ScheduleLevels(c)
  PROVE  PlansTypes'
<1> DEFINE x == calls[c]
<1>1. x.pc = "schedule" /\ x.op = "invite" /\ x.s \in Spaces /\ x.u \in Persons /\ x.g \in Persons
  BY CallAt, OwnerAt DEF ScheduleLevels, SoundCall, Sound
<1>2. GoesOn(c, Free) /\ waits' \in [Persons -> SUBSET (Spaces \cup Calls)]
  BY Closing DEF ScheduleLevels
<1>3. RowsTyped' /\ holder' = holder /\ worker' = worker
  BY <1>1, <1>2, Rows DEF RowsTyped, ScheduleLevels, scene, tables, counters
<1> QED BY <1>1, <1>2, <1>3, StepTypes

LEMMA TellAt == \A t \in Tells : \A i \in 1..Len(t) : t[i] \in Persons
<1> SUFFICES ASSUME NEW t \in Tells, NEW i \in 1..Len(t) PROVE t[i] \in Persons
  OBVIOUS
<1>1. CASE t = <<>>
  BY <1>1
<1>2. CASE t # <<>>
  <2>1. i = 1 \/ (i = 2 /\ Len(t) > 1)
    BY <1>2, TellSeq
  <2> QED BY <1>2, <2>1, TellSeq
<1> QED BY <1>1, <1>2

LEMMA ToMarkTyped ==
  ASSUME PlansTypes, NEW c \in Calls
  PROVE  ToMark(calls[c]) \subseteq Persons
<1>1. calls[c].tell \in Tells
  BY CallAt DEF CallRecord
<1>2. Len(calls[c].tell) \in Nat
  BY <1>1, TellSeq DEF Tells
<1>3. \A i \in 1..Len(calls[c].tell) : calls[c].tell[i] \in Persons
  BY <1>1, TellAt
<1>4. 2..Len(calls[c].tell) \subseteq 1..Len(calls[c].tell)
  BY <1>2
<1> QED BY <1>3, <1>4 DEF ToMark

LEMMA CrashTypes ==
  ASSUME PlansTypes, NEW c \in Calls, CallCrash(c)
  PROVE  PlansTypes'
<1>1. GoesOn(c, Free) /\ waits' \in [Persons -> SUBSET (Spaces \cup Calls)] /\ calls[c].pc # "idle"
  BY Closing DEF CallCrash
<1>2. ToMark(calls[c]) \subseteq Persons
  BY ToMarkTyped
<1>3. RowsTyped' /\ holder' = holder /\ worker' = worker
  BY <1>1, <1>2, Rows DEF RowsTyped, CallCrash, scene, tables, counters
<1> QED BY <1>1, <1>3, StepTypes

LEMMA CallStepTypes ==
  ASSUME PlansTypes, NEW c \in Calls, CallStep(c)
  PROVE  PlansTypes'
BY ReadOwnedTypes, SpaceGuardTypes, CreateTypes, TransferTypes, DecrementTypes, GetInvitationTypes, ListTypes,
   PeopleCounterTypes, PutInvitationTypes, UnguardedTypes, JoinTypes, RemoveTypes, RevokeTypes, LeftTypes,
   MarkTypes, CountTypes, ReportTypes, ScheduleTypes, CrashTypes DEF CallStep

\* A step of the index, of time or of the worker.
LEMMA StillTypes ==
  ASSUME PlansTypes, UNCHANGED <<calls, holder>>, RowsTyped', worker' \in WorkerRecord,
         worker'.pc # "idle" => worker'.u \in Persons
  PROVE  PlansTypes'
<1>1. OneCreator' /\ \A c \in Calls : SoundCall(calls[c])'
  BY DEF PlansTypes, OneCreator, SoundCall, Sound
<1> QED BY <1>1 DEF PlansTypes, PlansTypeOK, RowsTyped

LEMMA IndexTypes ==
  ASSUME PlansTypes, NEW s \in Spaces, IndexCatchesUp(s)
  PROVE  PlansTypes'
<1>1. RowsTyped' /\ UNCHANGED <<calls, holder, worker>>
  BY Rows DEF RowsTyped, IndexCatchesUp, scene, counters
<1> QED BY <1>1, StillTypes DEF PlansTypes, PlansTypeOK

LEMMA ExpireTypes ==
  ASSUME PlansTypes, NEW s \in Spaces, NEW g \in Persons, ExpireGuest(s, g)
  PROVE  PlansTypes'
<1>1. holder[s] \in Persons
  BY Rows DEF RowsTyped, ExpireGuest
<1>2. RowsTyped' /\ UNCHANGED <<calls, holder, worker>>
  BY <1>1, Rows DEF RowsTyped, ExpireGuest, scene, counters, queue
<1> QED BY <1>2, StillTypes DEF PlansTypes, PlansTypeOK

LEMMA AtRowTypes ==
  ASSUME PlansTypes, NEW r \in ats, AtRowDue(r)
  PROVE  PlansTypes'
<1>1. r \in AtRows
  BY Rows DEF RowsTyped, AtRows
<1>2. RowsTyped' /\ UNCHANGED <<calls, holder, worker>>
  BY <1>1, Rows DEF RowsTyped, AtRowDue, scene, tables, counters
<1> QED BY <1>2, StillTypes DEF PlansTypes, PlansTypeOK

LEMMA WorkerTypes ==
  ASSUME PlansTypes, WorkerStep
  PROVE  PlansTypes'
<1>1. worker \in WorkerRecord /\ (worker.pc # "idle" => worker.u \in Persons) /\ RowsTyped
  BY Rows DEF PlansTypes, PlansTypeOK
<1>2. \A u \in Persons : Levels(u) \in LevelsType /\ Cardinality(OwnedSpaces(u)) \in Nat /\ spaceN[u] \in Counts
  BY <1>1, LevelsTyped DEF PlansTypes, RowsTyped
<1>3. \A w \in WorkerRecord :
         /\ RowsTyped' /\ UNCHANGED <<calls, holder>> /\ worker' = w /\ (w.pc # "idle" => w.u \in Persons)
         => PlansTypes'
  BY StillTypes
<1>4. Rest \in WorkerRecord /\ Rest.pc = "idle"
  BY PlansConstants
<1>5. ASSUME NEW u \in Persons, ProcessNow(u) PROVE PlansTypes'
  <2> DEFINE w == [Rest EXCEPT !.pc = "count", !.u = u]
  <2>1. w \in WorkerRecord /\ w.u = u
    BY <1>4 DEF WorkerRecord, Rest
  <2>2. RowsTyped' /\ UNCHANGED <<calls, holder>> /\ worker' = w
    BY <1>1, <1>5 DEF RowsTyped, ProcessNow, scene, tables, counters
  <2> QED BY <1>3, <2>1, <2>2
<1>6. ASSUME NEW r \in due, ProcessAt(r) PROVE PlansTypes'
  <2> DEFINE w == [Rest EXCEPT !.pc = "count", !.u = r[1], !.row = r]
  <2>1. r \in AtRows /\ r[1] \in Persons
    BY <1>1 DEF RowsTyped, AtRows
  <2>2. w \in WorkerRecord /\ w.u = r[1]
    BY <1>4, <2>1 DEF WorkerRecord, Rest
  <2>3. RowsTyped' /\ UNCHANGED <<calls, holder>> /\ worker' = w
    BY <1>1, <1>6 DEF RowsTyped, ProcessAt, scene, tables, counters, queue
  <2> QED BY <1>3, <2>1, <2>2, <2>3
<1>7. CASE WorkerCount
  <2> DEFINE w == [worker EXCEPT !.pc = "send", !.counted = Levels(worker.u)]
  <2>1. w \in WorkerRecord /\ w.u = worker.u /\ worker.u \in Persons
    BY <1>1, <1>2, <1>7 DEF WorkerCount, WorkerRecord
  <2>2. RowsTyped' /\ UNCHANGED <<calls, holder>> /\ worker' = w
    BY <1>1, <1>7 DEF RowsTyped, WorkerCount, scene, tables, counters, queue
  <2> QED BY <1>3, <2>1, <2>2
<1>8. CASE WorkerReport
  <2> DEFINE w == [worker EXCEPT !.pc = "owned"]
  <2>1. w \in WorkerRecord /\ w.u = worker.u /\ worker.u \in Persons
    BY <1>1, <1>8 DEF WorkerReport, WorkerRecord
  <2>2. told' \in [Persons -> LevelsType]
    <3>1. worker.counted \in LevelsType
      BY <1>1 DEF WorkerRecord
    <3> QED BY <1>1, <1>8, <2>1, <3>1, ReportTyped DEF RowsTyped, WorkerReport
  <2>3. RowsTyped' /\ UNCHANGED <<calls, holder>> /\ worker' \in {w, Rest}
    BY <1>1, <1>8, <2>2 DEF RowsTyped, WorkerReport, scene, tables, counters, queue
  <2> QED BY <1>3, <1>4, <2>1, <2>3
<1>9. CASE WorkerOwned
  <2> DEFINE w == [worker EXCEPT !.pc = "counter", !.real = Cardinality(OwnedSpaces(worker.u))]
             v == [worker EXCEPT !.pc = "done"]
  <2>1. worker.u \in Persons /\ Cardinality(OwnedSpaces(worker.u)) \in Nat
    BY <1>1, <1>2, <1>9 DEF WorkerOwned
  <2>2. w \in WorkerRecord /\ w.u = worker.u /\ v \in WorkerRecord /\ v.u = worker.u
    BY <1>1, <2>1 DEF WorkerRecord
  <2>3. RowsTyped' /\ UNCHANGED <<calls, holder>> /\ worker' \in {w, v}
    BY <1>1, <1>9 DEF RowsTyped, WorkerOwned, scene, tables, counters, queue
  <2> QED BY <1>3, <2>1, <2>2, <2>3
<1>10. CASE WorkerCounter
  <2> DEFINE w == [worker EXCEPT !.seen = spaceN[worker.u],
                     !.pc = IF spaceN[worker.u] = worker.real THEN "done" ELSE "reconcile"]
  <2>1. worker.u \in Persons /\ spaceN[worker.u] \in Counts
    BY <1>1, <1>2, <1>10 DEF WorkerCounter
  <2>2. w \in WorkerRecord /\ w.u = worker.u
    BY <1>1, <2>1 DEF WorkerRecord
  <2>3. RowsTyped' /\ UNCHANGED <<calls, holder>> /\ worker' = w
    BY <1>1, <1>10 DEF RowsTyped, WorkerCounter, scene, tables, counters, queue
  <2> QED BY <1>3, <2>1, <2>2, <2>3
<1>11. CASE ReconcileSpaceCounter
  <2> DEFINE w == [worker EXCEPT !.pc = "done"]
  <2>1. worker.u \in Persons /\ worker.real \in Counts
    BY <1>1, <1>11 DEF ReconcileSpaceCounter, WorkerRecord, Counts
  <2>2. w \in WorkerRecord /\ w.u = worker.u
    BY <1>1, <2>1 DEF WorkerRecord
  <2>3. spaceN' \in [Persons -> Counts] /\ undercut' \subseteq Persons
    BY <1>1, <1>11, <2>1 DEF RowsTyped, ReconcileSpaceCounter
  <2>4. RowsTyped' /\ UNCHANGED <<calls, holder>> /\ worker' = w
    BY <1>1, <1>11, <2>3 DEF RowsTyped, ReconcileSpaceCounter, scene, tables, queue
  <2> QED BY <1>3, <2>1, <2>2, <2>4
<1>12. CASE Done
  <2>1. marks' \in [Persons -> {"none", "new", "read"}] /\ due' \subseteq AtRows
    BY <1>1, <1>12 DEF RowsTyped, Done
  <2>2. RowsTyped' /\ UNCHANGED <<calls, holder>> /\ worker' = Rest
    BY <1>1, <1>12, <2>1 DEF RowsTyped, Done, scene, tables, counters
  <2> QED BY <1>3, <1>4, <2>2
<1>13. CASE WorkerCrash
  <2>1. RowsTyped' /\ UNCHANGED <<calls, holder>> /\ worker' = Rest
    BY <1>1, <1>13 DEF RowsTyped, WorkerCrash, scene, tables, counters, queue
  <2> QED BY <1>3, <1>4, <2>1
<1> QED BY <1>5, <1>6, <1>7, <1>8, <1>9, <1>10, <1>11, <1>12, <1>13 DEF WorkerStep

LEMMA PlansInitTypes == PlansInit => PlansTypes
<1> SUFFICES ASSUME PlansInit PROVE PlansTypes
  OBVIOUS
<1>1. PICK old \in SUBSET Spaces, u, v \in Persons :
        /\ Cardinality(old) <= 1
        /\ holder = [s \in Spaces |-> IF s \in old THEN u ELSE NoPerson]
        /\ guests = [s \in Spaces |-> IF s \in old THEN {v} \ {u} ELSE {}]
        /\ told = [w \in Persons |-> IF w = u /\ old # {}
                                     THEN [spaces |-> 1, people |-> Cardinality({v} \ {u})] ELSE NoLevels]
  BY DEF PlansInit
<1>2. Cardinality({v} \ {u}) \in Nat
  BY SpacePlansAssumption, FS_Subset, FS_CardinalityType
<1>3. told \in [Persons -> LevelsType]
  BY <1>1, <1>2, PlansConstants DEF LevelsType
<1>4. /\ holder \in [Spaces -> Persons \cup {NoPerson}] /\ guests \in [Spaces -> SUBSET Persons]
      /\ \A s \in Spaces : guests[s] # {} => holder[s] # NoPerson
  BY <1>1, SpacePlansAssumption
<1>5. planScope \in PlanScopes /\ budget \in 0..planScope.requests
  BY SpacePlansAssumption DEF PlansInit
<1>6. calls \in [Calls -> CallRecord] /\ OneCreator /\ \A c \in Calls : SoundCall(calls[c])
  BY PlansConstants, FreeSound DEF PlansInit, OneCreator
<1> QED BY <1>3, <1>4, <1>5, <1>6, PlansConstants DEF PlansInit, PlansTypes, PlansTypeOK

LEMMA PlansNextTypes == PlansTypes /\ [PlansNext]_pVars => PlansTypes'
<1> SUFFICES ASSUME PlansTypes, [PlansNext]_pVars PROVE PlansTypes'
  OBVIOUS
<1>1. CASE UNCHANGED pVars
  BY <1>1 DEF pVars, PlansTypes, PlansTypeOK, OneCreator, SoundCall, Sound
<1>2. ASSUME NEW c \in Calls, NEW u \in Persons, NEW s \in Spaces,
             CreateSpace(c, u, s) \/ TransferSpace(c, s, u) \/ InviteGuest(c, s, u)
             \/ AcceptGuest(c, s, u) \/ RemoveGuest(c, s, u) \/ RevokeGuest(c, s, u)
      PROVE  PlansTypes'
  BY <1>2, ArriveShape, ArriveTypes
<1> QED BY <1>1, <1>2, CallStepTypes, IndexTypes, ExpireTypes, AtRowTypes, WorkerTypes DEF PlansNext

\* The guards, the queue and the requests stay within their domains; every request
\* knows what its next step needs and no two of them create the same space.
THEOREM PlansTypeCorrect == PlansSpec => []PlansTypeOK
<1>1. PlansTypes => PlansTypeOK
  BY DEF PlansTypes
<1> QED BY <1>1, PlansInitTypes, PlansNextTypes, PTL DEF PlansSpec

-----------------------------------------------------------------------------
(* Spaces within the plan *)

Limited(u) == Quota[u] # Unlimited

\* Who was never counted shows in the index with every space.
UncountedSeen ==
  \A u \in Persons : Limited(u) /\ spaceN[u] = Absent => \A s \in Spaces : holder[s] = u => idx[s] = u

\* A counter is never below the spaces, but for owners a settled drift undercut.
CountedRight ==
  \A u \in Persons \ undercut : Limited(u) /\ spaceN[u] # Absent => Cardinality(Truly(u)) <= spaceN[u]

\* What a check has read is a bound for as long as the counter stands still.
CheckRight(x) ==
  /\ x.pc \in {"counter", "write"} /\ Limited(x.u) /\ spaceN[x.u] = Absent => Cardinality(Truly(x.u)) <= x.used
  /\ x.pc = "write" => x.seen <= x.used /\ Allows(Quota[x.u], x.used)

GuardInv == UncountedSeen /\ CountedRight /\ \A c \in Calls : CheckRight(calls[c])

LEMMA TrulyStands ==
  ASSUME holder' = holder
  PROVE  \A u : Truly(u)' = Truly(u)
BY DEF Truly

\* A space that changes hands is one more for its new owner and for nobody else.
LEMMA TrulyGrows ==
  ASSUME PlansTypes, NEW u \in Persons, NEW s \in Spaces, holder' = [holder EXCEPT ![s] = u]
  PROVE  /\ Cardinality(Truly(u)') \in Nat /\ Cardinality(Truly(u)') <= Cardinality(Truly(u)) + 1
         /\ \A w \in Persons \ {u} : Cardinality(Truly(w)') <= Cardinality(Truly(w))
<1>1. PlansTypeOK /\ holder \in [Spaces -> Persons \cup {NoPerson}]
  BY DEF PlansTypes, PlansTypeOK
<1>2. Truly(u)' = Truly(u) \cup {s} /\ Truly(u)' \subseteq Spaces
  BY <1>1 DEF Truly
<1>3. \A w \in Persons \ {u} : Truly(w)' \subseteq Truly(w)
  BY <1>1 DEF Truly
<1>4. \A w \in Persons : IsFiniteSet(Truly(w)) /\ Cardinality(Truly(w)) \in Nat
  BY <1>1, LevelsTyped
<1>5. \A w \in Persons \ {u} : Cardinality(Truly(w)') <= Cardinality(Truly(w))
  BY <1>3, <1>4, FS_Subset
<1>6. Cardinality(Truly(u) \cup {s}) = IF s \in Truly(u) THEN Cardinality(Truly(u)) ELSE Cardinality(Truly(u)) + 1
  BY <1>4, FS_AddElement
<1>7. Cardinality(Truly(u) \cup {s}) \in Nat /\ Cardinality(Truly(u) \cup {s}) <= Cardinality(Truly(u)) + 1
  BY <1>4, <1>6
<1> QED BY <1>2, <1>5, <1>7

\* Nothing the guard relies on moves, and no check is made.
LEMMA GuardKept ==
  ASSUME GuardInv, UNCHANGED <<holder, idx, spaceN, undercut>>,
         \A c \in Calls : calls'[c] = calls[c] \/ calls'[c].pc \notin {"counter", "write"}
  PROVE  GuardInv'
<1>1. \A u : Truly(u)' = Truly(u)
  BY TrulyStands
<1>2. UncountedSeen' /\ CountedRight'
  BY <1>1 DEF GuardInv, UncountedSeen, CountedRight
<1>3. ASSUME NEW c \in Calls PROVE CheckRight(calls[c])'
  BY <1>1 DEF GuardInv, CheckRight
<1> QED BY <1>2, <1>3 DEF GuardInv

LEMMA ReadOwnedGuard ==
  ASSUME PlansTypes, GuardInv, NEW c \in Calls, ReadOwned(c)
  PROVE  GuardInv'
<1> DEFINE x == calls[c]
<1>1. x.pc = "owned" /\ x \in CallRecord /\ x.u \in Persons
  BY CallAt DEF ReadOwned, SoundCall, Sound, Guarding
<1>2. UNCHANGED <<holder, idx, spaceN, undercut>> /\ calls \in [Calls -> CallRecord]
  BY DEF ReadOwned, tables, counters, PlansTypes, PlansTypeOK
<1>3. /\ calls'[c].pc = "counter" /\ calls'[c].u = x.u /\ calls'[c].used = Cardinality(OwnedSpaces(x.u))
      /\ \A d \in Calls \ {c} : calls'[d] = calls[d]
  BY <1>1, <1>2 DEF ReadOwned, CallRecord
<1>4. \A u : Truly(u)' = Truly(u)
  BY <1>2, TrulyStands
<1>5. UncountedSeen' /\ CountedRight'
  BY <1>2, <1>4 DEF GuardInv, UncountedSeen, CountedRight
<1>6. CheckRight(calls[c])'
  <2>1. Limited(x.u) /\ spaceN[x.u] = Absent => Truly(x.u) = OwnedSpaces(x.u)
    BY <1>1 DEF GuardInv, UncountedSeen, Truly, OwnedSpaces
  <2>2. Cardinality(Truly(x.u)) \in Nat
    BY <1>1, LevelsTyped DEF PlansTypes
  <2> QED BY <1>2, <1>3, <1>4, <2>1, <2>2 DEF CheckRight
<1>7. \A d \in Calls \ {c} : CheckRight(calls[d])'
  BY <1>2, <1>3, <1>4 DEF GuardInv, CheckRight
<1> QED BY <1>5, <1>6, <1>7 DEF GuardInv

LEMMA SpaceGuardGuard ==
  ASSUME PlansTypes, GuardInv, NEW c \in Calls, SpaceGuard(c)
  PROVE  GuardInv'
<1> DEFINE x == calls[c]
           n == Used(x.used, spaceN[x.u])
<1>1. x.pc = "counter" /\ x \in CallRecord /\ x.u \in Persons
  BY CallAt DEF SpaceGuard, SoundCall, Sound, Guarding
<1>2. UNCHANGED <<holder, idx, spaceN, undercut>> /\ calls \in [Calls -> CallRecord]
  BY DEF SpaceGuard, tables, counters, PlansTypes, PlansTypeOK
<1>3. CASE Close(c)
  <2>1. \A d \in Calls : calls'[d] = calls[d] \/ calls'[d].pc \notin {"counter", "write"}
    BY <1>2, <1>3 DEF Close, Free
  <2> QED BY <1>2, <2>1, GuardKept
<1>4. CASE Allows(Quota[x.u], n)
           /\ calls' = [calls EXCEPT ![c].pc = "write", ![c].used = n, ![c].seen = spaceN[x.u]]
  <2>1. /\ calls'[c].pc = "write" /\ calls'[c].u = x.u /\ calls'[c].used = n /\ calls'[c].seen = spaceN[x.u]
        /\ \A d \in Calls \ {c} : calls'[d] = calls[d]
    BY <1>1, <1>2, <1>4 DEF CallRecord
  <2>2. \A u : Truly(u)' = Truly(u)
    BY <1>2, TrulyStands
  <2>3. UncountedSeen' /\ CountedRight'
    BY <1>2, <2>2 DEF GuardInv, UncountedSeen, CountedRight
  <2>4. spaceN[x.u] \in Counts /\ x.used \in Nat
    BY <1>1 DEF PlansTypes, PlansTypeOK, CallRecord
  <2>5. spaceN[x.u] <= n /\ (spaceN[x.u] = Absent => n = x.used)
    BY <2>4 DEF Used, Larger, Counts, Absent
  <2>6. CheckRight(calls[c])'
    <3>1. Limited(x.u) /\ spaceN[x.u] = Absent => Cardinality(Truly(x.u)) <= x.used
      BY <1>1 DEF GuardInv, CheckRight
    <3> QED BY <1>2, <1>4, <2>1, <2>2, <2>5, <3>1 DEF CheckRight
  <2>7. \A d \in Calls \ {c} : CheckRight(calls[d])'
    BY <1>2, <2>1, <2>2 DEF GuardInv, CheckRight
  <2> QED BY <2>3, <2>6, <2>7 DEF GuardInv
<1> QED BY <1>3, <1>4 DEF SpaceGuard

\* The guarded write: the counter that was read is still there, so nobody counted
\* in between, and the new count is within the plan.
LEMMA GuardedWrite ==
  ASSUME PlansTypes, GuardInv, NEW c \in Calls, NEW u \in Persons, NEW s \in Spaces,
         calls[c].pc = "write", calls[c].u = u, calls[c].s = s,
         GuardHolds(Quota[u], spaceN[u], calls[c].seen),
         holder' = [holder EXCEPT ![s] = u],
         spaceN' = [spaceN EXCEPT ![u] = calls[c].used + 1], UNCHANGED <<idx, undercut>>,
         \A d \in Calls \ {c} : calls'[d] = calls[d], calls'[c].pc \notin {"counter", "write"}
  PROVE  /\ GuardInv'
         /\ u \notin undercut /\ Limited(u) => Cardinality(Truly(u)') <= Quota[u]
         /\ \A w \in Persons \ {u} : Cardinality(Truly(w)') <= Cardinality(Truly(w))
<1> DEFINE x == calls[c]
<1>1. x \in CallRecord /\ x.used \in Nat /\ x.seen \in Counts /\ CheckRight(x)
  BY CallAt DEF GuardInv, CallRecord
<1>2. holder \in [Spaces -> Persons \cup {NoPerson}] /\ spaceN \in [Persons -> Counts]
  BY DEF PlansTypes, PlansTypeOK
<1>3. Cardinality(Truly(u)') \in Nat /\ Cardinality(Truly(u)') <= Cardinality(Truly(u)) + 1
      /\ \A w \in Persons \ {u} : Cardinality(Truly(w)') <= Cardinality(Truly(w))
  BY TrulyGrows
<1>4. \A w \in Persons : Cardinality(Truly(w)) \in Nat /\ Cardinality(Truly(w)') \in Nat
  <2>1. \A w \in Persons : Truly(w)' \subseteq Spaces
    BY <1>2 DEF Truly
  <2>2. \A S \in SUBSET Spaces : Cardinality(S) \in Nat
    BY SpacePlansAssumption, FS_Subset, FS_CardinalityType
  <2>3. \A w \in Persons : Truly(w) \subseteq Spaces
    BY DEF Truly
  <2> QED BY <2>1, <2>2, <2>3
<1>5. spaceN'[u] = x.used + 1 /\ x.used + 1 # Absent /\ \A w \in Persons \ {u} : spaceN'[w] = spaceN[w]
  BY <1>1, <1>2 DEF Absent
<1>6. u \notin undercut /\ Limited(u) => Cardinality(Truly(u)) <= x.used
  <2>1. ASSUME u \notin undercut, Limited(u) PROVE Cardinality(Truly(u)) <= x.used
    <3>1. spaceN[u] = x.seen /\ x.seen <= x.used
      BY <1>1, <2>1 DEF GuardHolds, Limited, CheckRight
    <3>2. CASE spaceN[u] = Absent
      BY <1>1, <2>1, <3>2 DEF CheckRight
    <3>3. CASE spaceN[u] # Absent
      <4>1. Cardinality(Truly(u)) <= spaceN[u]
        BY <2>1, <3>3 DEF GuardInv, CountedRight
      <4> QED BY <1>1, <1>4, <3>1, <4>1 DEF Counts, Absent
    <3> QED BY <3>2, <3>3
  <2> QED BY <2>1
<1>7. UncountedSeen'
  <2> SUFFICES ASSUME NEW w \in Persons, Limited(w), spaceN'[w] = Absent, NEW r \in Spaces, holder'[r] = w
               PROVE  idx'[r] = w
    BY DEF UncountedSeen, Limited
  <2>1. w # u
    BY <1>5
  <2>2. holder[r] = w
    BY <1>2, <2>1
  <2> QED BY <1>5, <2>1, <2>2 DEF GuardInv, UncountedSeen
<1>8. CountedRight'
  <2> SUFFICES ASSUME NEW w \in Persons, w \notin undercut, Limited(w), spaceN'[w] # Absent
               PROVE  Cardinality(Truly(w)') <= spaceN'[w]
    BY DEF CountedRight, Limited
  <2>1. CASE w = u
    BY <1>1, <1>3, <1>4, <1>5, <1>6, <2>1
  <2>2. CASE w # u
    <3>1. Cardinality(Truly(w)) <= spaceN[w]
      BY <1>5, <2>2 DEF GuardInv, CountedRight
    <3> QED BY <1>2, <1>3, <1>4, <1>5, <2>2, <3>1 DEF Counts, Absent
  <2> QED BY <2>1, <2>2
<1>9. ASSUME NEW d \in Calls PROVE CheckRight(calls[d])'
  <2>1. CASE d = c
    BY <2>1 DEF CheckRight
  <2>2. CASE d # c
    <3>1. calls'[d] = calls[d] /\ CheckRight(calls[d])
      BY <2>2 DEF GuardInv
    <3>2. CASE calls[d].pc \in {"counter", "write"}
      <4>1. calls[d].u \in Persons /\ calls[d].used \in Nat
        BY <3>2, CallAt DEF SoundCall, Sound, Guarding, CallRecord
      <4>2. Limited(calls[d].u) /\ spaceN'[calls[d].u] = Absent => Cardinality(Truly(calls[d].u)') <= calls[d].used
        <5>1. CASE calls[d].u = u
          BY <1>5, <5>1
        <5>2. CASE calls[d].u # u
          <6>1. spaceN'[calls[d].u] = spaceN[calls[d].u]
                /\ Cardinality(Truly(calls[d].u)') <= Cardinality(Truly(calls[d].u))
            BY <1>3, <1>5, <4>1, <5>2
          <6> QED BY <1>4, <3>1, <3>2, <4>1, <6>1 DEF CheckRight
        <5> QED BY <5>1, <5>2
      <4> QED BY <3>1, <4>2 DEF CheckRight, Limited
    <3>3. CASE calls[d].pc \notin {"counter", "write"}
      BY <3>1, <3>3 DEF CheckRight
    <3> QED BY <3>2, <3>3
  <2> QED BY <2>1, <2>2
<1>10. u \notin undercut /\ Limited(u) => Cardinality(Truly(u)') <= Quota[u]
  <2>1. Quota[u] \in Nat \cup {Unlimited}
    BY SpacePlansAssumption
  <2>2. Limited(u) => x.used < Quota[u] /\ Quota[u] \in Nat
    BY <1>1, <2>1 DEF CheckRight, Allows, Limited
  <2> QED BY <1>1, <1>3, <1>4, <1>6, <2>2
<1> QED BY <1>3, <1>7, <1>8, <1>9, <1>10 DEF GuardInv

\* What SpacesWithinPlan says of one step.
Fitting ==
  \A u \in Persons \ undercut :
    (Limited(u) /\ Cardinality(Truly(u)') > Cardinality(Truly(u))) => Cardinality(Truly(u)') <= Quota[u]

LEMMA FittingStill ==
  ASSUME PlansTypes, holder' = holder
  PROVE  Fitting
<1>1. \A u \in Persons : Truly(u)' = Truly(u) /\ Cardinality(Truly(u)) \in Nat
  BY TrulyStands, LevelsTyped DEF PlansTypes
<1> QED BY <1>1 DEF Fitting

LEMMA FittingWrite ==
  ASSUME PlansTypes, NEW u \in Persons, NEW s \in Spaces, holder' = [holder EXCEPT ![s] = u],
         u \notin undercut /\ Limited(u) => Cardinality(Truly(u)') <= Quota[u]
  PROVE  Fitting
<1> SUFFICES ASSUME NEW w \in Persons \ undercut, Limited(w), Cardinality(Truly(w)') > Cardinality(Truly(w))
             PROVE  Cardinality(Truly(w)') <= Quota[w]
  BY DEF Fitting
<1>1. CASE w = u
  BY <1>1
<1>2. CASE w # u
  <2>1. Cardinality(Truly(w)') <= Cardinality(Truly(w)) /\ Cardinality(Truly(w)) \in Nat
    BY <1>2, TrulyGrows, LevelsTyped DEF PlansTypes
  <2>2. Cardinality(Truly(w)') \in Nat
    <3>1. Truly(w)' \subseteq Spaces
      BY DEF Truly
    <3> QED BY <3>1, SpacePlansAssumption, FS_Subset, FS_CardinalityType
  <2> QED BY <2>1, <2>2
<1> QED BY <1>1, <1>2

LEMMA CreateGuard ==
  ASSUME PlansTypes, GuardInv, NEW c \in Calls, CreateWithOwnerGuarded(c) \/ TransferOwnershipGuarded(c)
  PROVE  GuardInv' /\ Fitting
<1>1. PICK u, s : calls[c].u = u /\ calls[c].s = s
  OBVIOUS
<1>2. calls[c].pc = "write" /\ u \in Persons /\ s \in Spaces /\ calls[c] \in CallRecord
  BY <1>1, CallAt DEF CreateWithOwnerGuarded, TransferOwnershipGuarded, SoundCall, Sound, Guarding
<1>3. calls \in [Calls -> CallRecord] /\ UNCHANGED <<idx, undercut>>
  BY DEF CreateWithOwnerGuarded, TransferOwnershipGuarded, PlansTypes, PlansTypeOK
<1>4. CASE /\ GuardHolds(Quota[u], spaceN[u], calls[c].seen)
           /\ holder' = [holder EXCEPT ![s] = u] /\ spaceN' = [spaceN EXCEPT ![u] = calls[c].used + 1]
           /\ \E list : Tell(c, list, "mark") \/ Tell(c, list, "decrement")
  <2>1. calls'[c].pc \in {"mark", "decrement"} /\ \A d \in Calls \ {c} : calls'[d] = calls[d]
    BY <1>2, <1>3, <1>4 DEF Tell, CallRecord
  <2>2. GuardInv' /\ (u \notin undercut /\ Limited(u) => Cardinality(Truly(u)') <= Quota[u])
    BY <1>1, <1>2, <1>3, <1>4, <2>1, GuardedWrite
  <2> QED BY <1>2, <1>4, <2>2, FittingWrite
<1>5. CASE (Close(c) \/ Retry(c, "owned")) /\ UNCHANGED <<holder, spaceN>>
  <2>1. \A d \in Calls : calls'[d] = calls[d] \/ calls'[d].pc \notin {"counter", "write"}
    BY <1>2, <1>3, <1>5 DEF Close, Retry, Free, CallRecord
  <2>2. GuardInv'
    BY <1>3, <1>5, <2>1, GuardKept
  <2> QED BY <1>5, <2>2, FittingStill
<1>6. CASE CreateWithOwnerGuarded(c)
  BY <1>1, <1>4, <1>5, <1>6 DEF CreateWithOwnerGuarded
<1>7. CASE TransferOwnershipGuarded(c)
  BY <1>1, <1>4, <1>5, <1>7 DEF TransferOwnershipGuarded
<1> QED BY <1>6, <1>7

\* A counter that falls below the spaces undercuts its owner.
LEMMA CounterSet ==
  ASSUME PlansTypes, GuardInv, NEW u \in Persons, NEW n \in Counts, spaceN' = [spaceN EXCEPT ![u] = n],
         UNCHANGED <<holder, idx>>, n = Absent => spaceN[u] = Absent,
         undercut' = IF n # Absent /\ n < Cardinality(Truly(u)) THEN undercut \cup {u} ELSE undercut,
         \A d \in Calls : calls'[d] = calls[d] \/ calls'[d].pc \notin {"counter", "write"}
  PROVE  GuardInv'
<1>1. \A w \in Persons : Truly(w)' = Truly(w) /\ Cardinality(Truly(w)) \in Nat
  BY TrulyStands, LevelsTyped DEF PlansTypes
<1>2. \A w \in Persons \ {u} : spaceN'[w] = spaceN[w]
  BY DEF PlansTypes, PlansTypeOK
<1>3. spaceN'[u] = n
  BY DEF PlansTypes, PlansTypeOK
<1>4. \A w \in Persons : spaceN'[w] = Absent => spaceN[w] = Absent
  BY <1>2, <1>3
<1>5. UncountedSeen'
  BY <1>4 DEF GuardInv, UncountedSeen, Limited
<1>6. CountedRight'
  <2> SUFFICES ASSUME NEW w \in Persons, w \notin undercut', Limited(w), spaceN'[w] # Absent
               PROVE  Cardinality(Truly(w)) <= spaceN'[w]
    BY <1>1 DEF CountedRight, Limited
  <2>1. CASE w = u
    BY <1>1, <1>3, <2>1 DEF Counts, Absent
  <2>2. CASE w # u
    BY <1>2, <2>2 DEF GuardInv, CountedRight
  <2> QED BY <2>1, <2>2
<1>7. ASSUME NEW d \in Calls PROVE CheckRight(calls[d])'
  <2>1. CASE calls'[d] = calls[d] /\ calls[d].pc \in {"counter", "write"}
    <3>1. calls[d].u \in Persons /\ CheckRight(calls[d])
      BY <2>1, CallAt DEF GuardInv, SoundCall, Sound, Guarding
    <3>2. Cardinality(Truly(calls[d].u)') = Cardinality(Truly(calls[d].u))
      BY <1>1, <2>1, <3>1
    <3> QED BY <1>4, <2>1, <3>1, <3>2 DEF CheckRight, Limited
  <2>2. CASE calls'[d].pc \notin {"counter", "write"}
    BY <2>2 DEF CheckRight
  <2> QED BY <2>1, <2>2
<1> QED BY <1>5, <1>6, <1>7 DEF GuardInv

LEMMA DecrementGuard ==
  ASSUME PlansTypes, GuardInv, NEW c \in Calls, DecrementSpaceCounter(c)
  PROVE  GuardInv'
<1>1. PICK u : calls[c].g = u
  OBVIOUS
<1>2. u \in Persons /\ calls[c] \in CallRecord /\ calls \in [Calls -> CallRecord]
  BY <1>1, CallAt, OwnerAt DEF DecrementSpaceCounter, SoundCall, Sound, PlansTypes, PlansTypeOK
<1>3. \A d \in Calls : calls'[d] = calls[d] \/ calls'[d].pc \notin {"counter", "write"}
  BY <1>2 DEF DecrementSpaceCounter, Move, CallRecord
<1>4. UNCHANGED <<holder, idx>>
  BY DEF DecrementSpaceCounter, tables
<1>5. CASE UNCHANGED <<spaceN, undercut>>
  BY <1>3, <1>4, <1>5, GuardKept
<1>6. CASE /\ spaceN' = [spaceN EXCEPT ![u] = Lowered(@)]
           /\ undercut' = IF spaceN[u] # Absent /\ Lowered(spaceN[u]) < Cardinality(Truly(u))
                          THEN undercut \cup {u} ELSE undercut
  <2>1. spaceN[u] \in Counts
    BY <1>2 DEF PlansTypes, PlansTypeOK
  <2>2. Lowered(spaceN[u]) \in Counts /\ (Lowered(spaceN[u]) = Absent <=> spaceN[u] = Absent)
    BY <2>1 DEF Lowered, Counts, Absent
  <2>3. PICK n \in Counts : n = Lowered(spaceN[u])
    BY <2>2
  <2> QED BY <1>2, <1>3, <1>4, <1>6, <2>2, <2>3, CounterSet
<1> QED BY <1>1, <1>5, <1>6 DEF DecrementSpaceCounter

LEMMA ReconcileGuard ==
  ASSUME PlansTypes, GuardInv, ReconcileSpaceCounter
  PROVE  GuardInv'
<1>1. PICK u, n : worker.u = u /\ worker.real = n
  OBVIOUS
<1>2. u \in Persons /\ n \in Nat /\ n \in Counts /\ n # Absent
  BY <1>1 DEF ReconcileSpaceCounter, PlansTypes, PlansTypeOK, WorkerRecord, Counts, Absent
<1>3. UNCHANGED <<holder, idx, calls>>
  BY DEF ReconcileSpaceCounter, tables
<1>4. CASE UNCHANGED <<spaceN, undercut>>
  BY <1>3, <1>4, GuardKept
<1>5. CASE /\ spaceN' = [spaceN EXCEPT ![u] = n]
           /\ undercut' = IF n < Cardinality(Truly(u)) THEN undercut \cup {u} ELSE undercut
  BY <1>2, <1>3, <1>5, CounterSet
<1> QED BY <1>1, <1>4, <1>5 DEF ReconcileSpaceCounter

LEMMA IndexGuard ==
  ASSUME PlansTypes, GuardInv, NEW s \in Spaces, IndexCatchesUp(s)
  PROVE  GuardInv'
<1>1. UNCHANGED <<holder, spaceN, undercut, calls>> /\ idx' = [idx EXCEPT ![s] = holder[s]]
  BY DEF IndexCatchesUp, counters
<1>2. \A u : Truly(u)' = Truly(u)
  BY <1>1, TrulyStands
<1>3. \A r \in Spaces : idx'[r] = holder[r] \/ idx'[r] = idx[r]
  BY <1>1 DEF PlansTypes, PlansTypeOK
<1>4. UncountedSeen'
  BY <1>1, <1>3 DEF GuardInv, UncountedSeen, Limited
<1>5. CountedRight' /\ \A c \in Calls : CheckRight(calls[c])'
  BY <1>1, <1>2 DEF GuardInv, CountedRight, CheckRight, Limited
<1> QED BY <1>4, <1>5 DEF GuardInv

LEMMA CallStepGuard ==
  ASSUME PlansTypes, GuardInv, NEW c \in Calls, CallStep(c)
  PROVE  GuardInv' /\ Fitting
<1>1. calls \in [Calls -> CallRecord] /\ calls[c] \in CallRecord
  BY DEF PlansTypes, PlansTypeOK
<1>2. CASE ReadOwned(c)
  BY <1>2, ReadOwnedGuard, FittingStill DEF ReadOwned, tables
<1>3. CASE SpaceGuard(c)
  BY <1>3, SpaceGuardGuard, FittingStill DEF SpaceGuard, tables
<1>4. CASE CreateWithOwnerGuarded(c) \/ TransferOwnershipGuarded(c)
  BY <1>4, CreateGuard
<1>5. CASE DecrementSpaceCounter(c)
  BY <1>5, DecrementGuard, FittingStill DEF DecrementSpaceCounter, tables
<1>6. CASE GetInvitation(c) \/ ListMembers(c) \/ ListInvitations(c) \/ PeopleCounter(c) \/ PutInvitationGuarded(c)
           \/ PutInvitationUnguarded(c)
  <2>1. UNCHANGED <<holder, idx, spaceN, undercut>>
    BY <1>6 DEF GetInvitation, ListMembers, ListInvitations, PeopleCounter, PutInvitationGuarded,
                PutInvitationUnguarded, tables, counters
  <2>2. \A d \in Calls : calls'[d] = calls[d] \/ calls'[d].pc \notin {"counter", "write"}
    BY <1>1, <1>6 DEF GetInvitation, ListMembers, ListInvitations, PeopleCounter, PutInvitationGuarded,
                      PutInvitationUnguarded, Untold, Close, Move, Tell, Retry, Free, CallRecord
  <2> QED BY <2>1, <2>2, GuardKept, FittingStill
<1>7. CASE JoinSpace(c) \/ RemoveWrite(c) \/ RevokeWrite(c) \/ DecrementPeopleCounter(c)
  <2>1. UNCHANGED <<holder, idx, spaceN, undercut>>
    BY <1>7 DEF JoinSpace, RemoveWrite, RevokeWrite, DecrementPeopleCounter, tables, counters
  <2>2. \A d \in Calls : calls'[d] = calls[d] \/ calls'[d].pc \notin {"counter", "write"}
    BY <1>1, <1>7 DEF JoinSpace, RemoveWrite, RevokeWrite, DecrementPeopleCounter, Untold, Close, Move, Tell, Free,
                      CallRecord
  <2> QED BY <2>1, <2>2, GuardKept, FittingStill
<1>8. CASE MarkNow(c) \/ CountLevels(c) \/ ReportLevel(c) \/ ScheduleLevels(c) \/ CallCrash(c)
  <2>1. UNCHANGED <<holder, idx, spaceN, undercut>>
    BY <1>8 DEF MarkNow, CountLevels, ReportLevel, ScheduleLevels, CallCrash, tables, counters
  <2>2. \A d \in Calls : calls'[d] = calls[d] \/ calls'[d].pc \notin {"counter", "write"}
    BY <1>1, <1>8 DEF MarkNow, CountLevels, ReportLevel, ScheduleLevels, CallCrash, Close, Move, Tell, Free, CallRecord
  <2> QED BY <2>1, <2>2, GuardKept, FittingStill
<1> QED BY <1>2, <1>3, <1>4, <1>5, <1>6, <1>7, <1>8 DEF CallStep

LEMMA PlansNextGuard ==
  ASSUME PlansTypes, GuardInv, [PlansNext]_pVars
  PROVE  GuardInv' /\ Fitting
<1>1. CASE UNCHANGED pVars
  BY <1>1, GuardKept, FittingStill DEF pVars
<1>2. ASSUME NEW c \in Calls, NEW u \in Persons, NEW s \in Spaces,
             CreateSpace(c, u, s) \/ TransferSpace(c, s, u) \/ InviteGuest(c, s, u)
             \/ AcceptGuest(c, s, u) \/ RemoveGuest(c, s, u) \/ RevokeGuest(c, s, u)
      PROVE  GuardInv' /\ Fitting
  <2>1. SameRows /\ \E op, pc, w, g : Open(c, op, pc, w, s, g) /\ Arrives(op, pc, w, s, g)
    BY <1>2, ArriveShape
  <2>2. PICK op, pc, w, g : Open(c, op, pc, w, s, g) /\ Arrives(op, pc, w, s, g)
    BY <2>1
  <2>3. pc \notin {"counter", "write"} /\ calls \in [Calls -> CallRecord]
    BY <2>2 DEF Arrives, PlansTypes, PlansTypeOK
  <2>4. \A d \in Calls : calls'[d] = calls[d] \/ calls'[d].pc \notin {"counter", "write"}
    BY <2>2, <2>3 DEF Open, Free
  <2> QED BY <2>1, <2>4, GuardKept, FittingStill DEF SameRows
<1>3. ASSUME NEW s \in Spaces, IndexCatchesUp(s) PROVE GuardInv' /\ Fitting
  BY <1>3, IndexGuard, FittingStill DEF IndexCatchesUp
<1>4. ASSUME NEW s \in Spaces, NEW g \in Persons, ExpireGuest(s, g) PROVE GuardInv' /\ Fitting
  BY <1>4, GuardKept, FittingStill DEF ExpireGuest, counters
<1>5. ASSUME NEW r \in ats, AtRowDue(r) PROVE GuardInv' /\ Fitting
  BY <1>5, GuardKept, FittingStill DEF AtRowDue, counters, tables
<1>6. CASE WorkerStep
  <2>1. CASE ReconcileSpaceCounter
    BY <2>1, ReconcileGuard, FittingStill DEF ReconcileSpaceCounter, tables
  <2>2. CASE ~ReconcileSpaceCounter
    <3>1. UNCHANGED <<holder, idx, spaceN, undercut, calls>>
      BY <1>6, <2>2 DEF WorkerStep, ProcessNow, ProcessAt, WorkerCount, WorkerReport, WorkerOwned, WorkerCounter, Done,
                        WorkerCrash, tables, counters
    <3> QED BY <3>1, GuardKept, FittingStill
  <2> QED BY <2>1, <2>2
<1> QED BY <1>1, <1>2, <1>3, <1>4, <1>5, <1>6, CallStepGuard DEF PlansNext

LEMMA PlansInitGuard == PlansInit => GuardInv
BY DEF PlansInit, GuardInv, UncountedSeen, CountedRight, CheckRight, Free

\* Creations and transfers that race each other, on an index that lags, never both
\* pass the guard of createGuarded and transferGuarded: an owner gets no space
\* beyond the plan, unless the counter was set below the spaces owned.
THEOREM WithinPlanCorrect == PlansSpec => SpacesWithinPlan
<1>1. PlansTypes /\ GuardInv /\ [PlansNext]_pVars => GuardInv' /\ Fitting
  BY PlansNextGuard
<1>2. Fitting => [\A u \in Persons \ undercut :
                    (Quota[u] # Unlimited /\ Cardinality(Truly(u)') > Cardinality(Truly(u)))
                    => Cardinality(Truly(u)') <= Quota[u]]_pVars
  BY DEF Fitting, Limited
<1> QED BY <1>1, <1>2, PlansInitTypes, PlansNextTypes, PlansInitGuard, PTL DEF PlansSpec, SpacesWithinPlan

-----------------------------------------------------------------------------
(* Everything is reported in the end *)

\* A change of u's levels that somebody still has to mark, or never will.
Noted(u) == u \in unmarked \/ \E c \in Calls : u \in ToMark(calls[c])

\* An invitation of u's that expired: its row waits to come due, or to be counted.
AtOwed(u) == \E r \in ats : r[1] = u /\ holder[r[2]] = u /\ r[3] \notin pending[r[2]]
DueOwed(u) == \E r \in due : r[1] = u /\ (worker.row = r => worker.pc \in {"idle", "count"})
Owed(u) == Noted(u) \/ AtOwed(u) \/ DueOwed(u)

\* The levels l are right, or something will report u again.
Sure(u, l) == Owed(u) \/ marks[u] = "new" \/ l = TrueLevels(u)

\* What a NOW row waits for, it waits for unread.
WaitsNew == \A u \in Persons : waits[u] # {} => marks[u] = "new"

\* A space the index lags behind on belongs to somebody whose row waits for it.
LagNoted ==
  \A s \in Spaces : idx[s] # holder[s] =>
    holder[s] # NoPerson /\ (Noted(holder[s]) \/ s \in waits[holder[s]])

\* An invitation or a withdrawal of a former owner is waited for by the new one.
PassedOver(c) ==
  LET x == calls[c] IN
  x.pc \in Inviting \/ (x.pc = "drop" /\ x.op = "revoke") =>
    holder[x.s] = x.u \/ Noted(holder[x.s]) \/ c \in waits[holder[x.s]]

\* A request about to report is waited for by the row it marked.
SendNoted(c) ==
  LET x == calls[c] IN
  x.pc \in {"count", "send"} => Head(x.tell) \in unmarked \/ c \in waits[Head(x.tell)]

WorkerSound ==
  /\ worker.pc # "idle" => \/ worker.row = NowRow /\ marks[worker.u] # "none"
                           \/ worker.row \in due /\ worker.row[1] = worker.u
  /\ worker.pc = "send" => Sure(worker.u, worker.counted)
  /\ worker.pc \in {"owned", "counter", "reconcile", "done"} => Sure(worker.u, told[worker.u])

\* Nobody is forgotten.
Covered ==
  \A u \in Persons : Owed(u) \/ marks[u] # "none" \/ told[u] = TrueLevels(u) \/ (worker.pc # "idle" /\ worker.u = u)

ReportInv ==
  /\ WaitsNew /\ LagNoted /\ WorkerSound /\ Covered
  /\ \A c \in Calls : PassedOver(c) /\ SendNoted(c)

\* The step marked u, and the row waits for whatever is unsettled.
FreshRow(u) == marks'[u] = "new" /\ Unsettled \subseteq waits'[u]

\* The step left u's levels, and what is owed for them, alone.
Kept(u) == TrueLevels(u)' = TrueLevels(u) /\ told'[u] = told[u] /\ (AtOwed(u) => AtOwed(u)')

\* Of every step but the worker's: the requests in T have moved.
LEMMA ReportKept ==
  ASSUME PlansTypes, PlansTypes', ReportInv, NEW T \in SUBSET Calls,
         \A d \in Calls \ T : calls'[d] = calls[d], worker' = worker, due \subseteq due', WaitsNew',
         \A s \in Spaces : idx'[s] = idx[s] \/ idx'[s] = holder'[s],
         \A s \in Spaces : holder[s] # NoPerson => holder'[s] # NoPerson,
         \A s \in Spaces : \A w \in Persons : holder'[s] = w /\ holder[s] # w => Noted(w)',
         \A u \in Persons : marks'[u] = marks[u] \/ marks'[u] = "new",
         \A u \in unmarked : u \in unmarked' \/ FreshRow(u),
         \A u \in Persons : \A x \in waits[u] :
           x \in waits'[u] \/ x \in T \/ (x \in Spaces /\ idx'[x] = holder'[x]) \/ FreshRow(u),
         \A c \in T : \A u \in ToMark(calls[c]) : Noted(u)' \/ FreshRow(u),
         \A u \in Persons : Kept(u) \/ Owed(u)' \/ marks'[u] = "new",
         \A c \in T : PassedOver(c)' /\ SendNoted(c)'
  PROVE  ReportInv'
<1>1. ASSUME NEW u \in Persons, Noted(u) PROVE Noted(u)' \/ FreshRow(u)
  <2>1. CASE u \in unmarked
    BY <2>1 DEF Noted
  <2>2. ASSUME NEW c \in Calls, u \in ToMark(calls[c]) PROVE Noted(u)' \/ FreshRow(u)
    <3>1. CASE c \in T
      BY <2>2, <3>1
    <3>2. CASE c \notin T
      BY <2>2, <3>2 DEF Noted
    <3> QED BY <3>1, <3>2
  <2> QED BY <1>1, <2>1, <2>2 DEF Noted
<1>2. /\ holder \in [Spaces -> Persons \cup {NoPerson}] /\ holder' \in [Spaces -> Persons \cup {NoPerson}]
      /\ \A s \in Spaces : s \notin Calls
  BY SpacePlansAssumption DEF PlansTypes, PlansTypeOK
<1>3. ASSUME NEW s \in Spaces, idx'[s] # holder'[s]
      PROVE  holder'[s] # NoPerson /\ (Noted(holder[s])' \/ s \in waits'[holder'[s]])
  <2>1. PICK h : h = holder'[s]
    OBVIOUS
  <2>2. CASE holder[s] # h
    <3>1. h # NoPerson
      BY <1>3, <2>1, <2>2 DEF ReportInv, LagNoted
    <3>2. h \in Persons
      BY <1>2, <2>1, <3>1
    <3> QED BY <2>1, <2>2, <3>1, <3>2
  <2>3. CASE holder[s] = h
    <3>1. idx[s] # holder[s]
      BY <1>3, <2>1, <2>3
    <3>2. h # NoPerson /\ (Noted(h) \/ s \in waits[h])
      BY <2>3, <3>1 DEF ReportInv, LagNoted
    <3>3. h \in Persons /\ s \in Unsettled
      BY <1>2, <2>3, <3>1, <3>2 DEF Unsettled
    <3>4. Noted(h)' \/ s \in waits'[h]
      BY <1>1, <1>2, <1>3, <3>2, <3>3 DEF FreshRow
    <3> QED BY <2>1, <3>2, <3>4
  <2> QED BY <2>2, <2>3
<1>4. LagNoted'
  BY <1>3 DEF LagNoted
<1>5. ASSUME NEW c \in Calls \ T PROVE PassedOver(c)' /\ SendNoted(c)'
  <2>1. calls'[c] = calls[c] /\ PassedOver(c) /\ SendNoted(c) /\ c \notin Spaces
    BY <1>2 DEF ReportInv
  <2>2. calls[c].pc # "idle" => c \in Unsettled
    BY DEF Unsettled
  <2>3. ASSUME calls[c].pc \in Inviting \/ (calls[c].pc = "drop" /\ calls[c].op = "revoke")
        PROVE  PassedOver(c)'
    <3>1. PICK s, h : s = calls[c].s /\ h = holder'[s]
      OBVIOUS
    <3>2. s \in Spaces /\ holder[s] \in Persons
      BY <2>3, <3>1, CallAt, OwnerAt DEF SoundCall, Sound, Inviting
    <3>3. h \in Persons
      BY <1>2, <3>1, <3>2, SpacePlansAssumption
    <3>4. h = calls[c].u \/ Noted(h)' \/ c \in waits'[h]
      <4>1. CASE holder[s] # h
        BY <3>1, <3>2, <3>3, <4>1
      <4>2. CASE holder[s] = h
        <5>1. h = calls[c].u \/ Noted(h) \/ c \in waits[h]
          BY <2>1, <2>3, <3>1, <4>2 DEF PassedOver
        <5>2. c \in Unsettled
          BY <2>2, <2>3 DEF Inviting
        <5> QED BY <1>1, <2>1, <3>3, <5>1, <5>2 DEF FreshRow
      <4> QED BY <4>1, <4>2
    <3> QED BY <2>1, <3>1, <3>4 DEF PassedOver
  <2>4. ASSUME calls[c].pc \in {"count", "send"} PROVE SendNoted(c)'
    <3>1. PICK h : h = Head(calls[c].tell)
      OBVIOUS
    <3>2. h \in Persons
      BY <2>4, <3>1, FirstTold DEF Telling
    <3>3. h \in unmarked' \/ c \in waits'[h]
      BY <2>1, <2>2, <2>4, <3>1, <3>2 DEF SendNoted, FreshRow
    <3> QED BY <2>1, <3>1, <3>3 DEF SendNoted
  <2> QED BY <2>1, <2>3, <2>4 DEF PassedOver, SendNoted
<1>6. ASSUME NEW u \in Persons, Owed(u) PROVE Owed(u)' \/ marks'[u] = "new"
  <2>1. CASE Noted(u)
    BY <1>1, <2>1 DEF Owed, FreshRow
  <2>2. CASE AtOwed(u)
    BY <2>2 DEF Owed, Kept
  <2>3. CASE DueOwed(u)
    BY <2>3 DEF Owed, DueOwed
  <2> QED BY <1>6, <2>1, <2>2, <2>3 DEF Owed
<1>7. WorkerSound'
  <2>1. PICK u, l : u = worker.u /\ l = worker.counted
    OBVIOUS
  <2>2. worker.pc # "idle" => u \in Persons
    BY <2>1 DEF PlansTypes
  <2>3. worker.pc # "idle" => \/ worker.row = NowRow /\ marks'[u] # "none"
                              \/ worker.row \in due' /\ worker.row[1] = u
    BY <2>1, <2>2 DEF ReportInv, WorkerSound
  <2>4. ASSUME u \in Persons, NEW k, Sure(u, k), k = TrueLevels(u) => k = TrueLevels(u)' \/ Owed(u)' \/ marks'[u] = "new"
        PROVE  Sure(u, k)'
    BY <1>6, <2>4 DEF Sure
  <2>5. worker.pc = "send" => Sure(u, l)'
    <3>1. CASE worker.pc = "send"
      <4>1. Sure(u, l) /\ u \in Persons
        BY <2>1, <2>2, <3>1 DEF ReportInv, WorkerSound
      <4> QED BY <2>4, <4>1 DEF Kept
    <3> QED BY <3>1
  <2>6. worker.pc \in {"owned", "counter", "reconcile", "done"} => Sure(u, told[u])'
    <3>1. CASE worker.pc \in {"owned", "counter", "reconcile", "done"}
      <4>1. Sure(u, told[u]) /\ u \in Persons
        BY <2>1, <2>2, <3>1 DEF ReportInv, WorkerSound
      <4> QED BY <1>6, <4>1 DEF Sure, Kept
    <3> QED BY <3>1
  <2> QED BY <2>1, <2>3, <2>5, <2>6 DEF WorkerSound
<1>8. Covered'
  <2> SUFFICES ASSUME NEW u \in Persons
               PROVE  Owed(u)' \/ marks'[u] # "none" \/ told'[u] = TrueLevels(u)' \/ (worker.pc # "idle" /\ worker.u = u)
    BY DEF Covered
  <2>1. Owed(u) \/ marks[u] # "none" \/ told[u] = TrueLevels(u) \/ (worker.pc # "idle" /\ worker.u = u)
    BY DEF ReportInv, Covered
  <2> QED BY <1>6, <2>1 DEF Kept
<1> QED BY <1>4, <1>5, <1>7, <1>8 DEF ReportInv

LEMMA ToMarkSets ==
  ASSUME NEW x
  PROVE  /\ x.pc \notin Telling => ToMark(x) = {}
         /\ x.pc \in {"decrement", "left", "mark"} => ToMark(x) = {x.tell[i] : i \in 1..Len(x.tell)}
         /\ x.pc \in {"count", "send"} => ToMark(x) = {x.tell[i] : i \in 2..Len(x.tell)}
BY DEF ToMark, Telling

\* The owners still to mark once the first one is.
LEMMA TellSets ==
  ASSUME NEW t \in Tells, t # <<>>
  PROVE  /\ {t[i] : i \in 1..Len(t)} = {Head(t)} \cup {t[i] : i \in 2..Len(t)}
         /\ {t[i] : i \in 2..Len(t)} = IF Len(t) > 1 THEN {t[2]} ELSE {}
<1>1. t[1] = Head(t) /\ Len(t) \in {1, 2}
  BY TellSeq
<1>2. 1..1 = {1} /\ 2..1 = {} /\ 1..2 = {1, 2} /\ 2..2 = {2}
  OBVIOUS
<1>3. CASE Len(t) = 1
  BY <1>1, <1>2, <1>3
<1>4. CASE Len(t) = 2
  BY <1>1, <1>2, <1>4
<1> QED BY <1>1, <1>3, <1>4

LEMMA ToMarkOf ==
  ASSUME NEW x, NEW u, NEW v, x.pc \in {"decrement", "left", "mark"}
  PROVE  (x.tell = <<u>> => ToMark(x) = {u}) /\ (x.tell = <<u, v>> => ToMark(x) = {u, v})
<1>1. PICK q : q = x.tell
  OBVIOUS
<1>2. ToMark(x) = {q[i] : i \in 1..Len(q)}
  BY <1>1, ToMarkSets
<1>3. ASSUME q = <<u>> PROVE {q[i] : i \in 1..Len(q)} = {u}
  <2>1. q[1] = u /\ Len(q) = 1 /\ 1..1 = {1}
    BY <1>3
  <2> QED BY <2>1
<1>4. ASSUME q = <<u, v>> PROVE {q[i] : i \in 1..Len(q)} = {u, v}
  <2>1. q[1] = u /\ q[2] = v /\ Len(q) = 2 /\ 1..2 = {1, 2}
    BY <1>4
  <2> QED BY <2>1
<1> QED BY <1>1, <1>2, <1>3, <1>4

\* A step of request c that marks nothing.
LEMMA CallReport ==
  ASSUME PlansTypes, PlansTypes', ReportInv, NEW c \in Calls,
         \A d \in Calls \ {c} : calls'[d] = calls[d], UNCHANGED <<idx, marks, worker>>,
         due \subseteq due', unmarked \subseteq unmarked',
         \A u \in Persons : waits'[u] = waits[u] \/ waits'[u] = waits[u] \ {c},
         \A s \in Spaces : holder[s] # NoPerson => holder'[s] # NoPerson,
         \A s \in Spaces : \A w \in Persons : holder'[s] = w /\ holder[s] # w => Noted(w)',
         \A u \in ToMark(calls[c]) : Noted(u)',
         \A u \in Persons : Kept(u) \/ Owed(u)' \/ marks[u] = "new",
         PassedOver(c)' /\ SendNoted(c)'
  PROVE  ReportInv'
<1>1. WaitsNew'
  BY DEF ReportInv, WaitsNew
<1> QED BY <1>1, ReportKept

\* Of a step that leaves the spaces, their people and the reports alone.
LEMMA QuietReport ==
  ASSUME PlansTypes, PlansTypes', ReportInv, NEW c \in Calls,
         \A d \in Calls \ {c} : calls'[d] = calls[d], UNCHANGED <<tables, marks, told, worker>>,
         ats \subseteq ats', due \subseteq due', unmarked \subseteq unmarked',
         \A u \in Persons : waits'[u] = waits[u] \/ waits'[u] = waits[u] \ {c},
         \A u \in ToMark(calls[c]) : Noted(u)',
         PassedOver(c)' /\ SendNoted(c)'
  PROVE  ReportInv'
<1>1. UNCHANGED <<holder, idx, guests, pending>>
  BY DEF tables
<1>2. \A u \in Persons : Kept(u)
  BY <1>1 DEF Kept, TrueLevels, Truly, PeopleOf, AtOwed
<1> QED BY <1>1, <1>2, CallReport

\* A request that has written nothing yet has nobody to mark.
LEMMA NoneToMark ==
  ASSUME NEW c \in Calls, calls[c].pc \notin Telling
  PROVE  ToMark(calls[c]) = {}
BY ToMarkSets

LEMMA ArriveReport ==
  ASSUME PlansTypes, PlansTypes', ReportInv, NEW c \in Calls, NEW op, NEW pc, NEW w, NEW g, NEW s \in Spaces,
         SameRows, Open(c, op, pc, w, s, g), Arrives(op, pc, w, s, g)
  PROVE  ReportInv'
<1>1. calls[c].pc = "idle" /\ calls \in [Calls -> CallRecord]
  BY DEF Open, PlansTypes, PlansTypeOK
<1>2. /\ calls'[c].pc = pc /\ calls'[c].op = op /\ calls'[c].u = w /\ calls'[c].s = s
      /\ \A d \in Calls \ {c} : calls'[d] = calls[d]
  BY <1>1 DEF Open, Free
<1>3. ToMark(calls[c]) = {}
  BY <1>1, NoneToMark DEF Telling
<1>4. PassedOver(c)' /\ SendNoted(c)'
  BY <1>2 DEF Arrives, PassedOver, SendNoted, SameRows, Inviting
<1> QED BY <1>2, <1>3, <1>4, QuietReport DEF SameRows, tables

\* The end of a request, and a retry that starts over.
LEMMA CloseReport ==
  ASSUME PlansTypes, NEW c \in Calls, Close(c)
  PROVE  /\ \A d \in Calls \ {c} : calls'[d] = calls[d]
         /\ \A u \in Persons : waits'[u] = waits[u] \/ waits'[u] = waits[u] \ {c}
         /\ PassedOver(c)' /\ SendNoted(c)'
<1>1. calls'[c] = Free /\ \A d \in Calls \ {c} : calls'[d] = calls[d]
  BY DEF Close, PlansTypes, PlansTypeOK
<1>2. PassedOver(c)' /\ SendNoted(c)'
  BY <1>1 DEF PassedOver, SendNoted, Free, Inviting
<1> QED BY <1>1, <1>2 DEF Close

LEMMA GuardStepsReport ==
  ASSUME PlansTypes, PlansTypes', ReportInv, NEW c \in Calls, ReadOwned(c) \/ SpaceGuard(c)
  PROVE  ReportInv'
<1>1. calls[c].pc \in Guarding /\ calls[c] \in CallRecord /\ calls \in [Calls -> CallRecord]
  BY DEF ReadOwned, SpaceGuard, Guarding, PlansTypes, PlansTypeOK
<1>2. ToMark(calls[c]) = {}
  BY <1>1, NoneToMark DEF Guarding, Telling
<1>3. UNCHANGED <<tables, marks, told, worker, ats, due, unmarked>>
  BY DEF ReadOwned, SpaceGuard, queue
<1>4. CASE Close(c)
  BY <1>2, <1>3, <1>4, CloseReport, QuietReport
<1>5. CASE ~Close(c)
  <2>1. /\ calls'[c].pc \in {"counter", "write"} /\ \A d \in Calls \ {c} : calls'[d] = calls[d]
        /\ waits' = waits
    BY <1>1, <1>5 DEF ReadOwned, SpaceGuard, queue, CallRecord
  <2>2. PassedOver(c)' /\ SendNoted(c)'
    BY <2>1 DEF PassedOver, SendNoted, Inviting
  <2> QED BY <1>2, <1>3, <2>1, <2>2, QuietReport
<1> QED BY <1>4, <1>5

\* A request that still invites is passed over as it was.
LEMMA InvitingOn ==
  ASSUME PlansTypes, ReportInv, NEW c \in Calls, calls[c].pc \in Inviting, calls'[c].pc \in Inviting,
         calls'[c].u = calls[c].u, calls'[c].s = calls[c].s, holder' = holder, unmarked' = unmarked, waits' = waits,
         \A d \in Calls \ {c} : calls'[d] = calls[d]
  PROVE  PassedOver(c)' /\ SendNoted(c)' /\ ToMark(calls[c]) = {}
<1>1. ToMark(calls[c]) = {}
  BY NoneToMark DEF Inviting, Telling
<1>2. PassedOver(c)
  BY DEF ReportInv
<1>3. \A u : Noted(u) => Noted(u)'
  BY <1>1 DEF Noted
<1>4. PassedOver(c)'
  BY <1>2, <1>3 DEF PassedOver
<1> QED BY <1>1, <1>4 DEF SendNoted, Inviting

LEMMA InviteStepsReport ==
  ASSUME PlansTypes, PlansTypes', ReportInv, NEW c \in Calls,
         GetInvitation(c) \/ ListMembers(c) \/ ListInvitations(c) \/ PeopleCounter(c)
  PROVE  ReportInv'
<1> DEFINE x == calls[c]
<1>1. x.pc \in Inviting /\ x \in CallRecord /\ calls \in [Calls -> CallRecord]
  BY DEF GetInvitation, ListMembers, ListInvitations, PeopleCounter, Inviting, PlansTypes, PlansTypeOK
<1>2. ToMark(x) = {}
  BY <1>1, NoneToMark DEF Inviting, Telling
<1>3. UNCHANGED <<tables, marks, told, worker, ats, due, unmarked>> /\ holder' = holder
  BY DEF GetInvitation, ListMembers, ListInvitations, PeopleCounter, queue, tables
<1>4. CASE Close(c)
  BY <1>2, <1>3, <1>4, CloseReport, QuietReport
<1>5. CASE Tell(c, <<x.u>>, "mark")
  <2>1. calls'[c].pc = "mark" /\ waits' = waits /\ \A d \in Calls \ {c} : calls'[d] = calls[d]
    BY <1>1, <1>5 DEF Tell, CallRecord
  <2>2. PassedOver(c)' /\ SendNoted(c)'
    BY <2>1 DEF PassedOver, SendNoted, Inviting
  <2> QED BY <1>2, <1>3, <2>1, <2>2, QuietReport
<1>6. CASE ~Close(c) /\ ~Tell(c, <<x.u>>, "mark")
  <2>1. /\ calls'[c].pc \in Inviting /\ calls'[c].u = x.u /\ calls'[c].s = x.s /\ waits' = waits
        /\ \A d \in Calls \ {c} : calls'[d] = calls[d]
    BY <1>1, <1>6 DEF GetInvitation, ListMembers, ListInvitations, PeopleCounter, Move, queue, CallRecord, Inviting
  <2>2. PassedOver(c)' /\ SendNoted(c)'
    BY <1>1, <1>3, <2>1, InvitingOn
  <2> QED BY <1>2, <1>3, <2>1, <2>2, QuietReport
<1> QED BY <1>4, <1>5, <1>6

\* Whose spaces and people stay, keeps the levels.
LEMMA OtherLevels ==
  ASSUME NEW u, \A s \in Spaces : holder'[s] = u <=> holder[s] = u,
         \A s \in Spaces : holder[s] = u => guests'[s] = guests[s] /\ pending'[s] = pending[s]
  PROVE  TrueLevels(u)' = TrueLevels(u)
<1>1. PICK S : S = Truly(u)
  OBVIOUS
<1>2. Truly(u)' = S
  BY <1>1 DEF Truly
<1>3. \A s \in S : guests'[s] \cup pending'[s] = guests[s] \cup pending[s]
  BY <1>1 DEF Truly
<1>4. {guests'[s] \cup pending'[s] : s \in S} = {guests[s] \cup pending[s] : s \in S}
  BY <1>3
<1>5. PeopleOf(Truly(u))' = PeopleOf(Truly(u))
  BY <1>1, <1>2, <1>4 DEF PeopleOf
<1> QED BY <1>1, <1>2, <1>5 DEF TrueLevels

LEMMA OthersKept ==
  ASSUME PlansTypes, NEW s \in Spaces, NEW w \in Persons, UNCHANGED <<holder, told>>, ats \subseteq ats', holder[s] # w,
         \A r \in Spaces \ {s} : guests'[r] = guests[r] /\ pending'[r] = pending[r]
  PROVE  Kept(w)
<1>1. TrueLevels(w)' = TrueLevels(w)
  BY OtherLevels
<1>2. \A r \in ats : r[2] \in Spaces
  BY DEF PlansTypes, PlansTypeOK
<1>3. ASSUME NEW r \in ats, r[1] = w, holder[r[2]] = w, r[3] \notin pending[r[2]] PROVE AtOwed(w)'
  <2>1. pending'[r[2]] = pending[r[2]] /\ holder'[r[2]] = w /\ r \in ats'
    BY <1>2, <1>3
  <2> QED BY <1>3, <2>1 DEF AtOwed
<1> QED BY <1>1, <1>3 DEF Kept, AtOwed

\* A write in space s: its owner is the one to report.
LEMMA SpaceWritten ==
  ASSUME PlansTypes, PlansTypes', ReportInv, NEW c \in Calls, NEW s \in Spaces, NEW h \in Persons, holder[s] = h,
         UNCHANGED <<holder, idx, marks, ats, due, told, worker>>, unmarked \subseteq unmarked',
         \A d \in Calls \ {c} : calls'[d] = calls[d], calls[c].pc \notin Telling,
         \A u \in Persons : waits'[u] = waits[u] \/ waits'[u] = waits[u] \ {c},
         \A r \in Spaces \ {s} : guests'[r] = guests[r] /\ pending'[r] = pending[r],
         Noted(h)' \/ marks[h] = "new", PassedOver(c)', SendNoted(c)'
  PROVE  ReportInv'
<1>1. ToMark(calls[c]) = {}
  BY NoneToMark
<1>2. \A w \in Persons : Kept(w) \/ Owed(w)' \/ marks[w] = "new"
  BY OthersKept DEF Owed
<1> QED BY <1>1, <1>2, CallReport

\* A request that tells the owner it has read, and marks it next.
LEMMA OwnerTold ==
  ASSUME PlansTypes, NEW c \in Calls, NEW u \in Persons, NEW pc \in {"mark", "left"}, Tell(c, <<u>>, pc)
  PROVE  /\ Noted(u)' /\ PassedOver(c)' /\ SendNoted(c)' /\ waits' = waits
         /\ \A d \in Calls \ {c} : calls'[d] = calls[d]
<1>1. calls'[c].pc = pc /\ calls'[c].tell = <<u>> /\ waits' = waits /\ \A d \in Calls \ {c} : calls'[d] = calls[d]
  BY DEF Tell, PlansTypes, PlansTypeOK, CallRecord
<1>2. PICK x : x = calls'[c]
  OBVIOUS
<1>3. ToMark(x) = {u}
  BY <1>1, <1>2, ToMarkOf
<1>4. u \in ToMark(calls'[c])
  BY <1>2, <1>3
<1>5. PassedOver(c)' /\ SendNoted(c)'
  BY <1>1 DEF PassedOver, SendNoted, Inviting
<1> QED BY <1>1, <1>4, <1>5 DEF Noted

\* The owner that was read may have given the space away since; then somebody
\* else's note covers the new one.
LEMMA FormerTold ==
  ASSUME PlansTypes, ReportInv, NEW c \in Calls, NEW s \in Spaces, NEW h \in Persons, NEW u \in Persons,
         calls[c].pc \in Inviting \/ (calls[c].pc = "drop" /\ calls[c].op = "revoke"),
         calls[c].s = s, calls[c].u = u, holder[s] = h, unmarked' = unmarked,
         Tell(c, <<u>>, "mark") \/ Tell(c, <<u>>, "left")
  PROVE  Noted(h)' \/ marks[h] = "new"
<1>1. Noted(u)' /\ \A d \in Calls \ {c} : calls'[d] = calls[d]
  BY OwnerTold
<1>2. h = u \/ Noted(h) \/ c \in waits[h]
  BY DEF ReportInv, PassedOver
<1>3. ToMark(calls[c]) = {}
  BY NoneToMark DEF Inviting, Telling
<1>4. Noted(h) => Noted(h)'
  BY <1>1, <1>3 DEF Noted
<1> QED BY <1>1, <1>2, <1>4 DEF ReportInv, WaitsNew

\* The space that could not be read: its owner is remembered as unmarked.
LEMMA UntoldOwner ==
  ASSUME PlansTypes, NEW c \in Calls, NEW s, NEW h, calls[c].s = s, holder[s] = h, Untold(c)
  PROVE  /\ Noted(h)' /\ PassedOver(c)' /\ SendNoted(c)' /\ unmarked \subseteq unmarked'
         /\ \A u \in Persons : waits'[u] = waits[u] \/ waits'[u] = waits[u] \ {c}
         /\ \A d \in Calls \ {c} : calls'[d] = calls[d]
BY CloseReport DEF Untold, Noted

LEMMA PutInvitationReport ==
  ASSUME PlansTypes, PlansTypes', ReportInv, NEW c \in Calls, PutInvitationGuarded(c)
  PROVE  ReportInv'
<1>1. PICK x, s, h, u : x = calls[c] /\ s = x.s /\ h = holder[s] /\ u = x.u
  OBVIOUS
<1>2. x.pc = "putInvite" /\ x \in CallRecord /\ s \in Spaces /\ h \in Persons /\ u \in Persons
      /\ calls \in [Calls -> CallRecord] /\ pending \in [Spaces -> SUBSET Persons]
  BY <1>1, CallAt, OwnerAt DEF PutInvitationGuarded, SoundCall, Sound, Inviting, PlansTypes, PlansTypeOK
<1>3. UNCHANGED <<holder, idx, guests, marks, ats, due, told, worker, unmarked>>
  BY DEF PutInvitationGuarded
<1>4. CASE pending' = [pending EXCEPT ![s] = @ \cup {x.g}] /\ Tell(c, <<u>>, "mark")
  <2>1. Noted(h)' \/ marks[h] = "new"
    BY <1>1, <1>2, <1>3, <1>4, FormerTold DEF Inviting
  <2>2. \A r \in Spaces \ {s} : guests'[r] = guests[r] /\ pending'[r] = pending[r]
    BY <1>2, <1>3, <1>4
  <2>3. calls[c].pc \notin Telling
    BY <1>1, <1>2 DEF Telling
  <2>4. PassedOver(c)' /\ SendNoted(c)' /\ waits' = waits /\ \A d \in Calls \ {c} : calls'[d] = calls[d]
    BY <1>2, <1>4, OwnerTold
  <2> QED BY <1>1, <1>2, <1>3, <2>1, <2>2, <2>3, <2>4, SpaceWritten
<1>5. CASE Retry(c, "existing") /\ UNCHANGED pending
  <2>1. UNCHANGED tables
    BY <1>3, <1>5 DEF tables
  <2>2. CASE Close(c)
    <3>1. ToMark(calls[c]) = {}
      BY <1>1, <1>2, NoneToMark DEF Telling
    <3> QED BY <1>3, <2>1, <2>2, <3>1, CloseReport, QuietReport
  <2>3. CASE ~Close(c)
    <3>1. /\ calls'[c].pc = "existing" /\ calls'[c].u = u /\ calls'[c].s = s /\ waits' = waits
          /\ \A d \in Calls \ {c} : calls'[d] = calls[d]
      BY <1>1, <1>2, <1>5, <2>3 DEF Retry, CallRecord
    <3>2. PassedOver(c)' /\ SendNoted(c)' /\ ToMark(calls[c]) = {}
      BY <1>1, <1>2, <1>3, <3>1, InvitingOn DEF Inviting
    <3> QED BY <1>3, <2>1, <3>1, <3>2, QuietReport
  <2> QED BY <2>2, <2>3
<1> QED BY <1>1, <1>4, <1>5 DEF PutInvitationGuarded

LEMMA PeopleWritesReport ==
  ASSUME PlansTypes, PlansTypes', ReportInv, NEW c \in Calls,
         PutInvitationUnguarded(c) \/ JoinSpace(c) \/ RemoveWrite(c) \/ RevokeWrite(c)
  PROVE  ReportInv'
<1>1. PICK x, s, h, u : x = calls[c] /\ s = x.s /\ h = holder[s] /\ u = x.u
  BY SMTT(20)
<1>2. /\ x.pc \in {"existing", "join", "drop"} /\ x \in CallRecord /\ s \in Spaces /\ h \in Persons
      /\ calls \in [Calls -> CallRecord] /\ x.op \in {"invite", "accept", "remove", "revoke"}
      /\ guests \in [Spaces -> SUBSET Persons] /\ pending \in [Spaces -> SUBSET Persons]
  BY <1>1, CallAt, OwnerAt
     DEF PutInvitationUnguarded, JoinSpace, RemoveWrite, RevokeWrite, SoundCall, Sound, Inviting, PlansTypes, PlansTypeOK
<1>3. UNCHANGED <<holder, idx, marks, ats, due, told, worker>> /\ calls[c].pc \notin Telling
  BY <1>1, <1>2 DEF PutInvitationUnguarded, JoinSpace, RemoveWrite, RevokeWrite, Telling
<1>4. \A r \in Spaces \ {s} : guests'[r] = guests[r] /\ pending'[r] = pending[r]
  BY <1>1, <1>2 DEF PutInvitationUnguarded, JoinSpace, RemoveWrite, RevokeWrite
<1>5. CASE Untold(c)
  BY <1>1, <1>2, <1>3, <1>4, <1>5, UntoldOwner, SpaceWritten
<1>6. CASE unmarked' = unmarked /\ (Tell(c, <<h>>, "mark") \/ Tell(c, <<h>>, "left"))
  <2>1. Noted(h)' /\ PassedOver(c)' /\ SendNoted(c)' /\ waits' = waits /\ \A d \in Calls \ {c} : calls'[d] = calls[d]
    BY <1>2, <1>6, OwnerTold
  <2> QED BY <1>1, <1>2, <1>3, <1>4, <1>6, <2>1, SpaceWritten
<1>7. CASE unmarked' = unmarked /\ x.pc = "drop" /\ x.op = "revoke" /\ Tell(c, <<u>>, "left")
  <2>1. u \in Persons
    BY <1>1, <1>7, CallAt DEF SoundCall, Sound
  <2>2. Noted(h)' \/ marks[h] = "new"
    BY <1>1, <1>2, <1>7, <2>1, FormerTold
  <2>3. PassedOver(c)' /\ SendNoted(c)' /\ waits' = waits /\ \A d \in Calls \ {c} : calls'[d] = calls[d]
    BY <1>7, <2>1, OwnerTold
  <2> QED BY <1>1, <1>2, <1>3, <1>4, <1>7, <2>2, <2>3, SpaceWritten
<1>8. CASE Close(c) /\ UNCHANGED <<guests, pending, unmarked>>
  <2>1. ToMark(calls[c]) = {} /\ UNCHANGED tables
    BY <1>3, <1>8, NoneToMark DEF tables
  <2> QED BY <1>3, <1>8, <2>1, CloseReport, QuietReport
<1>9. Untold(c) \/ (unmarked' = unmarked /\ (Tell(c, <<h>>, "mark") \/ Tell(c, <<h>>, "left")))
      \/ (unmarked' = unmarked /\ x.pc = "drop" /\ x.op = "revoke" /\ Tell(c, <<u>>, "left"))
      \/ (Close(c) /\ UNCHANGED <<guests, pending, unmarked>>)
  BY <1>1 DEF PutInvitationUnguarded, JoinSpace, RemoveWrite, RevokeWrite
<1> QED BY <1>5, <1>6, <1>7, <1>8, <1>9

\* A space that changes hands is a matter of the two owners.
LEMMA HandOver ==
  ASSUME PlansTypes, PlansTypes', ReportInv, NEW c \in Calls, NEW s \in Spaces, NEW u \in Persons, NEW g, holder[s] = g,
         holder' = [holder EXCEPT ![s] = u], \A r \in Spaces \ {s} : guests'[r] = guests[r],
         UNCHANGED <<idx, pending, marks, ats, due, told, worker, unmarked, waits>>,
         \A d \in Calls \ {c} : calls'[d] = calls[d], calls[c].pc = "write",
         calls'[c].pc \in {"mark", "decrement"}, Noted(u)', g = NoPerson \/ Noted(g)'
  PROVE  ReportInv'
<1>1. /\ holder \in [Spaces -> Persons \cup {NoPerson}] /\ holder' \in [Spaces -> Persons \cup {NoPerson}]
      /\ NoPerson \notin Persons /\ ats \subseteq Persons \X Spaces \X Persons
  BY SpacePlansAssumption DEF PlansTypes, PlansTypeOK
<1>2. ToMark(calls[c]) = {}
  BY NoneToMark DEF Telling
<1>3. PassedOver(c)' /\ SendNoted(c)'
  BY DEF PassedOver, SendNoted, Inviting
<1>4. \A r \in Spaces : \A w \in Persons : holder'[r] = w /\ holder[r] # w => Noted(w)'
  BY <1>1
<1>5. \A r \in Spaces : holder[r] # NoPerson => holder'[r] # NoPerson
  BY <1>1
<1>6. ASSUME NEW w \in Persons, w # g, w # u PROVE Kept(w)
  <2>1. \A r \in Spaces : holder'[r] = w <=> holder[r] = w
    BY <1>1, <1>6
  <2>2. \A r \in Spaces : holder[r] = w => guests'[r] = guests[r] /\ pending'[r] = pending[r]
    BY <1>6
  <2>3. TrueLevels(w)' = TrueLevels(w)
    BY <2>1, <2>2, OtherLevels
  <2>4. \A r \in ats : r[2] \in Spaces
    BY <1>1
  <2>5. AtOwed(w) => AtOwed(w)'
    BY <2>1, <2>4 DEF AtOwed
  <2> QED BY <2>3, <2>5 DEF Kept
<1>7. \A w \in Persons : Kept(w) \/ Owed(w)'
  BY <1>1, <1>6 DEF Owed
<1> QED BY <1>2, <1>3, <1>4, <1>5, <1>7, CallReport

LEMMA GuardedWriteReport ==
  ASSUME PlansTypes, PlansTypes', ReportInv, NEW c \in Calls, CreateWithOwnerGuarded(c) \/ TransferOwnershipGuarded(c)
  PROVE  ReportInv'
<1>1. PICK x, s, u, g : x = calls[c] /\ s = x.s /\ u = x.u /\ g = x.g
  BY SMTT(20)
<1>2. /\ x.pc = "write" /\ x.op \in {"create", "transfer"} /\ x \in CallRecord /\ s \in Spaces /\ u \in Persons
      /\ calls \in [Calls -> CallRecord] /\ guests \in [Spaces -> SUBSET Persons]
  BY <1>1, CallAt
     DEF CreateWithOwnerGuarded, TransferOwnershipGuarded, SoundCall, Sound, Guarding, PlansTypes, PlansTypeOK
<1>3. UNCHANGED <<idx, pending, marks, ats, due, told, worker, unmarked>>
  BY DEF CreateWithOwnerGuarded, TransferOwnershipGuarded
<1>4. CASE x.op = "create" /\ holder' = [holder EXCEPT ![s] = u] /\ Tell(c, <<u>>, "mark") /\ guests' = guests
  <2>1. holder[s] = NoPerson
    BY <1>1, <1>2, <1>4, CallAt DEF SoundCall, Sound, Guarding
  <2>2. Noted(u)' /\ waits' = waits /\ \A d \in Calls \ {c} : calls'[d] = calls[d]
    BY <1>2, <1>4, OwnerTold
  <2>3. calls'[c].pc = "mark"
    BY <1>2, <1>4 DEF Tell, CallRecord
  <2> QED BY <1>1, <1>2, <1>3, <1>4, <2>1, <2>2, <2>3, HandOver
<1>5. CASE /\ x.op = "transfer" /\ holder[s] = g /\ holder' = [holder EXCEPT ![s] = u]
           /\ guests' = [guests EXCEPT ![s] = (@ \ {u}) \cup {g}] /\ Tell(c, <<g, u>>, "decrement")
  <2>1. /\ calls'[c].pc = "decrement" /\ calls'[c].tell = <<g, u>> /\ waits' = waits
        /\ \A d \in Calls \ {c} : calls'[d] = calls[d]
    BY <1>2, <1>5 DEF Tell, CallRecord
  <2>2. PICK y : y = calls'[c]
    OBVIOUS
  <2>3. ToMark(y) = {g, u}
    BY <2>1, <2>2, ToMarkOf
  <2>4. Noted(u)' /\ Noted(g)'
    BY <2>2, <2>3 DEF Noted
  <2>5. \A r \in Spaces \ {s} : guests'[r] = guests[r]
    BY <1>2, <1>5
  <2> QED BY <1>1, <1>2, <1>3, <1>5, <2>1, <2>4, <2>5, HandOver
<1>6. CASE (Close(c) \/ Retry(c, "owned")) /\ UNCHANGED <<holder, guests>>
  <2>1. ToMark(calls[c]) = {} /\ UNCHANGED tables
    BY <1>1, <1>2, <1>3, <1>6, NoneToMark DEF tables, Telling
  <2>2. CASE Close(c)
    BY <1>3, <2>1, <2>2, CloseReport, QuietReport
  <2>3. CASE ~Close(c)
    <3>1. calls'[c].pc = "owned" /\ waits' = waits /\ \A d \in Calls \ {c} : calls'[d] = calls[d]
      BY <1>2, <1>6, <2>3 DEF Retry, CallRecord
    <3>2. PassedOver(c)' /\ SendNoted(c)'
      BY <3>1 DEF PassedOver, SendNoted, Inviting
    <3> QED BY <1>3, <2>1, <3>1, <3>2, QuietReport
  <2> QED BY <2>2, <2>3
<1>7. CASE CreateWithOwnerGuarded(c)
  BY <1>1, <1>4, <1>6, <1>7 DEF CreateWithOwnerGuarded
<1>8. CASE TransferOwnershipGuarded(c)
  BY <1>1, <1>5, <1>6, <1>8 DEF TransferOwnershipGuarded
<1> QED BY <1>7, <1>8

LEMMA DecrementReport ==
  ASSUME PlansTypes, PlansTypes', ReportInv, NEW c \in Calls, DecrementSpaceCounter(c) \/ DecrementPeopleCounter(c)
  PROVE  ReportInv'
<1>1. PICK x, y : x = calls[c] /\ y = calls'[c]
  OBVIOUS
<1>2. /\ x.pc \in {"decrement", "left"} /\ y.pc = "mark" /\ y.tell = x.tell /\ waits' = waits
      /\ \A d \in Calls \ {c} : calls'[d] = calls[d]
  BY <1>1 DEF DecrementSpaceCounter, DecrementPeopleCounter, Move, PlansTypes, PlansTypeOK, CallRecord
<1>3. UNCHANGED <<tables, marks, told, worker, ats, unmarked>> /\ due \subseteq due'
  BY DEF DecrementSpaceCounter, DecrementPeopleCounter
<1>4. ToMark(x) = {x.tell[i] : i \in 1..Len(x.tell)} /\ ToMark(y) = {x.tell[i] : i \in 1..Len(x.tell)}
  BY <1>2, ToMarkSets
<1>5. \A u \in ToMark(calls[c]) : Noted(u)'
  BY <1>1, <1>4 DEF Noted
<1>6. PassedOver(c)' /\ SendNoted(c)'
  BY <1>1, <1>2 DEF PassedOver, SendNoted, Inviting
<1> QED BY <1>2, <1>3, <1>5, <1>6, QuietReport

LEMMA MarkReport ==
  ASSUME PlansTypes, PlansTypes', ReportInv, NEW c \in Calls, MarkNow(c)
  PROVE  ReportInv'
<1>1. PICK x, y, u : x = calls[c] /\ y = calls'[c] /\ u = Head(x.tell)
  OBVIOUS
<1>2. /\ x.pc = "mark" /\ y.pc = "count" /\ y.tell = x.tell /\ \A d \in Calls \ {c} : calls'[d] = calls[d]
  BY <1>1 DEF MarkNow, PlansTypes, PlansTypeOK, CallRecord
<1>3. u \in Persons /\ x.tell \in Tells /\ x.tell # <<>>
  BY <1>1, <1>2, FirstTold DEF Telling
<1>4. UNCHANGED <<holder, idx, guests, pending, told, worker, ats, due>>
  BY DEF MarkNow, tables
<1>5. marks \in [Persons -> {"none", "new", "read"}] /\ waits \in [Persons -> SUBSET (Spaces \cup Calls)]
  BY DEF PlansTypes, PlansTypeOK
<1>6. ToMark(x) = {u} \cup {x.tell[i] : i \in 2..Len(x.tell)} /\ ToMark(y) = {x.tell[i] : i \in 2..Len(x.tell)}
  BY <1>1, <1>2, <1>3, ToMarkSets, TellSets
<1>7. \A v \in ToMark(calls[c]) : v = u \/ Noted(v)'
  BY <1>1, <1>6 DEF Noted
<1>8. CASE /\ marks' = [marks EXCEPT ![u] = "new"] /\ waits' = [waits EXCEPT ![u] = Unsettled]
           /\ unmarked' = unmarked \ {u}
  <2>1. FreshRow(u) /\ waits'[u] = Unsettled
    BY <1>3, <1>5, <1>8 DEF FreshRow
  <2>2. \A v \in Persons \ {u} : waits'[v] = waits[v] /\ marks'[v] = marks[v]
    BY <1>3, <1>5, <1>8
  <2>3. WaitsNew'
    BY <2>1, <2>2 DEF FreshRow, ReportInv, WaitsNew
  <2>4. \A v \in Persons : Kept(v)
    BY <1>4 DEF Kept, TrueLevels, Truly, PeopleOf, AtOwed
  <2>5. c \in Unsettled
    BY <1>1, <1>2 DEF Unsettled
  <2>6. PassedOver(c)' /\ SendNoted(c)'
    BY <1>1, <1>2, <2>1, <2>5 DEF PassedOver, SendNoted, Inviting
  <2>7. \A v \in unmarked : v \in unmarked' \/ FreshRow(v)
    BY <1>8, <2>1
  <2>8. \A v \in Persons : \A z \in waits[v] : z \in waits'[v] \/ FreshRow(v)
    BY <2>1, <2>2
  <2>9. \A v \in Persons : marks'[v] = marks[v] \/ marks'[v] = "new"
    BY <2>1, <2>2 DEF FreshRow
  <2>10. \A v \in ToMark(calls[c]) : Noted(v)' \/ FreshRow(v)
    BY <1>7, <2>1
  <2>11. PICK T \in SUBSET Calls : T = {c}
    OBVIOUS
  <2>12. \A s \in Spaces : idx'[s] = idx[s] /\ holder'[s] = holder[s]
    BY <1>4
  <2> QED BY <1>2, <1>4, <2>3, <2>4, <2>6, <2>7, <2>8, <2>9, <2>10, <2>11, <2>12, ReportKept
<1>9. CASE unmarked' = unmarked \cup {u} /\ UNCHANGED <<marks, waits>>
  <2>1. \A v \in ToMark(calls[c]) : Noted(v)'
    BY <1>7, <1>9 DEF Noted
  <2>2. PassedOver(c)' /\ SendNoted(c)'
    BY <1>1, <1>2, <1>9 DEF PassedOver, SendNoted, Inviting
  <2> QED BY <1>2, <1>4, <1>9, <2>1, <2>2, QuietReport DEF tables
<1> QED BY <1>1, <1>8, <1>9 DEF MarkNow

LEMMA CountReport ==
  ASSUME PlansTypes, PlansTypes', ReportInv, NEW c \in Calls, CountLevels(c)
  PROVE  ReportInv'
<1>1. PICK x, y : x = calls[c] /\ y = calls'[c]
  OBVIOUS
<1>2. /\ x.pc = "count" /\ y.pc = "send" /\ y.tell = x.tell /\ \A d \in Calls \ {c} : calls'[d] = calls[d]
  BY <1>1 DEF CountLevels, PlansTypes, PlansTypeOK, CallRecord
<1>3. UNCHANGED <<tables, marks, waits, told, worker, ats, due, unmarked>>
  BY DEF CountLevels, queue
<1>4. ToMark(x) = {x.tell[i] : i \in 2..Len(x.tell)} /\ ToMark(y) = {x.tell[i] : i \in 2..Len(x.tell)}
  BY <1>2, ToMarkSets
<1>5. \A u \in ToMark(calls[c]) : Noted(u)'
  BY <1>1, <1>4 DEF Noted
<1>6. PassedOver(c)' /\ SendNoted(c)'
  BY <1>1, <1>2, <1>3 DEF ReportInv, PassedOver, SendNoted, Inviting
<1> QED BY <1>2, <1>3, <1>5, <1>6, QuietReport

LEMMA SendReport ==
  ASSUME PlansTypes, PlansTypes', ReportInv, NEW c \in Calls, ReportLevel(c)
  PROVE  ReportInv'
<1>1. PICK x, y, u : x = calls[c] /\ y = calls'[c] /\ u = Head(x.tell)
  OBVIOUS
<1>2. /\ x.pc = "send" /\ x.tell \in Tells /\ x.tell # <<>> /\ u \in Persons /\ calls \in [Calls -> CallRecord]
  BY <1>1, FirstTold DEF ReportLevel, Telling, PlansTypes, PlansTypeOK
<1>3. UNCHANGED <<holder, idx, guests, pending, marks, worker, ats, due, unmarked>>
  BY DEF ReportLevel, tables
<1>4. ToMark(x) = {x.tell[i] : i \in 2..Len(x.tell)}
  BY <1>2, ToMarkSets
<1>5. /\ \A d \in Calls \ {c} : calls'[d] = calls[d]
      /\ \A v \in Persons : waits'[v] = waits[v] \/ waits'[v] = waits[v] \ {c}
      /\ PassedOver(c)' /\ SendNoted(c)' /\ ToMark(x) \subseteq ToMark(y)
  <2>1. CASE Len(x.tell) > 1 /\ Tell(c, Tail(x.tell), "mark")
    <3>1. y.pc = "mark" /\ y.tell = Tail(x.tell) /\ waits' = waits /\ \A d \in Calls \ {c} : calls'[d] = calls[d]
      BY <1>1, <1>2, <2>1 DEF Tell, CallRecord
    <3>2. PassedOver(c)' /\ SendNoted(c)'
      BY <1>1, <3>1 DEF PassedOver, SendNoted, Inviting
    <3>3. PICK v \in Persons : Tail(x.tell) = <<v>> /\ x.tell[2] = v
      BY <1>2, <2>1, TellSeq
    <3>5. {x.tell[i] : i \in 2..Len(x.tell)} = {x.tell[2]}
      BY <1>2, <2>1, TellSets
    <3>6. y.tell = <<v>>
      BY <3>1, <3>3
    <3>7. ToMark(y) = {v}
      BY <3>1, <3>6, ToMarkOf
    <3>4. ToMark(y) = {v} /\ ToMark(x) = {v}
      BY <1>4, <3>3, <3>5, <3>7
    <3> QED BY <1>4, <3>1, <3>2, <3>4
  <2>2. CASE ~(Len(x.tell) > 1) /\ Move(c, "schedule")
    <3>1. y.pc = "schedule" /\ waits' = waits /\ \A d \in Calls \ {c} : calls'[d] = calls[d]
      BY <1>1, <1>2, <2>2 DEF Move, CallRecord
    <3>2. PassedOver(c)' /\ SendNoted(c)'
      BY <1>1, <3>1 DEF PassedOver, SendNoted, Inviting
    <3> QED BY <1>2, <1>4, <2>2, <3>1, <3>2, TellSets
  <2>3. CASE ~(Len(x.tell) > 1) /\ Close(c)
    BY <1>2, <1>4, <2>3, TellSets, CloseReport
  <2> QED BY <1>1, <2>1, <2>2, <2>3 DEF ReportLevel
<1>6. \A v \in ToMark(calls[c]) : Noted(v)'
  BY <1>1, <1>5 DEF Noted
<1>7. ASSUME NEW v \in Persons, v # u PROVE Kept(v)
  <2>1. told'[v] = told[v]
    BY <1>1, <1>2, <1>7 DEF ReportLevel, FailedReport, PlansTypes, PlansTypeOK
  <2> QED BY <1>3, <2>1 DEF Kept, TrueLevels, Truly, PeopleOf, AtOwed
<1>8. Owed(u)' \/ marks[u] = "new"
  <2>1. u \in unmarked \/ c \in waits[u]
    BY <1>1, <1>2 DEF ReportInv, SendNoted
  <2> QED BY <1>2, <1>3, <2>1 DEF ReportInv, WaitsNew, Owed, Noted
<1> QED BY <1>3, <1>5, <1>6, <1>7, <1>8, CallReport

LEMMA LastStepsReport ==
  ASSUME PlansTypes, PlansTypes', ReportInv, NEW c \in Calls, ScheduleLevels(c) \/ CallCrash(c)
  PROVE  ReportInv'
<1>1. Close(c) /\ UNCHANGED <<tables, marks, told, worker, due>> /\ ats \subseteq ats' /\ unmarked \subseteq unmarked'
  BY DEF ScheduleLevels, CallCrash
<1>2. \A u \in ToMark(calls[c]) : Noted(u)'
  BY NoneToMark DEF ScheduleLevels, CallCrash, Noted, Telling
<1> QED BY <1>1, <1>2, CloseReport, QuietReport

LEMMA CallStepReport ==
  ASSUME PlansTypes, PlansTypes', ReportInv, NEW c \in Calls, CallStep(c)
  PROVE  ReportInv'
BY GuardStepsReport, GuardedWriteReport, DecrementReport, InviteStepsReport, PutInvitationReport, PeopleWritesReport,
   MarkReport, CountReport, SendReport, LastStepsReport DEF CallStep

-----------------------------------------------------------------------------
(* Steps of the index, of time and of the worker *)

LEMMA IndexReport ==
  ASSUME PlansTypes, PlansTypes', ReportInv, NEW s \in Spaces, IndexCatchesUp(s)
  PROVE  ReportInv'
<1>1. UNCHANGED <<holder, guests, pending, marks, ats, due, told, calls, worker, unmarked>>
  BY DEF IndexCatchesUp
<1>2. \A r \in Spaces : idx'[r] = idx[r] \/ idx'[r] = holder'[r]
  BY DEF IndexCatchesUp, PlansTypes, PlansTypeOK
<1>3. \A u \in Persons : waits'[u] = waits[u] \ {s}
  BY DEF IndexCatchesUp
<1>4. idx'[s] = holder'[s]
  BY DEF IndexCatchesUp, PlansTypes, PlansTypeOK
<1>5. WaitsNew'
  BY <1>1, <1>3 DEF ReportInv, WaitsNew
<1>6. \A u \in Persons : Kept(u)
  BY <1>1 DEF Kept, TrueLevels, Truly, PeopleOf, AtOwed
<1>7. PICK T \in SUBSET Calls : T = {}
  OBVIOUS
<1> QED BY <1>1, <1>2, <1>3, <1>4, <1>5, <1>6, <1>7, ReportKept

LEMMA ExpireReport ==
  ASSUME PlansTypes, PlansTypes', ReportInv, NEW s \in Spaces, NEW g \in Persons, ExpireGuest(s, g)
  PROVE  ReportInv'
<1>1. PICK h : h = holder[s]
  OBVIOUS
<1>2. UNCHANGED <<holder, idx, guests, marks, waits, ats, due, told, calls, worker>>
  BY DEF ExpireGuest, queue
<1>3. /\ pending \in [Spaces -> SUBSET Persons] /\ g \in pending[s]
      /\ pending' = [pending EXCEPT ![s] = @ \ {g}] /\ h \in Persons
  BY <1>1 DEF ExpireGuest, PlansTypes, PlansTypeOK
<1>4. unmarked \subseteq unmarked'
  BY DEF ExpireGuest
<1>5. \A r \in Spaces \ {s} : guests'[r] = guests[r] /\ pending'[r] = pending[r]
  BY <1>2, <1>3
<1>6. Owed(h)'
  <2>1. CASE <<h, s, g>> \in ats
    <3>1. PICK r \in ats : r = <<h, s, g>>
      BY <2>1
    <3>2. r[1] = h /\ r[2] = s /\ r[3] = g /\ r \in ats' /\ holder'[s] = h /\ g \notin pending'[s]
      BY <1>1, <1>2, <1>3, <3>1
    <3> QED BY <3>2 DEF Owed, AtOwed
  <2>2. CASE <<h, s, g>> \notin ats
    BY <1>1, <2>2 DEF ExpireGuest, Owed, Noted
  <2> QED BY <2>1, <2>2
<1>7. \A w \in Persons : Kept(w) \/ Owed(w)'
  BY <1>1, <1>2, <1>5, <1>6, OthersKept
<1>8. WaitsNew'
  BY <1>2 DEF ReportInv, WaitsNew
<1>9. PICK T \in SUBSET Calls : T = {}
  OBVIOUS
<1> QED BY <1>2, <1>4, <1>7, <1>8, <1>9, ReportKept

LEMMA AtRowReport ==
  ASSUME PlansTypes, PlansTypes', ReportInv, NEW r \in ats, AtRowDue(r)
  PROVE  ReportInv'
<1>1. UNCHANGED <<holder, idx, guests, pending, marks, waits, told, calls, worker, unmarked>>
      /\ due' = due \cup {r} /\ ats' = ats \ {r} /\ r \notin due
  BY DEF AtRowDue, tables
<1>2. r # NowRow
  <2>1. r \in Persons \X Spaces \X Persons
    BY DEF PlansTypes, PlansTypeOK
  <2> QED BY <2>1 DEF NowRow
<1>3. worker.row = r => worker.pc = "idle"
  BY <1>1, <1>2 DEF ReportInv, WorkerSound
<1>4. DueOwed(r[1])'
  BY <1>1, <1>3 DEF DueOwed
<1>5. ASSUME NEW w \in Persons, w # r[1] PROVE Kept(w)
  <2>1. TrueLevels(w)' = TrueLevels(w)
    BY <1>1 DEF TrueLevels, Truly, PeopleOf
  <2>2. AtOwed(w) => AtOwed(w)'
    BY <1>1, <1>5 DEF AtOwed
  <2> QED BY <1>1, <2>1, <2>2 DEF Kept
<1>6. \A w \in Persons : Kept(w) \/ Owed(w)'
  BY <1>4, <1>5 DEF Owed
<1>7. WaitsNew'
  BY <1>1 DEF ReportInv, WaitsNew
<1>8. PICK T \in SUBSET Calls : T = {}
  OBVIOUS
<1> QED BY <1>1, <1>6, <1>7, <1>8, ReportKept

\* What no step of the worker touches.
WorkerLeaves == UNCHANGED <<holder, idx, guests, pending, waits, ats, calls, unmarked>>

LEMMA WorkerKeeps ==
  ASSUME ReportInv, WorkerLeaves
  PROVE  /\ \A u : (Noted(u)' <=> Noted(u)) /\ (AtOwed(u)' <=> AtOwed(u)) /\ TrueLevels(u)' = TrueLevels(u)
         /\ WaitsNew' /\ WorkerSound' /\ Covered' => ReportInv'
<1>1. \A u : (Noted(u)' <=> Noted(u)) /\ (AtOwed(u)' <=> AtOwed(u)) /\ TrueLevels(u)' = TrueLevels(u)
  BY DEF WorkerLeaves, Noted, AtOwed, TrueLevels, Truly, PeopleOf
<1>2. LagNoted'
  BY <1>1 DEF WorkerLeaves, ReportInv, LagNoted
<1>3. \A c \in Calls : PassedOver(c)' /\ SendNoted(c)'
  BY <1>1 DEF WorkerLeaves, ReportInv, PassedOver, SendNoted
<1> QED BY <1>1, <1>2, <1>3 DEF ReportInv

\* The worker lets go of a row that is still there.
LEMMA RestReport ==
  ASSUME PlansTypes, ReportInv, WorkerLeaves, UNCHANGED <<marks, due>>, worker.pc # "idle", worker' = Rest,
         \A w \in Persons : w # worker.u => told'[w] = told[w]
  PROVE  ReportInv'
<1>1. worker'.pc = "idle"
  BY PlansConstants
<1>2. \A w : DueOwed(w) => DueOwed(w)'
  BY <1>1 DEF DueOwed
<1>3. \A w : Owed(w) => Owed(w)'
  BY <1>2, WorkerKeeps DEF Owed
<1>4. WaitsNew' /\ WorkerSound'
  BY <1>1 DEF ReportInv, WaitsNew, WorkerSound, WorkerLeaves
<1>5. Covered'
  <2> SUFFICES ASSUME NEW w \in Persons PROVE Owed(w)' \/ marks'[w] # "none" \/ told'[w] = TrueLevels(w)'
    BY DEF Covered
  <2>1. CASE w = worker.u
    <3>1. (worker.row = NowRow /\ marks[w] # "none") \/ (worker.row \in due /\ worker.row[1] = w)
      BY <2>1 DEF ReportInv, WorkerSound
    <3>2. worker.row \in due /\ worker.row[1] = w => DueOwed(w)'
      BY <1>1 DEF DueOwed
    <3> QED BY <3>1, <3>2 DEF Owed
  <2>2. CASE w # worker.u
    BY <1>3, <2>2, WorkerKeeps DEF ReportInv, Covered
  <2> QED BY <2>1, <2>2
<1> QED BY <1>4, <1>5, WorkerKeeps

\* The drain between its report and the deletion of the row.
LEMMA OnwardReport ==
  ASSUME PlansTypes, ReportInv, WorkerLeaves, UNCHANGED <<marks, due, told>>, worker'.u = worker.u,
         worker'.row = worker.row,
         worker.pc \in {"owned", "counter", "reconcile"}, worker'.pc \in {"counter", "reconcile", "done"}
  PROVE  ReportInv'
<1>1. \A w : DueOwed(w)' <=> DueOwed(w)
  BY DEF DueOwed
<1>2. \A w : Owed(w)' <=> Owed(w)
  BY <1>1, WorkerKeeps DEF Owed
<1>3. PICK u, l : u = worker.u /\ l = told[u]
  OBVIOUS
<1>4. Sure(u, l)'
  <2>1. Sure(u, l)
    BY <1>3 DEF ReportInv, WorkerSound
  <2> QED BY <1>2, <2>1, WorkerKeeps DEF Sure
<1>5. WorkerSound'
  BY <1>3, <1>4 DEF ReportInv, WorkerSound
<1>6. Covered'
  BY <1>2, WorkerKeeps DEF ReportInv, Covered
<1> QED BY <1>5, <1>6, WorkerKeeps DEF ReportInv, WaitsNew, WorkerLeaves

LEMMA WorkerReports ==
  ASSUME PlansTypes, PlansTypes', ReportInv, WorkerStep
  PROVE  ReportInv'
<1>1. WorkerLeaves
  BY DEF WorkerStep, ProcessNow, ProcessAt, WorkerCount, WorkerReport, WorkerOwned, WorkerCounter, ReconcileSpaceCounter,
         Done, WorkerCrash, WorkerLeaves, tables, queue
<1>2. /\ worker \in WorkerRecord /\ marks \in [Persons -> {"none", "new", "read"}] /\ due \subseteq AtRows
      /\ told \in [Persons -> LevelsType] /\ (worker.pc # "idle" => worker.u \in Persons)
  BY DEF PlansTypes, PlansTypeOK
<1>3. \A r \in AtRows : r # NowRow
  BY DEF AtRows, NowRow
<1>4. \A r \in due : r = worker.row /\ worker.pc # "idle" => r[1] = worker.u
  BY <1>2, <1>3 DEF ReportInv, WorkerSound
<1>5. ASSUME NEW u \in Persons, ProcessNow(u) PROVE ReportInv'
  <2>1. /\ worker.pc = "idle" /\ worker'.pc = "count" /\ worker'.u = u /\ worker'.row = NowRow /\ waits[u] = {}
        /\ marks' = [marks EXCEPT ![u] = "read"] /\ UNCHANGED <<due, told>>
    BY <1>5 DEF ProcessNow, Rest, Settled
  <2>2. \A w \in Persons : Owed(w) => Owed(w)'
    BY <2>1, WorkerKeeps, <1>1 DEF Owed, DueOwed
  <2>3. marks'[u] = "read" /\ \A w \in Persons \ {u} : marks'[w] = marks[w]
    BY <1>2, <2>1
  <2>4. WaitsNew' /\ WorkerSound'
    BY <1>1, <2>1, <2>3 DEF ReportInv, WaitsNew, WorkerSound, WorkerLeaves
  <2>5. Covered'
    BY <1>1, <2>1, <2>2, <2>3, WorkerKeeps DEF ReportInv, Covered
  <2> QED BY <1>1, <2>4, <2>5, WorkerKeeps
<1>6. ASSUME NEW r \in due, ProcessAt(r) PROVE ReportInv'
  <2>1. /\ worker.pc = "idle" /\ worker'.pc = "count" /\ worker'.u = r[1] /\ worker'.row = r
        /\ UNCHANGED <<marks, due, told>>
    BY <1>6 DEF ProcessAt, Rest, queue
  <2>2. \A w \in Persons : Owed(w) => Owed(w)'
    BY <1>1, <2>1, WorkerKeeps DEF Owed, DueOwed
  <2>3. WaitsNew' /\ WorkerSound'
    BY <1>1, <2>1 DEF ReportInv, WaitsNew, WorkerSound, WorkerLeaves
  <2>4. Covered'
    BY <1>1, <2>1, <2>2, WorkerKeeps DEF ReportInv, Covered
  <2> QED BY <1>1, <2>3, <2>4, WorkerKeeps
<1>7. CASE WorkerCount
  <2>1. PICK u, l : u = worker.u /\ l = Levels(u)
    OBVIOUS
  <2>2. /\ worker.pc = "count" /\ worker'.pc = "send" /\ worker'.u = u /\ worker'.row = worker.row
        /\ worker'.counted = l /\ UNCHANGED <<marks, due, told>> /\ u \in Persons
    BY <1>2, <1>7, <2>1 DEF WorkerCount, WorkerRecord, queue
  <2>3. \A w \in Persons \ {u} : Owed(w) => Owed(w)'
    <3>1. \A w \in Persons \ {u} : DueOwed(w) => DueOwed(w)'
      BY <1>4, <2>1, <2>2 DEF DueOwed
    <3> QED BY <1>1, <3>1, WorkerKeeps DEF Owed
  <2>4. Sure(u, l)'
    <3>1. CASE \E s \in Spaces : holder[s] = u /\ idx[s] # u
      <4>1. PICK s \in Spaces : holder[s] = u /\ idx[s] # u
        BY <3>1
      <4>2. Noted(u) \/ waits[u] # {}
        BY <4>1 DEF ReportInv, LagNoted
      <4>3. Noted(u)' \/ marks'[u] = "new"
        BY <1>1, <2>2, <4>2, WorkerKeeps DEF ReportInv, WaitsNew
      <4> QED BY <4>3 DEF Sure, Owed
    <3>2. CASE \A s \in Spaces : holder[s] = u => idx[s] = u
      <4>1. OwnedSpaces(u) = Truly(u)
        BY <3>2 DEF OwnedSpaces, Truly
      <4>2. l = TrueLevels(u)
        BY <2>1, <4>1 DEF Levels, TrueLevels
      <4> QED BY <1>1, <4>2, WorkerKeeps DEF Sure
    <3> QED BY <3>1, <3>2
  <2>5. WaitsNew' /\ WorkerSound'
    BY <1>1, <2>1, <2>2, <2>4 DEF ReportInv, WaitsNew, WorkerSound, WorkerLeaves
  <2>6. Covered'
    BY <1>1, <2>1, <2>2, <2>3, WorkerKeeps DEF ReportInv, Covered
  <2> QED BY <1>1, <2>5, <2>6, WorkerKeeps
<1>8. CASE WorkerReport
  <2>1. PICK u, l : u = worker.u /\ l = worker.counted
    OBVIOUS
  <2>2. worker.pc = "send" /\ UNCHANGED <<marks, due>> /\ u \in Persons
    BY <1>2, <1>8, <2>1 DEF WorkerReport, queue
  <2>3. CASE worker' = Rest /\ FailedReport(u, l)
    <3>1. \A w \in Persons : w # u => told'[w] = told[w]
      BY <1>2, <2>2, <2>3 DEF FailedReport
    <3> QED BY <1>1, <2>1, <2>2, <2>3, <3>1, RestReport
  <2>4. CASE told' = [told EXCEPT ![u] = l] /\ worker' = [worker EXCEPT !.pc = "owned"]
    <3>1. /\ worker'.pc = "owned" /\ worker'.u = u /\ worker'.row = worker.row
          /\ told'[u] = l /\ \A w \in Persons \ {u} : told'[w] = told[w]
      BY <1>2, <2>1, <2>2, <2>4 DEF WorkerRecord
    <3>2. \A w : Owed(w)' <=> Owed(w)
      BY <1>1, <2>2, <3>1, WorkerKeeps DEF Owed, DueOwed
    <3>3. Sure(u, l)'
      <4>1. Sure(u, l)
        BY <2>1, <2>2 DEF ReportInv, WorkerSound
      <4> QED BY <1>1, <2>2, <3>2, <4>1, WorkerKeeps DEF Sure
    <3>4. WaitsNew' /\ WorkerSound'
      BY <1>1, <2>1, <2>2, <3>1, <3>3 DEF ReportInv, WaitsNew, WorkerSound, WorkerLeaves
    <3>5. Covered'
      BY <1>1, <2>1, <2>2, <3>1, <3>2, WorkerKeeps DEF ReportInv, Covered
    <3> QED BY <1>1, <3>4, <3>5, WorkerKeeps
  <2> QED BY <1>8, <2>1, <2>3, <2>4 DEF WorkerReport
<1>9. CASE WorkerOwned \/ WorkerCounter \/ ReconcileSpaceCounter
  <2>1. UNCHANGED <<marks, due, told>>
    BY <1>9 DEF WorkerOwned, WorkerCounter, ReconcileSpaceCounter, queue
  <2>2. /\ worker'.u = worker.u /\ worker'.row = worker.row /\ worker.pc \in {"owned", "counter", "reconcile"}
        /\ worker'.pc \in {"counter", "reconcile", "done"}
    BY <1>2, <1>9 DEF WorkerOwned, WorkerCounter, ReconcileSpaceCounter, WorkerRecord
  <2> QED BY <1>1, <2>1, <2>2, OnwardReport
<1>10. CASE Done
  <2>1. PICK u : u = worker.u
    OBVIOUS
  <2>2. worker.pc = "done" /\ worker' = Rest /\ worker'.pc = "idle" /\ told' = told /\ u \in Persons /\ Sure(u, told[u])
    BY <1>2, <1>10, <2>1, PlansConstants DEF Done, ReportInv, WorkerSound
  <2>3. \A w : Owed(w) => Owed(w)'
    <3>1. \A w : DueOwed(w) => DueOwed(w)'
      BY <1>10, <2>2 DEF Done, DueOwed
    <3> QED BY <1>1, <3>1, WorkerKeeps DEF Owed
  <2>4. /\ \A w \in Persons \ {u} : marks'[w] = marks[w]
        /\ marks[u] = "new" => marks'[u] = "new"
    BY <1>2, <1>10, <2>1, <2>2 DEF Done, StillRead
  <2>5. WaitsNew' /\ WorkerSound'
    BY <1>1, <2>2, <2>4 DEF ReportInv, WaitsNew, WorkerSound, WorkerLeaves
  <2>6. Covered'
    BY <1>1, <2>1, <2>2, <2>3, <2>4, WorkerKeeps DEF ReportInv, Covered, Sure
  <2> QED BY <1>1, <2>5, <2>6, WorkerKeeps
<1>11. CASE WorkerCrash
  BY <1>1, <1>11, RestReport DEF WorkerCrash, queue
<1> QED BY <1>5, <1>6, <1>7, <1>8, <1>9, <1>10, <1>11 DEF WorkerStep

LEMMA PlansInitReport == PlansInit => ReportInv
<1> SUFFICES ASSUME PlansInit PROVE ReportInv
  OBVIOUS
<1>1. PICK old \in SUBSET Spaces, u, v \in Persons :
        /\ Cardinality(old) <= 1
        /\ holder = [s \in Spaces |-> IF s \in old THEN u ELSE NoPerson]
        /\ guests = [s \in Spaces |-> IF s \in old THEN {v} \ {u} ELSE {}]
        /\ told = [w \in Persons |-> IF w = u /\ old # {}
                                     THEN [spaces |-> 1, people |-> Cardinality({v} \ {u})] ELSE NoLevels]
  BY DEF PlansInit
<1>2. /\ idx = holder /\ pending = [s \in Spaces |-> {}] /\ calls = [c \in Calls |-> Free] /\ worker = Rest
      /\ waits = [w \in Persons |-> {}]
  BY DEF PlansInit
<1>3. u # NoPerson /\ NoPerson \notin Persons
  BY SpacePlansAssumption
<1>4. ASSUME NEW w \in Persons, Truly(w) = {} PROVE TrueLevels(w) = NoLevels
  <2>1. PeopleOf({}) = {}
    BY DEF PeopleOf
  <2> QED BY <1>4, <2>1, FS_EmptySet DEF TrueLevels, NoLevels
<1>5. ASSUME NEW w \in Persons PROVE told[w] = TrueLevels(w)
  <2>1. CASE w # u \/ old = {}
    <3>1. Truly(w) = {}
      BY <1>1, <1>3, <2>1 DEF Truly
    <3> QED BY <1>1, <1>4, <2>1, <3>1
  <2>2. CASE w = u /\ old # {}
    <3>1. PICK s \in Spaces : s \in old
      BY <2>2
    <3>2. old = {s}
      <4>1. IsFiniteSet(old) /\ IsFiniteSet(old \ {s}) /\ Cardinality(old) \in Nat /\ Cardinality(old \ {s}) \in Nat
        BY SpacePlansAssumption, FS_Subset, FS_CardinalityType
      <4>2. Cardinality(old \ {s}) = Cardinality(old) - 1
        BY <3>1, <4>1, FS_RemoveElement
      <4>3. Cardinality(old \ {s}) = 0
        BY <1>1, <4>1, <4>2
      <4>4. old \ {s} = {}
        BY <4>1, <4>3, FS_EmptySet
      <4> QED BY <3>1, <4>4
    <3>3. Truly(u) = {s} /\ Cardinality({s}) = 1
      BY <1>1, <1>3, <3>1, <3>2, FS_Singleton DEF Truly
    <3>4. guests[s] \cup pending[s] = {v} \ {u}
      BY <1>1, <1>2, <3>1
    <3>5. PeopleOf({s}) = {v} \ {u}
      BY <3>4 DEF PeopleOf
    <3> QED BY <1>1, <2>2, <3>3, <3>5 DEF TrueLevels
  <2> QED BY <2>1, <2>2
<1>6. WaitsNew /\ LagNoted /\ Covered
  BY <1>2, <1>5 DEF WaitsNew, LagNoted, Covered
<1>7. WorkerSound
  BY <1>2, PlansConstants DEF WorkerSound
<1>8. \A c \in Calls : PassedOver(c) /\ SendNoted(c)
  BY <1>2, PlansConstants DEF PassedOver, SendNoted, Inviting
<1> QED BY <1>6, <1>7, <1>8 DEF ReportInv

LEMMA PlansNextReport ==
  ASSUME PlansTypes, PlansTypes', ReportInv, [PlansNext]_pVars
  PROVE  ReportInv'
<1>1. CASE UNCHANGED pVars
  <2>1. WorkerLeaves
    BY <1>1 DEF pVars, WorkerLeaves
  <2>2. UNCHANGED <<marks, due, told, worker>>
    BY <1>1 DEF pVars
  <2>3. \A u : Owed(u)' <=> Owed(u)
    BY <2>1, <2>2, WorkerKeeps DEF Owed, DueOwed
  <2>4. WaitsNew' /\ Covered'
    BY <2>1, <2>2, <2>3, WorkerKeeps DEF ReportInv, WaitsNew, Covered, WorkerLeaves
  <2>5. WorkerSound'
    BY <2>1, <2>2, <2>3, WorkerKeeps DEF ReportInv, WorkerSound, Sure
  <2> QED BY <2>1, <2>4, <2>5, WorkerKeeps
<1>2. ASSUME NEW c \in Calls, NEW u \in Persons, NEW s \in Spaces,
             CreateSpace(c, u, s) \/ TransferSpace(c, s, u) \/ InviteGuest(c, s, u)
             \/ AcceptGuest(c, s, u) \/ RemoveGuest(c, s, u) \/ RevokeGuest(c, s, u)
      PROVE  ReportInv'
  BY <1>2, ArriveShape, ArriveReport
<1> QED BY <1>1, <1>2, CallStepReport, IndexReport, ExpireReport, AtRowReport, WorkerReports DEF PlansNext

\* Once no request, due row or drain is left, billing holds the levels of everybody
\* whose last change could be marked, whatever the index, a failed report, a drain
\* that overlapped a change or a crash of the worker did before (LevelsChanged,
\* ScheduleLevels and ProcessDue).
THEOREM ReportedCorrect == PlansSpec => []QuietMeansReported
<1>1. PlansTypes /\ ReportInv => QuietMeansReported
  <2> SUFFICES ASSUME PlansTypes, ReportInv, worker.pc = "idle", due = {}, \A r \in ats : r[3] \in pending[r[2]],
                      \A c \in Calls : calls[c].pc = "idle", NEW u \in Persons, marks[u] = "none", u \notin unmarked
               PROVE  told[u] = TrueLevels(u)
    BY DEF QuietMeansReported
  <2>1. \A c \in Calls : ToMark(calls[c]) = {}
    BY NoneToMark DEF Telling
  <2>2. ~Owed(u)
    BY <2>1 DEF Owed, Noted, AtOwed, DueOwed
  <2> QED BY <2>2 DEF ReportInv, Covered
<1>2. PlansTypes /\ PlansTypes' /\ ReportInv /\ [PlansNext]_pVars => ReportInv'
  BY PlansNextReport
<1> QED BY <1>1, <1>2, PlansInitTypes, PlansNextTypes, PlansInitReport, PTL DEF PlansSpec
=============================================================================
