----------------------------- MODULE Workspaces -----------------------------
(***************************************************************************)
(* One workspace: its members and their roles, invitations, the companies  *)
(* it acts for, and its erasure with the account of its owner              *)
(* (api/internal/domain/organization and company, their handlers, and the  *)
(* ownership check and purge of domain/deletion).                          *)
(*                                                                         *)
(* A request reads membership rows, decides, and writes; others run        *)
(* between two steps.  The role of the caller that the middleware reads is *)
(* read again by the service, so the two reads are one step.  An address   *)
(* belongs to one person, and is written as that person.  Plan limits are  *)
(* in SpacePlans.                                                          *)
(***************************************************************************)
EXTENDS Integers, FiniteSets

CONSTANTS
  People,       \* accounts
  Firms,        \* ids of companies registered under one and the same tax id
  Requests,     \* requests in progress
  Scopes,       \* entry points and how many invitations; a behaviour exercises one
  MaxInvites    \* bound of the invitation tokens generated

NoOne == "no one"
NoFirm == "no firm"
None == "none"

ASSUME WorkspacesAssumption ==
  /\ MaxInvites \in Nat /\ \A x \in Scopes : x.invites \in 0..MaxInvites
  /\ NoOne \notin People /\ NoFirm \notin Firms

VARIABLES
  scope,        \* the entry points in use
  org,          \* the META row
  roles,        \* person -> role of the MEMBER row, None without one
  invites,      \* person -> INVITE row of that person's address
  nextInvite,   \* the next invitation token; a token is its number
  firms,        \* COMPANY rows
  taxLock,      \* the company the TAXID row names
  actors,       \* ACTOR rows, <<company, person>>
  reqs,         \* request -> where it is and what it read
  leaving,      \* the person whose account is being deleted: locked, no new requests
  erasure,      \* how far the deletion of that account is
  \* What happened, for the properties only:
  owners,       \* everyone who has owned the workspace
  blessed,      \* whom somebody who owned the workspace made admin
  spent,        \* token -> how often it was turned into a membership
  lost          \* members other than the leaver whose workspace was erased

wVars == <<scope, org, roles, invites, nextInvite, firms, taxLock, actors, reqs, leaving, erasure,
           owners, blessed, spent, lost>>
wSeen == <<owners, blessed, spent, lost>>
companyRows == <<firms, taxLock, actors>>
inviteRows == <<invites, nextInvite>>
deletion == <<scope, leaving, erasure>>

-----------------------------------------------------------------------------
(* Roles and kinds *)

Ladder == {"viewer", "member", "admin", "owner"}
Kinds == {"organization", "personal"}

\* A role nobody planned, and no role at all, rank below every real one.
RoleRank(r) == CASE r = "viewer" -> 1 [] r = "member" -> 2 [] r = "admin" -> 3
                 [] r = "owner" -> 4 [] OTHER -> 0

IsGrantableRole(r) == r \in {"admin", "member", "viewer"}

\* Mutant: acting on a peer.
BugOutranks(r, other) == RoleRank(r) >= RoleRank(other) /\ RoleRank(r) > 0
Outranks(r, other) == RoleRank(r) > RoleRank(other) /\ RoleRank(r) > 0
AtLeast(r, floor) == RoleRank(r) >= RoleRank(floor) /\ RoleRank(r) > 0

IsGrantableRoleIn(kind, r) == IsGrantableRole(r) /\ (kind = "personal" => r # "admin")

-----------------------------------------------------------------------------
(* State *)

NoOrg == [row |-> FALSE, kind |-> "organization", owner |-> NoOne]
Organization == [row: BOOLEAN, kind: Kinds, owner: People \cup {NoOne}]

NoInvite == [token |-> 0, role |-> None, by |-> NoOne, firms |-> FALSE]
Invitation == [token: 0..MaxInvites, role: Ladder \cup {None}, by: People \cup {NoOne},
               firms: BOOLEAN]    \* whether it names the companies too

Steps == {"idle", "setTarget", "setWrite", "removeActor", "removeWrite", "transferTarget",
          "transferWrite", "inviteWrite", "revokeWrite", "acceptWrite", "grant",
          "registerWrite", "actorWrite"}
Idle == [pc |-> "idle", actor |-> NoOne, target |-> NoOne, role |-> None, read |-> None,
         inv |-> NoInvite, firm |-> NoFirm]
Request == [pc: Steps, actor: People \cup {NoOne}, target: People \cup {NoOne},
            role: Ladder \cup {None},    \* asked for
            read: Ladder \cup {None},    \* the role read before this step
            inv: Invitation, firm: Firms \cup {NoFirm}]

Erasures == {"none", "locked", "frozen", "companies", "members", "invitations", "done"}

WorkspaceTypeOK ==
  /\ scope \in Scopes
  /\ org \in Organization
  /\ roles \in [People -> Ladder \cup {None}]
  /\ invites \in [People -> Invitation] /\ nextInvite \in 1..(MaxInvites + 1)
  /\ firms \subseteq Firms /\ taxLock \in Firms \cup {NoFirm}
  /\ actors \subseteq Firms \X People
  /\ reqs \in [Requests -> Request]
  /\ leaving \in People \cup {NoOne} /\ erasure \in Erasures
  /\ owners \subseteq People /\ blessed \subseteq People /\ lost \subseteq People
  /\ spent \in [1..MaxInvites -> Nat]

WorkspaceInit ==
  /\ scope \in Scopes
  /\ org = NoOrg
  /\ roles = [u \in People |-> None]
  /\ invites = [u \in People |-> NoInvite] /\ nextInvite = 1
  /\ firms = {} /\ taxLock = NoFirm /\ actors = {}
  /\ reqs = [q \in Requests |-> Idle]
  /\ leaving = NoOne /\ erasure = "none"
  /\ owners = {} /\ blessed = {} /\ lost = {}
  /\ spent = [t \in 1..MaxInvites |-> 0]

-----------------------------------------------------------------------------
(* Requests *)

Goto(q, pc) == reqs' = [reqs EXCEPT ![q].pc = pc]
Answer(q) == reqs' = [reqs EXCEPT ![q] = Idle]

\* RequireAuth and RequireOrgRole, then the service's own read of the caller's
\* role.  A locked account is refused.
RequireOrgRole(q, a, floor) ==
  /\ reqs[q].pc = "idle" /\ a # leaving
  /\ AtLeast(roles[a], floor)

Begin(q, pc, a, t, r) ==
  reqs' = [reqs EXCEPT ![q] = [Idle EXCEPT !.pc = pc, !.actor = a, !.target = t, !.role = r,
                                           !.read = roles[a]]]

\* requireGrantableIn lets a workspace that is gone pass; the membership decides.
RequireGrantableIn(r) == IsGrantableRole(r) /\ (org.row => IsGrantableRoleIn(org.kind, r))

-----------------------------------------------------------------------------
(* Creation, roles, removal and transfer *)

\* CreateWithOwner: both rows in one transaction.
CreateWithOwner(u, kind) ==
  /\ org = NoOrg /\ owners = {} /\ u # leaving
  /\ org' = [row |-> TRUE, kind |-> kind, owner |-> u]
  /\ roles' = [roles EXCEPT ![u] = "owner"]
  /\ owners' = {u}
  /\ UNCHANGED <<inviteRows, companyRows, reqs, deletion, blessed, spent, lost>>

SetRole(q, a, t, r) ==
  /\ RequireOrgRole(q, a, "admin")
  /\ RequireGrantableIn(r) /\ a # t
  /\ Begin(q, "setTarget", a, t, r)
  /\ UNCHANGED <<org, roles, inviteRows, companyRows, deletion, wSeen>>

SetRoleTarget(q) ==
  LET x == reqs[q] IN
  /\ x.pc = "setTarget"
  /\ IF roles[x.target] # None /\ Outranks(x.read, roles[x.target]) /\ Outranks(x.read, x.role)
     THEN Goto(q, "setWrite") ELSE Answer(q)
  /\ UNCHANGED <<org, roles, inviteRows, companyRows, deletion, wSeen>>

\* The condition of SetRole and of RemoveMembership: a row, and not the owner's.
BugNotOwner(t) == roles[t] # None
NotOwner(t) == roles[t] \notin {None, "owner"}

\* Somebody who owns or owned the workspace hands out admin.
Bless(a, t, r) ==
  blessed' = IF r = "admin" /\ a \in owners THEN blessed \cup {t} ELSE blessed

SetRoleWrite(q) ==
  LET x == reqs[q] IN
  /\ x.pc = "setWrite"
  /\ IF NotOwner(x.target)
     THEN /\ roles' = [roles EXCEPT ![x.target] = x.role]
          /\ Bless(x.actor, x.target, x.role)
     ELSE UNCHANGED <<roles, blessed>>
  /\ Answer(q)
  /\ UNCHANGED <<org, inviteRows, companyRows, deletion, owners, spent, lost>>

\* Remove reads the target first; leaving needs nothing else.
Remove(q, a, t) ==
  /\ RequireOrgRole(q, a, "viewer")
  /\ NotOwner(t)
  /\ reqs' = [reqs EXCEPT ![q] = [Idle EXCEPT !.actor = a, !.target = t, !.read = roles[t],
                                              !.pc = IF a = t THEN "removeWrite" ELSE "removeActor"]]
  /\ UNCHANGED <<org, roles, inviteRows, companyRows, deletion, wSeen>>

RemoveActor(q) ==
  LET x == reqs[q] IN
  /\ x.pc = "removeActor"
  /\ IF AtLeast(roles[x.actor], "admin") /\ Outranks(roles[x.actor], x.read)
     THEN Goto(q, "removeWrite") ELSE Answer(q)
  /\ UNCHANGED <<org, roles, inviteRows, companyRows, deletion, wSeen>>

RemoveMembership(q) ==
  /\ reqs[q].pc = "removeWrite"
  /\ roles' = IF NotOwner(reqs[q].target) THEN [roles EXCEPT ![reqs[q].target] = None] ELSE roles
  /\ Answer(q)
  /\ UNCHANGED <<org, inviteRows, companyRows, deletion, wSeen>>

Transfer(q, a, t) ==
  /\ RequireOrgRole(q, a, "owner") /\ a # t
  /\ Begin(q, "transferTarget", a, t, None)
  /\ UNCHANGED <<org, roles, inviteRows, companyRows, deletion, wSeen>>

\* A space goes only to somebody with full access.
TransferTarget(q) ==
  LET r == roles[reqs[q].target] IN
  /\ reqs[q].pc = "transferTarget"
  /\ IF r # None /\ org.row /\ (org.kind = "personal" => r = "member")
     THEN Goto(q, "transferWrite") ELSE Answer(q)
  /\ UNCHANGED <<org, roles, inviteRows, companyRows, deletion, wSeen>>

DemoteTo == IF org.kind = "personal" THEN "member" ELSE "admin"

\* The conditions of the three items of a transfer.
TransferAllowed(a, t) == roles[a] = "owner" /\ roles[t] \notin {None, "owner"} /\ org.row

TransferOwnership(q) ==
  LET a == reqs[q].actor  t == reqs[q].target IN
  /\ reqs[q].pc = "transferWrite"
  /\ IF TransferAllowed(a, t)
     THEN /\ roles' = [roles EXCEPT ![a] = DemoteTo, ![t] = "owner"]
          /\ org' = [org EXCEPT !.owner = t]
          /\ owners' = owners \cup {t}
     ELSE UNCHANGED <<roles, org, owners>>
  /\ Answer(q)
  /\ UNCHANGED <<inviteRows, companyRows, deletion, blessed, spent, lost>>

-----------------------------------------------------------------------------
(* Invitations *)

\* Inviting is granting: the reach of SetRole.
Invite(q, a, t, r, withFirms) ==
  /\ RequireOrgRole(q, a, "admin")
  /\ RequireGrantableIn(r) /\ Outranks(roles[a], r)
  /\ withFirms => ~(org.row /\ org.kind = "personal")
  /\ nextInvite <= scope.invites
  /\ reqs' = [reqs EXCEPT ![q] = [Idle EXCEPT !.pc = "inviteWrite", !.actor = a, !.target = t,
                !.inv = [token |-> nextInvite, role |-> r, by |-> a, firms |-> withFirms]]]
  /\ nextInvite' = nextInvite + 1
  /\ UNCHANGED <<org, roles, invites, companyRows, deletion, wSeen>>

\* A pending invitation of the same address is replaced.
PutInvitation(q) ==
  /\ reqs[q].pc = "inviteWrite"
  /\ invites' = [invites EXCEPT ![reqs[q].target] = reqs[q].inv]
  /\ Answer(q)
  /\ UNCHANGED <<org, roles, nextInvite, companyRows, deletion, wSeen>>

RevokeInvitation(q, a, t) ==
  /\ RequireOrgRole(q, a, "admin")
  /\ Begin(q, "revokeWrite", a, t, None)
  /\ UNCHANGED <<org, roles, inviteRows, companyRows, deletion, wSeen>>

DeleteInvitation(q) ==
  /\ reqs[q].pc = "revokeWrite"
  /\ invites' = [invites EXCEPT ![reqs[q].target] = NoInvite]
  /\ Answer(q)
  /\ UNCHANGED <<org, roles, nextInvite, companyRows, deletion, wSeen>>

\* The person whose address it is presents the token; the index may answer
\* with a row that has since gone, which is a read that came earlier.
Accept(q, u) ==
  /\ reqs[q].pc = "idle" /\ u # leaving
  /\ invites[u] # NoInvite
  /\ reqs' = [reqs EXCEPT ![q] = [Idle EXCEPT !.pc = "acceptWrite", !.actor = u, !.inv = invites[u]]]
  /\ UNCHANGED <<org, roles, inviteRows, companyRows, deletion, wSeen>>

\* DynamoDB drops an expired invitation; Accept refuses it from then on.
Expire(u) ==
  /\ invites[u] # NoInvite
  /\ invites' = [invites EXCEPT ![u] = NoInvite]
  /\ UNCHANGED <<org, roles, nextInvite, companyRows, reqs, deletion, wSeen>>

\* The membership is put only if there is none.
JoinAllowed(u) == roles[u] = None

\* One transaction: the membership, and the address's invitation deleted,
\* whichever it is by now.
AcceptInvitation(q) ==
  LET x == reqs[q]  u == reqs[q].actor IN
  /\ x.pc = "acceptWrite"
  /\ IF JoinAllowed(u)
     THEN /\ roles' = [roles EXCEPT ![u] = x.inv.role]
          /\ invites' = [invites EXCEPT ![u] = NoInvite]
          /\ spent' = [spent EXCEPT ![x.inv.token] = @ + 1]
          /\ Bless(x.inv.by, u, x.inv.role)
          /\ IF x.inv.firms THEN Goto(q, "grant") ELSE Answer(q)
     ELSE /\ Answer(q)
          /\ UNCHANGED <<roles, invites, spent, blessed>>
  /\ UNCHANGED <<org, nextInvite, companyRows, deletion, owners, lost>>

\* The companies of the invitation, after the membership landed.  The first
\* that is gone ends it; a failure leaves a member that reaches nothing.
GrantInvited(q) ==
  /\ reqs[q].pc = "grant"
  /\ \/ \E c \in firms : reqs' = [reqs EXCEPT ![q] =
                             [Idle EXCEPT !.pc = "actorWrite", !.target = reqs[q].actor, !.firm = c]]
     \/ Answer(q)
  /\ UNCHANGED <<org, roles, inviteRows, companyRows, deletion, wSeen>>

-----------------------------------------------------------------------------
(* Companies *)

\* The middleware's role and the kind of the workspace, then the write.
Register(q, a, c) ==
  /\ RequireOrgRole(q, a, "admin")
  /\ org.row /\ org.kind # "personal"
  /\ c \notin firms /\ \A x \in Requests : reqs[x].firm # c
  /\ reqs' = [reqs EXCEPT ![q] = [Idle EXCEPT !.pc = "registerWrite", !.actor = a, !.firm = c]]
  /\ UNCHANGED <<org, roles, inviteRows, companyRows, deletion, wSeen>>

TaxIDFree == taxLock = NoFirm

\* The company, its tax-id lock and its first actor, in one transaction.
CreateCompany(q) ==
  /\ reqs[q].pc = "registerWrite"
  /\ IF TaxIDFree
     THEN /\ firms' = firms \cup {reqs[q].firm}
          /\ taxLock' = reqs[q].firm
          /\ actors' = actors \cup {<<reqs[q].firm, reqs[q].actor>>}
     ELSE UNCHANGED companyRows
  /\ Answer(q)
  /\ UNCHANGED <<org, roles, inviteRows, deletion, wSeen>>

GrantActor(q, a, t, c) ==
  /\ RequireOrgRole(q, a, "admin")
  /\ c \in firms
  /\ reqs' = [reqs EXCEPT ![q] = [Idle EXCEPT !.pc = "actorWrite", !.target = t, !.firm = c]]
  /\ UNCHANGED <<org, roles, inviteRows, companyRows, deletion, wSeen>>

PutActor(q) ==
  /\ reqs[q].pc = "actorWrite"
  /\ actors' = actors \cup {<<reqs[q].firm, reqs[q].target>>}
  /\ Answer(q)
  /\ UNCHANGED <<org, roles, inviteRows, firms, taxLock, deletion, wSeen>>

RevokeActor(q, a, t, c) ==
  /\ RequireOrgRole(q, a, "admin")
  /\ <<c, t>> \in actors
  /\ actors' = actors \ {<<c, t>>}
  /\ UNCHANGED <<org, roles, inviteRows, firms, taxLock, reqs, deletion, wSeen>>

-----------------------------------------------------------------------------
(* The owner's account is deleted *)

LockAccount(u) ==
  /\ erasure = "none" /\ owners # {}
  /\ leaving' = u /\ erasure' = "locked"
  /\ UNCHANGED <<scope, org, roles, inviteRows, companyRows, reqs, wSeen>>

\* Assess at the end of grace: a workspace owned alone is listed to be erased,
\* one shared is a blocker, and the person can only cancel; otherwise the
\* purge just leaves the workspace.
Assess ==
  /\ erasure = "locked"
  /\ \/ /\ roles[leaving] = "owner" /\ \A v \in People \ {leaving} : roles[v] = None
        /\ erasure' = "frozen" /\ UNCHANGED <<leaving, roles, actors>>
     \/ /\ roles[leaving] = "owner" /\ \E v \in People \ {leaving} : roles[v] # None
        /\ erasure' = "none" /\ leaving' = NoOne /\ UNCHANGED <<roles, actors>>
     \/ /\ roles[leaving] # "owner"
        /\ roles' = [roles EXCEPT ![leaving] = None]
        /\ actors' = {x \in actors : x[2] # leaving}
        /\ erasure' = "done" /\ UNCHANGED leaving
  /\ UNCHANGED <<scope, org, inviteRows, firms, taxLock, reqs, wSeen>>

\* EraseForOrganization: everything of the workspace in the companies table.
EraseForOrganization ==
  /\ erasure = "frozen"
  /\ firms' = {} /\ taxLock' = NoFirm /\ actors' = {}
  /\ erasure' = "companies"
  /\ UNCHANGED <<org, roles, inviteRows, reqs, scope, leaving, wSeen>>

EraseMembers ==
  /\ erasure = "companies"
  /\ lost' = lost \cup {v \in People \ {leaving} : roles[v] # None}
  /\ roles' = [u \in People |-> None]
  /\ erasure' = "members"
  /\ UNCHANGED <<org, inviteRows, companyRows, reqs, scope, leaving, owners, blessed, spent>>

EraseInvitations ==
  /\ erasure = "members"
  /\ invites' = [u \in People |-> NoInvite]
  /\ erasure' = "invitations"
  /\ UNCHANGED <<org, roles, nextInvite, companyRows, reqs, scope, leaving, wSeen>>

EraseOrganization ==
  /\ erasure = "invitations"
  /\ org' = NoOrg /\ erasure' = "done"
  /\ UNCHANGED <<roles, inviteRows, companyRows, reqs, scope, leaving, wSeen>>

\* The instance stops: the request is lost where it is.
Crash(q) ==
  /\ reqs[q].pc # "idle"
  /\ Answer(q)
  /\ UNCHANGED <<org, roles, inviteRows, companyRows, deletion, wSeen>>

-----------------------------------------------------------------------------
Continue(q) ==
  \/ SetRoleTarget(q) \/ SetRoleWrite(q) \/ RemoveActor(q) \/ RemoveMembership(q)
  \/ TransferTarget(q) \/ TransferOwnership(q) \/ PutInvitation(q) \/ DeleteInvitation(q)
  \/ AcceptInvitation(q) \/ GrantInvited(q) \/ CreateCompany(q) \/ PutActor(q) \/ Crash(q)

Erasing == Assess \/ EraseForOrganization \/ EraseMembers \/ EraseInvitations \/ EraseOrganization

WorkspaceNext ==
  \/ \E u \in People, k \in Kinds : CreateWithOwner(u, k)
  \/ \E q \in Requests, a, t \in People :
       \/ "role" \in scope.ops /\ \E r \in Ladder : SetRole(q, a, t, r)
       \/ "invite" \in scope.ops /\ \E r \in Ladder, f \in BOOLEAN : Invite(q, a, t, r, f)
       \/ "invite" \in scope.ops /\ RevokeInvitation(q, a, t)
       \/ "remove" \in scope.ops /\ Remove(q, a, t)
       \/ "transfer" \in scope.ops /\ Transfer(q, a, t)
       \/ "company" \in scope.ops /\ \E c \in Firms : GrantActor(q, a, t, c) \/ RevokeActor(q, a, t, c)
  \/ \E q \in Requests, a \in People, c \in Firms : "company" \in scope.ops /\ Register(q, a, c)
  \/ \E q \in Requests, u \in People : Accept(q, u)
  \/ \E q \in Requests : Continue(q)
  \/ \E u \in People : Expire(u)
  \/ \E u \in People : "delete" \in scope.ops /\ LockAccount(u)
  \/ Erasing

WorkspaceSpec == WorkspaceInit /\ [][WorkspaceNext]_wVars

-----------------------------------------------------------------------------
(* Properties *)

\* A workspace has exactly one owner, the one its row names, until its members
\* are erased: transfers, removals, role changes and acceptances that raced
\* each other leave neither two owners nor none.
OneOwner ==
  (org.row /\ erasure \notin {"members", "invitations"}) =>
    {u \in People : roles[u] = "owner"} = {org.owner}

\* A space never gets the admin rung, and never a company, whichever way a role
\* or a company could come in: a role change, an invitation, the demotion of a
\* former owner.
SpaceStaysASpace ==
  (org.row /\ org.kind = "personal") =>
    /\ firms = {} /\ actors = {}
    /\ \A u \in People : roles[u] # "admin"
    /\ \A u \in People : invites[u].role # "admin"

\* One tax id, one company: two registrations at the same time leave one
\* company, the one its lock names, and erasure leaves no lock behind.
OneCompanyPerTaxID == firms = IF taxLock = NoFirm THEN {} ELSE {taxLock}

\* The rows of a workspace agree with each other in every state two requests can
\* leave behind: its META row with its members, its kind with what it holds, its
\* companies with their tax-id lock.
RowsAgree == OneOwner /\ SpaceStaysASpace /\ OneCompanyPerTaxID

\* Nobody is admin unless somebody who owned the workspace made them admin, or
\* they owned it themselves: no chain of invitations and role changes among the
\* others leads there.
AdminsComeFromOwners ==
  \A u \in People : roles[u] = "admin" => u \in blessed \cup owners

\* What the specification of the deletion says of step 3: no one joins a
\* workspace that is about to be erased, so it is erased with its only member.
NobodyErasedAlong == lost = {}

\* What AcceptInvitation says: a token is not spent twice by two requests that
\* both read it as pending.
TokenSpentOnce == \A t \in 1..MaxInvites : spent[t] <= 1
=============================================================================
