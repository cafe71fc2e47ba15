------------------------------- MODULE Grants -------------------------------
(***************************************************************************)
(* Who may be given which scope: a resource server's manifest in the       *)
(* registry, the cached catalogue built from it, the OAuth clients that    *)
(* hold scopes, a person's consent and authorization codes, API keys, and  *)
(* the tokens all of these end in (scopes, domain/oauth/client,            *)
(* domain/oauth/consent, domain/apikey, handler/scope_registry.go,         *)
(* handler/authorize.go, handler/token.go).                                *)
(*                                                                         *)
(* One resource server, the Account's own or a product's; three clients:   *)
(* its first-party UI, a first-party service and a developer's; one person *)
(* who owns the developer client and one API key, and signs in.  Every     *)
(* call to a table or to the cache is a step.  Descriptions, redirect URIs *)
(* and audiences are left out; a secret is there or not.  The session and  *)
(* the terms that /authorize asks for are modelled in Sessions and SignIn. *)
(***************************************************************************)
EXTENDS Integers, FiniteSets

CONSTANTS
  Askers,         \* requests in progress
  Names,          \* scopes of the resource server
  Internal,       \* those whose name is in the internal namespace
  Manifests,      \* what publishers try to publish
  Seeded,         \* scopes of the seed rows, which a resource server row replaces
  MaxRevisions,   \* bound on revisions
  GrantScopes     \* entry points of a behaviour, its number of requests, and whose resource it is

\* A manifest: the scopes it names, each with its status, visibility and m2m mark.
Entry == [status: {"active", "deprecated"}, visibility: {"public", "internal"}, m2m: BOOLEAN]
Manifest == UNION {[S -> Entry] : S \in SUBSET Names}

ASSUME GrantAssumption ==
  /\ Internal \subseteq Names /\ Seeded \subseteq Names /\ MaxRevisions \in Nat
  /\ Manifests \subseteq Manifest
  /\ \A x \in GrantScopes : x.turns \in Nat /\ x.own \in BOOLEAN

Clients == {"ui", "svc", "dev"}

VARIABLES
  grantScope, turns,
  registry,     \* the resource server's row; revision -1: there is none
  revisions,    \* its history rows: revision -> manifest
  catalog,      \* the cached catalogue
  clients,      \* client -> its row
  consent,      \* scopes the person granted the developer client
  codes,        \* authorization codes in the cache
  apiKey,       \* the person's API key row
  keyIndex,     \* what the index by hash holds of it
  touching,     \* a last_used_at still to be written in the background
  barred,       \* what bars the person's account: a deletion lock, is_enabled off
  askers,       \* request -> where it is
  \* What happened, for the properties only:
  approved,     \* scopes the person ever approved for the developer client
  machineEver,  \* scopes ever published for machines
  tokens        \* access tokens issued

gVars == <<grantScope, turns, registry, revisions, catalog, clients, consent, codes, apiKey, keyIndex, touching,
           barred, askers, approved, machineEver, tokens>>
regVars == <<registry, revisions, machineEver>>
rowVars == <<clients, consent, codes, apiKey, keyIndex, touching>>

-----------------------------------------------------------------------------
(* State *)

NoManifest == [s \in {} |-> 0]
\* by: updated_by.
Resource == [revision: -1..MaxRevisions, manifest: Manifest, by: {"none", "operator", "publisher"}]
NoResource == [revision |-> -1, manifest |-> NoManifest, by |-> "none"]

\* The catalogue services read: public scopes, those marked m2m, and internal ones.
Catalogue == [public: SUBSET Names, m2m: SUBSET Names, internal: SUBSET Names]
Miss == [public |-> {}, m2m |-> {}, internal |-> {}]

\* made: the id was used.  A row is first-party when the system owns it.
NoClient == [made |-> FALSE, there |-> FALSE, owner |-> "none", secret |-> FALSE, scopes |-> {}]
ClientRow == [made: BOOLEAN, there: BOOLEAN, owner: {"none", "system", "person"}, secret: BOOLEAN,
              scopes: SUBSET Names]
NoKey == [made |-> FALSE, there |-> FALSE, hash |-> FALSE, scopes |-> {}]
KeyRow == [made: BOOLEAN, there: BOOLEAN, hash: BOOLEAN, scopes: SUBSET Names]
NoConsent == [there |-> FALSE, scopes |-> {}]

Bars == {"locked", "disabled"}
\* late: what barred the account already when the request arrived.
NoAsker == [pc |-> "idle", op |-> "none", client |-> "none", set |-> {}, manifest |-> NoManifest,
            revision |-> -1, row |-> {}, cat |-> Miss, late |-> {}]
AskSteps == {"idle", "publish", "reconcile", "compare", "invalidate", "uiRead", "uiWrite", "bootRead", "bootCreate",
             "catalog", "fill", "putClient", "writeClient", "deleteClient", "writeSecret", "exists", "putService",
             "readService", "writeService", "hasGrant", "storeCode", "putGrant", "redeem", "person", "active",
             "machine", "mint", "putKey", "deleteKey", "keyOwner"}
AskOps == {"none", "provision", "publish", "restore", "ensure", "boot", "create", "update", "delete", "secret",
           "service", "grant", "authorize", "consent", "revokeConsent", "exchange", "token", "machine",
           "machineToken", "key", "revokeKey", "apiKey"}
Asker == [pc: AskSteps, op: AskOps, client: Clients \cup {"none"}, set: SUBSET Names, manifest: Manifest,
          revision: -1..MaxRevisions, row: SUBSET Names, cat: Catalogue, late: SUBSET Bars]

GrantTypeOK ==
  /\ grantScope \in GrantScopes /\ turns \in 0..grantScope.turns
  /\ registry \in Resource
  /\ DOMAIN revisions = 1..registry.revision /\ \A n \in DOMAIN revisions : revisions[n] \in Manifest
  /\ catalog \in Catalogue /\ clients \in [Clients -> ClientRow]
  /\ consent \in [there: BOOLEAN, scopes: SUBSET Names] /\ codes \subseteq [client: Clients, scopes: SUBSET Names]
  /\ apiKey \in KeyRow /\ keyIndex \in KeyRow /\ touching \in BOOLEAN /\ barred \subseteq Bars
  /\ askers \in [Askers -> Asker]

GrantInit ==
  /\ grantScope \in GrantScopes /\ turns = grantScope.turns
  /\ registry = NoResource /\ revisions = NoManifest /\ catalog = Miss
  /\ clients = [c \in Clients |-> NoClient] /\ consent = NoConsent /\ codes = {}
  /\ apiKey = NoKey /\ keyIndex = NoKey /\ touching = FALSE /\ barred = {}
  /\ askers = [r \in Askers |-> NoAsker] /\ approved = {} /\ machineEver = {} /\ tokens = {}

-----------------------------------------------------------------------------
(* Requests *)

Ask(r, op, new) ==
  /\ askers[r].pc = "idle" /\ op \in grantScope.ops
  /\ turns > 0 /\ turns' = turns - 1
  /\ askers' = [askers EXCEPT ![r] = [new EXCEPT !.op = op, !.late = barred]]
  /\ UNCHANGED grantScope
At(r, pc) == askers[r].pc = pc /\ UNCHANGED <<grantScope, turns>>
Answer(r) == askers' = [askers EXCEPT ![r] = NoAsker]
Step(r, pc) == askers' = [askers EXCEPT ![r] = [@ EXCEPT !.pc = pc]]
Alone(op) == \A r \in Askers : askers[r].op # op

-----------------------------------------------------------------------------
(* Publishing a manifest *)

ValidateManifest(m) ==
  /\ DOMAIN m # {}
  /\ \A s \in DOMAIN m :
       IF m[s].visibility = "public" THEN s \notin Internal ELSE s \in Internal /\ ~m[s].m2m

Active(m) == {s \in DOMAIN m : m[s].status = "active"}
EnsureNoActiveRemoval(m, next) == Active(m) \subseteq DOMAIN next
\* The hash of a canonical manifest tells manifests apart.
SameHash(m) == registry.manifest = m
PublicActiveScopes(m) == {s \in Active(m) : m[s].visibility = "public"}

\* An operator provisions a product's resource server; the Account's own id is reserved.
Provision(r) ==
  /\ Ask(r, "provision", NoAsker) /\ ~grantScope.own /\ registry.revision = -1
  /\ registry' = [NoResource EXCEPT !.revision = 0, !.by = "operator"]
  /\ UNCHANGED <<revisions, machineEver, catalog, rowVars, barred, approved, tokens>>

\* The handler: the If-Match tag is the one of the row it reads.
PutManifest(r, m) ==
  /\ ~grantScope.own /\ registry.revision >= 0
  /\ Ask(r, "publish", [NoAsker EXCEPT !.pc = "publish", !.manifest = m, !.revision = registry.revision])
  /\ UNCHANGED <<regVars, catalog, rowVars, barred, approved, tokens>>

\* RegistryService.Publish up to the transaction.
PublishManifest(r) ==
  LET a == askers[r] IN
  /\ At(r, "publish")
  /\ IF ~ValidateManifest(a.manifest) THEN Answer(r)
     ELSE IF registry.revision # a.revision THEN IF a.op = "boot" THEN Step(r, "compare") ELSE Answer(r)
     ELSE IF ~EnsureNoActiveRemoval(registry.manifest, a.manifest) THEN Answer(r)
     ELSE Step(r, IF SameHash(a.manifest) THEN "invalidate" ELSE "reconcile")
  /\ UNCHANGED <<regVars, catalog, rowVars, barred, approved, tokens>>

\* Restore takes a revision of the history, and does not ask for removals.
GetRevision(n) == revisions[n]
RestoreRevision(r, n) ==
  /\ n \in DOMAIN revisions
  /\ Ask(r, "restore", [NoAsker EXCEPT !.pc = "reconcile", !.manifest = GetRevision(n), !.revision = registry.revision])
  /\ UNCHANGED <<regVars, catalog, rowVars, barred, approved, tokens>>

\* Mutant: the transaction does not compare the revision.
BugSameRevision(r) == TRUE
SameRevision(r) == registry.revision = askers[r].revision

ResourceFromManifest(a) ==
  [revision |-> registry.revision + 1, manifest |-> a.manifest,
   by |-> IF a.op = "restore" THEN "operator" ELSE "publisher"]

\* The row and its snapshot in one transaction.
ReconcileResource(r) ==
  LET a == askers[r]
      next == registry.revision + 1 IN
  /\ At(r, "reconcile")
  /\ IF SameRevision(r)
     THEN /\ next <= MaxRevisions
          /\ registry' = ResourceFromManifest(a)
          /\ revisions' = [n \in 1..next |-> IF n = next THEN a.manifest ELSE revisions[n]]
          /\ machineEver' = machineEver \cup {s \in DOMAIN a.manifest : a.manifest[s].m2m}
          /\ Step(r, "invalidate")
     ELSE IF a.op = "boot" THEN Step(r, "compare") /\ UNCHANGED regVars ELSE Answer(r) /\ UNCHANGED regVars
  /\ UNCHANGED <<catalog, rowVars, barred, approved, tokens>>

\* A failure ends the request before the client is reconciled; the publisher repeats it.
InvalidateCatalog(r) ==
  LET a == askers[r] IN
  /\ At(r, "invalidate")
  /\ \/ /\ catalog' = Miss
        /\ IF a.op = "restore" \/ (a.op = "publish" /\ PublicActiveScopes(a.manifest) = {})
           THEN Answer(r)
           ELSE askers' = [askers EXCEPT ![r] = [@ EXCEPT !.pc = "uiRead", !.set = PublicActiveScopes(a.manifest)]]
     \/ "fault" \in grantScope.ops /\ UNCHANGED catalog /\ Answer(r)
  /\ UNCHANGED <<regVars, rowVars, barred, approved, tokens>>

\* The first-party UI client gets the new public scopes.  A publish leaves a missing client
\* alone; at boot, and for the operator's command, it is created.
ReadUIClient(r) ==
  LET a == askers[r] IN
  /\ At(r, "uiRead")
  /\ IF a.op = "publish" /\ ~clients["ui"].there THEN Answer(r)
     ELSE IF clients["ui"].there /\ a.set \subseteq clients["ui"].scopes THEN Answer(r)
     ELSE askers' = [askers EXCEPT ![r] = [@ EXCEPT !.pc = "uiWrite", !.row = clients["ui"].scopes]]
  /\ UNCHANGED <<regVars, catalog, rowVars, barred, approved, tokens>>

WriteUIClient(r) ==
  /\ At(r, "uiWrite") /\ Answer(r)
  /\ clients' = [clients EXCEPT !["ui"] =
       [made |-> TRUE, there |-> TRUE, owner |-> "system", secret |-> FALSE, scopes |-> askers[r].row \cup askers[r].set]]
  /\ UNCHANGED <<regVars, catalog, consent, codes, apiKey, keyIndex, touching, barred, approved, tokens>>

EnsurePublicClient(r, S) ==
  /\ S # {} /\ Ask(r, "ensure", [NoAsker EXCEPT !.pc = "uiRead", !.set = S])
  /\ UNCHANGED <<regVars, catalog, rowVars, barred, approved, tokens>>

-----------------------------------------------------------------------------
(* The Account's own manifest, installed by every process that starts *)

BootstrapAccount(r, m) ==
  /\ grantScope.own /\ Ask(r, "boot", [NoAsker EXCEPT !.pc = "bootRead", !.manifest = m])
  /\ UNCHANGED <<regVars, catalog, rowVars, barred, approved, tokens>>

BootRead(r) ==
  /\ At(r, "bootRead")
  /\ askers' = [askers EXCEPT ![r] = [@ EXCEPT !.pc = IF registry.revision = -1 THEN "bootCreate" ELSE "publish",
                                              !.revision = registry.revision]]
  /\ UNCHANGED <<regVars, catalog, rowVars, barred, approved, tokens>>

\* Another process may have created it: the row is read again.
CreateResource(r) ==
  /\ At(r, "bootCreate") /\ Step(r, "bootRead")
  /\ registry' = IF registry.revision = -1 THEN [NoResource EXCEPT !.revision = 0, !.by = "publisher"] ELSE registry
  /\ UNCHANGED <<revisions, machineEver, catalog, rowVars, barred, approved, tokens>>

\* After a conflict the winner's identical manifest is a success; another ends the process.
CompareHash(r) ==
  LET a == askers[r] IN
  /\ At(r, "compare")
  /\ IF SameHash(a.manifest)
     THEN askers' = [askers EXCEPT ![r] = [@ EXCEPT !.pc = "uiRead", !.set = PublicActiveScopes(a.manifest)]]
     ELSE Answer(r)
  /\ UNCHANGED <<regVars, catalog, rowVars, barred, approved, tokens>>

-----------------------------------------------------------------------------
(* The catalogue *)

\* A resource server's row replaces its seed rows.  A deprecated scope counts as internal.
LoadCatalog == [public |-> Seeded \ Internal, m2m |-> {}, internal |-> Seeded \cap Internal]
MergeResourceServers ==
  LET m == registry.manifest IN
  IF registry.revision = -1 THEN LoadCatalog
  ELSE [public |-> PublicActiveScopes(m), m2m |-> {s \in PublicActiveScopes(m) : m[s].m2m},
        internal |-> DOMAIN m \ PublicActiveScopes(m)]

\* Where a request goes on with the catalogue.
AfterCatalog(op) ==
  CASE op = "create" -> "putClient"   [] op = "update" -> "writeClient" [] op = "service" -> "exists"
    [] op = "grant" -> "readService"  [] op = "machine" -> "machine"    [] op = "key" -> "putKey"
    [] OTHER -> "mint"

\* Seed rows of other services are always there, so an empty record stands for a miss.
ReadCatalog(r) ==
  /\ At(r, "catalog")
  /\ askers' = [askers EXCEPT ![r] = [@ EXCEPT
       !.pc = IF catalog # Miss THEN AfterCatalog(askers[r].op) ELSE "fill",
       !.cat = IF catalog # Miss THEN catalog ELSE MergeResourceServers]]
  /\ UNCHANGED <<regVars, catalog, rowVars, barred, approved, tokens>>

\* The cache is filled with what was loaded, however long ago.
FillCatalog(r) ==
  /\ At(r, "fill") /\ Step(r, AfterCatalog(askers[r].op))
  /\ \/ catalog' = askers[r].cat
     \/ "fault" \in grantScope.ops /\ UNCHANGED catalog
  /\ UNCHANGED <<regVars, rowVars, barred, approved, tokens>>

CatalogExpires ==
  /\ "expiry" \in grantScope.ops /\ catalog # Miss /\ catalog' = Miss
  /\ UNCHANGED <<grantScope, turns, regVars, rowVars, barred, askers, approved, tokens>>

Registered(cat) == cat.public \cup cat.internal
\* Mutant: internal services are not skipped.
BugValidateGrantable(cat, S) == S \subseteq Registered(cat)
ValidateGrantable(cat, S) == S \subseteq cat.public

-----------------------------------------------------------------------------
(* A developer's client *)

CreateClient(r, S) ==
  /\ ~clients["dev"].made /\ Alone("create")
  /\ Ask(r, "create", [NoAsker EXCEPT !.pc = "catalog", !.client = "dev", !.set = S])
  /\ UNCHANGED <<regVars, catalog, rowVars, barred, approved, tokens>>

PutClient(r) ==
  LET a == askers[r] IN
  /\ At(r, "putClient") /\ Answer(r)
  /\ clients' = IF ValidateGrantable(a.cat, a.set)
                THEN [clients EXCEPT !["dev"] = [made |-> TRUE, there |-> TRUE, owner |-> "person", secret |-> TRUE,
                                                 scopes |-> a.set]]
                ELSE clients
  /\ UNCHANGED <<regVars, catalog, consent, codes, apiKey, keyIndex, touching, barred, approved, tokens>>

Owned == clients["dev"].there /\ clients["dev"].owner = "person"

UpdateClient(r, S) ==
  /\ Owned /\ Ask(r, "update", [NoAsker EXCEPT !.pc = "catalog", !.client = "dev", !.set = S])
  /\ UNCHANGED <<regVars, catalog, rowVars, barred, approved, tokens>>

\* Update does not ask for the row: it makes one of the fields it sets.
WriteClient(r) ==
  LET a == askers[r] IN
  /\ At(r, "writeClient") /\ Answer(r)
  /\ clients' = IF ValidateGrantable(a.cat, a.set)
                THEN [clients EXCEPT !["dev"] = [@ EXCEPT !.there = TRUE, !.scopes = a.set]]
                ELSE clients
  /\ UNCHANGED <<regVars, catalog, consent, codes, apiKey, keyIndex, touching, barred, approved, tokens>>

RemoveClient(r) ==
  /\ Owned /\ Ask(r, "delete", [NoAsker EXCEPT !.pc = "deleteClient"])
  /\ UNCHANGED <<regVars, catalog, rowVars, barred, approved, tokens>>

DeleteClient(r) ==
  /\ At(r, "deleteClient") /\ Answer(r)
  /\ clients' = [clients EXCEPT !["dev"] = [NoClient EXCEPT !.made = TRUE]]
  /\ UNCHANGED <<regVars, catalog, consent, codes, apiKey, keyIndex, touching, barred, approved, tokens>>

RegenerateSecret(r) ==
  /\ Owned /\ Ask(r, "secret", [NoAsker EXCEPT !.pc = "writeSecret"])
  /\ UNCHANGED <<regVars, catalog, rowVars, barred, approved, tokens>>

WriteSecret(r) ==
  /\ At(r, "writeSecret") /\ Answer(r)
  /\ clients' = [clients EXCEPT !["dev"] = [@ EXCEPT !.there = TRUE, !.secret = TRUE]]
  /\ UNCHANGED <<regVars, catalog, consent, codes, apiKey, keyIndex, touching, barred, approved, tokens>>

-----------------------------------------------------------------------------
(* A first-party service's client, by the operator *)

CreateM2M(r, S) ==
  /\ S # {} /\ Ask(r, "service", [NoAsker EXCEPT !.pc = "catalog", !.set = S])
  /\ UNCHANGED <<regVars, catalog, rowVars, barred, approved, tokens>>

\* The check that the id is free and the put are two calls.
ServiceExists(r) ==
  LET a == askers[r] IN
  /\ At(r, "exists")
  /\ IF a.set \subseteq Registered(a.cat) /\ ~clients["svc"].there THEN Step(r, "putService") ELSE Answer(r)
  /\ UNCHANGED <<regVars, catalog, rowVars, barred, approved, tokens>>

PutService(r) ==
  /\ At(r, "putService") /\ Answer(r)
  /\ clients' = [clients EXCEPT !["svc"] = [made |-> TRUE, there |-> TRUE, owner |-> "system", secret |-> TRUE,
                                            scopes |-> askers[r].set]]
  /\ UNCHANGED <<regVars, catalog, consent, codes, apiKey, keyIndex, touching, barred, approved, tokens>>

GrantM2MScopes(r, S) ==
  /\ S # {} /\ Ask(r, "grant", [NoAsker EXCEPT !.pc = "catalog", !.set = S])
  /\ UNCHANGED <<regVars, catalog, rowVars, barred, approved, tokens>>

ReadService(r) ==
  LET a == askers[r] IN
  /\ At(r, "readService")
  /\ IF a.set \subseteq Registered(a.cat) /\ clients["svc"].there /\ ~(a.set \subseteq clients["svc"].scopes)
     THEN askers' = [askers EXCEPT ![r] = [@ EXCEPT !.pc = "writeService", !.row = clients["svc"].scopes]]
     ELSE Answer(r)
  /\ UNCHANGED <<regVars, catalog, rowVars, barred, approved, tokens>>

WriteService(r) ==
  /\ At(r, "writeService") /\ Answer(r)
  /\ clients' = [clients EXCEPT !["svc"] = [@ EXCEPT !.scopes = askers[r].row \cup askers[r].set]]
  /\ UNCHANGED <<regVars, catalog, consent, codes, apiKey, keyIndex, touching, barred, approved, tokens>>

-----------------------------------------------------------------------------
(* Consent and authorization codes *)

FilterScopes(c, S) == S \cap clients[c].scopes
Covers(S) == consent.there /\ S \subseteq consent.scopes

Authorize(r, c, S) ==
  LET allowed == FilterScopes(c, S) IN
  /\ clients[c].there /\ allowed # {}
  /\ Ask(r, "authorize", [NoAsker EXCEPT !.pc = IF clients[c].owner = "system" THEN "storeCode" ELSE "hasGrant",
                                         !.client = c, !.set = allowed])
  /\ UNCHANGED <<regVars, catalog, rowVars, barred, approved, tokens>>

HasGrant(r) ==
  /\ At(r, "hasGrant")
  /\ IF Covers(askers[r].set) THEN Step(r, "storeCode") ELSE Answer(r)
  /\ UNCHANGED <<regVars, catalog, rowVars, barred, approved, tokens>>

StoreCode(r) ==
  /\ At(r, "storeCode") /\ Answer(r)
  /\ codes' = codes \cup {[client |-> askers[r].client, scopes |-> askers[r].set]}
  /\ UNCHANGED <<regVars, catalog, clients, consent, apiKey, keyIndex, touching, barred, approved, tokens>>

\* The person approves; Grant reads what was granted, then puts the union.
ConsentDecision(r, S) ==
  LET allowed == FilterScopes("dev", S) IN
  /\ clients["dev"].there /\ allowed # {}
  /\ Ask(r, "consent", [NoAsker EXCEPT !.pc = "putGrant", !.client = "dev", !.set = allowed, !.row = consent.scopes])
  /\ approved' = approved \cup allowed
  /\ UNCHANGED <<regVars, catalog, rowVars, barred, tokens>>

PutGrant(r) ==
  /\ At(r, "putGrant") /\ Answer(r)
  /\ consent' = [there |-> TRUE, scopes |-> askers[r].row \cup askers[r].set]
  /\ UNCHANGED <<regVars, catalog, clients, codes, apiKey, keyIndex, touching, barred, approved, tokens>>

RevokeConsent(r) ==
  /\ Ask(r, "revokeConsent", NoAsker) /\ consent' = NoConsent
  /\ UNCHANGED <<regVars, catalog, clients, codes, apiKey, keyIndex, touching, barred, approved, tokens>>

\* The client proves itself; then the code is taken from the cache, and the person is read.
ExchangeCode(r, c) ==
  /\ clients[c].there /\ (c = "ui" \/ clients[c].secret)
  /\ Ask(r, "exchange", [NoAsker EXCEPT !.pc = "redeem", !.client = c])
  /\ UNCHANGED <<regVars, catalog, rowVars, barred, approved, tokens>>

RedeemCode(r, code) ==
  /\ At(r, "redeem") /\ code \in codes /\ codes' = codes \ {code}
  /\ \/ /\ code.client = askers[r].client
        /\ askers' = [askers EXCEPT ![r] = [@ EXCEPT !.pc = "person", !.set = code.scopes]]
     \/ Answer(r)    \* another client's code, or a wrong redirect URI or verifier
  /\ UNCHANGED <<regVars, catalog, clients, consent, apiKey, keyIndex, touching, barred, approved, tokens>>

RefuseCode(r) ==
  /\ At(r, "redeem") /\ Answer(r)
  /\ UNCHANGED <<regVars, catalog, rowVars, barred, approved, tokens>>

\* The person may have asked for the deletion of the account since; a disabled account
\* still gets its token.
CodeOwner(r) ==
  /\ At(r, "person") /\ IF "locked" \in barred THEN Answer(r) ELSE Step(r, "mint")
  /\ UNCHANGED <<regVars, catalog, rowVars, barred, approved, tokens>>

CodeExpires(code) ==
  /\ "expiry" \in grantScope.ops /\ code \in codes /\ codes' = codes \ {code}
  /\ UNCHANGED <<grantScope, turns, regVars, catalog, clients, consent, apiKey, keyIndex, touching, barred, askers, approved,
                 tokens>>

-----------------------------------------------------------------------------
(* Machine tokens *)

\* A first-party client is clamped to what it holds; a developer's is refused or served
\* whole.  A row without an owner, such as an update leaves behind, is not active.
ClientCredentials(r, c, S) ==
  LET row == clients[c] IN
  /\ row.there /\ row.secret
  /\ IF row.owner = "system"
     THEN /\ FilterScopes(c, S) # {}
          /\ Ask(r, "token", [NoAsker EXCEPT !.pc = "catalog", !.client = c, !.set = FilterScopes(c, S)])
     ELSE /\ row.owner = "person"
          /\ Ask(r, "machine", [NoAsker EXCEPT !.pc = "active", !.client = c, !.set = S, !.row = row.scopes])
  /\ UNCHANGED <<regVars, catalog, rowVars, barred, approved, tokens>>

\* The one grant that asks whether the account is enabled, too.
ClientActive(r) ==
  /\ At(r, "active") /\ IF barred # {} THEN Answer(r) ELSE Step(r, "catalog")
  /\ UNCHANGED <<regVars, catalog, rowVars, barred, approved, tokens>>

\* Every scope held, as it was read, is for machines, and every one asked for is held.
MachineScopes(a) == a.row \subseteq a.cat.m2m /\ a.set \subseteq a.row /\ a.set # {}
\* Then the audiences are looked up.
ValidateMachineGrantable(r) ==
  LET a == askers[r] IN
  /\ At(r, "machine")
  /\ IF MachineScopes(a)
     THEN askers' = [askers EXCEPT ![r] = [@ EXCEPT !.pc = "catalog", !.op = "machineToken"]]
     ELSE Answer(r)
  /\ UNCHANGED <<regVars, catalog, rowVars, barred, approved, tokens>>

\* SignAccessToken, with the scopes settled on.
IssueToken(r) ==
  LET a == askers[r] IN
  /\ At(r, "mint") /\ Answer(r)
  /\ tokens' = tokens \cup {[kind |-> a.op, client |-> a.client, scopes |-> a.set, late |-> a.late]}
  /\ UNCHANGED <<regVars, catalog, rowVars, barred, approved>>

-----------------------------------------------------------------------------
(* API keys *)

CreateKey(r, S) ==
  /\ ~apiKey.made /\ Alone("key") /\ S # {}
  /\ Ask(r, "key", [NoAsker EXCEPT !.pc = "catalog", !.set = S])
  /\ UNCHANGED <<regVars, catalog, rowVars, barred, approved, tokens>>

PutKey(r) ==
  LET a == askers[r] IN
  /\ At(r, "putKey") /\ Answer(r)
  /\ apiKey' = IF ValidateGrantable(a.cat, a.set) THEN [made |-> TRUE, there |-> TRUE, hash |-> TRUE, scopes |-> a.set]
               ELSE apiKey
  /\ UNCHANGED <<regVars, catalog, clients, consent, codes, keyIndex, touching, barred, approved, tokens>>

RevokeKey(r) ==
  /\ apiKey.there /\ Ask(r, "revokeKey", [NoAsker EXCEPT !.pc = "deleteKey"])
  /\ UNCHANGED <<regVars, catalog, rowVars, barred, approved, tokens>>

DeleteKey(r) ==
  /\ At(r, "deleteKey") /\ Answer(r) /\ apiKey' = [NoKey EXCEPT !.made = TRUE]
  /\ UNCHANGED <<regVars, catalog, clients, consent, codes, keyIndex, touching, barred, approved, tokens>>

\* Authenticate looks the hash up in the index.
ExchangeKey(r) ==
  /\ keyIndex.hash /\ touching' = TRUE
  /\ Ask(r, "apiKey", [NoAsker EXCEPT !.pc = "keyOwner", !.set = keyIndex.scopes])
  /\ UNCHANGED <<regVars, catalog, clients, consent, codes, apiKey, keyIndex, barred, approved, tokens>>

\* Asks for a deletion lock alone.
KeyOwner(r) ==
  /\ At(r, "keyOwner") /\ IF "locked" \in barred THEN Answer(r) ELSE Step(r, "catalog")
  /\ UNCHANGED <<regVars, catalog, rowVars, barred, approved, tokens>>

\* last_used_at is written whether or not the row is still there, or never.
UpdateLastUsed ==
  /\ touching /\ touching' = FALSE
  /\ apiKey' \in {apiKey, [apiKey EXCEPT !.there = TRUE]}
  /\ UNCHANGED <<grantScope, turns, regVars, catalog, clients, consent, codes, keyIndex, barred, askers, approved,
                 tokens>>

KeyIndexCatchesUp ==
  /\ keyIndex # apiKey /\ keyIndex' = apiKey
  /\ UNCHANGED <<grantScope, turns, regVars, catalog, clients, consent, codes, apiKey, touching, barred, askers, approved,
                 tokens>>

-----------------------------------------------------------------------------
(* Faults and the specification *)

\* The account is locked for its deletion, or disabled; it is not freed again here.
PersonBarred(b) ==
  /\ b \in grantScope.ops \ barred /\ barred' = barred \cup {b}
  /\ UNCHANGED <<grantScope, turns, regVars, catalog, rowVars, askers, approved, tokens>>

AskerFails(r) ==
  /\ "fault" \in grantScope.ops /\ askers[r].pc # "idle" /\ Answer(r)
  /\ UNCHANGED <<grantScope, turns, regVars, catalog, rowVars, barred, approved, tokens>>

GrantNext ==
  \/ \E r \in Askers :
       \/ Provision(r) \/ PublishManifest(r) \/ ReconcileResource(r) \/ InvalidateCatalog(r) \/ ReadUIClient(r)
       \/ WriteUIClient(r) \/ BootRead(r) \/ CreateResource(r) \/ CompareHash(r) \/ ReadCatalog(r) \/ FillCatalog(r)
       \/ PutClient(r) \/ WriteClient(r) \/ RemoveClient(r) \/ DeleteClient(r) \/ RegenerateSecret(r)
       \/ WriteSecret(r) \/ ServiceExists(r) \/ PutService(r)
       \/ ReadService(r) \/ WriteService(r) \/ HasGrant(r) \/ StoreCode(r) \/ PutGrant(r) \/ RevokeConsent(r)
       \/ RefuseCode(r) \/ CodeOwner(r) \/ ClientActive(r) \/ KeyOwner(r) \/ ValidateMachineGrantable(r)
       \/ IssueToken(r) \/ PutKey(r) \/ RevokeKey(r) \/ DeleteKey(r) \/ ExchangeKey(r) \/ AskerFails(r)
       \/ \E m \in Manifests : PutManifest(r, m) \/ BootstrapAccount(r, m)
       \/ \E n \in 1..MaxRevisions : RestoreRevision(r, n)
       \/ \E code \in codes : RedeemCode(r, code)
       \/ \E S \in SUBSET Names :
            \/ CreateClient(r, S) \/ UpdateClient(r, S) \/ CreateM2M(r, S) \/ GrantM2MScopes(r, S)
            \/ ConsentDecision(r, S) \/ CreateKey(r, S) \/ EnsurePublicClient(r, S)
            \/ \E c \in {"ui", "dev"} : Authorize(r, c, S)
            \/ \E c \in {"svc", "dev"} : ClientCredentials(r, c, S)
       \/ \E c \in {"ui", "dev"} : ExchangeCode(r, c)
  \/ \E code \in codes : CodeExpires(code)
  \/ \E b \in Bars : PersonBarred(b)
  \/ CatalogExpires \/ UpdateLastUsed \/ KeyIndexCatchesUp

GrantSpec == GrantInit /\ [][GrantNext]_gVars

-----------------------------------------------------------------------------
(* Safety *)

\* ensureNoActiveRemoval with the transaction's revision: whatever publishers race, an active
\* scope leaves the registry only through deprecation or an operator's restore.
ActiveNeverDropped ==
  [][\/ Active(registry.manifest) \subseteq DOMAIN registry'.manifest
     \/ registry'.by = "operator"]_gVars

\* No token of the developer's client or of a key carries an internal scope, a scope the
\* person never approved for that client, or, for a machine, one that was never published
\* for machines.  None goes to a request made after the account was locked, and no
\* machine's to one made after it was disabled either; a code or a key of an account
\* that is only disabled still gets one.  The catalogue may be stale, the row gone or
\* rewritten, the index behind.
NothingBeyondGrant ==
  \A t \in tokens :
    /\ t.client = "dev" \/ t.kind = "apiKey" => t.scopes \cap Internal = {} /\ "locked" \notin t.late
    /\ t.client = "dev" /\ t.kind = "exchange" => t.scopes \subseteq approved
    /\ t.kind = "machineToken" => t.scopes \subseteq machineEver /\ t.late = {}

\* What the comment of EnsureFirstPartyPublicClientScopes says of existing grants.
GrantsNeverRemoved ==
  [][clients["ui"].scopes \subseteq clients'["ui"].scopes /\ clients["svc"].scopes \subseteq clients'["svc"].scopes]_gVars

\* What the comment of consent's Grant says: approving new scopes never drops old ones.
ApprovalNeverDrops == [][consent'.there => consent.scopes \subseteq consent'.scopes]_gVars

\* What the comment of PutService says of the cache (CAC-019), for the registry: with no
\* request in progress the cached catalogue is the registry's.
CatalogIsCurrent == (\A r \in Askers : askers[r].pc = "idle") => catalog \in {Miss, MergeResourceServers}
=============================================================================
