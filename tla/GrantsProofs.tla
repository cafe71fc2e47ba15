---------------------------- MODULE GrantsProofs ----------------------------
(***************************************************************************)
(* What a token may carry and what a publisher may drop, for every number  *)
(* of requests, scopes, manifests and revisions.                           *)
(*                                                                         *)
(* A request goes on with a catalogue, a row or a manifest it read steps   *)
(* ago.  The inductive invariant says of each what cannot become false:    *)
(* a public scope is not internal, what was approved or published for      *)
(* machines was so once, what bars the account goes on doing so, and a     *)
(* revision is never used twice.                                           *)
(***************************************************************************)
EXTENDS Grants, TLAPS

\* No scope of S is internal.
Outer(S) == S \cap Internal = {}

\* A manifest declares no internal scope public, and its machine scopes are noted.
CleanManifest(m) == \A s \in DOMAIN m : m[s].visibility = "public" => s \notin Internal
Noted(m) == \A s \in DOMAIN m : m[s].m2m => s \in machineEver

\* A catalogue, however old.
CleanCatalogue(cat) == Outer(cat.public) /\ cat.m2m \subseteq machineEver

RegistrySound ==
  /\ CleanManifest(registry.manifest) /\ Noted(registry.manifest)
  /\ registry.revision = -1 => registry = NoResource
  /\ \A n \in DOMAIN revisions : CleanManifest(revisions[n])

\* What the developer's client, its consent and its codes, and the key hold.
HoldersSound ==
  /\ clients["dev"].owner # "system" /\ Outer(clients["dev"].scopes) /\ clients["svc"].owner # "person"
  /\ consent.scopes \subseteq approved
  /\ \A x \in codes : x.client = "dev" => Outer(x.scopes) /\ x.scopes \subseteq approved
  /\ Outer(apiKey.scopes) /\ Outer(keyIndex.scopes)

\* What a request x that is about to publish may rely on, at least while the revision
\* is the one it read.
Publishes(x) ==
  x.pc = "reconcile" =>
    /\ CleanManifest(x.manifest) /\ x.revision <= registry.revision
    /\ x.revision = registry.revision /\ x.op # "restore" => EnsureNoActiveRemoval(registry.manifest, x.manifest)

\* A person's approval, and a code on its way to a token.
Consents(x) ==
  /\ x.pc = "putGrant" => x.row \subseteq approved /\ x.set \subseteq approved
  /\ x.pc \in {"hasGrant", "storeCode", "person"} /\ x.client = "dev" => Outer(x.set)
  /\ x.pc \in {"hasGrant", "storeCode"} => x.client \in Clients
  /\ x.pc \in {"storeCode", "person"} /\ x.client = "dev" => x.set \subseteq approved
  /\ x.pc \in {"redeem", "person"} => x.op = "exchange"

\* Machine tokens and keys: the operation decides where a request goes with the catalogue.
Machine(x) ==
  /\ x.pc \in {"active", "machine"} => x.op = "machine"
  /\ x.pc \in {"catalog", "fill"} => x.op \in {"create", "update", "service", "grant", "machine", "key", "token",
                                               "machineToken", "apiKey"}
  /\ x.pc = "keyOwner" => x.op = "apiKey"
  /\ x.op = "machine" => /\ x.pc \in {"active", "catalog", "fill", "machine"}
                         /\ x.client = "dev" /\ Outer(x.row) /\ (x.pc # "active" => x.late = {})
  /\ x.op \in {"machineToken", "apiKey"} => x.pc \in {"keyOwner", "catalog", "fill", "mint"}
  /\ x.op = "token" => x.client = "svc"
  /\ x.op = "apiKey" => x.client # "dev" /\ Outer(x.set)
  /\ x.op = "apiKey" /\ x.pc # "keyOwner" => "locked" \notin x.late
  /\ x.op = "machineToken" => Outer(x.set) /\ x.set \subseteq machineEver /\ x.late = {}

\* What a token may carry.
Fair(kind, client, S, late) ==
  /\ client = "dev" \/ kind = "apiKey" => Outer(S) /\ "locked" \notin late
  /\ client = "dev" /\ kind = "exchange" => S \subseteq approved
  /\ kind = "machineToken" => S \subseteq machineEver /\ late = {}

AskSound(x) ==
  /\ Publishes(x) /\ Consents(x) /\ Machine(x) /\ CleanCatalogue(x.cat)
  /\ x.late \subseteq barred
  /\ x.pc = "mint" => Fair(x.op, x.client, x.set, x.late)

\* The inductive invariant.
GrantInv ==
  /\ GrantTypeOK /\ RegistrySound /\ CleanCatalogue(catalog) /\ HoldersSound
  /\ \A r \in Askers : AskSound(askers[r])
  /\ NothingBeyondGrant

-----------------------------------------------------------------------------
(* Manifests, catalogues and requests *)

LEMMA ManifestFacts ==
  /\ NoManifest \in Manifest /\ DOMAIN NoManifest = {}
  /\ \A m \in Manifest : DOMAIN m \subseteq Names /\ \A s \in DOMAIN m : m[s] \in Entry
<1>1. NoManifest \in [{} -> Entry] /\ DOMAIN NoManifest = {}
  BY DEF NoManifest
<1>2. NoManifest \in Manifest
  BY <1>1 DEF Manifest
<1> QED
  BY <1>1, <1>2 DEF Manifest

LEMMA PublicFacts ==
  ASSUME NEW m \in Manifest
  PROVE  /\ PublicActiveScopes(m) \subseteq DOMAIN m /\ PublicActiveScopes(m) \subseteq Names
         /\ CleanManifest(m) => Outer(PublicActiveScopes(m))
BY ManifestFacts DEF PublicActiveScopes, Active, CleanManifest, Outer

LEMMA NoAskerFacts ==
  /\ NoAsker \in Asker /\ NoAsker.pc = "idle" /\ NoAsker.op = "none" /\ NoAsker.client = "none" /\ NoAsker.set = {}
  /\ NoAsker.row = {} /\ NoAsker.late = {} /\ NoAsker.cat = Miss /\ NoAsker.revision = -1
  /\ NoAsker.manifest = NoManifest /\ Miss \in Catalogue /\ Miss.public = {} /\ Miss.m2m = {}
<1>1. Miss \in Catalogue /\ Miss.public = {} /\ Miss.m2m = {}
  BY DEF Miss, Catalogue
<1> QED
  BY <1>1, ManifestFacts, GrantAssumption DEF NoAsker, Asker, AskSteps, AskOps

\* What a step may do to the facts requests rely on.
Kept ==
  /\ approved \subseteq approved' /\ machineEver \subseteq machineEver' /\ barred \subseteq barred'
  /\ registry' = registry \/ registry'.revision > registry.revision

LEMMA IdleSound ==
  ASSUME TRUE PROVE AskSound(NoAsker) /\ AskSound(NoAsker)'
BY NoAskerFacts DEF AskSound, Publishes, Consents, Machine, CleanCatalogue, Outer

LEMMA AskKept ==
  ASSUME NEW x \in Asker, AskSound(x), Kept, registry \in Resource, registry' \in Resource
  PROVE  AskSound(x)'
<1>1. x.revision \in Int /\ registry.revision \in Int /\ registry'.revision \in Int
  BY GrantAssumption DEF Asker, Resource
<1>2. Publishes(x)'
  BY <1>1 DEF AskSound, Publishes, Kept, CleanManifest
<1>3. Consents(x)' /\ Machine(x)' /\ CleanCatalogue(x.cat)'
  BY DEF AskSound, Consents, Machine, CleanCatalogue, Kept, Outer
<1>4. (x.late \subseteq barred)' /\ (x.pc = "mint" => Fair(x.op, x.client, x.set, x.late))'
  BY DEF AskSound, Kept, Fair, Outer
<1> QED
  BY <1>2, <1>3, <1>4 DEF AskSound

LEMMA Moves ==
  ASSUME GrantInv, NEW r \in Askers, NEW x \in Asker, AskSound(x)', Kept, registry' \in Resource,
         askers' = [askers EXCEPT ![r] = x]
  PROVE  /\ askers' \in [Askers -> Asker]
         /\ (\A q \in Askers : AskSound(askers[q]))'
<1>1. askers \in [Askers -> Asker] /\ registry \in Resource
  BY DEF GrantInv, GrantTypeOK
<1>2. askers' \in [Askers -> Asker]
  BY <1>1
<1>3. ASSUME NEW q \in Askers PROVE AskSound(askers[q])'
  <2>1. AskSound(askers[q]) /\ askers[q] \in Asker
    BY <1>1 DEF GrantInv
  <2>2. PICK y \in Asker : y = askers[q]
    BY <2>1
  <2>3. AskSound(y)'
    BY <2>1, <2>2, <1>1, AskKept
  <2>4. askers'[q] = IF q = r THEN x ELSE y
    BY <1>1, <2>2
  <2> QED
    BY <2>3, <2>4 DEF AskSound, Publishes, Consents, Machine, CleanCatalogue, CleanManifest, EnsureNoActiveRemoval, Fair, Outer
<1> QED
  BY <1>2, <1>3

\* The tokens issued stay as they should be.
LEMMA TokensKept ==
  ASSUME NothingBeyondGrant, Kept, tokens' = tokens
  PROVE  NothingBeyondGrant'
BY DEF NothingBeyondGrant, Kept

\* A step that moves one request and leaves every row alone.
LEMMA Talk ==
  ASSUME GrantInv, NEW r \in Askers, NEW x \in Asker, AskSound(x)', askers' = [askers EXCEPT ![r] = x],
         turns' \in 0..grantScope.turns, approved \subseteq approved',
         UNCHANGED <<grantScope, regVars, catalog, rowVars, barred, tokens>>
  PROVE  GrantInv'
<1>1. Kept /\ registry' \in Resource
  BY DEF Kept, regVars, GrantInv, GrantTypeOK
<1>2. askers' \in [Askers -> Asker] /\ (\A q \in Askers : AskSound(askers[q]))'
  BY <1>1, Moves
<1>3. GrantTypeOK'
  BY <1>2 DEF GrantInv, GrantTypeOK, regVars, rowVars
<1>4. RegistrySound' /\ CleanCatalogue(catalog)'
  BY DEF GrantInv, RegistrySound, CleanManifest, Noted, CleanCatalogue, Outer, regVars
<1>5. HoldersSound'
  BY DEF GrantInv, HoldersSound, Outer, rowVars
<1>6. NothingBeyondGrant'
  BY <1>1, TokensKept DEF GrantInv
<1> QED
  BY <1>2, <1>3, <1>4, <1>5, <1>6 DEF GrantInv

\* A step that moves one request and changes the cache.
LEMMA Caches ==
  ASSUME GrantInv, NEW r \in Askers, NEW x \in Asker, AskSound(x)', askers' = [askers EXCEPT ![r] = x],
         turns' \in 0..grantScope.turns, catalog' \in Catalogue, CleanCatalogue(catalog'),
         UNCHANGED <<grantScope, regVars, rowVars, barred, approved, tokens>>
  PROVE  GrantInv'
<1>1. Kept /\ registry' \in Resource
  BY DEF Kept, regVars, GrantInv, GrantTypeOK
<1>2. askers' \in [Askers -> Asker] /\ (\A q \in Askers : AskSound(askers[q]))'
  BY <1>1, Moves
<1>3. GrantTypeOK'
  BY <1>2 DEF GrantInv, GrantTypeOK, regVars, rowVars
<1>4. RegistrySound' /\ CleanCatalogue(catalog)'
  BY DEF GrantInv, RegistrySound, CleanManifest, Noted, CleanCatalogue, Outer, regVars
<1>5. HoldersSound'
  BY DEF GrantInv, HoldersSound, Outer, rowVars
<1>6. NothingBeyondGrant'
  BY <1>1, TokensKept DEF GrantInv
<1> QED
  BY <1>2, <1>3, <1>4, <1>5, <1>6 DEF GrantInv

\* A step that moves one request and writes rows.
LEMMA Writes ==
  ASSUME GrantInv, NEW r \in Askers, NEW x \in Asker, AskSound(x)', askers' = [askers EXCEPT ![r] = x],
         turns' \in 0..grantScope.turns, HoldersSound',
         clients' \in [Clients -> ClientRow], consent' \in [there: BOOLEAN, scopes: SUBSET Names],
         codes' \subseteq [client: Clients, scopes: SUBSET Names], apiKey' \in KeyRow, keyIndex' \in KeyRow,
         touching' \in BOOLEAN, UNCHANGED <<grantScope, regVars, catalog, barred, approved, tokens>>
  PROVE  GrantInv'
<1>1. Kept /\ registry' \in Resource
  BY DEF Kept, regVars, GrantInv, GrantTypeOK
<1>2. askers' \in [Askers -> Asker] /\ (\A q \in Askers : AskSound(askers[q]))'
  BY <1>1, Moves
<1>3. GrantTypeOK'
  BY <1>2 DEF GrantInv, GrantTypeOK, regVars
<1>4. RegistrySound' /\ CleanCatalogue(catalog)'
  BY DEF GrantInv, RegistrySound, CleanManifest, Noted, CleanCatalogue, Outer, regVars
<1>5. NothingBeyondGrant'
  BY <1>1, TokensKept DEF GrantInv
<1> QED
  BY <1>2, <1>3, <1>4, <1>5 DEF GrantInv

\* A request that ends and leaves the rows alone.
LEMMA Answers ==
  ASSUME GrantInv, NEW r \in Askers, Answer(r),
         UNCHANGED <<grantScope, turns, regVars, catalog, rowVars, barred, approved, tokens>>
  PROVE  GrantInv'
<1>1. turns' \in 0..grantScope.turns
  BY DEF GrantInv, GrantTypeOK
<1> QED
  BY <1>1, Talk, IdleSound, NoAskerFacts DEF Answer

-----------------------------------------------------------------------------
(* Requests that arrive *)

LEMMA AskIs ==
  ASSUME GrantInv, NEW r \in Askers, NEW op \in AskOps, NEW new \in Asker, Ask(r, op, new)
  PROVE  /\ turns' \in 0..grantScope.turns /\ grantScope' = grantScope
         /\ \E x \in Asker :
              /\ x.pc = new.pc /\ x.op = op /\ x.client = new.client /\ x.set = new.set /\ x.manifest = new.manifest
              /\ x.revision = new.revision /\ x.row = new.row /\ x.cat = new.cat /\ x.late = barred
              /\ askers' = [askers EXCEPT ![r] = x]
<1>1. grantScope.turns \in Nat /\ turns \in 0..grantScope.turns
  BY GrantAssumption DEF GrantInv, GrantTypeOK
<1>2. turns' \in 0..grantScope.turns /\ grantScope' = grantScope
  BY <1>1 DEF Ask
<1>3. barred \in SUBSET Bars
  BY DEF GrantInv, GrantTypeOK
<1>4. PICK x : x = [new EXCEPT !.op = op, !.late = barred]
  OBVIOUS
<1>5. x \in Asker
  BY <1>3, <1>4 DEF Asker
<1>6. /\ x.pc = new.pc /\ x.op = op /\ x.client = new.client /\ x.set = new.set /\ x.manifest = new.manifest
      /\ x.revision = new.revision /\ x.row = new.row /\ x.cat = new.cat /\ x.late = barred
  BY <1>4 DEF Asker
<1>7. askers' = [askers EXCEPT ![r] = x]
  BY <1>4 DEF Ask
<1> QED
  BY <1>2, <1>5, <1>6, <1>7

LEMMA PutManifestGrants ==
  ASSUME GrantInv, NEW r \in Askers, NEW m \in Manifests, PutManifest(r, m)
  PROVE  GrantInv'
<1>1. PICK n : n = [NoAsker EXCEPT !.pc = "publish", !.manifest = m, !.revision = registry.revision]
  OBVIOUS
<1>2. n \in Asker
  BY <1>1, NoAskerFacts, GrantAssumption DEF Asker, AskSteps, Clients, GrantInv, GrantTypeOK, Resource
<1>3. /\ n.pc = "publish" /\ n.manifest = m /\ n.revision = registry.revision /\ n.client = "none" /\ n.set = {} /\ n.row = {}
      /\ n.cat = Miss
  BY <1>1, NoAskerFacts DEF Asker
<1>4. Ask(r, "publish", n) /\ "publish" \in AskOps
  BY <1>1 DEF PutManifest, AskOps
<1>5. PICK x \in Asker :
        /\ x.pc = n.pc /\ x.op = "publish" /\ x.client = n.client /\ x.set = n.set /\ x.manifest = n.manifest
        /\ x.revision = n.revision /\ x.row = n.row /\ x.cat = n.cat /\ x.late = barred
        /\ askers' = [askers EXCEPT ![r] = x]
  BY <1>2, <1>4, AskIs
<1>6. AskSound(x)'
  BY <1>3, <1>5, NoAskerFacts DEF PutManifest, AskSound, Publishes, Consents, Machine, CleanCatalogue, Outer, regVars
<1>7. turns' \in 0..grantScope.turns /\ grantScope' = grantScope
  BY <1>2, <1>4, AskIs
<1> QED
  BY <1>5, <1>6, <1>7, Talk DEF PutManifest

LEMMA RestoreRevisionGrants ==
  ASSUME GrantInv, NEW r \in Askers, NEW k \in 1..MaxRevisions, RestoreRevision(r, k)
  PROVE  GrantInv'
<1>0. /\ revisions[k] \in Manifest /\ CleanManifest(revisions[k]) /\ registry.revision \in -1..MaxRevisions
      /\ registry.revision \in Int
  BY GrantAssumption DEF RestoreRevision, GrantInv, GrantTypeOK, RegistrySound, Resource
<1>1. PICK n : n = [NoAsker EXCEPT !.pc = "reconcile", !.manifest = revisions[k], !.revision = registry.revision]
  OBVIOUS
<1>2. n \in Asker
  BY <1>1, <1>0, NoAskerFacts, GrantAssumption DEF Asker, AskSteps, Clients, GrantInv, GrantTypeOK, Resource
<1>3. /\ n.pc = "reconcile" /\ n.manifest = revisions[k] /\ n.revision = registry.revision /\ n.client = "none" /\ n.set = {} /\ n.row = {}
      /\ n.cat = Miss
  BY <1>1, NoAskerFacts DEF Asker
<1>4. Ask(r, "restore", n) /\ "restore" \in AskOps
  BY <1>1 DEF RestoreRevision, GetRevision, AskOps
<1>5. PICK x \in Asker :
        /\ x.pc = n.pc /\ x.op = "restore" /\ x.client = n.client /\ x.set = n.set /\ x.manifest = n.manifest
        /\ x.revision = n.revision /\ x.row = n.row /\ x.cat = n.cat /\ x.late = barred
        /\ askers' = [askers EXCEPT ![r] = x]
  BY <1>2, <1>4, AskIs
<1>6. AskSound(x)'
  BY <1>3, <1>5, NoAskerFacts, <1>0, GrantAssumption DEF RestoreRevision, AskSound, Publishes, Consents, Machine, CleanCatalogue, Outer, regVars, Resource, CleanManifest
<1>7. turns' \in 0..grantScope.turns /\ grantScope' = grantScope
  BY <1>2, <1>4, AskIs
<1> QED
  BY <1>5, <1>6, <1>7, Talk DEF RestoreRevision

LEMMA EnsurePublicClientGrants ==
  ASSUME GrantInv, NEW r \in Askers, NEW S \in SUBSET Names, EnsurePublicClient(r, S)
  PROVE  GrantInv'
<1>1. PICK n : n = [NoAsker EXCEPT !.pc = "uiRead", !.set = S]
  OBVIOUS
<1>2. n \in Asker
  BY <1>1, NoAskerFacts, GrantAssumption DEF Asker, AskSteps, Clients
<1>3. /\ n.pc = "uiRead" /\ n.set = S /\ n.client = "none" /\ n.row = {}
      /\ n.cat = Miss
  BY <1>1, NoAskerFacts DEF Asker
<1>4. Ask(r, "ensure", n) /\ "ensure" \in AskOps
  BY <1>1 DEF EnsurePublicClient, AskOps
<1>5. PICK x \in Asker :
        /\ x.pc = n.pc /\ x.op = "ensure" /\ x.client = n.client /\ x.set = n.set /\ x.manifest = n.manifest
        /\ x.revision = n.revision /\ x.row = n.row /\ x.cat = n.cat /\ x.late = barred
        /\ askers' = [askers EXCEPT ![r] = x]
  BY <1>2, <1>4, AskIs
<1>6. AskSound(x)'
  BY <1>3, <1>5, NoAskerFacts DEF EnsurePublicClient, AskSound, Publishes, Consents, Machine, CleanCatalogue, Outer, regVars
<1>7. turns' \in 0..grantScope.turns /\ grantScope' = grantScope
  BY <1>2, <1>4, AskIs
<1> QED
  BY <1>5, <1>6, <1>7, Talk DEF EnsurePublicClient

LEMMA BootstrapAccountGrants ==
  ASSUME GrantInv, NEW r \in Askers, NEW m \in Manifests, BootstrapAccount(r, m)
  PROVE  GrantInv'
<1>1. PICK n : n = [NoAsker EXCEPT !.pc = "bootRead", !.manifest = m]
  OBVIOUS
<1>2. n \in Asker
  BY <1>1, NoAskerFacts, GrantAssumption DEF Asker, AskSteps, Clients
<1>3. /\ n.pc = "bootRead" /\ n.manifest = m /\ n.client = "none" /\ n.set = {} /\ n.row = {}
      /\ n.cat = Miss
  BY <1>1, NoAskerFacts DEF Asker
<1>4. Ask(r, "boot", n) /\ "boot" \in AskOps
  BY <1>1 DEF BootstrapAccount, AskOps
<1>5. PICK x \in Asker :
        /\ x.pc = n.pc /\ x.op = "boot" /\ x.client = n.client /\ x.set = n.set /\ x.manifest = n.manifest
        /\ x.revision = n.revision /\ x.row = n.row /\ x.cat = n.cat /\ x.late = barred
        /\ askers' = [askers EXCEPT ![r] = x]
  BY <1>2, <1>4, AskIs
<1>6. AskSound(x)'
  BY <1>3, <1>5, NoAskerFacts DEF BootstrapAccount, AskSound, Publishes, Consents, Machine, CleanCatalogue, Outer, regVars
<1>7. turns' \in 0..grantScope.turns /\ grantScope' = grantScope
  BY <1>2, <1>4, AskIs
<1> QED
  BY <1>5, <1>6, <1>7, Talk DEF BootstrapAccount

LEMMA CreateClientGrants ==
  ASSUME GrantInv, NEW r \in Askers, NEW S \in SUBSET Names, CreateClient(r, S)
  PROVE  GrantInv'
<1>1. PICK n : n = [NoAsker EXCEPT !.pc = "catalog", !.client = "dev", !.set = S]
  OBVIOUS
<1>2. n \in Asker
  BY <1>1, NoAskerFacts, GrantAssumption DEF Asker, AskSteps, Clients
<1>3. /\ n.pc = "catalog" /\ n.client = "dev" /\ n.set = S /\ n.row = {}
      /\ n.cat = Miss
  BY <1>1, NoAskerFacts DEF Asker
<1>4. Ask(r, "create", n) /\ "create" \in AskOps
  BY <1>1 DEF CreateClient, AskOps
<1>5. PICK x \in Asker :
        /\ x.pc = n.pc /\ x.op = "create" /\ x.client = n.client /\ x.set = n.set /\ x.manifest = n.manifest
        /\ x.revision = n.revision /\ x.row = n.row /\ x.cat = n.cat /\ x.late = barred
        /\ askers' = [askers EXCEPT ![r] = x]
  BY <1>2, <1>4, AskIs
<1>6. AskSound(x)'
  BY <1>3, <1>5, NoAskerFacts DEF CreateClient, AskSound, Publishes, Consents, Machine, CleanCatalogue, Outer, regVars
<1>7. turns' \in 0..grantScope.turns /\ grantScope' = grantScope
  BY <1>2, <1>4, AskIs
<1> QED
  BY <1>5, <1>6, <1>7, Talk DEF CreateClient

LEMMA UpdateClientGrants ==
  ASSUME GrantInv, NEW r \in Askers, NEW S \in SUBSET Names, UpdateClient(r, S)
  PROVE  GrantInv'
<1>1. PICK n : n = [NoAsker EXCEPT !.pc = "catalog", !.client = "dev", !.set = S]
  OBVIOUS
<1>2. n \in Asker
  BY <1>1, NoAskerFacts, GrantAssumption DEF Asker, AskSteps, Clients
<1>3. /\ n.pc = "catalog" /\ n.client = "dev" /\ n.set = S /\ n.row = {}
      /\ n.cat = Miss
  BY <1>1, NoAskerFacts DEF Asker
<1>4. Ask(r, "update", n) /\ "update" \in AskOps
  BY <1>1 DEF UpdateClient, AskOps
<1>5. PICK x \in Asker :
        /\ x.pc = n.pc /\ x.op = "update" /\ x.client = n.client /\ x.set = n.set /\ x.manifest = n.manifest
        /\ x.revision = n.revision /\ x.row = n.row /\ x.cat = n.cat /\ x.late = barred
        /\ askers' = [askers EXCEPT ![r] = x]
  BY <1>2, <1>4, AskIs
<1>6. AskSound(x)'
  BY <1>3, <1>5, NoAskerFacts DEF UpdateClient, AskSound, Publishes, Consents, Machine, CleanCatalogue, Outer, regVars
<1>7. turns' \in 0..grantScope.turns /\ grantScope' = grantScope
  BY <1>2, <1>4, AskIs
<1> QED
  BY <1>5, <1>6, <1>7, Talk DEF UpdateClient

LEMMA RemoveClientGrants ==
  ASSUME GrantInv, NEW r \in Askers, RemoveClient(r)
  PROVE  GrantInv'
<1>1. PICK n : n = [NoAsker EXCEPT !.pc = "deleteClient"]
  OBVIOUS
<1>2. n \in Asker
  BY <1>1, NoAskerFacts, GrantAssumption DEF Asker, AskSteps, Clients
<1>3. /\ n.pc = "deleteClient" /\ n.client = "none" /\ n.set = {} /\ n.row = {}
      /\ n.cat = Miss
  BY <1>1, NoAskerFacts DEF Asker
<1>4. Ask(r, "delete", n) /\ "delete" \in AskOps
  BY <1>1 DEF RemoveClient, AskOps
<1>5. PICK x \in Asker :
        /\ x.pc = n.pc /\ x.op = "delete" /\ x.client = n.client /\ x.set = n.set /\ x.manifest = n.manifest
        /\ x.revision = n.revision /\ x.row = n.row /\ x.cat = n.cat /\ x.late = barred
        /\ askers' = [askers EXCEPT ![r] = x]
  BY <1>2, <1>4, AskIs
<1>6. AskSound(x)'
  BY <1>3, <1>5, NoAskerFacts DEF RemoveClient, AskSound, Publishes, Consents, Machine, CleanCatalogue, Outer, regVars
<1>7. turns' \in 0..grantScope.turns /\ grantScope' = grantScope
  BY <1>2, <1>4, AskIs
<1> QED
  BY <1>5, <1>6, <1>7, Talk DEF RemoveClient

LEMMA RegenerateSecretGrants ==
  ASSUME GrantInv, NEW r \in Askers, RegenerateSecret(r)
  PROVE  GrantInv'
<1>1. PICK n : n = [NoAsker EXCEPT !.pc = "writeSecret"]
  OBVIOUS
<1>2. n \in Asker
  BY <1>1, NoAskerFacts, GrantAssumption DEF Asker, AskSteps, Clients
<1>3. /\ n.pc = "writeSecret" /\ n.client = "none" /\ n.set = {} /\ n.row = {}
      /\ n.cat = Miss
  BY <1>1, NoAskerFacts DEF Asker
<1>4. Ask(r, "secret", n) /\ "secret" \in AskOps
  BY <1>1 DEF RegenerateSecret, AskOps
<1>5. PICK x \in Asker :
        /\ x.pc = n.pc /\ x.op = "secret" /\ x.client = n.client /\ x.set = n.set /\ x.manifest = n.manifest
        /\ x.revision = n.revision /\ x.row = n.row /\ x.cat = n.cat /\ x.late = barred
        /\ askers' = [askers EXCEPT ![r] = x]
  BY <1>2, <1>4, AskIs
<1>6. AskSound(x)'
  BY <1>3, <1>5, NoAskerFacts DEF RegenerateSecret, AskSound, Publishes, Consents, Machine, CleanCatalogue, Outer, regVars
<1>7. turns' \in 0..grantScope.turns /\ grantScope' = grantScope
  BY <1>2, <1>4, AskIs
<1> QED
  BY <1>5, <1>6, <1>7, Talk DEF RegenerateSecret

LEMMA CreateM2MGrants ==
  ASSUME GrantInv, NEW r \in Askers, NEW S \in SUBSET Names, CreateM2M(r, S)
  PROVE  GrantInv'
<1>1. PICK n : n = [NoAsker EXCEPT !.pc = "catalog", !.set = S]
  OBVIOUS
<1>2. n \in Asker
  BY <1>1, NoAskerFacts, GrantAssumption DEF Asker, AskSteps, Clients
<1>3. /\ n.pc = "catalog" /\ n.set = S /\ n.client = "none" /\ n.row = {}
      /\ n.cat = Miss
  BY <1>1, NoAskerFacts DEF Asker
<1>4. Ask(r, "service", n) /\ "service" \in AskOps
  BY <1>1 DEF CreateM2M, AskOps
<1>5. PICK x \in Asker :
        /\ x.pc = n.pc /\ x.op = "service" /\ x.client = n.client /\ x.set = n.set /\ x.manifest = n.manifest
        /\ x.revision = n.revision /\ x.row = n.row /\ x.cat = n.cat /\ x.late = barred
        /\ askers' = [askers EXCEPT ![r] = x]
  BY <1>2, <1>4, AskIs
<1>6. AskSound(x)'
  BY <1>3, <1>5, NoAskerFacts DEF CreateM2M, AskSound, Publishes, Consents, Machine, CleanCatalogue, Outer, regVars
<1>7. turns' \in 0..grantScope.turns /\ grantScope' = grantScope
  BY <1>2, <1>4, AskIs
<1> QED
  BY <1>5, <1>6, <1>7, Talk DEF CreateM2M

LEMMA GrantM2MScopesGrants ==
  ASSUME GrantInv, NEW r \in Askers, NEW S \in SUBSET Names, GrantM2MScopes(r, S)
  PROVE  GrantInv'
<1>1. PICK n : n = [NoAsker EXCEPT !.pc = "catalog", !.set = S]
  OBVIOUS
<1>2. n \in Asker
  BY <1>1, NoAskerFacts, GrantAssumption DEF Asker, AskSteps, Clients
<1>3. /\ n.pc = "catalog" /\ n.set = S /\ n.client = "none" /\ n.row = {}
      /\ n.cat = Miss
  BY <1>1, NoAskerFacts DEF Asker
<1>4. Ask(r, "grant", n) /\ "grant" \in AskOps
  BY <1>1 DEF GrantM2MScopes, AskOps
<1>5. PICK x \in Asker :
        /\ x.pc = n.pc /\ x.op = "grant" /\ x.client = n.client /\ x.set = n.set /\ x.manifest = n.manifest
        /\ x.revision = n.revision /\ x.row = n.row /\ x.cat = n.cat /\ x.late = barred
        /\ askers' = [askers EXCEPT ![r] = x]
  BY <1>2, <1>4, AskIs
<1>6. AskSound(x)'
  BY <1>3, <1>5, NoAskerFacts DEF GrantM2MScopes, AskSound, Publishes, Consents, Machine, CleanCatalogue, Outer, regVars
<1>7. turns' \in 0..grantScope.turns /\ grantScope' = grantScope
  BY <1>2, <1>4, AskIs
<1> QED
  BY <1>5, <1>6, <1>7, Talk DEF GrantM2MScopes

LEMMA CreateKeyGrants ==
  ASSUME GrantInv, NEW r \in Askers, NEW S \in SUBSET Names, CreateKey(r, S)
  PROVE  GrantInv'
<1>1. PICK n : n = [NoAsker EXCEPT !.pc = "catalog", !.set = S]
  OBVIOUS
<1>2. n \in Asker
  BY <1>1, NoAskerFacts, GrantAssumption DEF Asker, AskSteps, Clients
<1>3. /\ n.pc = "catalog" /\ n.set = S /\ n.client = "none" /\ n.row = {}
      /\ n.cat = Miss
  BY <1>1, NoAskerFacts DEF Asker
<1>4. Ask(r, "key", n) /\ "key" \in AskOps
  BY <1>1 DEF CreateKey, AskOps
<1>5. PICK x \in Asker :
        /\ x.pc = n.pc /\ x.op = "key" /\ x.client = n.client /\ x.set = n.set /\ x.manifest = n.manifest
        /\ x.revision = n.revision /\ x.row = n.row /\ x.cat = n.cat /\ x.late = barred
        /\ askers' = [askers EXCEPT ![r] = x]
  BY <1>2, <1>4, AskIs
<1>6. AskSound(x)'
  BY <1>3, <1>5, NoAskerFacts DEF CreateKey, AskSound, Publishes, Consents, Machine, CleanCatalogue, Outer, regVars
<1>7. turns' \in 0..grantScope.turns /\ grantScope' = grantScope
  BY <1>2, <1>4, AskIs
<1> QED
  BY <1>5, <1>6, <1>7, Talk DEF CreateKey

LEMMA RevokeKeyGrants ==
  ASSUME GrantInv, NEW r \in Askers, RevokeKey(r)
  PROVE  GrantInv'
<1>1. PICK n : n = [NoAsker EXCEPT !.pc = "deleteKey"]
  OBVIOUS
<1>2. n \in Asker
  BY <1>1, NoAskerFacts, GrantAssumption DEF Asker, AskSteps, Clients
<1>3. /\ n.pc = "deleteKey" /\ n.client = "none" /\ n.set = {} /\ n.row = {}
      /\ n.cat = Miss
  BY <1>1, NoAskerFacts DEF Asker
<1>4. Ask(r, "revokeKey", n) /\ "revokeKey" \in AskOps
  BY <1>1 DEF RevokeKey, AskOps
<1>5. PICK x \in Asker :
        /\ x.pc = n.pc /\ x.op = "revokeKey" /\ x.client = n.client /\ x.set = n.set /\ x.manifest = n.manifest
        /\ x.revision = n.revision /\ x.row = n.row /\ x.cat = n.cat /\ x.late = barred
        /\ askers' = [askers EXCEPT ![r] = x]
  BY <1>2, <1>4, AskIs
<1>6. AskSound(x)'
  BY <1>3, <1>5, NoAskerFacts DEF RevokeKey, AskSound, Publishes, Consents, Machine, CleanCatalogue, Outer, regVars
<1>7. turns' \in 0..grantScope.turns /\ grantScope' = grantScope
  BY <1>2, <1>4, AskIs
<1> QED
  BY <1>5, <1>6, <1>7, Talk DEF RevokeKey

LEMMA ExchangeCodeGrants ==
  ASSUME GrantInv, NEW r \in Askers, NEW c \in {"ui", "dev"}, ExchangeCode(r, c)
  PROVE  GrantInv'
<1>1. PICK n : n = [NoAsker EXCEPT !.pc = "redeem", !.client = c]
  OBVIOUS
<1>2. n \in Asker
  BY <1>1, NoAskerFacts, GrantAssumption DEF Asker, AskSteps, Clients
<1>3. /\ n.pc = "redeem" /\ n.client = c /\ n.set = {} /\ n.row = {}
      /\ n.cat = Miss
  BY <1>1, NoAskerFacts DEF Asker
<1>4. Ask(r, "exchange", n) /\ "exchange" \in AskOps
  BY <1>1 DEF ExchangeCode, AskOps
<1>5. PICK x \in Asker :
        /\ x.pc = n.pc /\ x.op = "exchange" /\ x.client = n.client /\ x.set = n.set /\ x.manifest = n.manifest
        /\ x.revision = n.revision /\ x.row = n.row /\ x.cat = n.cat /\ x.late = barred
        /\ askers' = [askers EXCEPT ![r] = x]
  BY <1>2, <1>4, AskIs
<1>6. AskSound(x)'
  BY <1>3, <1>5, NoAskerFacts DEF ExchangeCode, AskSound, Publishes, Consents, Machine, CleanCatalogue, Outer, regVars
<1>7. turns' \in 0..grantScope.turns /\ grantScope' = grantScope
  BY <1>2, <1>4, AskIs
<1> QED
  BY <1>5, <1>6, <1>7, Talk DEF ExchangeCode

LEMMA AuthorizeGrants ==
  ASSUME GrantInv, NEW r \in Askers, NEW c \in {"ui", "dev"}, NEW S \in SUBSET Names, Authorize(r, c, S)
  PROVE  GrantInv'
<1>0. FilterScopes(c, S) \in SUBSET Names /\ (c = "dev" => clients[c].owner # "system" /\ Outer(FilterScopes(c, S)))
  BY DEF FilterScopes, GrantInv, HoldersSound, Outer
<1>1. PICK n : n = [NoAsker EXCEPT !.pc = IF clients[c].owner = "system" THEN "storeCode" ELSE "hasGrant",
                                  !.client = c, !.set = FilterScopes(c, S)]
  OBVIOUS
<1>2. n \in Asker
  BY <1>1, <1>0, NoAskerFacts, GrantAssumption DEF Asker, AskSteps, Clients
<1>3. /\ n.pc = (IF clients[c].owner = "system" THEN "storeCode" ELSE "hasGrant") /\ n.client = c /\ n.set = FilterScopes(c, S) /\ n.row = {}
      /\ n.cat = Miss
  BY <1>1, NoAskerFacts DEF Asker
<1>4. Ask(r, "authorize", n) /\ "authorize" \in AskOps
  BY <1>1 DEF Authorize, AskOps
<1>5. PICK x \in Asker :
        /\ x.pc = n.pc /\ x.op = "authorize" /\ x.client = n.client /\ x.set = n.set /\ x.manifest = n.manifest
        /\ x.revision = n.revision /\ x.row = n.row /\ x.cat = n.cat /\ x.late = barred
        /\ askers' = [askers EXCEPT ![r] = x]
  BY <1>2, <1>4, AskIs
<1>6. AskSound(x)'
  BY <1>3, <1>5, NoAskerFacts, <1>0 DEF Authorize, AskSound, Publishes, Consents, Machine, CleanCatalogue, Outer, regVars, Clients
<1>7. turns' \in 0..grantScope.turns /\ grantScope' = grantScope
  BY <1>2, <1>4, AskIs
<1> QED
  BY <1>5, <1>6, <1>7, Talk DEF Authorize

LEMMA ConsentDecisionGrants ==
  ASSUME GrantInv, NEW r \in Askers, NEW S \in SUBSET Names, ConsentDecision(r, S)
  PROVE  GrantInv'
<1>0. /\ FilterScopes("dev", S) \in SUBSET Names /\ consent.scopes \in SUBSET Names
      /\ consent.scopes \subseteq approved
  BY DEF FilterScopes, GrantInv, GrantTypeOK, HoldersSound
<1>1. PICK n : n = [NoAsker EXCEPT !.pc = "putGrant", !.client = "dev", !.set = FilterScopes("dev", S), !.row = consent.scopes]
  OBVIOUS
<1>2. n \in Asker
  BY <1>1, <1>0, NoAskerFacts, GrantAssumption DEF Asker, AskSteps, Clients
<1>3. /\ n.pc = "putGrant" /\ n.client = "dev" /\ n.set = FilterScopes("dev", S) /\ n.row = consent.scopes
      /\ n.cat = Miss
  BY <1>1, NoAskerFacts DEF Asker
<1>4. Ask(r, "consent", n) /\ "consent" \in AskOps
  BY <1>1 DEF ConsentDecision, AskOps
<1>5. PICK x \in Asker :
        /\ x.pc = n.pc /\ x.op = "consent" /\ x.client = n.client /\ x.set = n.set /\ x.manifest = n.manifest
        /\ x.revision = n.revision /\ x.row = n.row /\ x.cat = n.cat /\ x.late = barred
        /\ askers' = [askers EXCEPT ![r] = x]
  BY <1>2, <1>4, AskIs
<1>6. AskSound(x)'
  BY <1>3, <1>5, NoAskerFacts, <1>0 DEF ConsentDecision, AskSound, Publishes, Consents, Machine, CleanCatalogue, Outer, regVars
<1>7. turns' \in 0..grantScope.turns /\ grantScope' = grantScope
  BY <1>2, <1>4, AskIs
<1> QED
  BY <1>5, <1>6, <1>7, Talk DEF ConsentDecision

\* A developer's machine client, or a service's.
LEMMA ClientCredentialsGrants ==
  ASSUME GrantInv, NEW r \in Askers, NEW c \in {"svc", "dev"}, NEW S \in SUBSET Names, ClientCredentials(r, c, S)
  PROVE  GrantInv'
<1>0. FilterScopes(c, S) \in SUBSET Names /\ clients[c].scopes \in SUBSET Names
  BY DEF FilterScopes, GrantInv, GrantTypeOK, ClientRow, Clients
<1>1. CASE clients[c].owner = "system"
  <2>0. c = "svc"
    BY <1>1 DEF GrantInv, HoldersSound
  <2>1. PICK n : n = [NoAsker EXCEPT !.pc = "catalog", !.client = c, !.set = FilterScopes(c, S)]
    OBVIOUS
  <2>2. n \in Asker
    BY <2>1, <1>0, NoAskerFacts DEF Asker, AskSteps, Clients
  <2>3. n.pc = "catalog" /\ n.client = "svc" /\ n.cat = Miss
    BY <2>0, <2>1, NoAskerFacts DEF Asker
  <2>4. Ask(r, "token", n) /\ "token" \in AskOps
    BY <1>1, <2>1 DEF ClientCredentials, AskOps
  <2>5. PICK x \in Asker :
          /\ x.pc = n.pc /\ x.op = "token" /\ x.client = n.client /\ x.set = n.set /\ x.manifest = n.manifest
          /\ x.revision = n.revision /\ x.row = n.row /\ x.cat = n.cat /\ x.late = barred
          /\ askers' = [askers EXCEPT ![r] = x]
    BY <2>2, <2>4, AskIs
  <2>6. AskSound(x)'
    BY <2>3, <2>5, NoAskerFacts DEF ClientCredentials, AskSound, Publishes, Consents, Machine, CleanCatalogue, Outer
  <2>7. turns' \in 0..grantScope.turns /\ grantScope' = grantScope
    BY <2>2, <2>4, AskIs
  <2> QED
    BY <2>5, <2>6, <2>7, Talk DEF ClientCredentials
<1>2. CASE clients[c].owner # "system"
  <2>0. c = "dev" /\ Outer(clients[c].scopes)
    BY <1>2 DEF GrantInv, HoldersSound, ClientCredentials
  <2>1. PICK n : n = [NoAsker EXCEPT !.pc = "active", !.client = c, !.set = S, !.row = clients[c].scopes]
    OBVIOUS
  <2>2. n \in Asker
    BY <2>1, <1>0, NoAskerFacts DEF Asker, AskSteps, Clients
  <2>3. n.pc = "active" /\ n.client = "dev" /\ Outer(n.row) /\ n.cat = Miss
    BY <2>0, <2>1, NoAskerFacts DEF Asker
  <2>4. Ask(r, "machine", n) /\ "machine" \in AskOps
    BY <1>2, <2>1 DEF ClientCredentials, AskOps
  <2>5. PICK x \in Asker :
          /\ x.pc = n.pc /\ x.op = "machine" /\ x.client = n.client /\ x.set = n.set /\ x.manifest = n.manifest
          /\ x.revision = n.revision /\ x.row = n.row /\ x.cat = n.cat /\ x.late = barred
          /\ askers' = [askers EXCEPT ![r] = x]
    BY <2>2, <2>4, AskIs
  <2>6. AskSound(x)'
    BY <2>3, <2>5, NoAskerFacts DEF ClientCredentials, AskSound, Publishes, Consents, Machine, CleanCatalogue, Outer
  <2>7. turns' \in 0..grantScope.turns /\ grantScope' = grantScope
    BY <2>2, <2>4, AskIs
  <2> QED
    BY <2>5, <2>6, <2>7, Talk DEF ClientCredentials
<1> QED
  BY <1>1, <1>2

-----------------------------------------------------------------------------
(* Requests that go on *)

\* x is where y is, but for its step.
Like(x, y) ==
  /\ x.op = y.op /\ x.client = y.client /\ x.set = y.set /\ x.manifest = y.manifest
  /\ x.revision = y.revision /\ x.row = y.row /\ x.cat = y.cat /\ x.late = y.late

LEMMA StepIs ==
  ASSUME GrantInv, NEW r \in Askers, NEW pc \in AskSteps, Step(r, pc)
  PROVE  \E x \in Asker : Like(x, askers[r]) /\ x.pc = pc /\ askers' = [askers EXCEPT ![r] = x]
<1>1. PICK y \in Asker : y = askers[r]
  BY DEF GrantInv, GrantTypeOK
<1>2. PICK x : x = [y EXCEPT !.pc = pc]
  OBVIOUS
<1>3. x \in Asker /\ Like(x, y) /\ x.pc = pc
  BY <1>2 DEF Asker, Like
<1>4. askers' = [askers EXCEPT ![r] = x]
  BY <1>1, <1>2 DEF Step
<1> QED
  BY <1>1, <1>3, <1>4

\* A request that goes on to step pc and leaves the rows alone.
LEMMA Goes ==
  ASSUME GrantInv, NEW r \in Askers, NEW pc \in AskSteps, Step(r, pc),
         UNCHANGED <<grantScope, turns, regVars, catalog, rowVars, barred, approved, tokens>>,
         \A x \in Asker : Like(x, askers[r]) /\ x.pc = pc => AskSound(x)
  PROVE  GrantInv'
<1>1. PICK x \in Asker : Like(x, askers[r]) /\ x.pc = pc /\ askers' = [askers EXCEPT ![r] = x]
  BY StepIs
<1>2. Kept /\ registry \in Resource /\ registry' \in Resource /\ turns' \in 0..grantScope.turns
  BY DEF Kept, regVars, GrantInv, GrantTypeOK
<1>3. AskSound(x)'
  BY <1>1, <1>2, AskKept
<1> QED
  BY <1>1, <1>2, <1>3, Talk

LEMMA PublishManifestGrants ==
  ASSUME GrantInv, NEW r \in Askers, PublishManifest(r)
  PROVE  GrantInv'
<1>1. askers[r] \in Asker /\ AskSound(askers[r]) /\ askers[r].pc = "publish" /\ registry \in Resource
  BY DEF PublishManifest, At, GrantInv, GrantTypeOK
<1>2. UNCHANGED <<grantScope, turns, regVars, catalog, rowVars, barred, approved, tokens>>
  BY DEF PublishManifest, At
<1>3. CASE Answer(r)
  BY <1>2, <1>3, Answers
<1>4. CASE Step(r, "compare") /\ askers[r].op = "boot"
  <2>1. ASSUME NEW x \in Asker, Like(x, askers[r]), x.pc = "compare" PROVE AskSound(x)
    BY <1>1, <1>4, <2>1 DEF Like, AskSound, Publishes, Consents, Machine
  <2> QED
    BY <1>2, <1>4, <2>1, Goes DEF AskSteps
<1>5. CASE Step(r, "invalidate")
  <2>1. ASSUME NEW x \in Asker, Like(x, askers[r]), x.pc = "invalidate" PROVE AskSound(x)
    BY <1>1, <2>1 DEF Like, AskSound, Publishes, Consents, Machine
  <2> QED
    BY <1>2, <1>5, <2>1, Goes DEF AskSteps
<1>6. CASE /\ Step(r, "reconcile") /\ ValidateManifest(askers[r].manifest) /\ registry.revision = askers[r].revision
           /\ EnsureNoActiveRemoval(registry.manifest, askers[r].manifest)
  <2>1. ASSUME NEW x \in Asker, Like(x, askers[r]), x.pc = "reconcile" PROVE AskSound(x)
    <3>1. CleanManifest(x.manifest) /\ x.revision = registry.revision /\ x.revision \in Int
      BY <1>1, <1>6, <2>1 DEF Like, ValidateManifest, CleanManifest, Resource
    <3>2. Publishes(x)
      BY <1>6, <2>1, <3>1 DEF Publishes, Like
    <3> QED
      BY <1>1, <2>1, <3>2 DEF Like, AskSound, Consents, Machine
  <2> QED
    BY <1>2, <1>6, <2>1, Goes DEF AskSteps
<1> QED
  BY <1>1, <1>3, <1>4, <1>5, <1>6 DEF PublishManifest


LEMMA HasGrantGrants ==
  ASSUME GrantInv, NEW r \in Askers, HasGrant(r)
  PROVE  GrantInv'
<1>1. askers[r] \in Asker /\ AskSound(askers[r]) /\ askers[r].pc = "hasGrant"
  BY DEF HasGrant, At, GrantInv, GrantTypeOK
<1>2. UNCHANGED <<grantScope, turns, regVars, catalog, rowVars, barred, approved, tokens>>
  BY DEF HasGrant, At
<1>3. CASE Answer(r)
  BY <1>2, <1>3, Answers
<1>4. CASE Step(r, "storeCode") /\ Covers(askers[r].set)
  <2>1. ASSUME NEW x \in Asker, Like(x, askers[r]), x.pc = "storeCode" PROVE AskSound(x)
    BY <1>1, <1>4, <2>1 DEF Like, AskSound, Publishes, Consents, Machine, Covers, GrantInv, HoldersSound
  <2> QED
    BY <1>2, <1>4, <2>1, Goes DEF AskSteps
<1> QED
  BY <1>3, <1>4 DEF HasGrant

LEMMA CodeOwnerGrants ==
  ASSUME GrantInv, NEW r \in Askers, CodeOwner(r)
  PROVE  GrantInv'
<1>1. askers[r] \in Asker /\ AskSound(askers[r]) /\ askers[r].pc = "person"
  BY DEF CodeOwner, At, GrantInv, GrantTypeOK
<1>2. UNCHANGED <<grantScope, turns, regVars, catalog, rowVars, barred, approved, tokens>>
  BY DEF CodeOwner, At
<1>3. CASE Answer(r)
  BY <1>2, <1>3, Answers
<1>4. CASE Step(r, "mint") /\ "locked" \notin barred
  <2>1. ASSUME NEW x \in Asker, Like(x, askers[r]), x.pc = "mint" PROVE AskSound(x)
    BY <1>1, <1>4, <2>1 DEF Like, AskSound, Publishes, Consents, Machine, Fair
  <2> QED
    BY <1>2, <1>4, <2>1, Goes DEF AskSteps
<1> QED
  BY <1>3, <1>4 DEF CodeOwner

LEMMA ClientActiveGrants ==
  ASSUME GrantInv, NEW r \in Askers, ClientActive(r)
  PROVE  GrantInv'
<1>1. askers[r] \in Asker /\ AskSound(askers[r]) /\ askers[r].pc = "active"
  BY DEF ClientActive, At, GrantInv, GrantTypeOK
<1>2. UNCHANGED <<grantScope, turns, regVars, catalog, rowVars, barred, approved, tokens>>
  BY DEF ClientActive, At
<1>3. CASE Answer(r)
  BY <1>2, <1>3, Answers
<1>4. CASE Step(r, "catalog") /\ barred = {}
  <2>1. ASSUME NEW x \in Asker, Like(x, askers[r]), x.pc = "catalog" PROVE AskSound(x)
    BY <1>1, <1>4, <2>1 DEF Like, AskSound, Publishes, Consents, Machine
  <2> QED
    BY <1>2, <1>4, <2>1, Goes DEF AskSteps
<1> QED
  BY <1>3, <1>4 DEF ClientActive

LEMMA KeyOwnerGrants ==
  ASSUME GrantInv, NEW r \in Askers, KeyOwner(r)
  PROVE  GrantInv'
<1>1. askers[r] \in Asker /\ AskSound(askers[r]) /\ askers[r].pc = "keyOwner"
  BY DEF KeyOwner, At, GrantInv, GrantTypeOK
<1>2. UNCHANGED <<grantScope, turns, regVars, catalog, rowVars, barred, approved, tokens>>
  BY DEF KeyOwner, At
<1>3. CASE Answer(r)
  BY <1>2, <1>3, Answers
<1>4. CASE Step(r, "catalog") /\ "locked" \notin barred
  <2>1. ASSUME NEW x \in Asker, Like(x, askers[r]), x.pc = "catalog" PROVE AskSound(x)
    BY <1>1, <1>4, <2>1 DEF Like, AskSound, Publishes, Consents, Machine
  <2> QED
    BY <1>2, <1>4, <2>1, Goes DEF AskSteps
<1> QED
  BY <1>3, <1>4 DEF KeyOwner

LEMMA ServiceExistsGrants ==
  ASSUME GrantInv, NEW r \in Askers, ServiceExists(r)
  PROVE  GrantInv'
<1>1. askers[r] \in Asker /\ AskSound(askers[r]) /\ askers[r].pc = "exists"
  BY DEF ServiceExists, At, GrantInv, GrantTypeOK
<1>2. UNCHANGED <<grantScope, turns, regVars, catalog, rowVars, barred, approved, tokens>>
  BY DEF ServiceExists, At
<1>3. CASE Answer(r)
  BY <1>2, <1>3, Answers
<1>4. CASE Step(r, "putService")
  <2>1. ASSUME NEW x \in Asker, Like(x, askers[r]), x.pc = "putService" PROVE AskSound(x)
    BY <1>1, <1>4, <2>1 DEF Like, AskSound, Publishes, Consents, Machine
  <2> QED
    BY <1>2, <1>4, <2>1, Goes DEF AskSteps
<1> QED
  BY <1>3, <1>4 DEF ServiceExists

LEMMA RefusalGrants ==
  ASSUME GrantInv, NEW r \in Askers, RefuseCode(r) \/ AskerFails(r)
  PROVE  GrantInv'
BY Answers DEF RefuseCode, AskerFails, At

LEMMA ReadUIClientGrants ==
  ASSUME GrantInv, NEW r \in Askers, ReadUIClient(r)
  PROVE  GrantInv'
<1>1. PICK y \in Asker : y = askers[r] /\ AskSound(y) /\ y.pc = "uiRead"
  BY DEF ReadUIClient, At, GrantInv, GrantTypeOK
<1>2. UNCHANGED <<grantScope, turns, regVars, catalog, rowVars, barred, approved, tokens>>
  BY DEF ReadUIClient, At
<1>3. CASE Answer(r)
  BY <1>2, <1>3, Answers
<1>4. CASE ~Answer(r)
  <2>1. PICK x : x = [y EXCEPT !.pc = "uiWrite", !.row = clients["ui"].scopes]
    OBVIOUS
  <2>2. x \in Asker
    BY ZenonT(30), <1>1, <2>1 DEF Asker, AskSteps, GrantInv, GrantTypeOK, ClientRow, Clients
  <2>3. /\ x.pc = "uiWrite" /\ x.row = clients["ui"].scopes
        /\ x.op = y.op /\ x.client = y.client /\ x.set = y.set /\ x.manifest = y.manifest /\ x.revision = y.revision /\ x.cat = y.cat /\ x.late = y.late
    BY <2>1 DEF Asker
  <2>4. askers' = [askers EXCEPT ![r] = x]
    BY <1>1, <1>4, <2>1 DEF ReadUIClient
  <2>5. AskSound(x)
    BY <1>1, <2>3, <2>4 DEF AskSound, Publishes, Consents, Machine 
  <2>6. Kept /\ registry \in Resource /\ registry' \in Resource /\ turns' \in 0..grantScope.turns
    BY <1>2 DEF Kept, regVars, GrantInv, GrantTypeOK
  <2>7. AskSound(x)'
    BY <2>2, <2>5, <2>6, AskKept
  <2> QED
    BY <1>2, <2>2, <2>4, <2>6, <2>7, Talk
<1> QED
  BY <1>3, <1>4

LEMMA BootReadGrants ==
  ASSUME GrantInv, NEW r \in Askers, BootRead(r)
  PROVE  GrantInv'
<1>1. PICK y \in Asker : y = askers[r] /\ AskSound(y) /\ y.pc = "bootRead"
  BY DEF BootRead, At, GrantInv, GrantTypeOK
<1>2. UNCHANGED <<grantScope, turns, regVars, catalog, rowVars, barred, approved, tokens>>
  BY DEF BootRead, At
<1>3. CASE Answer(r)
  BY <1>2, <1>3, Answers
<1>4. CASE ~Answer(r)
  <2>1. PICK x : x = [y EXCEPT !.pc = IF registry.revision = -1 THEN "bootCreate" ELSE "publish",
                          !.revision = registry.revision]
    OBVIOUS
  <2>2. x \in Asker
    BY <1>1, <2>1, ZenonT(40) DEF Asker, AskSteps, GrantInv, GrantTypeOK, Resource
  <2>3. /\ x.pc = (IF registry.revision = -1 THEN "bootCreate" ELSE "publish") /\ x.revision = registry.revision
        /\ x.op = y.op /\ x.client = y.client /\ x.set = y.set /\ x.manifest = y.manifest /\ x.row = y.row /\ x.cat = y.cat /\ x.late = y.late
    BY <2>1 DEF Asker
  <2>4. askers' = [askers EXCEPT ![r] = x]
    BY <1>1, <1>4, <2>1 DEF BootRead
  <2>5. AskSound(x)
    BY <1>1, <2>3, <2>4 DEF AskSound, Publishes, Consents, Machine
  <2>6. Kept /\ registry \in Resource /\ registry' \in Resource /\ turns' \in 0..grantScope.turns
    BY <1>2 DEF Kept, regVars, GrantInv, GrantTypeOK
  <2>7. AskSound(x)'
    BY <2>2, <2>5, <2>6, AskKept
  <2> QED
    BY <1>2, <2>2, <2>4, <2>6, <2>7, Talk
<1> QED
  BY <1>3, <1>4

LEMMA CompareHashGrants ==
  ASSUME GrantInv, NEW r \in Askers, CompareHash(r)
  PROVE  GrantInv'
<1>1. PICK y \in Asker : y = askers[r] /\ AskSound(y) /\ y.pc = "compare"
  BY DEF CompareHash, At, GrantInv, GrantTypeOK
<1>2. UNCHANGED <<grantScope, turns, regVars, catalog, rowVars, barred, approved, tokens>>
  BY DEF CompareHash, At
<1>3. CASE Answer(r)
  BY <1>2, <1>3, Answers
<1>4. CASE ~Answer(r)
  <2>1. PICK x : x = [y EXCEPT !.pc = "uiRead", !.set = PublicActiveScopes(y.manifest)]
    OBVIOUS
  <2>2. x \in Asker
    BY <1>1, <2>1, PublicFacts DEF Asker, AskSteps
  <2>3. /\ x.pc = "uiRead" /\ x.set = PublicActiveScopes(y.manifest)
        /\ x.op = y.op /\ x.client = y.client /\ x.manifest = y.manifest /\ x.revision = y.revision /\ x.row = y.row /\ x.cat = y.cat /\ x.late = y.late
    BY <2>1 DEF Asker
  <2>4. askers' = [askers EXCEPT ![r] = x]
    BY <1>1, <1>4, <2>1 DEF CompareHash
  <2>5. AskSound(x)
    BY <1>1, <2>3, <2>4 DEF AskSound, Publishes, Consents, Machine
  <2>6. Kept /\ registry \in Resource /\ registry' \in Resource /\ turns' \in 0..grantScope.turns
    BY <1>2 DEF Kept, regVars, GrantInv, GrantTypeOK
  <2>7. AskSound(x)'
    BY <2>2, <2>5, <2>6, AskKept
  <2> QED
    BY <1>2, <2>2, <2>4, <2>6, <2>7, Talk
<1> QED
  BY <1>3, <1>4

LEMMA ReadServiceGrants ==
  ASSUME GrantInv, NEW r \in Askers, ReadService(r)
  PROVE  GrantInv'
<1>1. PICK y \in Asker : y = askers[r] /\ AskSound(y) /\ y.pc = "readService"
  BY DEF ReadService, At, GrantInv, GrantTypeOK
<1>2. UNCHANGED <<grantScope, turns, regVars, catalog, rowVars, barred, approved, tokens>>
  BY DEF ReadService, At
<1>3. CASE Answer(r)
  BY <1>2, <1>3, Answers
<1>4. CASE ~Answer(r)
  <2>1. PICK x : x = [y EXCEPT !.pc = "writeService", !.row = clients["svc"].scopes]
    OBVIOUS
  <2>2. x \in Asker
    BY ZenonT(30), <1>1, <2>1 DEF Asker, AskSteps, GrantInv, GrantTypeOK, ClientRow, Clients
  <2>3. /\ x.pc = "writeService" /\ x.row = clients["svc"].scopes
        /\ x.op = y.op /\ x.client = y.client /\ x.set = y.set /\ x.manifest = y.manifest /\ x.revision = y.revision /\ x.cat = y.cat /\ x.late = y.late
    BY <2>1 DEF Asker
  <2>4. askers' = [askers EXCEPT ![r] = x]
    BY <1>1, <1>4, <2>1 DEF ReadService
  <2>5. AskSound(x)
    BY <1>1, <2>3, <2>4 DEF AskSound, Publishes, Consents, Machine
  <2>6. Kept /\ registry \in Resource /\ registry' \in Resource /\ turns' \in 0..grantScope.turns
    BY <1>2 DEF Kept, regVars, GrantInv, GrantTypeOK
  <2>7. AskSound(x)'
    BY <2>2, <2>5, <2>6, AskKept
  <2> QED
    BY <1>2, <2>2, <2>4, <2>6, <2>7, Talk
<1> QED
  BY <1>3, <1>4

LEMMA ValidateMachineGrantableGrants ==
  ASSUME GrantInv, NEW r \in Askers, ValidateMachineGrantable(r)
  PROVE  GrantInv'
<1>1. PICK y \in Asker : y = askers[r] /\ AskSound(y) /\ y.pc = "machine"
  BY DEF ValidateMachineGrantable, At, GrantInv, GrantTypeOK
<1>2. UNCHANGED <<grantScope, turns, regVars, catalog, rowVars, barred, approved, tokens>>
  BY DEF ValidateMachineGrantable, At
<1>3. CASE Answer(r)
  BY <1>2, <1>3, Answers
<1>4. CASE ~Answer(r)
  <2>1. PICK x : x = [y EXCEPT !.pc = "catalog", !.op = "machineToken"]
    OBVIOUS
  <2>2. x \in Asker
    BY <1>1, <2>1, ZenonT(40) DEF Asker, AskSteps, AskOps
  <2>3. /\ x.pc = "catalog" /\ x.op = "machineToken"
        /\ x.client = y.client /\ x.set = y.set /\ x.manifest = y.manifest /\ x.revision = y.revision /\ x.row = y.row /\ x.cat = y.cat /\ x.late = y.late
    BY <2>1 DEF Asker
  <2>4. askers' = [askers EXCEPT ![r] = x] /\ MachineScopes(y)
    BY <1>1, <1>4, <2>1 DEF ValidateMachineGrantable
  <2>5. AskSound(x)
    BY <1>1, <2>3, <2>4 DEF AskSound, Publishes, Consents, Machine, MachineScopes, CleanCatalogue, Outer
  <2>6. Kept /\ registry \in Resource /\ registry' \in Resource /\ turns' \in 0..grantScope.turns
    BY <1>2 DEF Kept, regVars, GrantInv, GrantTypeOK
  <2>7. AskSound(x)'
    BY <2>2, <2>5, <2>6, AskKept
  <2> QED
    BY <1>2, <2>2, <2>4, <2>6, <2>7, Talk
<1> QED
  BY <1>3, <1>4

-----------------------------------------------------------------------------
(* The catalogue *)

LEMMA LoadedSound ==
  ASSUME GrantInv
  PROVE  MergeResourceServers \in Catalogue /\ CleanCatalogue(MergeResourceServers)
<1>1. registry.manifest \in Manifest /\ CleanManifest(registry.manifest) /\ Noted(registry.manifest)
  BY DEF GrantInv, GrantTypeOK, RegistrySound, Resource
<1>2. CASE registry.revision = -1
  <2>1. MergeResourceServers = LoadCatalog
    BY <1>2 DEF MergeResourceServers
  <2> QED
    BY <2>1, GrantAssumption DEF LoadCatalog, Catalogue, CleanCatalogue, Outer
<1>3. CASE registry.revision # -1
  <2>1. PICK P : P = PublicActiveScopes(registry.manifest)
    OBVIOUS
  <2>2. P \subseteq DOMAIN registry.manifest /\ P \subseteq Names /\ Outer(P) /\ DOMAIN registry.manifest \subseteq Names
    BY <1>1, <2>1, PublicFacts, ManifestFacts
  <2>3. MergeResourceServers = [public |-> P, m2m |-> {s \in P : registry.manifest[s].m2m},
                                internal |-> DOMAIN registry.manifest \ P]
    BY <1>3, <2>1 DEF MergeResourceServers
  <2> QED
    BY <1>1, <2>2, <2>3 DEF Catalogue, CleanCatalogue, Noted
<1> QED
  BY <1>2, <1>3

\* Where a request goes with the catalogue it has, it may go.
LEMMA WithCatalogue ==
  ASSUME NEW x \in Asker, NEW y \in Asker, AskSound(y), y.pc \in {"catalog", "fill"}, CleanCatalogue(x.cat),
         x.op = y.op, x.client = y.client, x.set = y.set, x.row = y.row, x.late = y.late,
         x.pc \in {"fill", AfterCatalog(y.op)}
  PROVE  AskSound(x)
<1>1. y.op \in {"create", "update", "service", "grant", "machine", "key", "token", "machineToken", "apiKey"}
  BY DEF AskSound, Machine
<1>2. x.pc # "fill" =>
        /\ (y.op = "create" => x.pc = "putClient")   /\ (y.op = "update" => x.pc = "writeClient")
        /\ (y.op = "service" => x.pc = "exists")     /\ (y.op = "grant" => x.pc = "readService")
        /\ (y.op = "machine" => x.pc = "machine")    /\ (y.op = "key" => x.pc = "putKey")
        /\ (y.op \in {"token", "machineToken", "apiKey"} => x.pc = "mint")
  BY <1>1 DEF AfterCatalog
<1>3. Publishes(x) /\ Consents(x)
  BY <1>1, <1>2 DEF Publishes, Consents
<1>4. Machine(x)
  BY <1>1, <1>2 DEF AskSound, Machine
<1>5. x.pc = "mint" => Fair(x.op, x.client, x.set, x.late)
  BY <1>1, <1>2 DEF AskSound, Machine, Fair
<1> QED
  BY <1>3, <1>4, <1>5 DEF AskSound

LEMMA AfterIsStep ==
  ASSUME NEW op \in AskOps PROVE AfterCatalog(op) \in AskSteps
BY DEF AfterCatalog, AskSteps

LEMMA ReadCatalogGrants ==
  ASSUME GrantInv, NEW r \in Askers, ReadCatalog(r)
  PROVE  GrantInv'
<1>1. PICK y \in Asker : y = askers[r] /\ AskSound(y) /\ y.pc = "catalog"
  BY DEF ReadCatalog, At, GrantInv, GrantTypeOK
<1>2. UNCHANGED <<grantScope, turns, regVars, catalog, rowVars, barred, approved, tokens>>
  BY DEF ReadCatalog, At
<1>3. PICK pc : pc = IF catalog # Miss THEN AfterCatalog(y.op) ELSE "fill"
  OBVIOUS
<1>4. PICK cat : cat = IF catalog # Miss THEN catalog ELSE MergeResourceServers
  OBVIOUS
<1>5. pc \in AskSteps /\ pc \in {"fill", AfterCatalog(y.op)} /\ cat \in Catalogue /\ CleanCatalogue(cat)
  <2>1. pc \in AskSteps
    BY <1>3, AfterIsStep DEF Asker, AskSteps
  <2>2. cat \in Catalogue /\ CleanCatalogue(cat)
    BY <1>4, LoadedSound DEF GrantInv, GrantTypeOK
  <2> QED
    BY <1>3, <2>1, <2>2
<1>6. PICK x : x = [y EXCEPT !.pc = pc, !.cat = cat]
  OBVIOUS
<1>7. x \in Asker
  BY <1>5, <1>6 DEF Asker
<1>8. x.pc = pc /\ x.cat = cat /\ x.op = y.op /\ x.client = y.client /\ x.set = y.set /\ x.row = y.row /\ x.late = y.late
  BY <1>6 DEF Asker
<1>9. askers' = [askers EXCEPT ![r] = x]
  BY <1>1, <1>3, <1>4, <1>6 DEF ReadCatalog
<1>10. AskSound(x)
  BY <1>1, <1>5, <1>7, <1>8, WithCatalogue
<1>11. Kept /\ registry \in Resource /\ registry' \in Resource /\ turns' \in 0..grantScope.turns
  BY <1>2 DEF Kept, regVars, GrantInv, GrantTypeOK
<1>12. AskSound(x)'
  BY <1>7, <1>10, <1>11, AskKept
<1> QED
  BY <1>2, <1>7, <1>9, <1>11, <1>12, Talk

LEMMA FillCatalogGrants ==
  ASSUME GrantInv, NEW r \in Askers, FillCatalog(r)
  PROVE  GrantInv'
<1>1. askers[r] \in Asker /\ AskSound(askers[r]) /\ askers[r].pc = "fill" /\ AfterCatalog(askers[r].op) \in AskSteps
  BY AfterIsStep DEF FillCatalog, At, GrantInv, GrantTypeOK, Asker
<1>2. PICK x \in Asker : Like(x, askers[r]) /\ x.pc = AfterCatalog(askers[r].op) /\ askers' = [askers EXCEPT ![r] = x]
  BY <1>1, StepIs DEF FillCatalog
<1>3. CleanCatalogue(askers[r].cat) /\ askers[r].cat \in Catalogue
  BY <1>1 DEF AskSound, Asker
<1>4. AskSound(x)
  BY <1>1, <1>2, <1>3, WithCatalogue DEF Like
<1>5. /\ Kept /\ registry \in Resource /\ registry' \in Resource /\ turns' \in 0..grantScope.turns
      /\ catalog \in Catalogue /\ CleanCatalogue(catalog) /\ machineEver' = machineEver
  BY DEF FillCatalog, At, Kept, regVars, GrantInv, GrantTypeOK
<1>6. AskSound(x)'
  BY <1>2, <1>4, <1>5, AskKept
<1>7. catalog' \in Catalogue /\ CleanCatalogue(catalog')
  BY <1>3, <1>5 DEF FillCatalog
<1> QED
  BY <1>2, <1>5, <1>6, <1>7, Caches DEF FillCatalog, At

LEMMA InvalidateCatalogGrants ==
  ASSUME GrantInv, NEW r \in Askers, InvalidateCatalog(r)
  PROVE  GrantInv'
<1>1. PICK y \in Asker : y = askers[r] /\ AskSound(y) /\ y.pc = "invalidate"
  BY DEF InvalidateCatalog, At, GrantInv, GrantTypeOK
<1>2. /\ Kept /\ registry \in Resource /\ registry' \in Resource /\ turns' \in 0..grantScope.turns
      /\ UNCHANGED <<grantScope, regVars, rowVars, barred, approved, tokens>>
  BY DEF InvalidateCatalog, At, Kept, regVars, GrantInv, GrantTypeOK
<1>3. catalog' \in Catalogue /\ CleanCatalogue(catalog')
  <2>1. catalog' \in {Miss, catalog}
    BY DEF InvalidateCatalog
  <2> QED
    BY <2>1, NoAskerFacts DEF GrantInv, GrantTypeOK, CleanCatalogue, Outer
<1>4. CASE Answer(r)
  BY <1>2, <1>3, <1>4, Caches, IdleSound, NoAskerFacts DEF Answer
<1>5. CASE ~Answer(r)
  <2>1. PICK x : x = [y EXCEPT !.pc = "uiRead", !.set = PublicActiveScopes(y.manifest)]
    OBVIOUS
  <2>2. x \in Asker
    BY <2>1, PublicFacts DEF Asker, AskSteps
  <2>3. x.pc = "uiRead" /\ x.op = y.op /\ x.client = y.client /\ x.row = y.row /\ x.cat = y.cat /\ x.late = y.late
    BY <2>1 DEF Asker
  <2>4. askers' = [askers EXCEPT ![r] = x]
    BY <1>1, <1>5, <2>1 DEF InvalidateCatalog
  <2>5. AskSound(x)
    BY <1>1, <2>3 DEF AskSound, Publishes, Consents, Machine
  <2>6. AskSound(x)'
    BY <1>2, <2>2, <2>5, AskKept
  <2> QED
    BY <1>2, <1>3, <2>2, <2>4, <2>6, Caches
<1> QED
  BY <1>4, <1>5

-----------------------------------------------------------------------------
(* The rows *)

\* The rows of the model are what the type invariant says of them.
LEMMA RowTypes ==
  ASSUME GrantInv
  PROVE  /\ clients \in [Clients -> ClientRow] /\ consent \in [there: BOOLEAN, scopes: SUBSET Names]
         /\ codes \subseteq [client: Clients, scopes: SUBSET Names]
         /\ apiKey \in KeyRow /\ keyIndex \in KeyRow /\ touching \in BOOLEAN /\ HoldersSound
         /\ turns \in 0..grantScope.turns
BY DEF GrantInv, GrantTypeOK

LEMMA NoRows ==
  /\ NoClient \in ClientRow /\ NoClient.owner = "none" /\ NoClient.scopes = {}
  /\ NoKey \in KeyRow /\ NoKey.scopes = {} /\ NoConsent \in [there: BOOLEAN, scopes: SUBSET Names] /\ NoConsent.scopes = {}
BY DEF NoClient, ClientRow, NoKey, KeyRow, NoConsent

\* A request that writes the row of a client and ends.
LEMMA WritesClient ==
  ASSUME GrantInv, NEW r \in Askers, Answer(r), NEW c \in Clients, NEW row \in ClientRow,
         clients' = [clients EXCEPT ![c] = row],
         c = "dev" => row.owner # "system" /\ Outer(row.scopes), c = "svc" => row.owner # "person",
         UNCHANGED <<grantScope, turns, regVars, catalog, consent, codes, apiKey, keyIndex, touching, barred,
                     approved, tokens>>
  PROVE  GrantInv'
<1>1. clients' \in [Clients -> ClientRow]
  BY RowTypes
<1>2. HoldersSound'
  <2>1. clients'["dev"].owner # "system" /\ Outer(clients'["dev"].scopes) /\ clients'["svc"].owner # "person"
    BY RowTypes DEF HoldersSound, Clients
  <2> QED
    BY <2>1, RowTypes DEF HoldersSound, Outer
<1> QED
  BY <1>1, <1>2, RowTypes, Writes, IdleSound, NoAskerFacts DEF Answer

\* Catalogues a request holds offer no internal scope for granting.
LEMMA GrantableOuter ==
  ASSUME GrantInv, NEW r \in Askers
  PROVE  /\ askers[r] \in Asker /\ AskSound(askers[r]) /\ askers[r].set \subseteq Names /\ askers[r].row \subseteq Names
         /\ ValidateGrantable(askers[r].cat, askers[r].set) => Outer(askers[r].set)
<1>1. askers[r] \in Asker /\ AskSound(askers[r])
  BY DEF GrantInv, GrantTypeOK
<1> QED
  BY <1>1 DEF Asker, AskSound, CleanCatalogue, ValidateGrantable, Outer

LEMMA WriteUIClientGrants ==
  ASSUME GrantInv, NEW r \in Askers, WriteUIClient(r)
  PROVE  GrantInv'
<1>1. /\ Answer(r)
      /\ UNCHANGED <<grantScope, turns, regVars, catalog, consent, codes, apiKey, keyIndex, touching, barred,
                     approved, tokens>>
  BY DEF WriteUIClient, At
<1>2. PICK row : row = [made |-> TRUE, there |-> TRUE, owner |-> "system", secret |-> FALSE,
                     scopes |-> askers[r].row \cup askers[r].set]
  OBVIOUS
<1>3. clients["ui"] \in ClientRow /\ HoldersSound
  BY RowTypes DEF Clients
<1>4. row \in ClientRow /\ row.owner = "system"
  BY <1>2, <1>3, GrantableOuter, NoRows DEF ClientRow, HoldersSound
<1>5. clients' = [clients EXCEPT !["ui"] = row]
  BY <1>2, RowTypes DEF WriteUIClient, Clients
<1> QED
  BY <1>1, <1>4, <1>5, WritesClient DEF Clients

LEMMA PutClientGrants ==
  ASSUME GrantInv, NEW r \in Askers, PutClient(r)
  PROVE  GrantInv'
<1>1. /\ Answer(r)
      /\ UNCHANGED <<grantScope, turns, regVars, catalog, consent, codes, apiKey, keyIndex, touching, barred,
                     approved, tokens>>
  BY DEF PutClient, At
<1>2. CASE ~ValidateGrantable(askers[r].cat, askers[r].set)
  BY <1>1, <1>2, Answers DEF PutClient, rowVars
<1>3. CASE ValidateGrantable(askers[r].cat, askers[r].set)
  <2>1. PICK row : row = [made |-> TRUE, there |-> TRUE, owner |-> "person", secret |-> TRUE,
                       scopes |-> askers[r].set]
    OBVIOUS
  <2>2. clients["dev"] \in ClientRow /\ clients["dev"].owner # "system"
    BY RowTypes DEF Clients, HoldersSound
  <2>3. row \in ClientRow /\ row.owner # "system" /\ Outer(row.scopes)
    BY <1>3, <2>1, <2>2, GrantableOuter DEF ClientRow
  <2>4. clients' = [clients EXCEPT !["dev"] = row]
    BY <1>3, <2>1, RowTypes DEF PutClient, Clients
  <2> QED
    BY <1>1, <2>3, <2>4, WritesClient DEF Clients
<1> QED
  BY <1>2, <1>3

LEMMA WriteClientGrants ==
  ASSUME GrantInv, NEW r \in Askers, WriteClient(r)
  PROVE  GrantInv'
<1>1. /\ Answer(r)
      /\ UNCHANGED <<grantScope, turns, regVars, catalog, consent, codes, apiKey, keyIndex, touching, barred,
                     approved, tokens>>
  BY DEF WriteClient, At
<1>2. CASE ~ValidateGrantable(askers[r].cat, askers[r].set)
  BY <1>1, <1>2, Answers DEF WriteClient, rowVars
<1>3. CASE ValidateGrantable(askers[r].cat, askers[r].set)
  <2>1. PICK row : row = [clients["dev"] EXCEPT !.there = TRUE, !.scopes = askers[r].set]
    OBVIOUS
  <2>2. clients["dev"] \in ClientRow /\ clients["dev"].owner # "system"
    BY RowTypes DEF Clients, HoldersSound
  <2>3. row \in ClientRow /\ row.owner # "system" /\ Outer(row.scopes)
    BY <1>3, <2>1, <2>2, GrantableOuter DEF ClientRow
  <2>4. clients' = [clients EXCEPT !["dev"] = row]
    BY <1>3, <2>1, RowTypes DEF WriteClient, Clients
  <2> QED
    BY <1>1, <2>3, <2>4, WritesClient DEF Clients
<1> QED
  BY <1>2, <1>3

LEMMA DeleteClientGrants ==
  ASSUME GrantInv, NEW r \in Askers, DeleteClient(r)
  PROVE  GrantInv'
<1>1. /\ Answer(r)
      /\ UNCHANGED <<grantScope, turns, regVars, catalog, consent, codes, apiKey, keyIndex, touching, barred,
                     approved, tokens>>
  BY DEF DeleteClient, At
<1>2. PICK row : row = [NoClient EXCEPT !.made = TRUE]
  OBVIOUS
<1>3. clients["dev"] \in ClientRow /\ HoldersSound
  BY RowTypes DEF Clients
<1>4. row \in ClientRow /\ row.owner # "system" /\ Outer(row.scopes)
  BY <1>2, <1>3, GrantableOuter, NoRows DEF ClientRow, HoldersSound, Outer
<1>5. clients' = [clients EXCEPT !["dev"] = row]
  BY <1>2, RowTypes DEF DeleteClient, Clients
<1> QED
  BY <1>1, <1>4, <1>5, WritesClient DEF Clients

LEMMA WriteSecretGrants ==
  ASSUME GrantInv, NEW r \in Askers, WriteSecret(r)
  PROVE  GrantInv'
<1>1. /\ Answer(r)
      /\ UNCHANGED <<grantScope, turns, regVars, catalog, consent, codes, apiKey, keyIndex, touching, barred,
                     approved, tokens>>
  BY DEF WriteSecret, At
<1>2. PICK row : row = [clients["dev"] EXCEPT !.there = TRUE, !.secret = TRUE]
  OBVIOUS
<1>3. clients["dev"] \in ClientRow /\ HoldersSound
  BY RowTypes DEF Clients
<1>4. row \in ClientRow /\ row.owner # "system" /\ Outer(row.scopes)
  BY <1>2, <1>3, GrantableOuter, NoRows DEF ClientRow, HoldersSound, Outer
<1>5. clients' = [clients EXCEPT !["dev"] = row]
  BY <1>2, RowTypes DEF WriteSecret, Clients
<1> QED
  BY <1>1, <1>4, <1>5, WritesClient DEF Clients

LEMMA PutServiceGrants ==
  ASSUME GrantInv, NEW r \in Askers, PutService(r)
  PROVE  GrantInv'
<1>1. /\ Answer(r)
      /\ UNCHANGED <<grantScope, turns, regVars, catalog, consent, codes, apiKey, keyIndex, touching, barred,
                     approved, tokens>>
  BY DEF PutService, At
<1>2. PICK row : row = [made |-> TRUE, there |-> TRUE, owner |-> "system", secret |-> TRUE,
                     scopes |-> askers[r].set]
  OBVIOUS
<1>3. clients["svc"] \in ClientRow /\ HoldersSound
  BY RowTypes DEF Clients
<1>4. row \in ClientRow /\ row.owner # "person"
  BY <1>2, <1>3, GrantableOuter, NoRows DEF ClientRow, HoldersSound
<1>5. clients' = [clients EXCEPT !["svc"] = row]
  BY <1>2, RowTypes DEF PutService, Clients
<1> QED
  BY <1>1, <1>4, <1>5, WritesClient DEF Clients

LEMMA WriteServiceGrants ==
  ASSUME GrantInv, NEW r \in Askers, WriteService(r)
  PROVE  GrantInv'
<1>1. /\ Answer(r)
      /\ UNCHANGED <<grantScope, turns, regVars, catalog, consent, codes, apiKey, keyIndex, touching, barred,
                     approved, tokens>>
  BY DEF WriteService, At
<1>2. PICK row : row = [clients["svc"] EXCEPT !.scopes = askers[r].row \cup askers[r].set]
  OBVIOUS
<1>3. clients["svc"] \in ClientRow /\ HoldersSound
  BY RowTypes DEF Clients
<1>4. row \in ClientRow /\ row.owner # "person"
  BY <1>2, <1>3, GrantableOuter, NoRows DEF ClientRow, HoldersSound
<1>5. clients' = [clients EXCEPT !["svc"] = row]
  BY <1>2, RowTypes DEF WriteService, Clients
<1> QED
  BY <1>1, <1>4, <1>5, WritesClient DEF Clients

LEMMA StoreCodeGrants ==
  ASSUME GrantInv, NEW r \in Askers, StoreCode(r)
  PROVE  GrantInv'
<1>1. askers[r] \in Asker /\ AskSound(askers[r]) /\ askers[r].pc = "storeCode"
  BY GrantableOuter DEF StoreCode, At
<1>2. PICK x : x = [client |-> askers[r].client, scopes |-> askers[r].set]
  OBVIOUS
<1>3. x.client = "dev" => Outer(x.scopes) /\ x.scopes \subseteq approved
  BY <1>1, <1>2 DEF AskSound, Consents
<1>4. HoldersSound'
  BY <1>2, <1>3, RowTypes DEF StoreCode, HoldersSound, Outer
<1>5. CASE askers[r].client \in Clients
  <2>1. codes' \subseteq [client: Clients, scopes: SUBSET Names]
    BY <1>1, <1>5, RowTypes DEF StoreCode, Asker
  <2> QED
    BY <1>4, <2>1, RowTypes, Writes, IdleSound, NoAskerFacts DEF StoreCode, At, Answer
<1>6. askers[r].client \in Clients
  BY <1>1 DEF AskSound, Consents
<1> QED
  BY <1>5, <1>6

LEMMA PutGrantGrants ==
  ASSUME GrantInv, NEW r \in Askers, PutGrant(r)
  PROVE  GrantInv'
<1>1. askers[r].row \subseteq approved /\ askers[r].set \subseteq approved
      /\ askers[r].row \subseteq Names /\ askers[r].set \subseteq Names
  BY GrantableOuter DEF PutGrant, At, AskSound, Consents
<1>2. consent' \in [there: BOOLEAN, scopes: SUBSET Names] /\ consent'.scopes \subseteq approved
  BY <1>1 DEF PutGrant
<1>3. HoldersSound'
  BY <1>2, RowTypes DEF PutGrant, HoldersSound, Outer
<1> QED
  BY <1>2, <1>3, RowTypes, Writes, IdleSound, NoAskerFacts DEF PutGrant, At, Answer

\* A request that does all its work as it arrives.
LEMMA AskIdle ==
  ASSUME GrantInv, NEW r \in Askers, NEW op \in AskOps \ {"machine", "token", "apiKey", "machineToken"},
         Ask(r, op, NoAsker), Kept, registry' \in Resource
  PROVE  /\ turns' \in 0..grantScope.turns /\ grantScope' = grantScope
         /\ \E x \in Asker : AskSound(x)' /\ askers' = [askers EXCEPT ![r] = x]
<1>1. /\ turns' \in 0..grantScope.turns /\ grantScope' = grantScope
      /\ \E x \in Asker :
           /\ x.pc = NoAsker.pc /\ x.op = op /\ x.client = NoAsker.client /\ x.set = NoAsker.set
           /\ x.manifest = NoAsker.manifest /\ x.revision = NoAsker.revision /\ x.row = NoAsker.row
           /\ x.cat = NoAsker.cat /\ x.late = barred /\ askers' = [askers EXCEPT ![r] = x]
  BY AskIs, NoAskerFacts
<1>2. PICK x \in Asker : /\ x.pc = "idle" /\ x.op = op /\ x.cat = Miss /\ x.late = barred
                         /\ askers' = [askers EXCEPT ![r] = x]
  BY <1>1, NoAskerFacts
<1>3. AskSound(x)
  BY <1>2, NoAskerFacts DEF AskSound, Publishes, Consents, Machine, CleanCatalogue, Outer
<1>4. AskSound(x)'
  BY <1>3, AskKept DEF GrantInv, GrantTypeOK
<1> QED
  BY <1>1, <1>2, <1>4

LEMMA RevokeConsentGrants ==
  ASSUME GrantInv, NEW r \in Askers, RevokeConsent(r)
  PROVE  GrantInv'
<1>1. Kept /\ registry' \in Resource
  BY DEF RevokeConsent, Kept, regVars, GrantInv, GrantTypeOK
<1>2. /\ turns' \in 0..grantScope.turns /\ grantScope' = grantScope
      /\ \E x \in Asker : AskSound(x)' /\ askers' = [askers EXCEPT ![r] = x]
  <2>1. Ask(r, "revokeConsent", NoAsker) /\ "revokeConsent" \in AskOps \ {"machine", "token", "apiKey", "machineToken"}
    BY DEF RevokeConsent, AskOps
  <2> QED
    BY <1>1, <2>1, AskIdle
<1>3. HoldersSound' /\ consent' \in [there: BOOLEAN, scopes: SUBSET Names]
  BY RowTypes, NoRows DEF RevokeConsent, HoldersSound, Outer
<1> QED
  BY <1>2, <1>3, RowTypes, Writes DEF RevokeConsent

LEMMA RedeemCodeGrants ==
  ASSUME GrantInv, NEW r \in Askers, NEW code \in codes, RedeemCode(r, code)
  PROVE  GrantInv'
<1>1. PICK y \in Asker : y = askers[r] /\ AskSound(y) /\ y.pc = "redeem"
  BY GrantableOuter DEF RedeemCode, At
<1>2. /\ UNCHANGED <<grantScope, turns, regVars, catalog, clients, consent, apiKey, keyIndex, touching, barred,
                     approved, tokens>>
      /\ codes' \subseteq codes
  BY DEF RedeemCode, At
<1>3. HoldersSound' /\ codes' \subseteq [client: Clients, scopes: SUBSET Names]
  BY <1>2, RowTypes DEF HoldersSound, Outer
<1>4. CASE Answer(r)
  BY <1>2, <1>3, <1>4, RowTypes, Writes, IdleSound, NoAskerFacts DEF Answer
<1>5. CASE ~Answer(r)
  <2>1. PICK x : x = [y EXCEPT !.pc = "person", !.set = code.scopes]
    OBVIOUS
  <2>2. x \in Asker
    BY ZenonT(30), <1>1, <2>1, RowTypes DEF Asker, AskSteps
  <2>3. /\ x.pc = "person" /\ x.set = code.scopes /\ x.op = y.op /\ x.client = y.client /\ x.row = y.row /\ x.cat = y.cat
        /\ x.late = y.late
    BY <2>1 DEF Asker
  <2>4. askers' = [askers EXCEPT ![r] = x] /\ code.client = y.client
    BY <1>1, <1>5, <2>1 DEF RedeemCode
  <2>5. AskSound(x)
    BY <1>1, <2>3, <2>4, RowTypes DEF AskSound, Publishes, Consents, Machine, HoldersSound
  <2>6. Kept /\ registry \in Resource /\ registry' \in Resource
    BY <1>2 DEF Kept, regVars, GrantInv, GrantTypeOK
  <2>7. AskSound(x)'
    BY <2>2, <2>5, <2>6, AskKept
  <2> QED
    BY <1>2, <1>3, <2>2, <2>4, <2>7, RowTypes, Writes
<1> QED
  BY <1>4, <1>5

LEMMA PutKeyGrants ==
  ASSUME GrantInv, NEW r \in Askers, PutKey(r)
  PROVE  GrantInv'
<1>1. apiKey' \in KeyRow /\ Outer(apiKey'.scopes)
  <2>1. CASE ValidateGrantable(askers[r].cat, askers[r].set)
    BY <2>1, GrantableOuter DEF PutKey, KeyRow
  <2>2. CASE ~ValidateGrantable(askers[r].cat, askers[r].set)
    BY <2>2, RowTypes DEF PutKey, HoldersSound
  <2> QED
    BY <2>1, <2>2
<1>2. HoldersSound'
  BY <1>1, RowTypes DEF PutKey, HoldersSound, Outer
<1> QED
  BY <1>1, <1>2, RowTypes, Writes, IdleSound, NoAskerFacts DEF PutKey, At, Answer

LEMMA DeleteKeyGrants ==
  ASSUME GrantInv, NEW r \in Askers, DeleteKey(r)
  PROVE  GrantInv'
<1>1. apiKey' \in KeyRow /\ Outer(apiKey'.scopes)
  BY NoRows DEF DeleteKey, KeyRow, Outer
<1>2. HoldersSound'
  BY <1>1, RowTypes DEF DeleteKey, HoldersSound, Outer
<1> QED
  BY <1>1, <1>2, RowTypes, Writes, IdleSound, NoAskerFacts DEF DeleteKey, At, Answer

LEMMA ExchangeKeyGrants ==
  ASSUME GrantInv, NEW r \in Askers, ExchangeKey(r)
  PROVE  GrantInv'
<1>1. PICK n : n = [NoAsker EXCEPT !.pc = "keyOwner", !.set = keyIndex.scopes]
  OBVIOUS
<1>2. n \in Asker
  BY <1>1, NoAskerFacts, RowTypes DEF Asker, AskSteps, KeyRow
<1>3. n.pc = "keyOwner" /\ n.client = "none" /\ Outer(n.set) /\ n.cat = Miss
  BY <1>1, NoAskerFacts, RowTypes DEF Asker, HoldersSound
<1>4. Ask(r, "apiKey", n) /\ "apiKey" \in AskOps
  BY <1>1 DEF ExchangeKey, AskOps
<1>5. PICK x \in Asker :
        /\ x.pc = n.pc /\ x.op = "apiKey" /\ x.client = n.client /\ x.set = n.set /\ x.manifest = n.manifest
        /\ x.revision = n.revision /\ x.row = n.row /\ x.cat = n.cat /\ x.late = barred
        /\ askers' = [askers EXCEPT ![r] = x]
  BY <1>2, <1>4, AskIs
<1>6. AskSound(x)
  BY <1>3, <1>5, NoAskerFacts DEF AskSound, Publishes, Consents, Machine, CleanCatalogue, Outer
<1>7. Kept /\ registry \in Resource /\ registry' \in Resource
  BY DEF ExchangeKey, Kept, regVars, GrantInv, GrantTypeOK
<1>8. AskSound(x)'
  BY <1>6, <1>7, AskKept
<1>9. HoldersSound'
  BY RowTypes DEF ExchangeKey, HoldersSound, Outer
<1>10. turns' \in 0..grantScope.turns /\ grantScope' = grantScope
  BY <1>2, <1>4, AskIs
<1> QED
  BY <1>5, <1>8, <1>9, <1>10, RowTypes, Writes DEF ExchangeKey

-----------------------------------------------------------------------------
(* The registry *)

\* A step that moves one request and writes the resource server's row.
LEMMA Registers ==
  ASSUME GrantInv, NEW r \in Askers, NEW x \in Asker, AskSound(x)', askers' = [askers EXCEPT ![r] = x],
         turns' \in 0..grantScope.turns, registry' \in Resource, Kept, RegistrySound',
         DOMAIN revisions' = 1..registry'.revision, \A n \in DOMAIN revisions' : revisions'[n] \in Manifest,
         UNCHANGED <<grantScope, catalog, rowVars, barred, approved, tokens>>
  PROVE  GrantInv'
<1>1. askers' \in [Askers -> Asker] /\ (\A q \in Askers : AskSound(askers[q]))'
  BY Moves
<1>2. GrantTypeOK'
  BY <1>1 DEF GrantInv, GrantTypeOK, rowVars
<1>3. CleanCatalogue(catalog)'
  BY DEF GrantInv, CleanCatalogue, Outer, Kept
<1>4. HoldersSound'
  BY DEF GrantInv, HoldersSound, Outer, rowVars
<1>5. NothingBeyondGrant'
  BY TokensKept DEF GrantInv
<1> QED
  BY <1>1, <1>2, <1>3, <1>4, <1>5 DEF GrantInv

\* The row of a resource server that has yet to publish.
LEMMA FreshResource ==
  ASSUME GrantInv, registry.revision = -1, NEW by \in {"operator", "publisher"},
         registry' = [NoResource EXCEPT !.revision = 0, !.by = by], revisions' = revisions, machineEver' = machineEver,
         UNCHANGED <<approved, barred>>
  PROVE  /\ registry' \in Resource /\ Kept /\ RegistrySound' /\ registry'.manifest = NoManifest
         /\ DOMAIN revisions' = 1..registry'.revision /\ \A n \in DOMAIN revisions' : revisions'[n] \in Manifest
<1>1. registry'.revision = 0 /\ registry'.manifest = NoManifest /\ registry' \in Resource
  <2>1. 0 \in -1..MaxRevisions /\ -1 \in -1..MaxRevisions
    BY GrantAssumption
  <2>2. NoResource \in Resource /\ NoResource.manifest = NoManifest
    BY <2>1, ManifestFacts DEF NoResource, Resource
  <2> QED
    BY <2>1, <2>2 DEF Resource
<1>2. Kept
  BY <1>1 DEF Kept
<1>3. DOMAIN revisions = 1..(-1) /\ \A n \in DOMAIN revisions : revisions[n] \in Manifest
  BY DEF GrantInv, GrantTypeOK
<1>4. 1..(-1) = 1..0
  OBVIOUS
<1>5. RegistrySound'
  <2>1. CleanManifest(registry.manifest)' /\ Noted(registry.manifest)'
    BY <1>1, ManifestFacts DEF CleanManifest, Noted
  <2>2. (\A n \in DOMAIN revisions : CleanManifest(revisions[n]))'
    BY DEF GrantInv, RegistrySound, CleanManifest
  <2>3. registry'.revision # -1
    BY <1>1
  <2> QED
    BY <2>1, <2>2, <2>3 DEF RegistrySound
<1> QED
  BY <1>1, <1>2, <1>3, <1>4, <1>5

LEMMA ProvisionGrants ==
  ASSUME GrantInv, NEW r \in Askers, Provision(r)
  PROVE  GrantInv'
<1>1. /\ registry' \in Resource /\ Kept /\ RegistrySound' /\ DOMAIN revisions' = 1..registry'.revision
      /\ \A n \in DOMAIN revisions' : revisions'[n] \in Manifest
  BY FreshResource DEF Provision
<1>2. Ask(r, "provision", NoAsker) /\ "provision" \in AskOps \ {"machine", "token", "apiKey", "machineToken"}
  BY DEF Provision, AskOps
<1>3. /\ turns' \in 0..grantScope.turns /\ grantScope' = grantScope
      /\ \E x \in Asker : AskSound(x)' /\ askers' = [askers EXCEPT ![r] = x]
  BY <1>1, <1>2, AskIdle
<1> QED
  BY <1>1, <1>3, Registers DEF Provision

LEMMA CreateResourceGrants ==
  ASSUME GrantInv, NEW r \in Askers, CreateResource(r)
  PROVE  GrantInv'
<1>1. askers[r] \in Asker /\ AskSound(askers[r]) /\ askers[r].pc = "bootCreate"
  BY GrantableOuter DEF CreateResource, At
<1>2. PICK x \in Asker : Like(x, askers[r]) /\ x.pc = "bootRead" /\ askers' = [askers EXCEPT ![r] = x]
  BY StepIs DEF CreateResource, AskSteps
<1>3. AskSound(x)
  BY <1>1, <1>2 DEF Like, AskSound, Publishes, Consents, Machine
<1>4. /\ registry' \in Resource /\ Kept /\ RegistrySound' /\ DOMAIN revisions' = 1..registry'.revision
      /\ \A n \in DOMAIN revisions' : revisions'[n] \in Manifest
  <2>1. CASE registry.revision = -1
    BY <2>1, FreshResource DEF CreateResource
  <2>2. CASE registry.revision # -1
    BY <2>2 DEF CreateResource, GrantInv, GrantTypeOK, RegistrySound, CleanManifest, Noted, Kept
  <2> QED
    BY <2>1, <2>2
<1>5. AskSound(x)'
  BY <1>2, <1>3, <1>4, AskKept DEF GrantInv, GrantTypeOK
<1>6. turns' \in 0..grantScope.turns
  BY RowTypes DEF CreateResource, At
<1> QED
  BY <1>2, <1>4, <1>5, <1>6, Registers DEF CreateResource, At

LEMMA ReconcileResourceGrants ==
  ASSUME GrantInv, NEW r \in Askers, ReconcileResource(r)
  PROVE  GrantInv'
<1>1. PICK y \in Asker : y = askers[r] /\ AskSound(y) /\ y.pc = "reconcile"
  BY GrantableOuter DEF ReconcileResource, At
<1>2. y.manifest \in Manifest /\ CleanManifest(y.manifest) /\ DOMAIN y.manifest \subseteq Names
  BY <1>1, ManifestFacts DEF Asker, AskSound, Publishes
<1>3. /\ UNCHANGED <<grantScope, turns, catalog, rowVars, barred, approved, tokens>> /\ turns \in 0..grantScope.turns
  BY RowTypes DEF ReconcileResource, At
<1>4. CASE SameRevision(r)
  <2>1. PICK next : next = registry.revision + 1
    OBVIOUS
  <2>2. registry.revision \in -1..MaxRevisions /\ next \in 0..MaxRevisions /\ next > registry.revision
    BY <1>4, <2>1, GrantAssumption DEF ReconcileResource, GrantInv, GrantTypeOK, Resource
  <2>3. PICK by \in {"operator", "publisher"} : by = IF y.op = "restore" THEN "operator" ELSE "publisher"
    OBVIOUS
  <2>4. registry' = [revision |-> next, manifest |-> y.manifest, by |-> by]
    BY <1>1, <1>4, <2>1, <2>3 DEF ReconcileResource, ResourceFromManifest
  <2>5. registry' \in Resource /\ registry'.revision = next /\ registry'.manifest = y.manifest
    BY <1>2, <2>2, <2>4, GrantAssumption DEF Resource
  <2>6. /\ revisions' = [n \in 1..next |-> IF n = next THEN y.manifest ELSE revisions[n]]
        /\ machineEver' = machineEver \cup {s \in DOMAIN y.manifest : y.manifest[s].m2m}
        /\ Step(r, "invalidate")
    BY <1>1, <1>4, <2>1 DEF ReconcileResource
  <2>7. Kept
    BY <1>3, <2>2, <2>5, <2>6 DEF Kept
  <2>8. /\ DOMAIN revisions = 1..registry.revision
        /\ \A n \in DOMAIN revisions : revisions[n] \in Manifest /\ CleanManifest(revisions[n])
    BY DEF GrantInv, GrantTypeOK, RegistrySound
  <2>9. DOMAIN revisions' = 1..next
    BY <2>6
  <2>10. ASSUME NEW n \in 1..next PROVE revisions'[n] \in Manifest /\ CleanManifest(revisions'[n])
    <3>1. CASE n = next
      BY <1>2, <2>6, <3>1
    <3>2. CASE n # next
      <4>1. n \in 1..registry.revision /\ revisions'[n] = revisions[n]
        BY <2>1, <2>2, <2>6, <3>2, GrantAssumption
      <4> QED
        BY <2>8, <4>1
    <3> QED
      BY <3>1, <3>2
  <2>11. RegistrySound'
    <3>1. CleanManifest(registry.manifest)' /\ Noted(registry.manifest)'
      BY <1>2, <2>5, <2>6 DEF CleanManifest, Noted
    <3>2. registry'.revision # -1
      BY <2>2, <2>5, GrantAssumption
    <3>3. (\A n \in DOMAIN revisions : CleanManifest(revisions[n]))'
      BY <2>9, <2>10 DEF CleanManifest
    <3> QED
      BY <3>1, <3>2, <3>3 DEF RegistrySound
  <2>12. PICK x \in Asker : Like(x, askers[r]) /\ x.pc = "invalidate" /\ askers' = [askers EXCEPT ![r] = x]
    BY <2>6, StepIs DEF AskSteps
  <2>13. AskSound(x)
    BY <1>1, <2>12 DEF Like, AskSound, Publishes, Consents, Machine
  <2>14. AskSound(x)'
    BY <2>5, <2>7, <2>13, AskKept DEF GrantInv, GrantTypeOK
  <2>15. \A n \in DOMAIN revisions' : revisions'[n] \in Manifest
    BY <2>9, <2>10
  <2> QED
    BY <1>3, <2>5, <2>7, <2>9, <2>11, <2>12, <2>14, <2>15, Registers
<1>5. CASE ~SameRevision(r)
  <2>1. UNCHANGED <<grantScope, turns, regVars, catalog, rowVars, barred, approved, tokens>>
    BY <1>3, <1>5 DEF ReconcileResource, regVars
  <2>2. CASE Answer(r)
    BY <2>1, <2>2, Answers
  <2>3. CASE Step(r, "compare") /\ y.op = "boot"
    <3>1. ASSUME NEW x \in Asker, Like(x, askers[r]), x.pc = "compare" PROVE AskSound(x)
      BY <1>1, <2>3, <3>1 DEF Like, AskSound, Publishes, Consents, Machine
    <3> QED
      BY <2>1, <2>3, <3>1, Goes DEF AskSteps
  <2> QED
    BY <1>1, <1>5, <2>2, <2>3 DEF ReconcileResource
<1> QED
  BY <1>4, <1>5

-----------------------------------------------------------------------------
(* Tokens, and what happens by itself *)

LEMMA IssueTokenGrants ==
  ASSUME GrantInv, NEW r \in Askers, IssueToken(r)
  PROVE  GrantInv'
<1>1. PICK y \in Asker : y = askers[r] /\ AskSound(y) /\ y.pc = "mint"
  BY GrantableOuter DEF IssueToken, At
<1>2. /\ UNCHANGED <<grantScope, turns, regVars, catalog, rowVars, barred, approved>> /\ Answer(r)
      /\ tokens' = tokens \cup {[kind |-> y.op, client |-> y.client, scopes |-> y.set, late |-> y.late]}
  BY <1>1 DEF IssueToken, At
<1>3. Fair(y.op, y.client, y.set, y.late)
  BY <1>1 DEF AskSound
<1>4. PICK t : t = [kind |-> y.op, client |-> y.client, scopes |-> y.set, late |-> y.late]
  OBVIOUS
<1>5. t.kind = y.op /\ t.client = y.client /\ t.scopes = y.set /\ t.late = y.late /\ tokens' = tokens \cup {t}
  BY <1>2, <1>4
<1>6. NothingBeyondGrant'
  BY <1>2, <1>3, <1>5 DEF GrantInv, NothingBeyondGrant, Fair, Outer, regVars
<1>7. Kept /\ registry' \in Resource
  BY <1>2 DEF Kept, regVars, GrantInv, GrantTypeOK
<1>8. askers' \in [Askers -> Asker] /\ (\A q \in Askers : AskSound(askers[q]))'
  BY <1>2, <1>7, Moves, IdleSound, NoAskerFacts DEF Answer
<1>9. GrantTypeOK'
  BY <1>2, <1>8 DEF GrantInv, GrantTypeOK, regVars, rowVars
<1>10. RegistrySound' /\ CleanCatalogue(catalog)'
  BY <1>2 DEF GrantInv, RegistrySound, CleanManifest, Noted, CleanCatalogue, Outer, regVars
<1>11. HoldersSound'
  BY <1>2 DEF GrantInv, HoldersSound, Outer, rowVars
<1> QED
  BY <1>6, <1>8, <1>9, <1>10, <1>11 DEF GrantInv

\* No request moves.
LEMMA Still ==
  ASSUME GrantInv, UNCHANGED <<grantScope, turns, regVars, clients, consent, askers, approved, tokens>>,
         catalog' \in {Miss, catalog}, codes' \subseteq codes, apiKey' \in {apiKey, [apiKey EXCEPT !.there = TRUE]},
         keyIndex' \in {keyIndex, apiKey}, touching' \in BOOLEAN, barred \subseteq barred', barred' \subseteq Bars
  PROVE  GrantInv'
<1>1. Kept /\ registry \in Resource /\ registry' \in Resource
  BY DEF Kept, regVars, GrantInv, GrantTypeOK
<1>2. ASSUME NEW q \in Askers PROVE AskSound(askers[q])'
  <2>1. PICK y \in Asker : y = askers[q] /\ AskSound(y)
    BY DEF GrantInv, GrantTypeOK
  <2>2. AskSound(y)'
    BY <1>1, <2>1, AskKept
  <2>3. askers'[q] = y
    BY <2>1
  <2> QED
    BY <2>2, <2>3 DEF AskSound, Publishes, Consents, Machine, CleanCatalogue, CleanManifest, EnsureNoActiveRemoval, Fair, Outer
<1>3. apiKey' \in KeyRow /\ keyIndex' \in KeyRow /\ apiKey'.scopes = apiKey.scopes
  BY RowTypes DEF KeyRow
<1>4. HoldersSound'
  BY <1>3, RowTypes DEF HoldersSound, Outer
<1>5. catalog' \in Catalogue /\ CleanCatalogue(catalog')
  BY NoAskerFacts DEF GrantInv, GrantTypeOK, CleanCatalogue, Outer
<1>6. CleanCatalogue(catalog)' /\ RegistrySound'
  BY <1>5 DEF GrantInv, RegistrySound, CleanManifest, Noted, CleanCatalogue, Outer, regVars
<1>7. GrantTypeOK'
  BY <1>1, <1>3, <1>5, RowTypes DEF GrantInv, GrantTypeOK, regVars
<1>8. NothingBeyondGrant'
  BY <1>1, TokensKept DEF GrantInv
<1> QED
  BY <1>2, <1>4, <1>6, <1>7, <1>8 DEF GrantInv

LEMMA ByItselfGrants ==
  ASSUME GrantInv,
         (\E code \in codes : CodeExpires(code)) \/ CatalogExpires \/ UpdateLastUsed \/ KeyIndexCatchesUp
         \/ (\E b \in Bars : PersonBarred(b))
  PROVE  GrantInv'
<1>0. touching \in BOOLEAN /\ barred \subseteq Bars
  BY RowTypes DEF GrantInv, GrantTypeOK
<1>1. ASSUME NEW code \in codes, CodeExpires(code) PROVE GrantInv'
  BY <1>0, <1>1, Still DEF CodeExpires
<1>2. CASE CatalogExpires
  BY <1>0, <1>2, Still DEF CatalogExpires, rowVars
<1>3. CASE UpdateLastUsed
  BY <1>0, <1>3, Still DEF UpdateLastUsed
<1>4. CASE KeyIndexCatchesUp
  BY <1>0, <1>4, Still DEF KeyIndexCatchesUp
<1>5. ASSUME NEW b \in Bars, PersonBarred(b) PROVE GrantInv'
  BY <1>0, <1>5, Still DEF PersonBarred, rowVars
<1> QED
  BY <1>1, <1>2, <1>3, <1>4, <1>5

-----------------------------------------------------------------------------
(* The theorems *)

LEMMA GrantStart ==
  GrantInit => GrantInv
<1> SUFFICES ASSUME GrantInit PROVE GrantInv
  OBVIOUS
<1>1. registry \in Resource /\ registry.manifest = NoManifest /\ registry.revision = -1 /\ registry = NoResource
  BY ManifestFacts, GrantAssumption DEF GrantInit, NoResource, Resource
<1>2. DOMAIN revisions = {} /\ 1..(-1) = {}
  BY ManifestFacts DEF GrantInit
<1>3. clients \in [Clients -> ClientRow] /\ \A c \in Clients : clients[c] = NoClient
  BY NoRows DEF GrantInit
<1>4. HoldersSound
  BY <1>3, NoRows DEF GrantInit, HoldersSound, Outer, Clients
<1>5. askers \in [Askers -> Asker] /\ \A r \in Askers : askers[r] = NoAsker
  BY NoAskerFacts DEF GrantInit
<1>6. GrantTypeOK
  <2>1. turns \in 0..grantScope.turns
    BY GrantAssumption DEF GrantInit
  <2>2. /\ grantScope \in GrantScopes /\ catalog \in Catalogue /\ consent \in [there: BOOLEAN, scopes: SUBSET Names]
        /\ codes \subseteq [client: Clients, scopes: SUBSET Names] /\ apiKey \in KeyRow /\ keyIndex \in KeyRow
        /\ touching \in BOOLEAN /\ barred \subseteq Bars
    BY NoRows, NoAskerFacts DEF GrantInit
  <2> QED
    BY <1>1, <1>2, <1>3, <1>5, <2>1, <2>2 DEF GrantTypeOK
<1>7. RegistrySound
  BY <1>1, <1>2, ManifestFacts DEF RegistrySound, CleanManifest, Noted
<1>8. CleanCatalogue(catalog) /\ NothingBeyondGrant
  BY NoAskerFacts DEF GrantInit, CleanCatalogue, Outer, NothingBeyondGrant
<1> QED
  BY <1>4, <1>5, <1>6, <1>7, <1>8, IdleSound DEF GrantInv

LEMMA GrantInvStep ==
  GrantInv /\ [GrantNext]_gVars => GrantInv'
<1> SUFFICES ASSUME GrantInv, [GrantNext]_gVars PROVE GrantInv'
  OBVIOUS
<1>1. ASSUME NEW r \in Askers,
             Provision(r) \/ PublishManifest(r) \/ ReconcileResource(r) \/ BootRead(r) \/ CreateResource(r)
             \/ CompareHash(r)
      PROVE  GrantInv'
  BY <1>1, ProvisionGrants, PublishManifestGrants, ReconcileResourceGrants, BootReadGrants, CreateResourceGrants
     , CompareHashGrants
<1>2. ASSUME NEW r \in Askers,
             InvalidateCatalog(r) \/ ReadCatalog(r) \/ FillCatalog(r)
      PROVE  GrantInv'
  BY <1>2, InvalidateCatalogGrants, ReadCatalogGrants, FillCatalogGrants
<1>3. ASSUME NEW r \in Askers,
             ReadUIClient(r) \/ WriteUIClient(r) \/ PutClient(r) \/ WriteClient(r) \/ RemoveClient(r)
             \/ DeleteClient(r) \/ RegenerateSecret(r) \/ WriteSecret(r) \/ ServiceExists(r) \/ PutService(r)
             \/ ReadService(r) \/ WriteService(r)
      PROVE  GrantInv'
  BY <1>3, ReadUIClientGrants, WriteUIClientGrants, PutClientGrants, WriteClientGrants, RemoveClientGrants
     , DeleteClientGrants, RegenerateSecretGrants, WriteSecretGrants, ServiceExistsGrants, PutServiceGrants
     , ReadServiceGrants, WriteServiceGrants
<1>4. ASSUME NEW r \in Askers,
             HasGrant(r) \/ StoreCode(r) \/ PutGrant(r) \/ RevokeConsent(r) \/ CodeOwner(r) \/ ClientActive(r)
             \/ ValidateMachineGrantable(r) \/ IssueToken(r)
      PROVE  GrantInv'
  BY <1>4, HasGrantGrants, StoreCodeGrants, PutGrantGrants, RevokeConsentGrants, CodeOwnerGrants, ClientActiveGrants
     , ValidateMachineGrantableGrants, IssueTokenGrants
<1>5. ASSUME NEW r \in Askers,
             PutKey(r) \/ RevokeKey(r) \/ DeleteKey(r) \/ ExchangeKey(r) \/ KeyOwner(r)
      PROVE  GrantInv'
  BY <1>5, PutKeyGrants, RevokeKeyGrants, DeleteKeyGrants, ExchangeKeyGrants, KeyOwnerGrants
<1>6. ASSUME NEW r \in Askers, RefuseCode(r) \/ AskerFails(r) PROVE GrantInv'
  BY <1>6, RefusalGrants
<1>7. ASSUME NEW r \in Askers, NEW m \in Manifests, PutManifest(r, m) \/ BootstrapAccount(r, m) PROVE GrantInv'
  BY <1>7, PutManifestGrants, BootstrapAccountGrants
<1>8. ASSUME NEW r \in Askers, NEW k \in 1..MaxRevisions, RestoreRevision(r, k) PROVE GrantInv'
  BY <1>8, RestoreRevisionGrants
<1>9. ASSUME NEW r \in Askers, NEW code \in codes, RedeemCode(r, code) PROVE GrantInv'
  BY <1>9, RedeemCodeGrants
<1>10. ASSUME NEW r \in Askers, NEW S \in SUBSET Names,
             CreateClient(r, S) \/ UpdateClient(r, S) \/ CreateM2M(r, S) \/ GrantM2MScopes(r, S)
             \/ ConsentDecision(r, S) \/ CreateKey(r, S) \/ EnsurePublicClient(r, S)
      PROVE  GrantInv'
  BY <1>10, CreateClientGrants, UpdateClientGrants, CreateM2MGrants, GrantM2MScopesGrants, ConsentDecisionGrants
     , CreateKeyGrants, EnsurePublicClientGrants
<1>11. ASSUME NEW r \in Askers, NEW S \in SUBSET Names, NEW c \in {"ui", "dev"}, Authorize(r, c, S) PROVE GrantInv'
  BY <1>11, AuthorizeGrants
<1>12. ASSUME NEW r \in Askers, NEW S \in SUBSET Names, NEW c \in {"svc", "dev"}, ClientCredentials(r, c, S)
      PROVE  GrantInv'
  BY <1>12, ClientCredentialsGrants
<1>13. ASSUME NEW r \in Askers, NEW c \in {"ui", "dev"}, ExchangeCode(r, c) PROVE GrantInv'
  BY <1>13, ExchangeCodeGrants
<1>14. ASSUME (\E code \in codes : CodeExpires(code)) \/ CatalogExpires \/ UpdateLastUsed \/ KeyIndexCatchesUp
             \/ (\E b \in Bars : PersonBarred(b))
      PROVE  GrantInv'
  BY <1>14, ByItselfGrants
<1>15. CASE UNCHANGED gVars
  BY <1>15, RowTypes, Still DEF gVars, regVars, rowVars, GrantInv, GrantTypeOK
<1> QED
  BY <1>1, <1>2, <1>3, <1>4, <1>5, <1>6, <1>7, <1>8, <1>9, <1>10, <1>11, <1>12, <1>13, <1>14, <1>15 DEF GrantNext

\* The rows, the registry and the requests are well typed: the history has a row for each
\* revision, and the revision never passes its bound.
THEOREM GrantTypeCorrect == GrantSpec => []GrantTypeOK
<1>1. GrantInv => GrantTypeOK
  BY DEF GrantInv
<1> QED
  BY GrantStart, GrantInvStep, <1>1, PTL DEF GrantSpec

\* No token of a developer's client or a key carries an internal scope, one that was not
\* approved or not for machines, or answers a request made after the account was locked,
\* and no machine's one made after it was disabled, however stale the catalogue, the row
\* or the index it was issued from.
THEOREM GrantsCorrect == GrantSpec => []NothingBeyondGrant
<1>1. GrantInv => NothingBeyondGrant
  BY DEF GrantInv
<1> QED
  BY GrantStart, GrantInvStep, <1>1, PTL DEF GrantSpec

\* Whatever publishers race, an active scope leaves the registry only through deprecation
\* or an operator's restore.
THEOREM ActiveCorrect == GrantSpec => ActiveNeverDropped
<1> DEFINE Keeps == \/ Active(registry.manifest) \subseteq DOMAIN registry'.manifest
                   \/ registry'.by = "operator"
<1>1. ASSUME GrantInv, [GrantNext]_gVars PROVE [Keeps]_gVars
  <2>1. ASSUME UNCHANGED registry PROVE Keeps
    BY <2>1 DEF Active
  <2>2. ASSUME NEW r \in Askers, Provision(r) PROVE Keeps
    BY <2>2, <1>1, ManifestFacts DEF Provision, NoResource, GrantInv, RegistrySound, Active
  <2>3. ASSUME NEW r \in Askers, CreateResource(r) PROVE Keeps
    <3>1. CASE registry.revision = -1
      BY <2>3, <3>1, <1>1, ManifestFacts DEF CreateResource, NoResource, GrantInv, RegistrySound, Active
    <3>2. CASE registry.revision # -1
      BY <2>1, <2>3, <3>2 DEF CreateResource
    <3> QED
      BY <3>1, <3>2
  <2>4. ASSUME NEW r \in Askers, ReconcileResource(r) PROVE Keeps
    <3>1. PICK y \in Asker : y = askers[r] /\ AskSound(y) /\ y.pc = "reconcile"
      BY <1>1, <2>4, GrantableOuter DEF ReconcileResource, At
    <3>2. CASE SameRevision(r)
      <4>1. registry'.manifest = y.manifest /\ (y.op = "restore" => registry'.by = "operator")
        BY <2>4, <3>1, <3>2 DEF ReconcileResource, ResourceFromManifest
      <4>2. y.op # "restore" => EnsureNoActiveRemoval(registry.manifest, y.manifest)
        BY <3>1, <3>2 DEF SameRevision, AskSound, Publishes
      <4> QED
        BY <4>1, <4>2 DEF EnsureNoActiveRemoval
    <3>3. CASE ~SameRevision(r)
      BY <2>1, <2>4, <3>3 DEF ReconcileResource, regVars
    <3> QED
      BY <3>2, <3>3
  <2>5. CASE UNCHANGED gVars
    BY <2>1, <2>5 DEF gVars
  <2>6. ASSUME NEW r \in Askers,
               PublishManifest(r) \/ InvalidateCatalog(r) \/ ReadUIClient(r) \/ WriteUIClient(r) \/ BootRead(r)
               \/ CompareHash(r) \/ ReadCatalog(r) \/ FillCatalog(r) \/ PutClient(r) \/ WriteClient(r)
               \/ RemoveClient(r) \/ DeleteClient(r) \/ RegenerateSecret(r) \/ WriteSecret(r)
               \/ ServiceExists(r) \/ PutService(r) \/ ReadService(r) \/ WriteService(r) \/ HasGrant(r)
               \/ StoreCode(r) \/ PutGrant(r) \/ RevokeConsent(r) \/ RefuseCode(r) \/ CodeOwner(r)
               \/ ClientActive(r) \/ KeyOwner(r) \/ ValidateMachineGrantable(r) \/ IssueToken(r) \/ PutKey(r)
               \/ RevokeKey(r) \/ DeleteKey(r) \/ ExchangeKey(r) \/ AskerFails(r)
        PROVE  UNCHANGED registry
    BY <2>6 DEF PublishManifest, InvalidateCatalog, ReadUIClient, WriteUIClient, BootRead, CompareHash, ReadCatalog
       , FillCatalog, PutClient, WriteClient, RemoveClient, DeleteClient, RegenerateSecret, WriteSecret
       , ServiceExists, PutService, ReadService, WriteService, HasGrant, StoreCode, PutGrant, RevokeConsent
       , RefuseCode, CodeOwner, ClientActive, KeyOwner, ValidateMachineGrantable, IssueToken, PutKey, RevokeKey
       , DeleteKey, ExchangeKey, AskerFails, regVars
  <2>7. ASSUME NEW r \in Askers, NEW m \in Manifests, PutManifest(r, m) \/ BootstrapAccount(r, m)
        PROVE  UNCHANGED registry
    BY <2>7 DEF PutManifest, BootstrapAccount, regVars
  <2>8. ASSUME NEW r \in Askers, NEW k \in 1..MaxRevisions, RestoreRevision(r, k) PROVE UNCHANGED registry
    BY <2>8 DEF RestoreRevision, regVars
  <2>9. ASSUME NEW r \in Askers, NEW code \in codes, RedeemCode(r, code) PROVE UNCHANGED registry
    BY <2>9 DEF RedeemCode, regVars
  <2>10. ASSUME NEW r \in Askers, NEW S \in SUBSET Names,
                CreateClient(r, S) \/ UpdateClient(r, S) \/ CreateM2M(r, S) \/ GrantM2MScopes(r, S)
                \/ ConsentDecision(r, S) \/ CreateKey(r, S) \/ EnsurePublicClient(r, S)
         PROVE  UNCHANGED registry
    BY <2>10 DEF CreateClient, UpdateClient, CreateM2M, GrantM2MScopes, ConsentDecision, CreateKey, EnsurePublicClient
       , regVars
  <2>11. ASSUME NEW r \in Askers, NEW S \in SUBSET Names, NEW c \in Clients,
                Authorize(r, c, S) \/ ClientCredentials(r, c, S) \/ ExchangeCode(r, c)
         PROVE  UNCHANGED registry
    BY <2>11 DEF Authorize, ClientCredentials, ExchangeCode, regVars
  <2>12. ASSUME (\E code \in codes : CodeExpires(code)) \/ CatalogExpires \/ UpdateLastUsed \/ KeyIndexCatchesUp
                \/ (\E b \in Bars : PersonBarred(b))
         PROVE  UNCHANGED registry
    BY <2>12 DEF CodeExpires, CatalogExpires, UpdateLastUsed, KeyIndexCatchesUp, PersonBarred, regVars
  <2>13. {"ui", "dev"} \subseteq Clients /\ {"svc", "dev"} \subseteq Clients /\ {} \in SUBSET Names
    BY DEF Clients
  <2> QED
    BY <1>1, <2>1, <2>2, <2>3, <2>4, <2>5, <2>6, <2>7, <2>8, <2>9, <2>10, <2>11, <2>12, <2>13 DEF GrantNext
<1> QED
  BY GrantStart, GrantInvStep, <1>1, PTL DEF GrantSpec, ActiveNeverDropped
=============================================================================
