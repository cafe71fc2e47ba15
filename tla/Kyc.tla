-------------------------------- MODULE Kyc --------------------------------
(***************************************************************************)
(* Identity verification: the claim of a tax number (CPF), the documents   *)
(* of an Enhanced submission, its review by people, and the retention of   *)
(* the documents when the account is deleted (domain/kyc, handler/kyc.go,  *)
(* kyc_admin.go, deletion/kycdocs.go).                                     *)
(*                                                                         *)
(* Every read that decides and every write of the users table is a step,   *)
(* and so is every call to the bucket.  The validation of names, dates,    *)
(* phones, addresses and content types is left out, as is the risk         *)
(* snapshot: nothing is decided on it.                                     *)
(***************************************************************************)
EXTENDS Integers, FiniteSets

CONSTANTS
  Holders,      \* accounts
  CPFs,         \* tax numbers
  MaxFiles,     \* bound: documents presigned
  MaxDocuments, \* documents of a submission
  Officers,     \* requests in progress
  KycScopes     \* entry points of a behaviour and its number of requests

NoHolder == "nobody"
NoCPF == "none"

ASSUME KycAssumption ==
  /\ MaxFiles \in Nat /\ MaxDocuments \in Nat /\ \A x \in KycScopes : x.cases \in Nat
  /\ NoHolder \notin Holders /\ NoCPF \notin CPFs

Files == 1..MaxFiles
RequiredDocTypes == {"front", "selfie"}     \* the code has three

VARIABLES
  kycScope, cases,
  persons,     \* account -> the KYC part of its row
  claims,      \* tax number -> the account its marker names
  intents,     \* document -> what it was presigned for
  nextFile,
  bucket,      \* objects under kyc/
  vault,       \* objects under the retention prefix
  doomed,      \* objects of rejected submissions still to be deleted
  officers,    \* request -> where it is
  leaver, moving,         \* the deletion of an account: who, and the step
  papers, seen,           \* the documents of the row it read, and the keys it listed
  \* What happened, for the properties only:
  submitted, decided,     \* Enhanced submissions written, decisions written
  owed                    \* confirmed documents that were stored when the purge began, but rejected ones

kVars == <<kycScope, cases, persons, claims, intents, nextFile, bucket, vault, doomed, officers, leaver, moving,
           papers, seen, submitted, decided, owed>>
storage == <<intents, nextFile, bucket, doomed>>
purge == <<vault, leaver, moving, papers, seen>>
leaverRows == <<purge, owed>>
tally == <<submitted, decided>>

-----------------------------------------------------------------------------
(* State *)

NotStarted == [cpf |-> NoCPF, level |-> "none", status |-> "none", docs |-> {}, expired |-> FALSE, purged |-> FALSE]
Person == [cpf: CPFs \cup {NoCPF}, level: {"none", "basic", "enhanced"},
           status: {"none", "pending", "verified", "rejected"}, docs: SUBSET Files, expired: BOOLEAN,
           purged: BOOLEAN]
\* by: the account whose key the object has.  open: the KYCPEND_ row is there.
NoIntent == [by |-> NoHolder, type |-> "none", open |-> FALSE]
AtDesk == [pc |-> "idle", who |-> NoHolder, cpf |-> NoCPF, old |-> NoCPF, file |-> 0, docs |-> {}, verdict |-> "none"]

KycTypeOK ==
  /\ kycScope \in KycScopes /\ cases \in 0..kycScope.cases
  /\ persons \in [Holders -> Person] /\ claims \in [CPFs -> Holders \cup {NoHolder}]
  /\ intents \in [Files -> [by: Holders \cup {NoHolder}, type: RequiredDocTypes \cup {"none"}, open: BOOLEAN]]
  /\ nextFile \in 1..(MaxFiles + 1)
  /\ bucket \subseteq Files /\ vault \subseteq Files /\ doomed \subseteq Files
  /\ \A o \in Officers : officers[o].pc \in {"idle", "saveBasic", "add", "forget", "saveEnhanced", "decide"}
  /\ leaver \in Holders \cup {NoHolder} /\ moving \in {"no", "read", "list", "copy", "delete", "purge", "done"}
  /\ papers \subseteq Files /\ seen \subseteq Files /\ owed \subseteq Files
  /\ submitted \in Nat /\ decided \in 0..submitted   \* one decision of each submission

KycInit ==
  /\ kycScope \in KycScopes /\ cases = kycScope.cases
  /\ persons = [h \in Holders |-> NotStarted] /\ claims = [c \in CPFs |-> NoHolder]
  /\ intents = [f \in Files |-> NoIntent] /\ nextFile = 1
  /\ bucket = {} /\ vault = {} /\ doomed = {}
  /\ officers = [o \in Officers |-> AtDesk]
  /\ leaver = NoHolder /\ moving = "no" /\ papers = {} /\ seen = {} /\ owed = {}
  /\ submitted = 0 /\ decided = 0

-----------------------------------------------------------------------------
(* What a row allows *)

BasicVerified(p) == p.level = "basic" /\ p.status = "verified"
EnhancedRejected(p) == p.level = "enhanced" /\ p.status = "rejected"
IsBasicLocked(p) == BasicVerified(p) \/ p.level = "enhanced"
AcceptsDocuments(p) == BasicVerified(p) \/ EnhancedRejected(p)
HasRequiredDocuments(p) == \A t \in RequiredDocTypes : \E f \in p.docs : intents[f].type = t

\* The state the person is shown.
KycState(p) ==
  CASE p.level = "enhanced" /\ p.status = "verified" -> "verified"
    [] p.level = "enhanced" /\ p.status = "rejected" -> "rejected"
    [] p.level = "enhanced" /\ p.status = "pending" /\ p.expired -> "basic_verified"
    [] p.level = "enhanced" /\ p.status = "pending" /\ ~p.expired -> "under_review"
    [] BasicVerified(p) -> "basic_verified"
    [] OTHER -> "not_started"

Case(o, op) ==
  /\ officers[o].pc = "idle" /\ op \in kycScope.ops
  /\ cases > 0 /\ cases' = cases - 1
Signed(h) == h # leaver /\ ~persons[h].purged     \* RequireAuth refuses a locked account
Open(o, x) == officers' = [officers EXCEPT ![o] = x]
CloseCase(o) == officers' = [officers EXCEPT ![o] = AtDesk]

-----------------------------------------------------------------------------
(* Basic *)

SubmitBasic(o, h, c) ==
  /\ Case(o, "basic") /\ Signed(h) /\ ~IsBasicLocked(persons[h])
  /\ Open(o, [AtDesk EXCEPT !.pc = "saveBasic", !.who = h, !.cpf = c, !.old = persons[h].cpf])
  /\ UNCHANGED <<kycScope, persons, claims, storage, leaverRows, tally>>

\* The marker is put if it is free or the account's own.
BugMayClaim(c, h) == TRUE
MayClaim(c, h) == claims[c] \in {NoHolder, h}

\* One transaction: the marker, the row, and the marker of the number read before.
SaveBasicSubmission(o) ==
  LET x == officers[o] IN
  /\ x.pc = "saveBasic"
  /\ IF MayClaim(x.cpf, x.who)
     THEN /\ persons' = [persons EXCEPT ![x.who].cpf = x.cpf, ![x.who].level = "basic", ![x.who].status = "verified"]
          /\ claims' = [c \in CPFs |-> IF c = x.cpf THEN x.who ELSE IF c = x.old THEN NoHolder ELSE claims[c]]
     ELSE UNCHANGED <<persons, claims>>
  /\ CloseCase(o)
  /\ UNCHANGED <<kycScope, cases, storage, leaverRows, tally>>

-----------------------------------------------------------------------------
(* Documents *)

\* The intent is saved under a new id; the browser gets a URL to put the object.
PresignDocument(h, t) ==
  /\ "documents" \in kycScope.ops /\ nextFile <= MaxFiles
  /\ Signed(h) /\ AcceptsDocuments(persons[h]) /\ Cardinality(persons[h].docs) < MaxDocuments
  /\ intents' = [intents EXCEPT ![nextFile] = [by |-> h, type |-> t, open |-> TRUE]] /\ nextFile' = nextFile + 1
  /\ UNCHANGED <<kycScope, cases, persons, claims, bucket, doomed, officers, leaverRows, tally>>

Upload(f) ==
  /\ intents[f].by # NoHolder /\ f \notin bucket /\ Signed(intents[f].by)
  /\ bucket' = bucket \cup {f}
  /\ UNCHANGED <<kycScope, cases, persons, claims, intents, nextFile, doomed, officers, leaverRows, tally>>

ConfirmDocument(o, h, f) ==
  /\ Case(o, "documents") /\ Signed(h) /\ AcceptsDocuments(persons[h])
  /\ Cardinality(persons[h].docs) < MaxDocuments
  /\ intents[f].by = h /\ intents[f].open /\ f \in bucket
  /\ Open(o, [AtDesk EXCEPT !.pc = "add", !.who = h, !.file = f])
  /\ UNCHANGED <<kycScope, persons, claims, storage, leaverRows, tally>>

\* The append has no condition.
AddDocument(o) ==
  /\ officers[o].pc = "add"
  /\ persons' = [persons EXCEPT ![officers[o].who].docs = @ \cup {officers[o].file}]
  /\ Open(o, [officers[o] EXCEPT !.pc = "forget"])
  /\ UNCHANGED <<kycScope, cases, claims, storage, leaverRows, tally>>

\* The intent goes; a failure is only logged, and the document can be confirmed again.
DeletePendingDocument(o) ==
  /\ officers[o].pc = "forget"
  /\ \/ intents' = [intents EXCEPT ![officers[o].file].open = FALSE]
     \/ "fault" \in kycScope.ops /\ UNCHANGED intents
  /\ CloseCase(o)
  /\ UNCHANGED <<kycScope, cases, persons, claims, nextFile, bucket, doomed, leaverRows, tally>>

-----------------------------------------------------------------------------
(* Enhanced and its review *)

SubmitEnhanced(o, h) ==
  /\ Case(o, "enhanced") /\ Signed(h)
  /\ AcceptsDocuments(persons[h]) /\ HasRequiredDocuments(persons[h])
  /\ Open(o, [AtDesk EXCEPT !.pc = "saveEnhanced", !.who = h])
  /\ UNCHANGED <<kycScope, persons, claims, storage, leaverRows, tally>>

\* An update without a condition.
SaveEnhancedSubmission(o) ==
  /\ officers[o].pc = "saveEnhanced"
  /\ persons' = [persons EXCEPT ![officers[o].who] =
                   [@ EXCEPT !.level = "enhanced", !.status = "pending", !.expired = FALSE]]
  /\ submitted' = submitted + 1
  /\ CloseCase(o)
  /\ UNCHANGED <<kycScope, cases, claims, storage, leaverRows, decided>>

\* ReviewBy reads the submission, with its documents.
ReviewBy(o, h, verdict) ==
  /\ Case(o, "review") /\ persons[h].level = "enhanced" /\ persons[h].status = "pending"
  /\ Open(o, [AtDesk EXCEPT !.pc = "decide", !.who = h, !.docs = persons[h].docs, !.verdict = verdict])
  /\ UNCHANGED <<kycScope, persons, claims, storage, leaverRows, tally>>

\* The condition of both decisions.
UnderReview(p) == p.level = "enhanced" /\ p.status = "pending"

\* MarkVerified and MarkRejected: a rejection clears the documents of the row, and the
\* objects of the ones that were read are deleted in the background: they are not kept.
Decide(o) ==
  LET x == officers[o] IN
  /\ x.pc = "decide"
  /\ IF UnderReview(persons[x.who])
     THEN /\ decided' = decided + 1
          /\ IF x.verdict = "approve"
             THEN persons' = [persons EXCEPT ![x.who].status = "verified"] /\ UNCHANGED <<doomed, owed>>
             ELSE /\ persons' = [persons EXCEPT ![x.who].status = "rejected", ![x.who].docs = {}]
                  /\ doomed' = doomed \cup x.docs /\ owed' = owed \ x.docs
     ELSE UNCHANGED <<persons, doomed, decided, owed>>
  /\ CloseCase(o)
  /\ UNCHANGED <<kycScope, cases, claims, intents, nextFile, bucket, purge, submitted>>

\* Best effort.
PurgeRejectedObject(f) ==
  /\ f \in doomed /\ doomed' = doomed \ {f}
  /\ \/ bucket' = bucket \ {f}
     \/ "fault" \in kycScope.ops /\ UNCHANGED bucket
  /\ UNCHANGED <<kycScope, cases, persons, claims, intents, nextFile, officers, leaverRows, tally>>

SubmissionExpires(h) ==
  /\ persons[h].level = "enhanced" /\ persons[h].status = "pending" /\ ~persons[h].expired
  /\ persons' = [persons EXCEPT ![h].expired = TRUE]
  /\ UNCHANGED <<kycScope, cases, claims, storage, officers, leaverRows, tally>>

-----------------------------------------------------------------------------
(* The purge of an account *)

Keys(h) == {f \in bucket : intents[f].by = h}

\* Days after the lock: the account has no request in progress and no rejected object
\* left to delete.
PurgeBegins(h) ==
  /\ "delete" \in kycScope.ops /\ moving = "no" /\ leaver = NoHolder /\ doomed = {}
  /\ \A o \in Officers : officers[o].pc = "idle"
  /\ leaver' = h /\ moving' = "read" /\ owed' = persons[h].docs \cap bucket
  /\ UNCHANGED <<kycScope, cases, persons, claims, storage, officers, vault, papers, seen, tally>>

\* A reviewer may still decide on the submission after this.
ReadLeaver ==
  /\ moving = "read" /\ papers' = persons[leaver].docs /\ moving' = "list"
  /\ UNCHANGED <<kycScope, cases, persons, claims, storage, officers, vault, leaver, seen, owed, tally>>

ListKeys ==
  /\ moving = "list" /\ seen' = Keys(leaver) /\ moving' = "copy"
  /\ UNCHANGED <<kycScope, cases, persons, claims, storage, officers, vault, leaver, papers, owed, tally>>

ToCopy == (papers \cap seen) \ vault

\* Mutant: the loop that deletes comes first.
BugCopiedAll == TRUE
CopiedAll == ToCopy = {}

\* Every confirmed document that is listed is copied, then every listed key is deleted.
\* The copy of an object that a rejection has deleted since fails, and the purge starts over.
CopyObject ==
  /\ moving = "copy"
  /\ \/ CopiedAll /\ moving' = "delete" /\ UNCHANGED vault
     \/ ~CopiedAll /\ \E f \in ToCopy :
          IF f \in bucket THEN vault' = vault \cup {f} /\ UNCHANGED moving ELSE moving' = "read" /\ UNCHANGED vault
  /\ UNCHANGED <<kycScope, cases, persons, claims, storage, officers, leaver, papers, seen, owed, tally>>

DeleteObject ==
  /\ moving = "delete"
  /\ IF seen \cap bucket = {} THEN moving' = "purge" /\ UNCHANGED bucket
     ELSE (\E f \in seen \cap bucket : bucket' = bucket \ {f}) /\ UNCHANGED moving
  /\ UNCHANGED <<kycScope, cases, persons, claims, intents, nextFile, doomed, officers, vault, leaver, papers, seen,
                 owed, tally>>

\* The row becomes a tombstone and the marker of its number goes.
PurgeUser ==
  /\ moving = "purge" /\ moving' = "done"
  /\ persons' = [persons EXCEPT ![leaver] = [NotStarted EXCEPT !.purged = TRUE]]
  /\ claims' = [c \in CPFs |-> IF c = persons[leaver].cpf THEN NoHolder ELSE claims[c]]
  /\ UNCHANGED <<kycScope, cases, storage, officers, vault, leaver, papers, seen, owed, tally>>

\* A call fails or the worker stops: the purge starts over.
PurgeRestarts ==
  /\ "fault" \in kycScope.ops /\ moving \in {"list", "copy", "delete", "purge"}
  /\ moving' = "read" /\ seen' = {}
  /\ UNCHANGED <<kycScope, cases, persons, claims, storage, officers, vault, leaver, papers, owed, tally>>

CaseFails(o) ==
  /\ "fault" \in kycScope.ops /\ officers[o].pc # "idle" /\ CloseCase(o)
  /\ UNCHANGED <<kycScope, cases, persons, claims, storage, leaverRows, tally>>

KycNext ==
  \/ \E o \in Officers :
       \/ SaveBasicSubmission(o) \/ AddDocument(o) \/ DeletePendingDocument(o) \/ SaveEnhancedSubmission(o)
       \/ Decide(o) \/ CaseFails(o)
       \/ \E h \in Holders :
            \/ \E c \in CPFs : SubmitBasic(o, h, c)
            \/ \E f \in Files : ConfirmDocument(o, h, f)
            \/ SubmitEnhanced(o, h)
            \/ \E v \in {"approve", "reject"} : ReviewBy(o, h, v)
  \/ \E h \in Holders : (\E t \in RequiredDocTypes : PresignDocument(h, t)) \/ SubmissionExpires(h) \/ PurgeBegins(h)
  \/ \E f \in Files : Upload(f) \/ PurgeRejectedObject(f)
  \/ ReadLeaver \/ ListKeys \/ CopyObject \/ DeleteObject \/ PurgeUser \/ PurgeRestarts

KycSpec == KycInit /\ [][KycNext]_kVars

-----------------------------------------------------------------------------
(* Safety *)

\* One CPF, one account: however the submissions and purges of two accounts interleave,
\* no two rows carry the same number, and a number in use is claimed by its account.
OneAccountPerCPF ==
  \A h \in Holders : persons[h].cpf # NoCPF => claims[persons[h].cpf] = h

\* Once the account is purged, every confirmed document that was stored when the purge
\* began and was not rejected since is in the vault and none is left under its prefix,
\* wherever the purge was interrupted and whatever reviewers decide meanwhile.
DocumentsRetained ==
  moving \in {"purge", "done"} => owed \subseteq vault /\ owed \cap bucket = {}

\* What the comment on ErrSubmissionLocked says: a submission is frozen until it is
\* rejected or expires.
ExpiredMayResubmit ==
  \A h \in Holders : KycState(persons[h]) = "basic_verified" => AcceptsDocuments(persons[h])

\* What the comment on isBasicLocked says: identity data never changes once submitted.
BasicImmutable ==
  [][\A h \in Holders : persons[h].cpf # NoCPF /\ ~persons'[h].purged => persons'[h].cpf = persons[h].cpf]_kVars
=============================================================================
