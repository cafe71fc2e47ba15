--------------------------- MODULE RecordsProofs ---------------------------
(***************************************************************************)
(* Proofs about the data export, the identity checks and the support       *)
(* ticket.  The three share no row and no action; each has its own         *)
(* specification and its own inductive invariant.                          *)
(***************************************************************************)
EXTENDS Support, Kyc, DataExport, TLAPS

-----------------------------------------------------------------------------
(* The data export *)

\* Once the erasure runs no job writes and the product's upload URLs are dead, and once
\* it is past the bucket the bucket is empty.
ErasureAlone ==
  /\ erasing # "no" => topic = {} /\ \A j \in Jobs : jobs[j].pc = "idle"
  /\ NoFileSurvivesPurge

-----------------------------------------------------------------------------
(* Identity checks *)

Desk == [pc: {"idle", "saveBasic", "add", "forget", "saveEnhanced", "decide"}, who: Holders \cup {NoHolder},
         cpf: CPFs \cup {NoCPF}, old: CPFs \cup {NoCPF}, file: Files \cup {0}, docs: SUBSET Files,
         verdict: {"none", "approve", "reject"}]
Intent == [by: Holders \cup {NoHolder}, type: RequiredDocTypes \cup {"none"}, open: BOOLEAN]

KycTyped ==
  /\ persons \in [Holders -> Person] /\ claims \in [CPFs -> Holders \cup {NoHolder}]
  /\ intents \in [Files -> Intent] /\ nextFile \in Nat \ {0}
  /\ bucket \subseteq Files /\ vault \subseteq Files /\ doomed \subseteq Files
  /\ officers \in [Officers -> Desk]
  /\ leaver \in Holders \cup {NoHolder} /\ moving \in {"no", "read", "list", "copy", "delete", "purge", "done"}
  /\ papers \subseteq Files /\ seen \subseteq Files /\ owed \subseteq Files

\* What a request in progress relies on.  A number is only claimed for a row that has
\* none, so the one that it gives up is never one that another account took since.  The
\* documents that a request is about were presigned for its account.  About a leaver only
\* a decision is under way, and it is about all the documents of the row.
DeskSound(x) ==
  /\ x.pc # "idle" <=> x.who \in Holders
  /\ x.pc = "saveBasic" => x.cpf \in CPFs /\ x.old = NoCPF
  /\ x.pc \in {"add", "forget"} => x.file \in Files /\ intents[x.file].by = x.who
  /\ x.pc = "decide" => \A f \in x.docs : intents[f].by = x.who
  /\ moving # "no" /\ x.who = leaver => x.pc = "decide" /\ persons[leaver].docs \subseteq x.docs
Desks == \A o \in Officers : DeskSound(officers[o])

\* A row that has a number is locked.
Numbers == OneAccountPerCPF /\ \A h \in Holders : persons[h].cpf # NoCPF => IsBasicLocked(persons[h])

\* An object belongs to one account: the documents of a row were presigned for it.
Owners ==
  /\ \A f \in Files : f >= nextFile => intents[f].by = NoHolder
  /\ \A h \in Holders : \A f \in persons[h].docs : intents[f].by = h

\* What is owed stays confirmed and stored until it is in the vault.
Owed ==
  moving # "no" =>
    /\ leaver \in Holders
    /\ \A f \in owed : intents[f].by = leaver
    /\ moving # "done" => owed \subseteq persons[leaver].docs
    /\ owed \subseteq vault \cup bucket /\ owed \cap doomed = {}
    /\ moving \in {"list", "copy", "delete", "purge"} => owed \subseteq papers
    /\ moving \in {"copy", "delete", "purge"} => owed \cap bucket \subseteq seen
    /\ moving \in {"delete", "purge", "done"} => owed \subseteq vault
    /\ DocumentsRetained

KycInv == KycTyped /\ Desks /\ Numbers /\ Owners /\ Owed

-----------------------------------------------------------------------------
(* The support ticket *)

Ops == {"none", "create", "reply", "note", "escalate", "status", "rate"}
Args == {"none", "anonymous", "both", "owner", "user", "agent", "specialist", "engineering", "open", "answered",
         "closed", "comment"}
Caller == [pc: CallSteps, op: Ops, arg: Args, asked: BOOLEAN]
Message == [by: {"user", "agent", "system"}, body: {"words", "redacted"}]

SupportTyped ==
  /\ ticket \in SupportTicket /\ thread \in Seq(Message) /\ notes \in Nat
  /\ metrics \in [created: Nat, resolved: Nat] /\ surveys \in Nat
  /\ callers \in [Callers -> Caller]
  /\ gone \in BOOLEAN /\ listed \in BOOLEAN /\ redactor \in {"off", "list", "messages", "drop", "done"}

\* The request that closed the ticket and has yet to ask for the survey.
Closer(x) == x.pc \in {"statusSystem", "survey"} /\ x.arg = "closed"

\* What a request in progress relies on: where it is says what it was called for, and once
\* the account is gone only the holder of an anonymous token still adds words.
CallSound(x) ==
  /\ x.pc \in {"put", "system", "first", "confirmMail"} => x.op = "create"
  /\ x.pc = "put" => ticket = NoSupportTicket
  /\ x.pc \notin {"idle", "put"} => ticket.status # "none"
  /\ x.pc = "message" => x.arg \in {"user", "agent"}
  /\ x.pc = "escalate" => x.arg \in Levels
  /\ x.pc = "status" => x.arg \in {"open", "answered", "closed"}
  /\ x.pc = "survey" => x.arg = "closed"
  /\ x.pc = "rate" => x.op = "rate"
  /\ x.op = "create" /\ x.pc # "put" => (ticket.token <=> x.arg = "anonymous")
  /\ gone /\ x.op = "create" => x.arg = "anonymous"
  /\ gone /\ ((x.pc = "message" /\ x.arg = "user") \/ x.pc = "rate") => ticket.token
  /\ Closer(x) => ticket.status = "closed" /\ surveys = 0

\* One request creates the ticket, and one closes it.
Calls ==
  /\ \A q \in Callers : CallSound(callers[q])
  /\ \A q, r \in Callers : callers[q].op = "create" /\ callers[r].op = "create" => q = r
  /\ \A q, r \in Callers : Closer(callers[q]) /\ Closer(callers[r]) => q = r

\* The request that closes the ticket counts one resolution and it alone may ask.
Counted ==
  /\ metrics.created = IF ticket.status = "none" THEN 0 ELSE 1
  /\ metrics.resolved = IF ticket.status = "closed" THEN 1 ELSE 0
  /\ surveys = 0 \/ (surveys = 1 /\ ticket.status = "closed")

\* Until the account is gone the ticket has its owner or its token, and while it has an
\* owner the index lists it; the owner is let go of when no words are left.
Words ==
  /\ ticket.status = "none" => ticket = NoSupportTicket
  /\ ticket.status # "none" /\ ~gone => ticket.owner \/ ticket.token
  /\ ticket.owner => listed
  /\ redactor = "off" <=> ~gone
  /\ listed \/ redactor \in {"messages", "drop"} => ticket.status # "none"
  /\ redactor = "drop" /\ ~ticket.token => Unredacted = {}
  /\ redactor = "done" => ~ticket.owner
  /\ NoWordsStranded

SupportInv == SupportTyped /\ Calls /\ Counted /\ Words

-----------------------------------------------------------------------------
(* Proof: the data export *)

\* A job that is not idle, or that arrives, shows that the account is not being erased.
LEMMA JobsBeforeErasure ==
  ASSUME ErasureAlone, NEW j \in Jobs, jobs[j].pc # "idle" \/ erasing = "no",
         erasing' = erasing
  PROVE  ErasureAlone'
<1>1. erasing = "no"
  BY DEF ErasureAlone
<1> QED
  BY <1>1 DEF ErasureAlone, NoFileSurvivesPurge

LEMMA ErasureAloneStep ==
  ErasureAlone /\ [ExportNext]_xVars => ErasureAlone'
<1> SUFFICES ASSUME ErasureAlone, [ExportNext]_xVars PROVE ErasureAlone'
  OBVIOUS
<1>1. ASSUME NEW j \in Jobs,
             RequestExport(j) \/ ExportStatus(j) \/ DiscardExport(j)
               \/ \E i \in ExportIds, r \in {"ready", "failed"} : AckExport(j, i, r)
      PROVE  ErasureAlone'
  <2>1. erasing = "no" /\ erasing' = erasing
    BY <1>1 DEF RequestExport, ExportStatus, DiscardExport, AckExport, Arrive
  <2> QED
    BY <2>1, JobsBeforeErasure
<1>2. ASSUME NEW j \in Jobs,
             \/ ClearFiles(j) \/ SaveExport(j) \/ Dispatch(j) \/ Publish(j) \/ RecordAck(j)
             \/ BuildPart(j) \/ SetOwnPart(j) \/ FinishBuild(j)
      PROVE  ErasureAlone'
  <2>1. jobs[j].pc # "idle" /\ erasing' = erasing
    BY <1>2 DEF ClearFiles, SaveExport, Dispatch, Publish, RecordAck, BuildPart, SetOwnPart, FinishBuild
  <2> QED
    BY <2>1, JobsBeforeErasure
<1>3. ASSUME NEW j \in Jobs,
             Notify(j) \/ MarkNotified(j) \/ SendReady(j) \/ EndExport(j) \/ JobStops(j)
      PROVE  ErasureAlone'
  <2>1. jobs[j].pc # "idle" /\ erasing' = erasing
    BY <1>3 DEF Notify, MarkNotified, SendReady, EndExport, JobStops
  <2> QED
    BY <2>1, JobsBeforeErasure
<1>4. ASSUME NEW i \in ExportIds, ProductUploads(i) PROVE ErasureAlone'
  <2>1. erasing = "no"
    BY <1>4 DEF ProductUploads, ErasureAlone
  <2> QED
    BY <1>4, <2>1 DEF ProductUploads, ErasureAlone, NoFileSurvivesPurge
<1>5. CASE TimePasses
  BY <1>5 DEF TimePasses, ErasureAlone, NoFileSurvivesPurge
<1>6. CASE AccountPurged
  BY <1>6 DEF AccountPurged, ErasureAlone, NoFileSurvivesPurge
<1>7. CASE EraseFiles
  BY <1>7 DEF EraseFiles, ToErase, ErasureAlone, NoFileSurvivesPurge
<1>8. CASE EraseRow
  BY <1>8 DEF EraseRow, ErasureAlone, NoFileSurvivesPurge
<1>9. CASE UNCHANGED xVars
  BY <1>9 DEF xVars, ErasureAlone, NoFileSurvivesPurge
<1> QED
  BY <1>1, <1>2, <1>3, <1>4, <1>5, <1>6, <1>7, <1>8, <1>9 DEF ExportNext

\* However the build, the product's upload and the discards of an export interleave, no
\* file of it is left once EraseOwner has gone through the person's prefix.
THEOREM ExportErased == ExportSpec => []NoFileSurvivesPurge
<1>1. ExportInit => ErasureAlone
  BY DEF ExportInit, ErasureAlone, NoFileSurvivesPurge
<1>2. ErasureAlone => NoFileSurvivesPurge
  BY DEF ErasureAlone
<1> QED
  BY <1>1, <1>2, ErasureAloneStep, PTL DEF ExportSpec

-----------------------------------------------------------------------------
(* Proof: identity checks *)

LEMMA KycInitInv == KycInit => KycInv
<1> SUFFICES ASSUME KycInit PROVE KycInv
  OBVIOUS
<1>1. NotStarted \in Person /\ AtDesk \in Desk /\ NoIntent \in Intent
  BY KycAssumption DEF NotStarted, Person, AtDesk, Desk, NoIntent, Intent, Files
<1>2. KycTyped
  BY <1>1, KycAssumption DEF KycInit, KycTyped
<1>3. Desks
  BY KycAssumption DEF KycInit, Desks, DeskSound, AtDesk
<1>4. Numbers /\ Owners /\ Owed
  BY DEF KycInit, Numbers, OneAccountPerCPF, Owners, Owed, NotStarted, NoIntent
<1> QED
  BY <1>2, <1>3, <1>4 DEF KycInv

\* What a request relies on is not undone by the others: objects keep their account, and
\* the row of a leaver loses documents only.
LEMMA DeskKept ==
  ASSUME NEW x \in Desk, DeskSound(x), KycInv,
         \A f \in Files : intents[f].by # NoHolder => intents'[f].by = intents[f].by,
         moving' # "no" => /\ moving # "no" /\ leaver' = leaver
                           /\ persons'[leaver].docs \subseteq persons[leaver].docs
  PROVE  DeskSound(x)'
<1>1. \A f \in x.docs : f \in Files
  BY DEF Desk
<1>2. x.pc \in {"add", "forget"} => x.file \in Files /\ intents'[x.file].by = x.who
  BY KycAssumption DEF DeskSound
<1>3. x.pc = "decide" => \A f \in x.docs : intents'[f].by = x.who
  BY <1>1, KycAssumption DEF DeskSound
<1>4. moving' # "no" /\ x.who = leaver' => x.pc = "decide" /\ persons'[leaver'].docs \subseteq x.docs
  BY DEF DeskSound
<1> QED
  BY <1>2, <1>3, <1>4 DEF DeskSound

\* A request that goes on, or ends, and writes nothing.
LEMMA DeskMoves ==
  ASSUME KycInv, NEW o \in Officers, NEW x \in Desk, DeskSound(x),
         officers' = [officers EXCEPT ![o] = x],
         UNCHANGED <<persons, claims, storage, leaverRows>>
  PROVE  KycInv'
<1> USE DEF storage, leaverRows, purge
<1>1. KycTyped'
  BY DEF KycInv, KycTyped
<1>2. Desks'
  <2> SUFFICES ASSUME NEW q \in Officers PROVE DeskSound(officers[q])'
    BY DEF Desks
  <2>1. DeskSound(officers'[q])
    BY DEF KycInv, Desks, KycTyped
  <2> QED
    BY <2>1 DEF DeskSound
<1>3. (Numbers /\ Owners /\ Owed)'
  BY DEF KycInv, Numbers, OneAccountPerCPF, IsBasicLocked, BasicVerified, Owners, Owed, DocumentsRetained
<1> QED
  BY <1>1, <1>2, <1>3 DEF KycInv

LEMMA AtDeskSound ==
  AtDesk \in Desk /\ (KycInv => DeskSound(AtDesk))
BY KycAssumption DEF AtDesk, Desk, DeskSound, KycInv, Owed, Files

\* The requests that only read.
LEMMA CasesOpen ==
  ASSUME KycInv, NEW o \in Officers, NEW h \in Holders,
         \/ \E c \in CPFs : SubmitBasic(o, h, c)
         \/ \E f \in Files : ConfirmDocument(o, h, f)
         \/ SubmitEnhanced(o, h)
         \/ \E v \in {"approve", "reject"} : ReviewBy(o, h, v)
  PROVE  KycInv'
<1> USE AtDeskSound
<1>1. ASSUME NEW c \in CPFs, SubmitBasic(o, h, c) PROVE KycInv'
  <2>1. PICK x : x = [AtDesk EXCEPT !.pc = "saveBasic", !.who = h, !.cpf = c, !.old = persons[h].cpf]
    OBVIOUS
  <2>2. persons[h].cpf = NoCPF
    BY <1>1 DEF SubmitBasic, KycInv, Numbers
  <2>3. x \in Desk /\ x.pc = "saveBasic" /\ x.who = h /\ x.cpf = c /\ x.old = NoCPF
    BY <2>1, <2>2 DEF AtDesk, Desk
  <2>4. h # leaver
    BY <1>1 DEF SubmitBasic, Signed
  <2>5. DeskSound(x)
    BY <2>3, <2>4 DEF DeskSound
  <2>6. officers' = [officers EXCEPT ![o] = x] /\ UNCHANGED <<persons, claims, storage, leaverRows>>
    BY <1>1, <2>1 DEF SubmitBasic, Open
  <2> QED
    BY <2>3, <2>5, <2>6, DeskMoves
<1>2. ASSUME NEW f \in Files, ConfirmDocument(o, h, f) PROVE KycInv'
  <2>1. PICK x : x = [AtDesk EXCEPT !.pc = "add", !.who = h, !.file = f]
    OBVIOUS
  <2>3. x \in Desk /\ x.pc = "add" /\ x.who = h /\ x.file = f
    BY <2>1 DEF AtDesk, Desk
  <2>4. h # leaver /\ intents[f].by = h
    BY <1>2 DEF ConfirmDocument, Signed
  <2>5. DeskSound(x)
    BY <2>3, <2>4 DEF DeskSound
  <2>6. officers' = [officers EXCEPT ![o] = x] /\ UNCHANGED <<persons, claims, storage, leaverRows>>
    BY <1>2, <2>1 DEF ConfirmDocument, Open
  <2> QED
    BY <2>3, <2>5, <2>6, DeskMoves
<1>3. CASE SubmitEnhanced(o, h)
  <2>1. PICK x : x = [AtDesk EXCEPT !.pc = "saveEnhanced", !.who = h]
    OBVIOUS
  <2>3. x \in Desk /\ x.pc = "saveEnhanced" /\ x.who = h
    BY <2>1 DEF AtDesk, Desk
  <2>4. h # leaver
    BY <1>3 DEF SubmitEnhanced, Signed
  <2>5. DeskSound(x)
    BY <2>3, <2>4 DEF DeskSound
  <2>6. officers' = [officers EXCEPT ![o] = x] /\ UNCHANGED <<persons, claims, storage, leaverRows>>
    BY <1>3, <2>1 DEF SubmitEnhanced, Open
  <2> QED
    BY <2>3, <2>5, <2>6, DeskMoves
<1>4. ASSUME NEW v \in {"approve", "reject"}, ReviewBy(o, h, v) PROVE KycInv'
  <2>1. PICK x : x = [AtDesk EXCEPT !.pc = "decide", !.who = h, !.docs = persons[h].docs, !.verdict = v]
    OBVIOUS
  <2>2. persons[h].docs \subseteq Files /\ \A f \in persons[h].docs : intents[f].by = h
    BY DEF KycInv, KycTyped, Person, Owners
  <2>3. x \in Desk /\ x.pc = "decide" /\ x.who = h /\ x.docs = persons[h].docs
    BY <2>1, <2>2 DEF AtDesk, Desk
  <2>5. DeskSound(x)
    BY <2>2, <2>3 DEF DeskSound
  <2>6. officers' = [officers EXCEPT ![o] = x] /\ UNCHANGED <<persons, claims, storage, leaverRows>>
    BY <1>4, <2>1 DEF ReviewBy, Open
  <2> QED
    BY <2>3, <2>5, <2>6, DeskMoves
<1> QED
  BY <1>1, <1>2, <1>3, <1>4

\* A write ends its request, and leaves what the others rely on.
LEMMA DesksKept ==
  ASSUME KycInv,
         \A q \in Officers : officers'[q] = officers[q] \/ officers'[q] = AtDesk,
         \A f \in Files : intents[f].by # NoHolder => intents'[f].by = intents[f].by,
         moving' # "no" => /\ moving # "no" /\ leaver' = leaver
                           /\ persons'[leaver].docs \subseteq persons[leaver].docs
  PROVE  Desks'
<1> SUFFICES ASSUME NEW q \in Officers PROVE DeskSound(officers[q])'
  BY DEF Desks
<1>1. officers[q] \in Desk /\ DeskSound(officers[q])
  BY DEF KycInv, KycTyped, Desks
<1>2. PICK x \in Desk : x = officers'[q] /\ DeskSound(x)
  BY <1>1, AtDeskSound
<1>3. DeskSound(x)'
  BY <1>2, DeskKept
<1> QED
  BY <1>2, <1>3 DEF DeskSound

\* The marker and the row are written together, and the number that is given up is none.
LEMMA BasicSaved ==
  ASSUME KycInv, NEW o \in Officers, SaveBasicSubmission(o)
  PROVE  KycInv'
<1>1. PICK x \in Desk : x = officers[o]
  BY DEF KycInv, KycTyped
<1>2. DeskSound(x) /\ x.pc = "saveBasic"
  BY <1>1 DEF KycInv, Desks, SaveBasicSubmission
<1>3. x.who \in Holders /\ x.cpf \in CPFs /\ x.cpf # NoCPF /\ x.old = NoCPF
  BY <1>2, KycAssumption DEF DeskSound
<1>4. CASE ~MayClaim(x.cpf, x.who)
  <2>1. officers' = [officers EXCEPT ![o] = AtDesk] /\ UNCHANGED <<persons, claims, storage, leaverRows>>
    BY <1>1, <1>4 DEF SaveBasicSubmission, CloseCase
  <2> QED
    BY <2>1, AtDeskSound, DeskMoves
<1>5. CASE MayClaim(x.cpf, x.who)
  <2>1. /\ persons' = [persons EXCEPT ![x.who].cpf = x.cpf, ![x.who].level = "basic", ![x.who].status = "verified"]
        /\ claims' = [c \in CPFs |-> IF c = x.cpf THEN x.who ELSE IF c = x.old THEN NoHolder ELSE claims[c]]
        /\ officers' = [officers EXCEPT ![o] = AtDesk] /\ UNCHANGED <<storage, leaverRows>>
    BY <1>1, <1>5 DEF SaveBasicSubmission, CloseCase
  <2>2. PICK y : y = [persons[x.who] EXCEPT !.cpf = x.cpf, !.level = "basic", !.status = "verified"]
    OBVIOUS
  <2>3. persons[x.who] \in Person
    BY <1>3 DEF KycInv, KycTyped
  <2>4. y \in Person /\ y.cpf = x.cpf /\ y.level = "basic" /\ y.status = "verified" /\ y.docs = persons[x.who].docs
    BY <1>3, <2>2, <2>3 DEF Person
  <2>5. persons' = [persons EXCEPT ![x.who] = y]
    BY <1>3, <2>1, <2>2 DEF KycInv, KycTyped
  <2>6. \A c \in CPFs : claims'[c] = IF c = x.cpf THEN x.who ELSE claims[c]
    BY <1>3, <2>1, KycAssumption
  <2>7. KycTyped'
    BY <1>3, <2>1, <2>4, <2>5, AtDeskSound DEF KycInv, KycTyped, storage, leaverRows, purge
  <2>8. \A h \in Holders : persons'[h].docs = persons[h].docs
    BY <2>4, <2>5 DEF KycInv, KycTyped
  <2>9. Desks'
    BY <2>1, <2>8, DesksKept DEF KycInv, KycTyped, Owed, storage, leaverRows, purge
  <2>10. Numbers'
    <3> SUFFICES ASSUME NEW h \in Holders, persons'[h].cpf # NoCPF
                 PROVE  claims'[persons'[h].cpf] = h /\ IsBasicLocked(persons'[h])
      BY DEF Numbers, OneAccountPerCPF, IsBasicLocked, BasicVerified
    <3>1. CASE h = x.who
      BY <3>1, <1>3, <2>4, <2>5, <2>6 DEF KycInv, KycTyped, IsBasicLocked, BasicVerified
    <3>2. CASE h # x.who
      <4>1. persons'[h] = persons[h] /\ persons[h].cpf \in CPFs
        BY <3>2, <2>5 DEF KycInv, KycTyped, Person
      <4>2. claims[persons[h].cpf] = h /\ IsBasicLocked(persons[h])
        BY <4>1 DEF KycInv, Numbers, OneAccountPerCPF
      <4>3. persons[h].cpf # x.cpf
        BY <4>2, <3>2, <1>5, KycAssumption DEF MayClaim
      <4> QED
        BY <4>1, <4>2, <4>3, <2>6
    <3> QED
      BY <3>1, <3>2
  <2>11. (Owners /\ Owed)'
    BY <2>1, <2>8 DEF KycInv, Owners, Owed, DocumentsRetained, storage, leaverRows, purge
  <2> QED
    BY <2>7, <2>9, <2>10, <2>11 DEF KycInv
<1> QED
  BY <1>4, <1>5

\* A document is added to the row it was presigned for, which is not a leaver's.
LEMMA DocumentAdded ==
  ASSUME KycInv, NEW o \in Officers, AddDocument(o)
  PROVE  KycInv'
<1>1. PICK x \in Desk : x = officers[o]
  BY DEF KycInv, KycTyped
<1>2. DeskSound(x) /\ x.pc = "add"
  BY <1>1 DEF KycInv, Desks, AddDocument
<1>3. x.who \in Holders /\ x.file \in Files /\ intents[x.file].by = x.who /\ (moving # "no" => x.who # leaver)
  BY <1>2 DEF DeskSound
<1>4. PICK z : z = [x EXCEPT !.pc = "forget"]
  OBVIOUS
<1>5. z \in Desk /\ z.pc = "forget" /\ z.who = x.who /\ z.file = x.file
  BY <1>4 DEF Desk
<1>6. PICK y : y = [persons[x.who] EXCEPT !.docs = @ \cup {x.file}]
  OBVIOUS
<1>7. persons[x.who] \in Person
  BY <1>3 DEF KycInv, KycTyped
<1>8. /\ y \in Person /\ y.docs = persons[x.who].docs \cup {x.file}
      /\ y.cpf = persons[x.who].cpf /\ y.level = persons[x.who].level /\ y.status = persons[x.who].status
  BY <1>3, <1>6, <1>7 DEF Person
<1>9. persons' = [persons EXCEPT ![x.who] = y] /\ officers' = [officers EXCEPT ![o] = z]
      /\ UNCHANGED <<claims, storage, leaverRows>>
  BY <1>1, <1>3, <1>4, <1>6 DEF AddDocument, Open, KycInv, KycTyped
<1>10. KycTyped'
  BY <1>5, <1>8, <1>9 DEF KycInv, KycTyped, storage, leaverRows, purge
<1>11. moving # "no" => leaver \in Holders /\ persons'[leaver] = persons[leaver]
  BY <1>3, <1>9 DEF KycInv, KycTyped, Owed
<1>12. Desks'
  <2> SUFFICES ASSUME NEW q \in Officers PROVE DeskSound(officers[q])'
    BY DEF Desks
  <2>1. DeskSound(z)
    BY <1>3, <1>5 DEF DeskSound
  <2>2. PICK w \in Desk : w = officers'[q] /\ DeskSound(w)
    BY <2>1, <1>5, <1>9 DEF KycInv, KycTyped, Desks
  <2>3. DeskSound(w)'
    BY <1>9, <1>11, <2>2, DeskKept DEF storage, leaverRows, purge
  <2> QED
    BY <2>2, <2>3 DEF DeskSound
<1>13. \A h \in Holders : /\ persons'[h].cpf = persons[h].cpf /\ persons'[h].level = persons[h].level
                          /\ persons'[h].status = persons[h].status
  BY <1>8, <1>9 DEF KycInv, KycTyped
<1>14. Numbers'
  BY <1>9, <1>13 DEF KycInv, Numbers, OneAccountPerCPF, IsBasicLocked, BasicVerified
<1>15. \A h \in Holders : \A f \in persons'[h].docs : intents[f].by = h
  BY <1>3, <1>8, <1>9 DEF KycInv, KycTyped, Owners
<1>16. (Owners /\ Owed)'
  BY <1>9, <1>11, <1>15 DEF KycInv, Owners, Owed, DocumentsRetained, storage, leaverRows, purge
<1> QED
  BY <1>10, <1>12, <1>14, <1>16 DEF KycInv

LEMMA IntentForgotten ==
  ASSUME KycInv, NEW o \in Officers, DeletePendingDocument(o)
  PROVE  KycInv'
<1>1. PICK x \in Desk : x = officers[o]
  BY DEF KycInv, KycTyped
<1>2. x.file \in Files
  BY <1>1 DEF KycInv, Desks, DeskSound, DeletePendingDocument
<1>3. officers' = [officers EXCEPT ![o] = AtDesk]
      /\ UNCHANGED <<persons, claims, nextFile, bucket, doomed, leaverRows>>
  BY DEF DeletePendingDocument, CloseCase
<1>4. CASE intents' = intents
  BY <1>3, <1>4, AtDeskSound, DeskMoves DEF storage
<1>5. CASE intents' = [intents EXCEPT ![officers[o].file].open = FALSE]
  <2>1. PICK y : y = [intents[x.file] EXCEPT !.open = FALSE]
    OBVIOUS
  <2>2. y \in Intent /\ y.by = intents[x.file].by
    BY ZenonT(30), <1>2, <2>1 DEF KycInv, KycTyped, Intent
  <2>3. intents' = [intents EXCEPT ![x.file] = y]
    BY <1>1, <1>2, <1>5, <2>1 DEF KycInv, KycTyped
  <2>4. \A f \in Files : intents'[f].by = intents[f].by
    BY <2>2, <2>3 DEF KycInv, KycTyped
  <2>5. KycTyped'
    BY <1>3, <2>2, <2>3, AtDeskSound DEF KycInv, KycTyped, leaverRows, purge
  <2>6. Desks'
    BY <1>3, <2>4, DesksKept DEF KycInv, KycTyped, leaverRows, purge
  <2>7. Numbers'
    BY <1>3 DEF KycInv, Numbers, OneAccountPerCPF, IsBasicLocked, BasicVerified
  <2>8. (\A h \in Holders : persons[h].docs \subseteq Files) /\ owed \subseteq Files
    BY DEF KycInv, KycTyped, Person
  <2>9. (Owners /\ Owed)'
    BY <1>3, <2>4, <2>8 DEF KycInv, Owners, Owed, DocumentsRetained, leaverRows, purge
  <2> QED
    BY <2>5, <2>6, <2>7, <2>9 DEF KycInv
<1> QED
  BY <1>4, <1>5 DEF DeletePendingDocument

LEMMA EnhancedSaved ==
  ASSUME KycInv, NEW o \in Officers, SaveEnhancedSubmission(o)
  PROVE  KycInv'
<1>1. PICK x \in Desk : x = officers[o]
  BY DEF KycInv, KycTyped
<1>2. x.who \in Holders
  BY <1>1 DEF KycInv, Desks, DeskSound, SaveEnhancedSubmission
<1>3. PICK y : y = [persons[x.who] EXCEPT !.level = "enhanced", !.status = "pending", !.expired = FALSE]
  OBVIOUS
<1>4. persons[x.who] \in Person
  BY <1>2 DEF KycInv, KycTyped
<1>5. y \in Person /\ y.docs = persons[x.who].docs /\ y.cpf = persons[x.who].cpf /\ y.level = "enhanced"
  BY <1>3, <1>4 DEF Person
<1>6. persons' = [persons EXCEPT ![x.who] = y] /\ officers' = [officers EXCEPT ![o] = AtDesk]
      /\ UNCHANGED <<claims, storage, leaverRows>>
  BY <1>1, <1>2, <1>3 DEF SaveEnhancedSubmission, CloseCase, KycInv, KycTyped
<1>7. KycTyped'
  BY <1>5, <1>6, AtDeskSound DEF KycInv, KycTyped, storage, leaverRows, purge
<1>8. \A h \in Holders : /\ persons'[h].docs = persons[h].docs /\ persons'[h].cpf = persons[h].cpf
                         /\ persons'[h].level = "enhanced" \/ persons'[h] = persons[h]
  BY <1>5, <1>6 DEF KycInv, KycTyped
<1>9. Desks'
  BY <1>6, <1>8, DesksKept DEF KycInv, KycTyped, Owed, storage, leaverRows, purge
<1>10. Numbers'
  BY <1>6, <1>8 DEF KycInv, Numbers, OneAccountPerCPF, IsBasicLocked, BasicVerified
<1>11. (Owners /\ Owed)'
  BY <1>6, <1>8 DEF KycInv, Owners, Owed, DocumentsRetained, storage, leaverRows, purge
<1> QED
  BY <1>7, <1>9, <1>10, <1>11 DEF KycInv

\* A rejection clears the documents of the row.  Of a leaver it clears those that the
\* reviewer read, which are no longer owed; of anybody else it clears none that is owed.
LEMMA Decided ==
  ASSUME KycInv, NEW o \in Officers, Decide(o)
  PROVE  KycInv'
<1>1. PICK x \in Desk : x = officers[o]
  BY DEF KycInv, KycTyped
<1>2. DeskSound(x) /\ x.pc = "decide" /\ x.who \in Holders /\ x.docs \subseteq Files
  BY <1>1 DEF KycInv, Desks, DeskSound, Decide, Desk
<1>3. persons[x.who] \in Person
  BY <1>2 DEF KycInv, KycTyped
<1>4. officers' = [officers EXCEPT ![o] = AtDesk] /\ UNCHANGED <<claims, intents, nextFile, bucket, purge>>
  BY DEF Decide, CloseCase
<1>5. CASE ~UnderReview(persons[x.who])
  <2>1. UNCHANGED <<persons, claims, storage, leaverRows>>
    BY <1>1, <1>4, <1>5 DEF Decide, storage, leaverRows
  <2> QED
    BY <1>4, <2>1, AtDeskSound, DeskMoves
<1>6. CASE UnderReview(persons[x.who]) /\ x.verdict = "approve"
  <2>1. persons' = [persons EXCEPT ![x.who].status = "verified"] /\ UNCHANGED <<doomed, owed>>
    BY <1>1, <1>6 DEF Decide
  <2>2. PICK y : y = [persons[x.who] EXCEPT !.status = "verified"]
    OBVIOUS
  <2>3. y \in Person /\ y.docs = persons[x.who].docs /\ y.cpf = persons[x.who].cpf /\ y.level = "enhanced"
    BY <1>3, <1>6, <2>2 DEF Person, UnderReview
  <2>4. persons' = [persons EXCEPT ![x.who] = y]
    BY <1>2, <2>1, <2>2 DEF KycInv, KycTyped
  <2>5. KycTyped'
    BY <1>4, <2>1, <2>3, <2>4, AtDeskSound DEF KycInv, KycTyped, purge
  <2>6. \A h \in Holders : /\ persons'[h].docs = persons[h].docs /\ persons'[h].cpf = persons[h].cpf
                           /\ persons'[h].level = "enhanced" \/ persons'[h] = persons[h]
    BY <2>3, <2>4 DEF KycInv, KycTyped
  <2>7. Desks'
    BY <1>4, <2>6, DesksKept DEF KycInv, KycTyped, Owed, purge
  <2>8. Numbers'
    BY <1>4, <2>6 DEF KycInv, Numbers, OneAccountPerCPF, IsBasicLocked, BasicVerified
  <2>9. (Owners /\ Owed)'
    BY <1>4, <2>1, <2>6 DEF KycInv, Owners, Owed, DocumentsRetained, purge
  <2> QED
    BY <2>5, <2>7, <2>8, <2>9 DEF KycInv
<1>7. CASE UnderReview(persons[x.who]) /\ x.verdict # "approve"
  <2>1. /\ persons' = [persons EXCEPT ![x.who].status = "rejected", ![x.who].docs = {}]
        /\ doomed' = doomed \cup x.docs /\ owed' = owed \ x.docs
    BY <1>1, <1>7 DEF Decide
  <2>2. PICK y : y = [persons[x.who] EXCEPT !.status = "rejected", !.docs = {}]
    OBVIOUS
  <2>3. y \in Person /\ y.docs = {} /\ y.cpf = persons[x.who].cpf /\ y.level = "enhanced"
    BY <1>3, <1>7, <2>2 DEF Person, UnderReview
  <2>4. persons' = [persons EXCEPT ![x.who] = y]
    BY <1>2, <2>1, <2>2 DEF KycInv, KycTyped
  <2>5. KycTyped'
    BY <1>2, <1>4, <2>1, <2>3, <2>4, AtDeskSound DEF KycInv, KycTyped, purge
  <2>6. \A h \in Holders : /\ persons'[h].docs \subseteq persons[h].docs /\ persons'[h].cpf = persons[h].cpf
                           /\ persons'[h].level = "enhanced" \/ persons'[h] = persons[h]
                           /\ h # x.who => persons'[h] = persons[h]
    BY <2>3, <2>4 DEF KycInv, KycTyped
  <2>7. Desks'
    BY <1>4, <2>6, DesksKept DEF KycInv, KycTyped, Owed, purge
  <2>8. Numbers'
    BY <1>4, <2>6 DEF KycInv, Numbers, OneAccountPerCPF, IsBasicLocked, BasicVerified
  <2>9. Owners'
    BY <1>4, <2>6 DEF KycInv, Owners
  <2>10. Owed'
    <3>1. moving # "no" /\ moving # "done" => owed' \subseteq persons'[leaver].docs
      <4>1. CASE x.who = leaver
        BY <4>1, <1>2, <2>1 DEF KycInv, Owed, DeskSound
      <4>2. CASE x.who # leaver
        BY <4>2, <2>1, <2>6 DEF KycInv, Owed
      <4> QED
        BY <4>1, <4>2
    <3> QED
      BY <1>4, <2>1, <3>1 DEF KycInv, Owed, DocumentsRetained, purge
  <2> QED
    BY <2>5, <2>7, <2>8, <2>9, <2>10 DEF KycInv
<1> QED
  BY <1>5, <1>6, <1>7

LEMMA CaseFailed ==
  ASSUME KycInv, NEW o \in Officers, CaseFails(o)
  PROVE  KycInv'
<1>1. officers' = [officers EXCEPT ![o] = AtDesk] /\ UNCHANGED <<persons, claims, storage, leaverRows>>
  BY DEF CaseFails, CloseCase
<1> QED
  BY <1>1, AtDeskSound, DeskMoves

\* A presigned document gets an id that no row and no request has.
LEMMA Presigned ==
  ASSUME KycInv, NEW h \in Holders, NEW t \in RequiredDocTypes, PresignDocument(h, t)
  PROVE  KycInv'
<1>1. PICK y : y = [by |-> h, type |-> t, open |-> TRUE]
  OBVIOUS
<1>2. y \in Intent /\ nextFile \in Files /\ intents[nextFile].by = NoHolder
  BY <1>1, KycAssumption DEF Intent, PresignDocument, Files, KycInv, KycTyped, Owners
<1>3. intents' = [intents EXCEPT ![nextFile] = y] /\ nextFile' = nextFile + 1
      /\ UNCHANGED <<persons, claims, bucket, doomed, officers, leaverRows>>
  BY <1>1 DEF PresignDocument
<1>4. KycTyped'
  BY <1>2, <1>3 DEF KycInv, KycTyped, leaverRows, purge
<1>5. \A f \in Files : intents[f].by # NoHolder => intents'[f].by = intents[f].by
  BY <1>2, <1>3 DEF KycInv, KycTyped
<1>6. Desks'
  BY <1>3, <1>5, DesksKept DEF leaverRows, purge
<1>7. Numbers'
  BY <1>3 DEF KycInv, Numbers, OneAccountPerCPF, IsBasicLocked, BasicVerified
<1>8. \A f \in Files : f >= nextFile' => intents'[f].by = NoHolder
  BY <1>2, <1>3 DEF KycInv, KycTyped, Owners, Files
<1>9. (\A k \in Holders : persons[k].docs \subseteq Files) /\ owed \subseteq Files /\ NoHolder \notin Holders
  BY KycAssumption DEF KycInv, KycTyped, Person
<1>10. Owners'
  BY <1>3, <1>5, <1>8, <1>9 DEF KycInv, Owners
<1>11. Owed'
  BY <1>3, <1>5, <1>9 DEF KycInv, Owed, DocumentsRetained, leaverRows, purge
<1> QED
  BY <1>4, <1>6, <1>7, <1>10, <1>11 DEF KycInv

LEMMA SubmissionExpired ==
  ASSUME KycInv, NEW h \in Holders, SubmissionExpires(h)
  PROVE  KycInv'
<1>1. PICK y : y = [persons[h] EXCEPT !.expired = TRUE]
  OBVIOUS
<1>2. persons[h] \in Person
  BY DEF KycInv, KycTyped
<1>3. /\ y \in Person /\ y.docs = persons[h].docs /\ y.cpf = persons[h].cpf
      /\ y.level = persons[h].level /\ y.status = persons[h].status
  BY <1>1, <1>2 DEF Person
<1>4. persons' = [persons EXCEPT ![h] = y] /\ UNCHANGED <<claims, storage, officers, leaverRows>>
  BY <1>1 DEF SubmissionExpires, KycInv, KycTyped
<1>5. KycTyped'
  BY <1>3, <1>4 DEF KycInv, KycTyped, storage, leaverRows, purge
<1>6. \A k \in Holders : /\ persons'[k].docs = persons[k].docs /\ persons'[k].cpf = persons[k].cpf
                         /\ persons'[k].level = persons[k].level /\ persons'[k].status = persons[k].status
  BY <1>3, <1>4 DEF KycInv, KycTyped
<1>7. Desks'
  BY <1>4, <1>6, DesksKept DEF KycInv, Owed, storage, leaverRows, purge
<1>8. Numbers'
  BY <1>4, <1>6 DEF KycInv, Numbers, OneAccountPerCPF, IsBasicLocked, BasicVerified
<1>9. (Owners /\ Owed)'
  BY <1>4, <1>6 DEF KycInv, Owners, Owed, DocumentsRetained, storage, leaverRows, purge
<1> QED
  BY <1>5, <1>7, <1>8, <1>9 DEF KycInv

\* A leaver cannot upload, and an object that is still to be deleted is not owed.
LEMMA ObjectsMove ==
  ASSUME KycInv, NEW f \in Files, Upload(f) \/ PurgeRejectedObject(f)
  PROVE  KycInv'
<1>1. UNCHANGED <<persons, claims, intents, nextFile, officers, leaverRows>>
  BY DEF Upload, PurgeRejectedObject
<1>2. KycTyped'
  BY <1>1 DEF KycInv, KycTyped, Upload, PurgeRejectedObject, leaverRows, purge
<1>3. Desks'
  BY <1>1, DesksKept DEF leaverRows, purge
<1>4. (Numbers /\ Owners)'
  BY <1>1 DEF KycInv, Numbers, OneAccountPerCPF, IsBasicLocked, BasicVerified, Owners
<1>5. CASE Upload(f)
  <2>1. intents[f].by # leaver /\ bucket' = bucket \cup {f} /\ UNCHANGED doomed
    BY <1>5 DEF Upload, Signed
  <2>2. Owed'
    BY <1>1, <2>1 DEF KycInv, Owed, DocumentsRetained, leaverRows, purge
  <2> QED
    BY <1>2, <1>3, <1>4, <2>2 DEF KycInv
<1>6. CASE PurgeRejectedObject(f)
  <2>1. f \in doomed /\ doomed' = doomed \ {f} /\ (bucket' = bucket \/ bucket' = bucket \ {f})
    BY <1>6 DEF PurgeRejectedObject
  <2>2. Owed'
    BY <1>1, <2>1 DEF KycInv, Owed, DocumentsRetained, leaverRows, purge
  <2> QED
    BY <1>2, <1>3, <1>4, <2>2 DEF KycInv
<1> QED
  BY <1>5, <1>6

LEMMA PurgeBegun ==
  ASSUME KycInv, NEW h \in Holders, PurgeBegins(h)
  PROVE  KycInv'
<1>1. /\ UNCHANGED <<persons, claims, storage, officers, vault, papers, seen>> /\ doomed = {}
      /\ leaver' = h /\ moving' = "read" /\ owed' = persons[h].docs \cap bucket
      /\ \A o \in Officers : officers[o].pc = "idle"
  BY DEF PurgeBegins
<1>2. KycTyped'
  BY <1>1 DEF KycInv, KycTyped, storage
<1>3. Desks'
  BY <1>1 DEF KycInv, Desks, DeskSound, storage
<1>4. (Numbers /\ Owners)'
  BY <1>1 DEF KycInv, Numbers, OneAccountPerCPF, IsBasicLocked, BasicVerified, Owners, storage
<1>5. Owed'
  BY <1>1 DEF KycInv, Owners, Owed, DocumentsRetained, storage
<1> QED
  BY <1>2, <1>3, <1>4, <1>5 DEF KycInv

\* The steps of the purge before the row: the row is read, the keys are listed, the
\* documents copied and the objects deleted, or it starts over.
LEMMA PurgeGoesOn ==
  ASSUME KycInv, ReadLeaver \/ ListKeys \/ CopyObject \/ DeleteObject \/ PurgeRestarts
  PROVE  KycInv'
<1>1. UNCHANGED <<persons, claims, intents, nextFile, doomed, officers, leaver, owed>> /\ moving # "no"
  BY DEF ReadLeaver, ListKeys, CopyObject, DeleteObject, PurgeRestarts, storage
<1>2. leaver \in Holders
  BY <1>1 DEF KycInv, Owed
<1>3. persons[leaver].docs \subseteq Files
  BY <1>2 DEF KycInv, KycTyped, Person
<1>4. KycTyped'
  BY <1>1, <1>3
     DEF KycInv, KycTyped, ReadLeaver, ListKeys, CopyObject, DeleteObject, PurgeRestarts, ToCopy, Keys, storage
<1>5. Desks'
  BY <1>1, DesksKept
<1>6. (Numbers /\ Owners)'
  BY <1>1 DEF KycInv, Numbers, OneAccountPerCPF, IsBasicLocked, BasicVerified, Owners
<1>7. Owed'
  <2>1. CASE ReadLeaver
    BY <2>1, <1>1 DEF ReadLeaver, KycInv, Owed, DocumentsRetained, storage
  <2>2. CASE ListKeys
    <3>1. owed \cap bucket \subseteq Keys(leaver)
      BY <1>1 DEF KycInv, Owed, Keys
    <3> QED
      BY <2>2, <3>1, <1>1 DEF ListKeys, KycInv, Owed, DocumentsRetained, storage
  <2>3. CASE CopyObject
    <3>1. moving' \in {"copy", "delete", "read"} /\ vault \subseteq vault' /\ UNCHANGED <<bucket, papers, seen>>
      BY <2>3 DEF CopyObject, storage
    <3>2. moving' = "delete" => (papers \cap seen) \subseteq vault
      BY <2>3 DEF CopyObject, CopiedAll, ToCopy
    <3>3. moving = "copy" /\ (moving' = "delete" => owed \subseteq vault)
      BY <2>3, <3>2 DEF CopyObject, KycInv, Owed
    <3> QED
      BY <1>1, <3>1, <3>3 DEF KycInv, Owed, DocumentsRetained
  <2>4. CASE DeleteObject
    BY <2>4, <1>1 DEF DeleteObject, KycInv, Owed, DocumentsRetained
  <2>5. CASE PurgeRestarts
    BY <2>5, <1>1 DEF PurgeRestarts, KycInv, Owed, DocumentsRetained, storage
  <2> QED
    BY <2>1, <2>2, <2>3, <2>4, <2>5
<1> QED
  BY <1>4, <1>5, <1>6, <1>7 DEF KycInv

\* The marker that goes with the row is the leaver's own.
LEMMA UserPurged ==
  ASSUME KycInv, PurgeUser
  PROVE  KycInv'
<1>1. /\ moving = "purge" /\ moving' = "done" /\ leaver \in Holders
      /\ UNCHANGED <<storage, officers, vault, leaver, papers, seen, owed>>
  BY DEF PurgeUser, KycInv, Owed
<1>2. PICK y : y = [NotStarted EXCEPT !.purged = TRUE]
  OBVIOUS
<1>3. y \in Person /\ y.cpf = NoCPF /\ y.docs = {}
  BY <1>2 DEF NotStarted, Person
<1>4. persons' = [persons EXCEPT ![leaver] = y]
  BY <1>2 DEF PurgeUser
<1>5. \A c \in CPFs : claims'[c] = IF c = persons[leaver].cpf THEN NoHolder ELSE claims[c]
  BY DEF PurgeUser
<1>6. KycTyped'
  <2>1. claims' \in [CPFs -> Holders \cup {NoHolder}]
    BY DEF PurgeUser, KycInv, KycTyped
  <2> QED
    BY <1>1, <1>3, <1>4, <2>1 DEF KycInv, KycTyped, storage
<1>7. persons'[leaver].docs \subseteq persons[leaver].docs
  BY <1>1, <1>3, <1>4 DEF KycInv, KycTyped
<1>8. Desks'
  BY <1>1, <1>7, DesksKept DEF storage
<1>9. Numbers'
  <2> SUFFICES ASSUME NEW h \in Holders, persons'[h].cpf # NoCPF
               PROVE  claims'[persons'[h].cpf] = h /\ IsBasicLocked(persons'[h])
    BY DEF Numbers, OneAccountPerCPF, IsBasicLocked, BasicVerified
  <2>1. h # leaver /\ persons'[h] = persons[h] /\ persons[h].cpf \in CPFs
    BY <1>1, <1>3, <1>4 DEF KycInv, KycTyped, Person
  <2>2. claims[persons[h].cpf] = h /\ IsBasicLocked(persons[h])
    BY <2>1 DEF KycInv, Numbers, OneAccountPerCPF
  <2>3. persons[h].cpf # persons[leaver].cpf
    BY <1>1, <2>1, <2>2 DEF KycInv, Numbers, OneAccountPerCPF
  <2> QED
    BY <2>1, <2>2, <2>3, <1>5
<1>10. Owners'
  BY <1>1, <1>3, <1>4 DEF KycInv, KycTyped, Owners, storage
<1>11. Owed'
  BY <1>1 DEF KycInv, Owed, DocumentsRetained, storage
<1> QED
  BY <1>6, <1>8, <1>9, <1>10, <1>11 DEF KycInv

LEMMA KycInvStep == KycInv /\ [KycNext]_kVars => KycInv'
<1> SUFFICES ASSUME KycInv, [KycNext]_kVars PROVE KycInv'
  OBVIOUS
<1>1. ASSUME NEW o \in Officers,
             \/ SaveBasicSubmission(o) \/ AddDocument(o) \/ DeletePendingDocument(o) \/ SaveEnhancedSubmission(o)
             \/ Decide(o) \/ CaseFails(o)
      PROVE  KycInv'
  BY <1>1, BasicSaved, DocumentAdded, IntentForgotten, EnhancedSaved, Decided, CaseFailed
<1>2. ASSUME NEW o \in Officers, NEW h \in Holders,
             \/ \E c \in CPFs : SubmitBasic(o, h, c)
             \/ \E f \in Files : ConfirmDocument(o, h, f)
             \/ SubmitEnhanced(o, h)
             \/ \E v \in {"approve", "reject"} : ReviewBy(o, h, v)
      PROVE  KycInv'
  BY <1>2, CasesOpen
<1>3. ASSUME NEW h \in Holders,
             (\E t \in RequiredDocTypes : PresignDocument(h, t)) \/ SubmissionExpires(h) \/ PurgeBegins(h)
      PROVE  KycInv'
  BY <1>3, Presigned, SubmissionExpired, PurgeBegun
<1>4. ASSUME NEW f \in Files, Upload(f) \/ PurgeRejectedObject(f) PROVE KycInv'
  BY <1>4, ObjectsMove
<1>5. CASE ReadLeaver \/ ListKeys \/ CopyObject \/ DeleteObject \/ PurgeRestarts
  BY <1>5, PurgeGoesOn
<1>6. CASE PurgeUser
  BY <1>6, UserPurged
<1>7. CASE UNCHANGED kVars
  BY <1>7 DEF kVars, KycInv, KycTyped, Desks, DeskSound, Numbers, OneAccountPerCPF, IsBasicLocked, BasicVerified,
              Owners, Owed, DocumentsRetained
<1> QED
  BY <1>1, <1>2, <1>3, <1>4, <1>5, <1>6, <1>7 DEF KycNext

LEMMA KycInvariant == KycSpec => []KycInv
<1> QED
  BY KycInitInv, KycInvStep, PTL DEF KycSpec

\* However the submissions of two accounts for the same number and the purges of accounts
\* interleave, each number in use is claimed by the one account that carries it.
THEOREM CPFCorrect == KycSpec => []OneAccountPerCPF
<1>1. KycInv => OneAccountPerCPF
  BY DEF KycInv, Numbers
<1> QED
  BY <1>1, KycInvariant, PTL

\* moveKYCDocuments, however often it starts over and whatever reviewers decide while it
\* runs, brings every confirmed document that is not rejected into the vault before the
\* row, and leaves none under the account's prefix.
THEOREM RetainedCorrect == KycSpec => []DocumentsRetained
<1>1. KycInv => DocumentsRetained
  BY DEF KycInv, Owed, DocumentsRetained
<1> QED
  BY <1>1, KycInvariant, PTL

-----------------------------------------------------------------------------
(* Proof: the support ticket *)

LEMMA HangupSound ==
  /\ Hangup \in Caller /\ Hangup.pc = "idle" /\ Hangup.op = "none"
  /\ CallSound(Hangup) /\ CallSound(Hangup)' /\ ~Closer(Hangup)
<1>1. Hangup \in Caller /\ Hangup.pc = "idle" /\ Hangup.op = "none"
  BY DEF Hangup, Caller, CallSteps, Ops, Args
<1>2. ~Closer(Hangup)
  BY <1>1 DEF Closer
<1> QED
  BY <1>1, <1>2 DEF CallSound

LEMMA SupportInitInv == SupportInit => SupportInv
<1> SUFFICES ASSUME SupportInit PROVE SupportInv
  OBVIOUS
<1>1. /\ ticket = NoSupportTicket /\ ticket \in SupportTicket
      /\ ticket.status = "none" /\ ~ticket.owner /\ ~ticket.token /\ ~ticket.comment
  BY DEF SupportInit, NoSupportTicket, SupportTicket, Levels
<1>2. metrics \in [created: Nat, resolved: Nat] /\ metrics.created = 0 /\ metrics.resolved = 0
  BY DEF SupportInit
<1>3. SupportTyped
  <2>1. thread \in Seq(Message)
    BY DEF SupportInit
  <2>2. callers \in [Callers -> Caller]
    BY HangupSound DEF SupportInit
  <2> QED
    BY <1>1, <1>2, <2>1, <2>2 DEF SupportInit, SupportTyped
<1>4. \A q \in Callers : callers[q] = Hangup
  BY DEF SupportInit
<1>5. Calls
  BY <1>4, HangupSound DEF Calls
<1>6. Counted /\ Words
  BY <1>1, <1>2 DEF SupportInit, Counted, Words, NoWordsStranded
<1> QED
  BY <1>3, <1>5, <1>6 DEF SupportInv

\* What a step leaves of the ticket that the requests rely on: once there is a ticket it
\* keeps its token, a closed one stays closed, and no survey is sent.
Steady ==
  /\ gone' = gone /\ surveys' = surveys
  /\ ticket.status = "none" => ticket' = ticket
  /\ ticket.status # "none" => ticket'.status # "none" /\ ticket'.token = ticket.token
  /\ ticket.status = "closed" => ticket'.status = "closed"

LEMMA CallKept ==
  ASSUME NEW x \in Caller, CallSound(x), SupportInv, Steady
  PROVE  CallSound(x)'
<1>1. ticket.status = "none" <=> ticket = NoSupportTicket
  BY DEF SupportInv, Words, NoSupportTicket
<1>2. x.op = "create" /\ x.pc # "put" => (ticket'.token <=> x.arg = "anonymous")
  BY <1>1 DEF CallSound, Steady
<1>3. x.pc = "put" => ticket' = NoSupportTicket
  BY <1>1 DEF CallSound, Steady
<1>4. x.pc \notin {"idle", "put"} => ticket'.status # "none"
  BY DEF CallSound, Steady
<1>5. gone' /\ ((x.pc = "message" /\ x.arg = "user") \/ x.pc = "rate") => ticket'.token
  BY DEF CallSound, Steady
<1>6. Closer(x) => ticket'.status = "closed" /\ surveys' = 0
  BY DEF CallSound, Steady
<1> QED
  BY <1>2, <1>3, <1>4, <1>5, <1>6 DEF CallSound, Steady, Closer

\* One request moves, and the others find what they relied on.
LEMMA CallMoves ==
  ASSUME SupportInv, Steady, NEW q \in Callers, NEW x \in Caller,
         callers' = [callers EXCEPT ![q] = x], CallSound(x)',
         x.op = "create" => \A r \in Callers : r # q => callers[r].op # "create",
         Closer(x) => \A r \in Callers : r # q => ~Closer(callers[r])
  PROVE  Calls' /\ callers' \in [Callers -> Caller]
<1>1. callers' \in [Callers -> Caller]
  BY DEF SupportInv, SupportTyped
<1>2. \A r \in Callers : callers'[r] = IF r = q THEN x ELSE callers[r]
  BY DEF SupportInv, SupportTyped
<1>3. ASSUME NEW r \in Callers PROVE CallSound(callers[r])'
  <2>1. CASE r = q
    BY <2>1, <1>2 DEF CallSound, Closer
  <2>2. CASE r # q
    <3>1. PICK y \in Caller : y = callers[r] /\ y = callers'[r] /\ CallSound(y)
      BY <1>2, <2>2 DEF SupportInv, SupportTyped, Calls
    <3>2. CallSound(y)'
      BY <3>1, CallKept
    <3> QED
      BY <3>1, <3>2 DEF CallSound, Closer
  <2> QED
    BY <2>1, <2>2
<1>4. ASSUME NEW r \in Callers, NEW s \in Callers, callers'[r].op = "create", callers'[s].op = "create"
      PROVE  r = s
  BY <1>2, <1>4 DEF SupportInv, Calls
<1>5. ASSUME NEW r \in Callers, NEW s \in Callers, Closer(callers'[r]), Closer(callers'[s])
      PROVE  r = s
  BY <1>2, <1>5 DEF SupportInv, Calls
<1>6. Calls'
  BY <1>3, <1>4, <1>5 DEF Calls, Closer
<1> QED
  BY <1>1, <1>6

\* What a step may not do to a closed ticket.
Untouched ==
  ticket.status = "closed" =>
    /\ ticket'.status = "closed" /\ ticket'.level = ticket.level /\ notes' = notes
    /\ \A i \in (Len(thread) + 1)..Len(thread') : thread'[i].by = "system"

\* A request that goes on, or ends, and writes nothing but notes of an open ticket.
LEMMA OnlyCallMoves ==
  ASSUME SupportInv, NEW q \in Callers, NEW x \in Caller,
         callers' = [callers EXCEPT ![q] = x], CallSound(x),
         x.op = "create" => \A r \in Callers : r # q => callers[r].op # "create",
         ~Closer(x), notes' \in Nat, ticket.status = "closed" => notes' = notes,
         UNCHANGED <<ticket, thread, metrics, owner, mailbox>>
  PROVE  SupportInv' /\ Untouched
<1> USE DEF owner, mailbox
<1>1. Steady
  BY DEF Steady
<1>2. CallSound(x)'
  BY <1>1, CallKept
<1>3. Calls' /\ callers' \in [Callers -> Caller]
  BY <1>1, <1>2, CallMoves
<1>4. SupportTyped'
  BY <1>3 DEF SupportInv, SupportTyped
<1>5. Counted' /\ Words'
  BY DEF SupportInv, Counted, Words, NoWordsStranded, Unredacted
<1>6. Untouched
  BY DEF Untouched, SupportInv, SupportTyped
<1> QED
  BY <1>3, <1>4, <1>5, <1>6 DEF SupportInv

\* The entry points only read.
LEMMA RequestsOpen ==
  ASSUME SupportInv, NEW q \in Callers,
         \/ ReplyAsUser(q) \/ ReplyAsAgent(q) \/ AddInternalNote(q)
         \/ (\E level \in Levels : SetEscalation(q, level))
         \/ (\E status \in {"open", "answered", "closed"} : SetStatus(q, status))
         \/ (\E comment \in BOOLEAN : SubmitNPS(q, comment))
  PROVE  SupportInv' /\ Untouched
<1>1. UNCHANGED <<ticket, thread, metrics, owner, mailbox>> /\ notes' = notes /\ notes \in Nat
  BY DEF ReplyAsUser, ReplyAsAgent, AddInternalNote, SetEscalation, SetStatus, SubmitNPS, records,
         SupportInv, SupportTyped
<1>2. ticket.status # "none" /\ (gone => ticket.token \/ ~ResolveAccess)
  BY DEF ReplyAsUser, ReplyAsAgent, AddInternalNote, SetEscalation, SetStatus, SubmitNPS, ResolveAccess
<1>3. \E pc \in CallSteps, op \in Ops, arg \in Args :
        /\ PickUp(q, pc, op, arg)
        /\ op # "create" /\ pc \notin {"idle", "put", "system", "first", "confirmMail", "statusSystem", "survey"}
        /\ pc = "message" => arg \in {"user", "agent"}
        /\ pc = "escalate" => arg \in Levels
        /\ pc = "status" => arg \in {"open", "answered", "closed"}
        /\ pc = "rate" => op = "rate"
        /\ gone /\ ((pc = "message" /\ arg = "user") \/ pc = "rate") => ticket.token
  <2>1. CASE ReplyAsUser(q)
    <3>1. "message" \in CallSteps /\ "reply" \in Ops /\ "user" \in Args /\ PickUp(q, "message", "reply", "user")
      BY <2>1 DEF ReplyAsUser, CallSteps, Ops, Args
    <3> QED
      BY <2>1, <3>1, <1>2 DEF ReplyAsUser
  <2>2. CASE ReplyAsAgent(q)
    <3>1. "message" \in CallSteps /\ "reply" \in Ops /\ "agent" \in Args /\ PickUp(q, "message", "reply", "agent")
      BY <2>2 DEF ReplyAsAgent, CallSteps, Ops, Args
    <3> QED
      BY <3>1
  <2>3. CASE AddInternalNote(q)
    <3>1. "note" \in CallSteps /\ "note" \in Ops /\ "none" \in Args /\ PickUp(q, "note", "note", "none")
      BY <2>3 DEF AddInternalNote, CallSteps, Ops, Args
    <3> QED
      BY <3>1
  <2>4. ASSUME NEW level \in Levels, SetEscalation(q, level)
        PROVE  "escalate" \in CallSteps /\ "escalate" \in Ops /\ level \in Args
                 /\ PickUp(q, "escalate", "escalate", level)
    BY <2>4 DEF SetEscalation, CallSteps, Ops, Args, Levels
  <2>5. ASSUME NEW status \in {"open", "answered", "closed"}, SetStatus(q, status)
        PROVE  "status" \in CallSteps /\ "status" \in Ops /\ status \in Args
                 /\ PickUp(q, "status", "status", status)
    BY <2>5 DEF SetStatus, CallSteps, Ops, Args
  <2>6. ASSUME NEW comment \in BOOLEAN, SubmitNPS(q, comment)
        PROVE  /\ "rate" \in CallSteps /\ "rate" \in Ops /\ ResolveAccess
               /\ \E arg \in Args : PickUp(q, "rate", "rate", arg)
    <3>1. "none" \in Args /\ "comment" \in Args /\ PickUp(q, "rate", "rate", IF comment THEN "comment" ELSE "none")
      BY <2>6 DEF SubmitNPS, Args
    <3>2. CASE comment
      BY <3>1, <3>2, <2>6 DEF SubmitNPS, CallSteps, Ops
    <3>3. CASE ~comment
      BY <3>1, <3>3, <2>6 DEF SubmitNPS, CallSteps, Ops
    <3> QED
      BY <3>2, <3>3
  <2>7. CASE \E level \in Levels : SetEscalation(q, level)
    BY <2>4, <2>7
  <2>8. CASE \E status \in {"open", "answered", "closed"} : SetStatus(q, status)
    BY <2>5, <2>8
  <2>9. CASE \E comment \in BOOLEAN : SubmitNPS(q, comment)
    BY <2>6, <2>9, <1>2
  <2> QED
    BY <2>1, <2>2, <2>3, <2>7, <2>8, <2>9
<1>4. PICK pc \in CallSteps, op \in Ops, arg \in Args :
        /\ PickUp(q, pc, op, arg)
        /\ op # "create" /\ pc \notin {"idle", "put", "system", "first", "confirmMail", "statusSystem", "survey"}
        /\ pc = "message" => arg \in {"user", "agent"}
        /\ pc = "escalate" => arg \in Levels
        /\ pc = "status" => arg \in {"open", "answered", "closed"}
        /\ pc = "rate" => op = "rate"
        /\ gone /\ ((pc = "message" /\ arg = "user") \/ pc = "rate") => ticket.token
  BY <1>3
<1>5. PICK x : x = [Hangup EXCEPT !.pc = pc, !.op = op, !.arg = arg, !.asked = ticket.asked]
  OBVIOUS
<1>6. x \in Caller /\ x.pc = pc /\ x.op = op /\ x.arg = arg
  <2>1. ticket.asked \in BOOLEAN
    BY DEF SupportInv, SupportTyped, SupportTicket
  <2> QED
    BY <1>5, <2>1 DEF Hangup, Caller
<1>7. callers' = [callers EXCEPT ![q] = x]
  BY <1>4, <1>5 DEF PickUp
<1>8. ~Closer(x)
  BY <1>4, <1>6 DEF Closer
<1>9. CallSound(x)
  <2>1. x.pc \notin {"idle", "put", "system", "first", "confirmMail", "survey"} /\ x.op # "create"
    BY <1>4, <1>6
  <2>2. /\ x.pc = "message" => x.arg \in {"user", "agent"}
        /\ x.pc = "escalate" => x.arg \in Levels
        /\ x.pc = "status" => x.arg \in {"open", "answered", "closed"}
        /\ x.pc = "rate" => x.op = "rate"
    BY <1>4, <1>6
  <2>3. gone /\ ((x.pc = "message" /\ x.arg = "user") \/ x.pc = "rate") => ticket.token
    BY <1>4, <1>6
  <2> QED
    BY <1>2, <1>8, <2>1, <2>2, <2>3 DEF CallSound
<1> QED
  BY <1>1, <1>4, <1>6, <1>7, <1>8, <1>9, OnlyCallMoves

LEMMA CreationOpens ==
  ASSUME SupportInv, NEW q \in Callers, NEW signedIn \in BOOLEAN, NEW address \in BOOLEAN,
         CreateTicket(q, signedIn, address)
  PROVE  SupportInv' /\ Untouched
<1>1. /\ UNCHANGED <<ticket, thread, metrics, owner, mailbox>> /\ notes' = notes /\ notes \in Nat
      /\ ticket = NoSupportTicket /\ \A r \in Callers : callers[r].op # "create"
  BY DEF CreateTicket, records, SupportInv, SupportTyped
<1>2. PICK arg : arg = IF ~signedIn THEN "anonymous" ELSE IF address THEN "both" ELSE "owner"
  OBVIOUS
<1>3. arg \in Args /\ (gone => arg = "anonymous")
  BY <1>2 DEF CreateTicket, Args
<1>4. PICK x : x = [Hangup EXCEPT !.pc = "put", !.op = "create", !.arg = arg]
  OBVIOUS
<1>5. x \in Caller /\ x.pc = "put" /\ x.op = "create" /\ x.arg = arg
  BY <1>3, <1>4 DEF Hangup, Caller, CallSteps, Ops
<1>6. callers' = [callers EXCEPT ![q] = x]
  BY <1>2, <1>4 DEF CreateTicket
<1>7. ~Closer(x)
  BY <1>5 DEF Closer
<1>8. CallSound(x)
  BY <1>1, <1>3, <1>5, <1>7 DEF CallSound
<1> QED
  BY <1>1, <1>5, <1>6, <1>7, <1>8, OnlyCallMoves

LEMMA CallsEnd ==
  ASSUME SupportInv, NEW q \in Callers, PutInternalNote(q) \/ CallFails(q)
  PROVE  SupportInv' /\ Untouched
<1>1. callers' = [callers EXCEPT ![q] = Hangup]
  BY DEF PutInternalNote, CallFails, Finish
<1>2. UNCHANGED <<ticket, thread, metrics, owner, mailbox>>
  BY DEF PutInternalNote, CallFails, records
<1>3. notes' \in Nat /\ (ticket.status = "closed" => notes' = notes)
  BY DEF PutInternalNote, CallFails, records, StillOpen, SupportInv, SupportTyped
<1> QED
  BY <1>1, <1>2, <1>3, HangupSound, OnlyCallMoves

LEMMA Proceeds ==
  ASSUME SupportInv, NEW q \in Callers, NEW pc \in CallSteps, Proceed(q, pc)
  PROVE  \E x \in Caller : /\ callers' = [callers EXCEPT ![q] = x]
                           /\ x.pc = pc /\ x.op = callers[q].op /\ x.arg = callers[q].arg
<1>1. PICK x : x = [callers[q] EXCEPT !.pc = pc]
  OBVIOUS
<1>2. callers[q] \in Caller
  BY DEF SupportInv, SupportTyped
<1>3. x \in Caller /\ x.pc = pc /\ x.op = callers[q].op /\ x.arg = callers[q].arg
  BY <1>1, <1>2 DEF Caller
<1>4. callers' = [callers EXCEPT ![q] = x]
  BY <1>1 DEF Proceed, SupportInv, SupportTyped
<1> QED
  BY <1>3, <1>4

\* A message is posted: only the system's to a closed ticket, and no words of the owner
\* once the account is gone.
LEMMA Posted ==
  ASSUME SupportInv, NEW q \in Callers, NEW w \in {"user", "agent", "system"}, Post(Says(w)),
         w # "system" => StillOpen, w = "user" /\ gone => ticket.token,
         NEW x \in Caller, callers' = [callers EXCEPT ![q] = x], CallSound(x),
         x.op = "create" => \A r \in Callers : r # q => callers[r].op # "create",
         Closer(x) => \A r \in Callers : r # q => ~Closer(callers[r]),
         UNCHANGED <<ticket, notes, metrics, owner, mailbox>>
  PROVE  SupportInv' /\ Untouched
<1> USE DEF owner, mailbox
<1>1. Steady
  BY DEF Steady
<1>2. CallSound(x)'
  BY <1>1, CallKept
<1>3. Calls' /\ callers' \in [Callers -> Caller]
  BY <1>1, <1>2, CallMoves
<1>4. PICK m \in Message : m = Says(w) /\ m.by = w
  BY DEF Says, Message
<1>5. thread \in Seq(Message) /\ thread' = Append(thread, m)
  BY <1>4 DEF Post, SupportInv, SupportTyped
<1>6. /\ thread' \in Seq(Message) /\ Len(thread') = Len(thread) + 1 /\ thread'[Len(thread) + 1] = m
      /\ \A i \in 1..Len(thread) : thread'[i] = thread[i]
  BY <1>5
<1>7. SupportTyped'
  BY <1>3, <1>6 DEF SupportInv, SupportTyped
<1>8. Counted'
  BY DEF SupportInv, Counted
<1>9. w # "user" /\ Unredacted = {} => Unredacted' = {}
  <2>1. w # "user" => m # Says("user")
    BY <1>4 DEF Says
  <2>2. Len(thread) \in Nat
    BY <1>5
  <2> QED
    BY <1>6, <2>1, <2>2 DEF Unredacted
<1>10. Words'
  <2>1. w # "user" \/ ~gone \/ ticket.token
    OBVIOUS
  <2>2. (redactor = "drop" => gone) /\ (~gone => redactor # "done")
    BY DEF SupportInv, Words
  <2> QED
    BY <1>9, <2>1, <2>2 DEF SupportInv, Words, NoWordsStranded
<1>11. Untouched
  <2>1. ticket.status = "closed" => m.by = "system"
    BY <1>4 DEF StillOpen
  <2> QED
    BY <1>5, <1>6, <2>1 DEF Untouched
<1> QED
  BY <1>3, <1>7, <1>8, <1>10, <1>11 DEF SupportInv

LEMMA SystemPosts ==
  ASSUME SupportInv, NEW q \in Callers, PutSystemMessage(q)
  PROVE  SupportInv' /\ Untouched
<1>1. PICK c \in Caller : c = callers[q]
  BY DEF SupportInv, SupportTyped
<1>2. CallSound(c) /\ c.pc \in {"system", "statusSystem", "rateSystem"}
  BY <1>1 DEF SupportInv, Calls, PutSystemMessage
<1>3. Post(Says("system")) /\ UNCHANGED <<ticket, notes, metrics, owner, mailbox>>
  BY DEF PutSystemMessage
<1>4. CASE c.pc = "system"
  <2>1. Proceed(q, "first") /\ "first" \in CallSteps
    BY <1>1, <1>4 DEF PutSystemMessage, CallSteps
  <2>2. PICK x \in Caller : callers' = [callers EXCEPT ![q] = x] /\ x.pc = "first" /\ x.op = c.op /\ x.arg = c.arg
    BY <1>1, <2>1, Proceeds
  <2>3. ~Closer(x)
    BY <2>2 DEF Closer
  <2>4. CallSound(x)
    BY <1>2, <1>4, <2>2, <2>3 DEF CallSound
  <2>5. \A r \in Callers : r # q => callers[r].op # "create"
    BY <1>1, <1>2, <1>4 DEF SupportInv, Calls, CallSound
  <2> QED
    BY <1>3, <2>2, <2>3, <2>4, <2>5, Posted
<1>5. CASE c.pc = "statusSystem" /\ c.arg = "closed" /\ ~c.asked
  <2>1. Proceed(q, "survey") /\ "survey" \in CallSteps
    BY <1>1, <1>5 DEF PutSystemMessage, CallSteps
  <2>2. PICK x \in Caller : callers' = [callers EXCEPT ![q] = x] /\ x.pc = "survey" /\ x.op = c.op /\ x.arg = c.arg
    BY <1>1, <2>1, Proceeds
  <2>3. Closer(c)
    BY <1>5 DEF Closer
  <2>4. CallSound(x)
    BY <1>2, <1>5, <2>2, <2>3 DEF CallSound, Closer
  <2>5. \A r \in Callers : r # q => ~Closer(callers[r])
    BY <1>1, <2>3 DEF SupportInv, Calls
  <2>6. x.op = "create" => \A r \in Callers : r # q => callers[r].op # "create"
    BY <1>1, <2>2 DEF SupportInv, Calls
  <2> QED
    BY <1>3, <2>2, <2>4, <2>5, <2>6, Posted
<1>6. CASE c.pc # "system" /\ ~(c.pc = "statusSystem" /\ c.arg = "closed" /\ ~c.asked)
  <2>1. callers' = [callers EXCEPT ![q] = Hangup]
    BY <1>1, <1>6 DEF PutSystemMessage, Finish
  <2> QED
    BY <1>3, <2>1, HangupSound, Posted
<1> QED
  BY <1>4, <1>5, <1>6

LEMMA PeoplePost ==
  ASSUME SupportInv, NEW q \in Callers, PutFirstMessage(q) \/ PutMessage(q)
  PROVE  SupportInv' /\ Untouched
<1>1. PICK c \in Caller : c = callers[q]
  BY DEF SupportInv, SupportTyped
<1>2. CallSound(c)
  BY <1>1 DEF SupportInv, Calls
<1>3. UNCHANGED <<ticket, notes, metrics, owner, mailbox>>
  BY DEF PutFirstMessage, PutMessage
<1>4. CASE ~StillOpen
  <2>1. callers' = [callers EXCEPT ![q] = Hangup] /\ thread' = thread
    BY <1>4 DEF PutFirstMessage, PutMessage, Finish
  <2> QED
    BY <1>3, <2>1, HangupSound, OnlyCallMoves DEF SupportInv, SupportTyped
<1>5. CASE StillOpen /\ PutFirstMessage(q)
  <2>1. c.pc = "first" /\ Post(Says("user")) /\ Proceed(q, "confirmMail") /\ "confirmMail" \in CallSteps
    BY <1>1, <1>5 DEF PutFirstMessage, CallSteps
  <2>2. PICK x \in Caller :
          callers' = [callers EXCEPT ![q] = x] /\ x.pc = "confirmMail" /\ x.op = c.op /\ x.arg = c.arg
    BY <1>1, <2>1, Proceeds
  <2>3. ~Closer(x)
    BY <2>2 DEF Closer
  <2>4. CallSound(x)
    BY <1>2, <2>1, <2>2, <2>3 DEF CallSound
  <2>5. \A r \in Callers : r # q => callers[r].op # "create"
    BY <1>1, <1>2, <2>1 DEF SupportInv, Calls, CallSound
  <2>6. gone => ticket.token
    BY <1>2, <2>1 DEF CallSound
  <2> QED
    BY <1>3, <1>5, <2>1, <2>2, <2>3, <2>4, <2>5, <2>6, Posted
<1>6. CASE StillOpen /\ PutMessage(q)
  <2>1. PICK w \in {"user", "agent"} : w = c.arg /\ c.pc = "message"
    BY <1>1, <1>2, <1>6 DEF PutMessage, CallSound
  <2>2. Post(Says(w))
    BY <1>1, <1>6, <2>1 DEF PutMessage
  <2>3. w = "user" /\ gone => ticket.token
    BY <1>2, <2>1 DEF CallSound
  <2>4. CASE w = "user"
    <3>1. callers' = [callers EXCEPT ![q] = Hangup]
      BY <1>1, <1>6, <2>1, <2>4 DEF PutMessage, Finish
    <3> QED
      BY <1>3, <1>6, <2>2, <2>3, <3>1, HangupSound, Posted
  <2>5. CASE w = "agent"
    <3>1. Proceed(q, "answered") /\ "answered" \in CallSteps
      BY <1>1, <1>6, <2>1, <2>5 DEF PutMessage, CallSteps
    <3>2. PICK x \in Caller :
            callers' = [callers EXCEPT ![q] = x] /\ x.pc = "answered" /\ x.op = c.op /\ x.arg = c.arg
      BY <1>1, <3>1, Proceeds
    <3>3. ~Closer(x)
      BY <3>2 DEF Closer
    <3>4. CallSound(x)
      BY <1>2, <2>1, <3>2, <3>3 DEF CallSound
    <3>5. x.op = "create" => \A r \in Callers : r # q => callers[r].op # "create"
      BY <1>1, <3>2 DEF SupportInv, Calls
    <3> QED
      BY <1>3, <1>6, <2>2, <2>3, <3>2, <3>3, <3>4, <3>5, Posted
  <2> QED
    BY <2>1, <2>4, <2>5
<1> QED
  BY <1>4, <1>5, <1>6

\* A request writes the row of a ticket that is there: it keeps owner and token, and a
\* closed ticket its status and level.
LEMMA TicketUpdated ==
  ASSUME SupportInv, NEW q \in Callers, NEW t \in SupportTicket, ticket' = t,
         ticket.status # "none", t.status # "none", t.token = ticket.token, t.owner = ticket.owner,
         gone /\ t.comment => ticket.comment \/ ticket.token,
         ticket.status = "closed" => t.status = "closed" /\ t.level = ticket.level,
         metrics' \in [created: Nat, resolved: Nat], metrics'.created = metrics.created,
         metrics'.resolved = IF t.status = "closed" THEN 1 ELSE 0,
         NEW x \in Caller, callers' = [callers EXCEPT ![q] = x], CallSound(x)',
         x.op = "create" => \A r \in Callers : r # q => callers[r].op # "create",
         Closer(x) => \A r \in Callers : r # q => ~Closer(callers[r]),
         UNCHANGED <<thread, notes, owner, surveys>>
  PROVE  SupportInv' /\ Untouched
<1> USE DEF owner
<1>1. Steady
  BY DEF Steady
<1>2. Calls' /\ callers' \in [Callers -> Caller]
  BY <1>1, CallMoves
<1>3. SupportTyped'
  BY <1>2 DEF SupportInv, SupportTyped
<1>4. Counted'
  BY DEF SupportInv, Counted
<1>5. Unredacted' = Unredacted
  BY DEF Unredacted
<1>6. Words'
  BY <1>5 DEF SupportInv, Words, NoWordsStranded
<1>7. Untouched
  BY DEF Untouched, SupportInv, SupportTyped
<1> QED
  BY <1>2, <1>3, <1>4, <1>6, <1>7 DEF SupportInv

\* The counters when nothing is counted.
LEMMA CountersStay ==
  ASSUME SupportInv, metrics' = metrics
  PROVE  /\ metrics' \in [created: Nat, resolved: Nat] /\ metrics'.created = metrics.created
         /\ metrics'.resolved = IF ticket.status = "closed" THEN 1 ELSE 0
BY DEF SupportInv, SupportTyped, Counted

LEMMA MailsSent ==
  ASSUME SupportInv, NEW q \in Callers, ConfirmByMail(q) \/ ReplyByMail(q) \/ MarkNPSRequested(q)
  PROVE  SupportInv' /\ Untouched
<1>1. ticket \in SupportTicket /\ ticket.status # "none"
  BY DEF SupportInv, SupportTyped, Calls, CallSound, ConfirmByMail, ReplyByMail, MarkNPSRequested
<1>2. \E b \in BOOLEAN : ticket' = [ticket EXCEPT !.mailed = b] \/ ticket' = [ticket EXCEPT !.asked = b]
  <2>1. CASE ConfirmByMail(q)
    <3>1. PICK sent \in BOOLEAN : ticket' = [ticket EXCEPT !.mailed = @ \/ sent]
      BY <2>1 DEF ConfirmByMail
    <3> QED
      BY <3>1
  <2>2. CASE ReplyByMail(q)
    <3>1. PICK sent \in BOOLEAN : ticket' = [ticket EXCEPT !.mailed = @ \/ (sent /\ Recipient)]
      BY <2>2 DEF ReplyByMail
    <3> QED
      BY <3>1
  <2>3. CASE MarkNPSRequested(q)
    BY <2>3 DEF MarkNPSRequested
  <2> QED
    BY <2>1, <2>2, <2>3
<1>3. PICK b \in BOOLEAN : ticket' = [ticket EXCEPT !.mailed = b] \/ ticket' = [ticket EXCEPT !.asked = b]
  BY <1>2
<1>4. PICK t : t = ticket'
  OBVIOUS
<1>5. /\ t \in SupportTicket /\ t.status = ticket.status /\ t.level = ticket.level
      /\ t.token = ticket.token /\ t.owner = ticket.owner /\ t.comment = ticket.comment
  BY <1>1, <1>3, <1>4 DEF SupportTicket
<1>6. callers' = [callers EXCEPT ![q] = Hangup] /\ UNCHANGED <<thread, notes, metrics, owner, surveys>>
  BY DEF ConfirmByMail, ReplyByMail, MarkNPSRequested, Finish, records, mailbox
<1> QED
  BY <1>1, <1>4, <1>5, <1>6, CountersStay, HangupSound, TicketUpdated

LEMMA TicketAnswered ==
  ASSUME SupportInv, NEW q \in Callers, MarkAnswered(q)
  PROVE  SupportInv' /\ Untouched
<1>1. PICK c \in Caller : c = callers[q]
  BY DEF SupportInv, SupportTyped
<1>2. CallSound(c) /\ c.pc = "answered"
  BY <1>1 DEF SupportInv, Calls, MarkAnswered
<1>3. UNCHANGED <<thread, notes, metrics, owner, mailbox>>
  BY DEF MarkAnswered, records
<1>4. CASE ~StillOpen
  <2>1. callers' = [callers EXCEPT ![q] = Hangup] /\ ticket' = ticket
    BY <1>4 DEF MarkAnswered, Finish
  <2> QED
    BY <1>3, <2>1, HangupSound, OnlyCallMoves DEF SupportInv, SupportTyped
<1>5. CASE StillOpen
  <2>1. ticket' = [ticket EXCEPT !.status = "answered"] /\ Proceed(q, "replyMail") /\ "replyMail" \in CallSteps
    BY <1>5 DEF MarkAnswered, CallSteps
  <2>2. PICK x \in Caller :
          callers' = [callers EXCEPT ![q] = x] /\ x.pc = "replyMail" /\ x.op = c.op /\ x.arg = c.arg
    BY <1>1, <2>1, Proceeds
  <2>3. PICK t : t = ticket'
    OBVIOUS
  <2>4. /\ t \in SupportTicket /\ t.status = "answered" /\ t.level = ticket.level
        /\ t.token = ticket.token /\ t.owner = ticket.owner /\ t.comment = ticket.comment
    BY <2>1, <2>3 DEF SupportInv, SupportTyped, SupportTicket
  <2>5. ticket.status # "none" /\ ticket.status # "closed"
    BY <1>5 DEF StillOpen
  <2>6. Steady
    BY <1>3, <2>3, <2>4, <2>5 DEF Steady, owner, mailbox
  <2>7. ~Closer(x)
    BY <2>2 DEF Closer
  <2>8. CallSound(x)
    BY <1>2, <2>2, <2>7 DEF CallSound
  <2>9. CallSound(x)'
    BY <2>6, <2>8, CallKept
  <2>10. x.op = "create" => \A r \in Callers : r # q => callers[r].op # "create"
    BY <1>1, <2>2 DEF SupportInv, Calls
  <2>11. surveys' = surveys
    BY <1>3 DEF mailbox
  <2> QED
    BY <1>3, <2>2, <2>3, <2>4, <2>5, <2>7, <2>9, <2>10, <2>11, CountersStay, TicketUpdated
<1> QED
  BY <1>4, <1>5

LEMMA EscalationWritten ==
  ASSUME SupportInv, NEW q \in Callers, UpdateEscalation(q)
  PROVE  SupportInv' /\ Untouched
<1>1. callers[q].arg \in Levels
  BY DEF SupportInv, Calls, CallSound, UpdateEscalation
<1>2. callers' = [callers EXCEPT ![q] = Hangup] /\ UNCHANGED <<thread, notes, metrics, owner, mailbox>>
  BY DEF UpdateEscalation, Finish, records
<1>3. CASE ~StillOpen
  <2>1. ticket' = ticket
    BY <1>3 DEF UpdateEscalation
  <2> QED
    BY <1>2, <2>1, HangupSound, OnlyCallMoves DEF SupportInv, SupportTyped
<1>4. CASE StillOpen
  <2>1. ticket' = [ticket EXCEPT !.level = callers[q].arg] /\ ticket.status # "none" /\ ticket.status # "closed"
    BY <1>4 DEF UpdateEscalation, StillOpen
  <2>2. PICK t : t = ticket'
    OBVIOUS
  <2>3. /\ t \in SupportTicket /\ t.status = ticket.status
        /\ t.token = ticket.token /\ t.owner = ticket.owner /\ t.comment = ticket.comment
    BY <1>1, <2>1, <2>2 DEF SupportInv, SupportTyped, SupportTicket
  <2>4. surveys' = surveys
    BY <1>2 DEF mailbox
  <2> QED
    BY <1>2, <2>1, <2>2, <2>3, <2>4, CountersStay, HangupSound, TicketUpdated
<1> QED
  BY <1>3, <1>4

\* Of two agents who close the ticket one finds it open: it counts the resolution and no
\* other request has a survey to ask for.
LEMMA StatusWritten ==
  ASSUME SupportInv, NEW q \in Callers, WriteStatus(q)
  PROVE  SupportInv' /\ Untouched
<1>1. PICK c \in Caller : c = callers[q]
  BY DEF SupportInv, SupportTyped
<1>2. CallSound(c) /\ c.pc = "status" /\ c.arg \in {"open", "answered", "closed"}
  BY <1>1 DEF SupportInv, Calls, WriteStatus, CallSound
<1>3. UNCHANGED <<thread, notes, owner, mailbox>>
  BY DEF WriteStatus
<1>4. CASE ~StillOpen
  <2>1. callers' = [callers EXCEPT ![q] = Hangup] /\ ticket' = ticket /\ metrics' = metrics
    BY <1>4 DEF WriteStatus, Finish, MayClose
  <2> QED
    BY <1>3, <2>1, HangupSound, OnlyCallMoves DEF SupportInv, SupportTyped
<1>5. CASE StillOpen
  <2>1. /\ ticket' = [ticket EXCEPT !.status = c.arg]
        /\ metrics' = IF c.arg = "closed" THEN [metrics EXCEPT !.resolved = @ + 1] ELSE metrics
        /\ Proceed(q, "statusSystem") /\ "statusSystem" \in CallSteps
    BY <1>1, <1>5 DEF WriteStatus, MayClose, CallSteps
  <2>2. PICK x \in Caller :
          callers' = [callers EXCEPT ![q] = x] /\ x.pc = "statusSystem" /\ x.op = c.op /\ x.arg = c.arg
    BY <1>1, <2>1, Proceeds
  <2>3. PICK t : t = ticket'
    OBVIOUS
  <2>4. /\ t \in SupportTicket /\ t.status = c.arg /\ t.level = ticket.level
        /\ t.token = ticket.token /\ t.owner = ticket.owner /\ t.comment = ticket.comment
    BY <1>2, <2>1, <2>3 DEF SupportInv, SupportTyped, SupportTicket
  <2>5. ticket.status # "none" /\ ticket.status # "closed" /\ metrics.resolved = 0 /\ surveys = 0
    BY <1>5 DEF StillOpen, SupportInv, Counted
  <2>6. /\ metrics' \in [created: Nat, resolved: Nat] /\ metrics'.created = metrics.created
        /\ metrics'.resolved = IF t.status = "closed" THEN 1 ELSE 0
    BY <2>1, <2>4, <2>5 DEF SupportInv, SupportTyped
  <2>7. surveys' = 0 /\ gone' = gone
    BY <1>3, <2>5 DEF mailbox, owner
  <2>8. \A r \in Callers : ~Closer(callers[r])
    BY <2>5 DEF SupportInv, Calls, CallSound
  <2>9. CallSound(x)'
    <3>1. Closer(x) => t.status = "closed"
      BY <2>2, <2>4 DEF Closer
    <3> QED
      BY <1>2, <2>2, <2>3, <2>4, <2>7, <3>1 DEF CallSound, Closer
  <2>10. x.op = "create" => \A r \in Callers : r # q => callers[r].op # "create"
    BY <1>1, <2>2 DEF SupportInv, Calls
  <2> QED
    BY <1>2, <1>3, <2>2, <2>3, <2>4, <2>5, <2>6, <2>7, <2>8, <2>9, <2>10, TicketUpdated
<1> QED
  BY <1>4, <1>5

\* The write of a score has no condition; a comment that comes after the account is gone
\* was sent with the anonymous token.
LEMMA ScoreWritten ==
  ASSUME SupportInv, NEW q \in Callers, WriteNPS(q)
  PROVE  SupportInv' /\ Untouched
<1>1. PICK c \in Caller : c = callers[q]
  BY DEF SupportInv, SupportTyped
<1>2. CallSound(c) /\ c.pc = "rate"
  BY <1>1 DEF SupportInv, Calls, WriteNPS
<1>3. /\ ticket' = [ticket EXCEPT !.rated = TRUE, !.comment = callers[q].arg = "comment"]
      /\ Proceed(q, "rateSystem") /\ "rateSystem" \in CallSteps
      /\ UNCHANGED <<thread, notes, metrics, owner, surveys>>
  BY DEF WriteNPS, CallSteps, records
<1>4. PICK x \in Caller :
        callers' = [callers EXCEPT ![q] = x] /\ x.pc = "rateSystem" /\ x.op = c.op /\ x.arg = c.arg
  BY <1>1, <1>3, Proceeds
<1>5. PICK t : t = ticket'
  OBVIOUS
<1>6. PICK b \in BOOLEAN : t = [ticket EXCEPT !.rated = TRUE, !.comment = b]
  BY <1>3, <1>5
<1>7. /\ t \in SupportTicket /\ t.status = ticket.status /\ t.level = ticket.level
      /\ t.token = ticket.token /\ t.owner = ticket.owner
  BY <1>6 DEF SupportInv, SupportTyped, SupportTicket
<1>8. ticket.status # "none" /\ (gone => ticket.token) /\ c.op = "rate"
  BY <1>2 DEF CallSound
<1>9. Steady
  BY <1>3, <1>5, <1>7, <1>8 DEF Steady, owner
<1>10. ~Closer(x)
  BY <1>4 DEF Closer
<1>11. CallSound(x)
  BY <1>4, <1>8, <1>10 DEF CallSound
<1>12. CallSound(x)'
  BY <1>9, <1>11, CallKept
<1>13. gone /\ t.comment => ticket.comment \/ ticket.token
  BY <1>8
<1>14. /\ metrics' \in [created: Nat, resolved: Nat] /\ metrics'.created = metrics.created
       /\ metrics'.resolved = IF t.status = "closed" THEN 1 ELSE 0
  BY <1>3, <1>7, CountersStay
<1>15. x.op # "create"
  BY <1>4, <1>8
<1>16. ticket' = t /\ t.status # "none" /\ (ticket.status = "closed" => t.status = "closed")
  BY <1>5, <1>7, <1>8
<1> QED
  BY <1>3, <1>4, <1>7, <1>8, <1>10, <1>12, <1>13, <1>14, <1>15, <1>16, TicketUpdated

\* The ticket appears: nobody else is at work on it, because there was none.
LEMMA TicketPut ==
  ASSUME SupportInv, NEW q \in Callers, PutTicket(q)
  PROVE  SupportInv' /\ Untouched
<1>1. PICK c \in Caller : c = callers[q]
  BY DEF SupportInv, SupportTyped
<1>2. CallSound(c) /\ c.pc = "put"
  BY <1>1 DEF SupportInv, Calls, PutTicket
<1>3. c.op = "create" /\ ticket = NoSupportTicket /\ ticket.status = "none" /\ (gone => c.arg = "anonymous")
  BY <1>2 DEF CallSound, NoSupportTicket
<1>4. ASSUME NEW r \in Callers, r # q
      PROVE  callers[r].pc = "idle" /\ callers[r].op # "create"
  <2>1. callers[r].op # "create"
    BY <1>1, <1>3, <1>4 DEF SupportInv, Calls
  <2> QED
    BY <1>3, <2>1 DEF SupportInv, Calls, CallSound
<1>5. /\ ticket' = [NoSupportTicket EXCEPT !.status = "open", !.owner = callers[q].arg # "anonymous",
                                           !.token = callers[q].arg = "anonymous", !.address = callers[q].arg # "owner"]
      /\ listed' = (c.arg # "anonymous") /\ metrics' = [metrics EXCEPT !.created = @ + 1]
      /\ Proceed(q, "system") /\ "system" \in CallSteps
      /\ UNCHANGED <<thread, notes, gone, redactor, surveys>>
  BY <1>1 DEF PutTicket, CallSteps, mailbox
<1>6. PICK x \in Caller : callers' = [callers EXCEPT ![q] = x] /\ x.pc = "system" /\ x.op = c.op /\ x.arg = c.arg
  BY <1>1, <1>5, Proceeds
<1>7. PICK t : t = ticket'
  OBVIOUS
<1>8. PICK b1 \in BOOLEAN, b2 \in BOOLEAN, b3 \in BOOLEAN :
        /\ t = [NoSupportTicket EXCEPT !.status = "open", !.owner = b1, !.token = b2, !.address = b3]
        /\ b1 <=> c.arg # "anonymous"
        /\ b2 <=> c.arg = "anonymous"
  BY <1>1, <1>5, <1>7
<1>9. t \in SupportTicket /\ t.status = "open" /\ (t.owner <=> b1) /\ (t.token <=> b2)
  BY <1>8 DEF NoSupportTicket, SupportTicket, Levels
<1>10. metrics.created = 0 /\ metrics.resolved = 0 /\ surveys = 0
  BY <1>3 DEF SupportInv, Counted
<1>11. metrics' \in [created: Nat, resolved: Nat] /\ metrics'.created = 1 /\ metrics'.resolved = 0
  BY <1>5, <1>10 DEF SupportInv, SupportTyped
<1>12. callers' \in [Callers -> Caller]
  BY <1>6 DEF SupportInv, SupportTyped
<1>13. \A r \in Callers : callers'[r] = IF r = q THEN x ELSE callers[r]
  BY <1>6 DEF SupportInv, SupportTyped
<1>14. SupportTyped'
  BY <1>5, <1>7, <1>9, <1>11, <1>12 DEF SupportInv, SupportTyped
<1>15. ~Closer(x)
  BY <1>6 DEF Closer
<1>16. Calls'
  <2>1. ASSUME NEW r \in Callers PROVE CallSound(callers[r])'
    <3>1. CASE r = q
      <4>1. callers'[r] = x
        BY <1>13, <3>1
      <4>2. CallSound(x)'
        BY <1>3, <1>5, <1>6, <1>7, <1>8, <1>9, <1>15 DEF CallSound, Closer
      <4> QED
        BY <4>1, <4>2 DEF CallSound, Closer
    <3>2. CASE r # q
      <4>1. callers'[r].pc = "idle" /\ callers'[r].op # "create"
        BY <1>4, <1>13, <3>2
      <4> QED
        BY <4>1 DEF CallSound, Closer
    <3> QED
      BY <3>1, <3>2
  <2>2. \A r \in Callers : r # q => callers'[r].op # "create" /\ ~Closer(callers'[r])
    BY <1>4, <1>13 DEF Closer
  <2> QED
    BY <2>1, <2>2 DEF Calls, Closer
<1>17. Counted'
  BY <1>5, <1>7, <1>9, <1>10, <1>11 DEF Counted
<1>18. Words'
  BY <1>3, <1>5, <1>7, <1>8, <1>9 DEF SupportInv, Words, NoWordsStranded
<1>19. Untouched
  BY <1>3 DEF Untouched
<1> QED
  BY <1>14, <1>16, <1>17, <1>18, <1>19 DEF SupportInv

\* The one request that may still ask, asks; then none may.
LEMMA SurveySent ==
  ASSUME SupportInv, NEW q \in Callers, SendSurvey(q)
  PROVE  SupportInv' /\ Untouched
<1>1. PICK c \in Caller : c = callers[q]
  BY DEF SupportInv, SupportTyped
<1>2. CallSound(c) /\ c.pc = "survey"
  BY <1>1 DEF SupportInv, Calls, SendSurvey
<1>3. Closer(c) /\ ticket.status = "closed" /\ surveys = 0
  BY <1>2 DEF CallSound, Closer
<1>4. \A r \in Callers : r # q => ~Closer(callers[r])
  BY <1>1, <1>3 DEF SupportInv, Calls
<1>5. UNCHANGED <<ticket, thread, notes, metrics, owner, scores>>
  BY DEF SendSurvey, records
<1>6. CASE surveys' = surveys /\ Finish(q)
  <2>1. callers' = [callers EXCEPT ![q] = Hangup] /\ UNCHANGED mailbox
    BY <1>5, <1>6 DEF Finish, mailbox
  <2> QED
    BY <1>5, <2>1, HangupSound, OnlyCallMoves DEF SupportInv, SupportTyped
<1>7. CASE surveys' = surveys + 1 /\ Proceed(q, "markAsked")
  <2>1. "markAsked" \in CallSteps
    BY DEF CallSteps
  <2>2. PICK x \in Caller :
          callers' = [callers EXCEPT ![q] = x] /\ x.pc = "markAsked" /\ x.op = c.op /\ x.arg = c.arg
    BY <1>1, <1>7, <2>1, Proceeds
  <2>3. ~Closer(x)
    BY <2>2 DEF Closer
  <2>4. callers' \in [Callers -> Caller] /\ \A r \in Callers : callers'[r] = IF r = q THEN x ELSE callers[r]
    BY <2>2 DEF SupportInv, SupportTyped
  <2>5. \A r \in Callers : ~Closer(callers'[r])
    BY <1>4, <2>3, <2>4
  <2>6. CallSound(x)
    BY <1>2, <2>2, <2>3 DEF CallSound
  <2>7. ASSUME NEW r \in Callers PROVE CallSound(callers[r])'
    <3>1. CallSound(callers'[r])
      BY <2>4, <2>6 DEF SupportInv, Calls
    <3>2. ~Closer(callers'[r])
      BY <2>5
    <3> QED
      BY <1>5, <3>1, <3>2 DEF CallSound, Closer, owner
  <2>8. Calls'
    <3>1. \A r, s \in Callers : callers'[r].op = "create" /\ callers'[s].op = "create" => r = s
      BY <1>1, <2>2, <2>4 DEF SupportInv, Calls
    <3> QED
      BY <2>5, <2>7, <3>1 DEF Calls, Closer
  <2>9. SupportTyped'
    BY <1>5, <1>7, <2>4 DEF SupportInv, SupportTyped, owner
  <2>10. Counted' /\ Words'
    BY <1>3, <1>5, <1>7 DEF SupportInv, Counted, Words, NoWordsStranded, Unredacted, owner
  <2>11. Untouched
    BY <1>5 DEF Untouched, SupportInv, SupportTyped
  <2> QED
    BY <2>8, <2>9, <2>10, <2>11 DEF SupportInv
<1> QED
  BY <1>6, <1>7 DEF SendSurvey

LEMMA AccountGone ==
  ASSUME SupportInv, OwnerDeleted
  PROVE  SupportInv' /\ Untouched
<1>1. /\ ~gone /\ gone' = TRUE /\ redactor' = "list"
      /\ UNCHANGED <<ticket, thread, notes, metrics, callers, listed, surveys>>
      /\ \A q \in Callers : callers[q].op \notin {"create", "rate"} /\ callers[q].arg # "user"
  BY DEF OwnerDeleted, records, mailbox
<1>2. SupportTyped'
  BY <1>1 DEF SupportInv, SupportTyped
<1>3. ASSUME NEW q \in Callers PROVE CallSound(callers[q])'
  <2>1. CallSound(callers[q]) /\ callers[q].op \notin {"create", "rate"} /\ callers[q].arg # "user"
    BY <1>1 DEF SupportInv, Calls
  <2> QED
    BY <1>1, <2>1 DEF CallSound, Closer
<1>4. Calls'
  BY <1>1, <1>3 DEF SupportInv, Calls, Closer
<1>5. Counted'
  BY <1>1 DEF SupportInv, Counted
<1>6. Words'
  <2>1. metrics.created = 1 => ticket.owner \/ ticket.token
    BY <1>1 DEF SupportInv, Counted, Words
  <2> QED
    BY <1>1, <2>1 DEF SupportInv, Words, NoWordsStranded
<1>7. Untouched
  BY <1>1 DEF Untouched, SupportInv, SupportTyped
<1> QED
  BY <1>2, <1>4, <1>5, <1>6, <1>7 DEF SupportInv

LEMMA CallsStay ==
  ASSUME SupportInv, Steady, callers' = callers
  PROVE  Calls'
<1>1. ASSUME NEW q \in Callers PROVE CallSound(callers[q])'
  <2>1. PICK x \in Caller : x = callers[q] /\ CallSound(x)
    BY DEF SupportInv, SupportTyped, Calls
  <2>2. CallSound(x)'
    BY <2>1, CallKept
  <2> QED
    BY <2>1, <2>2 DEF CallSound, Closer
<1> QED
  BY <1>1 DEF SupportInv, Calls, Closer

\* The redaction's steps that write no message and no ticket, and the index.
LEMMA RedactionMoves ==
  ASSUME SupportInv, ListTickets \/ UserIndexCatchesUp \/ RedactorRestarts
  PROVE  SupportInv' /\ Untouched
<1>1. UNCHANGED <<ticket, thread, notes, metrics, callers, gone, surveys>>
  BY DEF ListTickets, UserIndexCatchesUp, RedactorRestarts, records, mailbox
<1>2. Calls'
  BY <1>1, CallsStay DEF Steady
<1>3. SupportTyped'
  <2>1. ticket.owner \in BOOLEAN
    BY DEF SupportInv, SupportTyped, SupportTicket
  <2> QED
    BY <1>1, <2>1 DEF SupportInv, SupportTyped, ListTickets, UserIndexCatchesUp, RedactorRestarts
<1>4. Counted' /\ Untouched
  BY <1>1 DEF SupportInv, SupportTyped, Counted, Untouched
<1>5. Words'
  <2>1. Unredacted' = Unredacted
    BY <1>1 DEF Unredacted
  <2>2. CASE ListTickets
    BY <1>1, <2>1, <2>2 DEF ListTickets, SupportInv, Words, NoWordsStranded
  <2>3. CASE UserIndexCatchesUp
    BY <1>1, <2>1, <2>3 DEF UserIndexCatchesUp, SupportInv, Words, NoWordsStranded
  <2>4. CASE RedactorRestarts
    BY <1>1, <2>1, <2>4 DEF RedactorRestarts, SupportInv, Words, NoWordsStranded
  <2> QED
    BY <2>2, <2>3, <2>4
<1> QED
  BY <1>2, <1>3, <1>4, <1>5 DEF SupportInv

LEMMA MessageRedacted ==
  ASSUME SupportInv, RedactMessage
  PROVE  SupportInv' /\ Untouched
<1>1. redactor = "messages" /\ UNCHANGED <<ticket, notes, metrics, callers, gone, listed, surveys>>
  BY DEF RedactMessage, mailbox
<1>2. Calls'
  BY <1>1, CallsStay DEF Steady
<1>3. Counted'
  BY <1>1 DEF SupportInv, Counted
<1>4. CASE Unredacted = {}
  <2>1. redactor' = "drop" /\ thread' = thread
    BY <1>4 DEF RedactMessage, MessagesLeft
  <2>2. SupportTyped' /\ Untouched
    BY <1>1, <2>1 DEF SupportInv, SupportTyped, Untouched
  <2>3. Unredacted' = {}
    BY <1>4, <2>1 DEF Unredacted
  <2>4. Words'
    BY <1>1, <2>1, <2>3 DEF SupportInv, Words, NoWordsStranded
  <2> QED
    BY <1>2, <1>3, <2>2, <2>4 DEF SupportInv
<1>5. CASE Unredacted # {}
  <2>1. PICK i \in Unredacted : thread' = [thread EXCEPT ![i].body = "redacted"] /\ redactor' = redactor
    BY <1>5 DEF RedactMessage, MessagesLeft
  <2>2. i \in 1..Len(thread) /\ thread \in Seq(Message)
    BY DEF Unredacted, SupportInv, SupportTyped
  <2>3. thread[i] \in Message
    BY <2>2
  <2>4. PICK m : m = [thread[i] EXCEPT !.body = "redacted"]
    OBVIOUS
  <2>5. m \in Message
    BY <2>3, <2>4 DEF Message
  <2>6. thread' = [thread EXCEPT ![i] = m]
    BY <2>1, <2>2, <2>4
  <2>7. thread' \in Seq(Message) /\ Len(thread') = Len(thread)
    BY <2>2, <2>5, <2>6
  <2>8. SupportTyped' /\ Untouched
    BY <1>1, <2>1, <2>7 DEF SupportInv, SupportTyped, Untouched
  <2>9. Words'
    BY <1>1, <1>5, <2>1 DEF SupportInv, Words, NoWordsStranded
  <2> QED
    BY <1>2, <1>3, <2>8, <2>9 DEF SupportInv
<1> QED
  BY <1>4, <1>5

\* The owner is let go of when no words are left.
LEMMA OwnerDropped ==
  ASSUME SupportInv, DropOwner
  PROVE  SupportInv' /\ Untouched
<1>1. /\ redactor = "drop" /\ redactor' = "list" /\ ticket' = [ticket EXCEPT !.owner = FALSE, !.comment = FALSE]
      /\ UNCHANGED <<thread, notes, metrics, callers, gone, listed, surveys>>
  BY DEF DropOwner, records, mailbox
<1>2. PICK t : t = ticket'
  OBVIOUS
<1>3. /\ t \in SupportTicket /\ t.status = ticket.status /\ t.level = ticket.level /\ t.token = ticket.token
      /\ ~t.owner /\ ~t.comment
  BY <1>1, <1>2 DEF SupportInv, SupportTyped, SupportTicket
<1>4. ticket.status # "none"
  BY <1>1 DEF SupportInv, Words
<1>5. Steady
  BY <1>1, <1>2, <1>3, <1>4 DEF Steady
<1>6. Calls'
  BY <1>1, <1>5, CallsStay
<1>7. SupportTyped' /\ Counted' /\ Untouched
  BY <1>1, <1>2, <1>3 DEF SupportInv, SupportTyped, Counted, Untouched
<1>8. Unredacted' = Unredacted
  BY <1>1 DEF Unredacted
<1>9. Words'
  BY <1>1, <1>2, <1>3, <1>4, <1>8 DEF SupportInv, Words, NoWordsStranded
<1> QED
  BY <1>6, <1>7, <1>9 DEF SupportInv

LEMMA SupportInvStep == SupportInv /\ [SupportNext]_uVars => SupportInv' /\ Untouched
<1> SUFFICES ASSUME SupportInv, [SupportNext]_uVars PROVE SupportInv' /\ Untouched
  OBVIOUS
<1>1. ASSUME NEW q \in Callers,
             \/ \E signedIn, address \in BOOLEAN : CreateTicket(q, signedIn, address)
             \/ PutTicket(q) \/ PutSystemMessage(q) \/ PutFirstMessage(q) \/ ConfirmByMail(q)
      PROVE  SupportInv' /\ Untouched
  BY <1>1, CreationOpens, TicketPut, SystemPosts, PeoplePost, MailsSent
<1>2. ASSUME NEW q \in Callers,
             \/ ReplyAsUser(q) \/ ReplyAsAgent(q) \/ AddInternalNote(q)
             \/ (\E level \in Levels : SetEscalation(q, level))
             \/ (\E status \in {"open", "answered", "closed"} : SetStatus(q, status))
             \/ (\E comment \in BOOLEAN : SubmitNPS(q, comment))
      PROVE  SupportInv' /\ Untouched
  BY <1>2, RequestsOpen
<1>3. ASSUME NEW q \in Callers,
             \/ PutMessage(q) \/ MarkAnswered(q) \/ ReplyByMail(q) \/ PutInternalNote(q) \/ UpdateEscalation(q)
             \/ WriteStatus(q) \/ SendSurvey(q) \/ MarkNPSRequested(q) \/ WriteNPS(q) \/ CallFails(q)
      PROVE  SupportInv' /\ Untouched
  BY <1>3, PeoplePost, TicketAnswered, MailsSent, CallsEnd, EscalationWritten, StatusWritten, SurveySent,
     ScoreWritten
<1>4. CASE OwnerDeleted \/ ListTickets \/ RedactMessage \/ DropOwner \/ UserIndexCatchesUp \/ RedactorRestarts
  BY <1>4, AccountGone, RedactionMoves, MessageRedacted, OwnerDropped
<1>5. ASSUME UNCHANGED <<ticket, thread, notes, metrics, callers, gone, listed, redactor, surveys>>
      PROVE  SupportInv' /\ Untouched
  <2>1. Calls'
    BY <1>5, CallsStay DEF Steady
  <2>2. SupportTyped' /\ Counted' /\ Untouched
    BY <1>5 DEF SupportInv, SupportTyped, Counted, Untouched
  <2>3. Words'
    BY <1>5 DEF SupportInv, Words, NoWordsStranded, Unredacted
  <2> QED
    BY <2>1, <2>2, <2>3 DEF SupportInv
<1>6. ASSUME NEW c \in Sockets, (\E as \in {"party", "agent"} : Connect(c, as)) \/ Disconnect(c)
      PROVE  SupportInv' /\ Untouched
  <2>1. UNCHANGED <<ticket, records, callers, owner, mailbox>>
    BY <1>6 DEF Connect, Disconnect
  <2> QED
    BY <1>5, <2>1 DEF records, owner, mailbox
<1>7. CASE RoleTaken
  <2>1. UNCHANGED <<ticket, records, callers, owner, mailbox>>
    BY <1>7 DEF RoleTaken
  <2> QED
    BY <1>5, <2>1 DEF records, owner, mailbox
<1>8. CASE UNCHANGED uVars
  BY <1>5, <1>8 DEF uVars
<1> QED
  BY <1>1, <1>2, <1>3, <1>4, <1>6, <1>7, <1>8 DEF SupportNext

\* Whichever requests were under way when a ticket is closed, the conditions of their
\* writes keep its status, level, thread and notes, and the closing that takes effect is
\* counted and asked about once.
THEOREM ClosedCorrect == SupportSpec => ClosedIsFinal
<1>1. SupportInv /\ [SupportNext]_uVars =>
        (ticket.status = "closed" =>
           /\ ticket'.status = "closed" /\ ticket'.level = ticket.level /\ notes' = notes
           /\ metrics'.resolved = 1 /\ surveys' <= 1
           /\ \A i \in (Len(thread) + 1)..Len(thread') : thread'[i].by = "system")
  <2> SUFFICES ASSUME SupportInv, [SupportNext]_uVars, ticket.status = "closed"
               PROVE  /\ ticket'.status = "closed" /\ ticket'.level = ticket.level /\ notes' = notes
                      /\ metrics'.resolved = 1 /\ surveys' <= 1
                      /\ \A i \in (Len(thread) + 1)..Len(thread') : thread'[i].by = "system"
    OBVIOUS
  <2>1. SupportInv' /\ Untouched
    BY SupportInvStep
  <2>2. Counted' /\ ticket'.status = "closed"
    BY <2>1 DEF SupportInv, Untouched
  <2>3. metrics'.resolved = 1 /\ surveys' <= 1
    BY <2>2 DEF Counted
  <2> QED
    BY <2>1, <2>3 DEF Untouched
<1>2. SupportInv /\ [SupportNext]_uVars => SupportInv'
  BY SupportInvStep
<1> QED
  BY <1>1, <1>2, SupportInitInv, PTL DEF SupportSpec, ClosedIsFinal

\* The redaction lets go of a ticket only when none of its owner's words is left, and
\* nobody but the holder of an anonymous token adds any after the account is gone.
THEOREM WordsCorrect == SupportSpec => []NoWordsStranded
<1>1. SupportInv => NoWordsStranded
  BY DEF SupportInv, Words
<1>2. SupportInv /\ [SupportNext]_uVars => SupportInv'
  BY SupportInvStep
<1> QED
  BY <1>1, <1>2, SupportInitInv, PTL DEF SupportSpec
=============================================================================
