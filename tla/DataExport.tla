----------------------------- MODULE DataExport -----------------------------
(***************************************************************************)
(* The copy of a person's data: the request, the account's own part built  *)
(* in the background, the part a product is asked for by message, the      *)
(* reconciliation a status read does, the ready e-mail, discarding, and    *)
(* the erasure with the account (domain/dataexport,                        *)
(* handler/data_export.go).                                                *)
(*                                                                         *)
(* Every call to the table, the bucket and the topic is a step.  One       *)
(* product takes part.  Times are told apart as the code does: the age of  *)
(* the export, the product's silence, and the end of the ready period.     *)
(***************************************************************************)
EXTENDS Integers, FiniteSets

CONSTANTS
  Jobs,           \* requests, and the background work they go on with
  MaxExports,     \* bound on export ids
  MaxTries,       \* MaxAttempts
  ExportScopes    \* entry points of a behaviour and its number of requests

ASSUME ExportAssumption ==
  /\ MaxExports \in Nat \ {0} /\ MaxTries \in Nat \ {0} /\ \A x \in ExportScopes : x.asks \in Nat

ExportIds == 1..MaxExports
PartNames == {"account", "product"}

VARIABLES
  expScope, asks,
  export,      \* the row of the current export
  nextExport,
  files,       \* objects in the bucket: <<export, part>>
  topic,       \* exports the product was asked for a part of
  jobs,        \* job -> where it is
  erasing,     \* the erasure of the account
  \* What happened, for the properties only:
  readyMails   \* export -> ready e-mails sent

xVars == <<expScope, asks, export, nextExport, files, topic, jobs, erasing, readyMails>>

-----------------------------------------------------------------------------
(* State *)

NoPart == [status |-> "none", tries |-> 0, silent |-> FALSE]
NoParts == [p \in PartNames |-> NoPart]
PartRow == [status: {"none", "building", "dispatched", "ready", "failed"}, tries: 0..MaxTries, silent: BOOLEAN]
\* age: 0 fresh, 1 past StuckAfter, 2 past MinInterval, which is PartDeadline too.
\* parts: the map is there.
NoExport == [id |-> 0, state |-> "none", age |-> 0, over |-> FALSE, parts |-> FALSE, part |-> NoParts,
             notified |-> FALSE]
ExportRow == [id: 0..MaxExports, state: {"none", "building", "ready", "failed", "expired"}, age: 0..2,
              over: BOOLEAN, parts: BOOLEAN, part: [PartNames -> PartRow], notified: BOOLEAN]

OffDuty == [pc |-> "idle", op |-> "none", read |-> NoExport, result |-> "none"]
JobSteps == {"idle", "clear", "save", "dispatch", "publish", "build", "setReady", "finishReady", "setFailed",
             "finishFailed", "notify", "mark", "mail", "timeOut", "dropFiles", "expire", "giveUp", "ackPart"}

ExportTypeOK ==
  /\ expScope \in ExportScopes /\ asks \in 0..expScope.asks
  /\ export \in ExportRow /\ nextExport \in 1..(MaxExports + 1)
  /\ files \subseteq ExportIds \X PartNames /\ topic \subseteq ExportIds
  /\ \A j \in Jobs : jobs[j].pc \in JobSteps /\ jobs[j].read \in ExportRow
  /\ erasing \in {"no", "list", "row", "done"}
  \* The ready e-mail goes out once, whoever finds the export complete.
  /\ readyMails \in [ExportIds -> 0..1]

ExportInit ==
  /\ expScope \in ExportScopes /\ asks = expScope.asks
  /\ export = NoExport /\ nextExport = 1 /\ files = {} /\ topic = {}
  /\ jobs = [j \in Jobs |-> OffDuty] /\ erasing = "no"
  /\ readyMails = [i \in ExportIds |-> 0]

-----------------------------------------------------------------------------
(* Jobs and conditional writes *)

Arrive(j, op) ==
  /\ jobs[j].pc = "idle" /\ op \in expScope.ops /\ erasing = "no"
  /\ asks > 0 /\ asks' = asks - 1
Put(j, pc, op, result) ==
  jobs' = [jobs EXCEPT ![j] = [pc |-> pc, op |-> op, read |-> export, result |-> result]]
Move(j, pc) == jobs' = [jobs EXCEPT ![j].pc = pc]
Rest(j) == jobs' = [jobs EXCEPT ![j] = OffDuty]
Mine(j) == jobs[j].read.id

\* Every write after the first is conditional on the export id.
SameExport(id) == export.id = id /\ id # 0
Write(row) == export' = row

\* SetPart sets a field of the parts map: it is refused too when the map was removed.
MayLandPart(id) == SameExport(id) /\ export.parts
WithPart(p, r) == [export EXCEPT !.part[p] = r]

Stuck(e) == e.state = "building" /\ e.age > 0
Expired(e) == e.state = "ready" /\ e.over
Pending(e) == \E p \in PartNames : e.part[p].status \in {"building", "dispatched"}

-----------------------------------------------------------------------------
(* A request *)

RequestExport(j) ==
  /\ Arrive(j, "request")
  /\ ~(export.state = "building" /\ ~Stuck(export))
  /\ export.state \notin {"none", "failed"} => export.age = 2
  /\ Put(j, "clear", "build", "none")
  /\ UNCHANGED <<expScope, export, nextExport, files, topic, erasing, readyMails>>

FilesOf(e) == IF e.parts THEN {e.id} \X PartNames ELSE {}

\* deleteParts, by the keys of the row that was read; a failure is logged.
ClearFiles(j) ==
  /\ jobs[j].pc \in {"clear", "dropFiles"}
  /\ \/ files' = files \ FilesOf(jobs[j].read)
     \/ "fault" \in expScope.ops /\ UNCHANGED files
  /\ Move(j, IF jobs[j].pc = "clear" THEN "save" ELSE "expire")
  /\ UNCHANGED <<expScope, asks, export, nextExport, topic, erasing, readyMails>>

\* Save: the row is still the one that was read.  The work goes on in the background.
SaveExport(j) ==
  LET new == [NoExport EXCEPT !.id = nextExport, !.state = "building", !.parts = TRUE,
                !.part = [p \in PartNames |-> [NoPart EXCEPT !.status =
                            IF p = "account" THEN "building" ELSE "dispatched"]]] IN
  /\ jobs[j].pc = "save"
  /\ IF export.id = Mine(j)
     THEN /\ nextExport <= MaxExports /\ nextExport' = nextExport + 1
          /\ export' = new
          /\ jobs' = [jobs EXCEPT ![j] = [@ EXCEPT !.pc = "dispatch", !.read = new]]
     ELSE Rest(j) /\ UNCHANGED <<export, nextExport>>
  /\ UNCHANGED <<expScope, asks, files, topic, erasing, readyMails>>

-----------------------------------------------------------------------------
(* The product's part *)

\* The attempt is recorded, with the part as this job knows it, before the message.
Dispatch(j) ==
  LET x == jobs[j]
      part == [x.read.part["product"] EXCEPT !.tries = @ + 1, !.silent = FALSE] IN
  /\ x.pc = "dispatch"
  /\ IF MayLandPart(Mine(j))
     THEN Write(WithPart("product", part)) /\ Move(j, "publish")
     ELSE /\ IF x.op = "build" THEN Move(j, "build") ELSE Rest(j)
          /\ UNCHANGED export
  /\ UNCHANGED <<expScope, asks, nextExport, files, topic, erasing, readyMails>>

\* A message that is not published waits for the next dispatch.
Publish(j) ==
  /\ jobs[j].pc = "publish"
  /\ \/ topic' = topic \cup {Mine(j)}
     \/ "fault" \in expScope.ops /\ UNCHANGED topic
  /\ IF jobs[j].op = "build" THEN Move(j, "build") ELSE Rest(j)
  /\ UNCHANGED <<expScope, asks, export, nextExport, files, erasing, readyMails>>

\* The product uploads its part, now or again.
ProductUploads(i) ==
  /\ i \in topic /\ <<i, "product">> \notin files
  /\ files' = files \cup {<<i, "product">>}
  /\ UNCHANGED <<expScope, asks, export, nextExport, topic, jobs, erasing, readyMails>>

\* An ack for export i, at any time after the message and any number of times.
AckExport(j, i, result) ==
  /\ Arrive(j, "ack") /\ i \in topic
  /\ export.id = i /\ export.state \notin {"expired", "failed"} /\ export.parts
  /\ result = "ready" => <<i, "product">> \in files
  /\ Put(j, "ackPart", "ack", result)
  /\ UNCHANGED <<expScope, export, nextExport, files, topic, erasing, readyMails>>

RecordAck(j) ==
  LET x == jobs[j] IN
  /\ x.pc \in {"ackPart", "giveUp"}
  /\ IF MayLandPart(Mine(j))
     THEN /\ Write(WithPart("product", [x.read.part["product"] EXCEPT !.status = x.result]))
          /\ Move(j, "notify")
     ELSE /\ IF x.pc = "giveUp" THEN Move(j, "notify") ELSE Rest(j)
          /\ UNCHANGED export
  /\ UNCHANGED <<expScope, asks, nextExport, files, topic, erasing, readyMails>>

-----------------------------------------------------------------------------
(* The account's part *)

BuildPart(j) ==
  /\ jobs[j].pc = "build"
  /\ \/ files' = files \cup {<<Mine(j), "account">>} /\ Move(j, "setReady")
     \/ "fault" \in expScope.ops /\ UNCHANGED files /\ Move(j, "setFailed")
  /\ UNCHANGED <<expScope, asks, export, nextExport, topic, erasing, readyMails>>

SetOwnPart(j) ==
  LET x == jobs[j]
      ok == x.pc = "setReady" IN
  /\ x.pc \in {"setReady", "setFailed"}
  /\ IF MayLandPart(Mine(j))
     THEN /\ Write(WithPart("account", [NoPart EXCEPT !.status = IF ok THEN "ready" ELSE "failed"]))
          /\ Move(j, IF ok THEN "finishReady" ELSE "finishFailed")
     ELSE /\ Move(j, IF ok THEN "setFailed" ELSE "finishFailed")
          /\ UNCHANGED export
  /\ UNCHANGED <<expScope, asks, nextExport, files, topic, erasing, readyMails>>

FinishBuild(j) ==
  LET ok == jobs[j].pc = "finishReady" IN
  /\ jobs[j].pc \in {"finishReady", "finishFailed"}
  /\ IF SameExport(Mine(j))
     THEN /\ Write([export EXCEPT !.state = IF ok THEN "ready" ELSE "failed"])
          /\ IF ok THEN Move(j, "notify") ELSE Rest(j)
     ELSE /\ IF ok THEN Move(j, "setFailed") ELSE Rest(j)
          /\ UNCHANGED export
  /\ UNCHANGED <<expScope, asks, nextExport, files, topic, erasing, readyMails>>

-----------------------------------------------------------------------------
(* The ready e-mail *)

Notify(j) ==
  /\ jobs[j].pc = "notify"
  /\ IF export.id = Mine(j) /\ export.state = "ready" /\ ~Pending(export) THEN Move(j, "mark") ELSE Rest(j)
  /\ UNCHANGED <<expScope, asks, export, nextExport, files, topic, erasing, readyMails>>

FirstNotice == ~export.notified

MarkNotified(j) ==
  /\ jobs[j].pc = "mark"
  /\ IF SameExport(Mine(j)) /\ FirstNotice
     THEN Write([export EXCEPT !.notified = TRUE]) /\ Move(j, "mail")
     ELSE Rest(j) /\ UNCHANGED export
  /\ UNCHANGED <<expScope, asks, nextExport, files, topic, erasing, readyMails>>

SendReady(j) ==
  /\ jobs[j].pc = "mail"
  /\ \/ readyMails' = [readyMails EXCEPT ![Mine(j)] = @ + 1]
     \/ "fault" \in expScope.ops /\ UNCHANGED readyMails
  /\ Rest(j)
  /\ UNCHANGED <<expScope, asks, export, nextExport, files, topic, erasing>>

-----------------------------------------------------------------------------
(* Status and discard *)

\* A stuck build fails, a ready export past its time goes with its files, and a silent
\* product is asked again or given up.
Reconciles(e) ==
  LET p == e.part["product"] IN
  IF e.state \notin {"ready", "building"} \/ ~e.parts \/ p.status # "dispatched" THEN "idle"
  ELSE IF e.age = 2 \/ (p.tries = MaxTries /\ p.silent) THEN "giveUp"
  ELSE IF p.silent THEN "dispatch" ELSE "idle"

ExportStatus(j) ==
  LET pc == IF Stuck(export) THEN "timeOut" ELSE IF Expired(export) THEN "dropFiles" ELSE Reconciles(export) IN
  /\ Arrive(j, "status") /\ export.id # 0 /\ pc # "idle"
  /\ Put(j, pc, "status", IF pc = "giveUp" THEN "failed" ELSE "none")
  /\ UNCHANGED <<expScope, export, nextExport, files, topic, erasing, readyMails>>

DiscardExport(j) ==
  /\ Arrive(j, "discard") /\ export.id # 0
  /\ Put(j, "dropFiles", "discard", "none")
  /\ UNCHANGED <<expScope, export, nextExport, files, topic, erasing, readyMails>>

EndExport(j) ==
  LET out == jobs[j].pc = "timeOut" IN
  /\ jobs[j].pc \in {"timeOut", "expire"}
  /\ IF SameExport(Mine(j))
     THEN Write(IF out THEN [export EXCEPT !.state = "failed"]
                   ELSE [export EXCEPT !.state = "expired", !.parts = FALSE, !.part = NoParts])
     ELSE UNCHANGED export
  /\ Rest(j)
  /\ UNCHANGED <<expScope, asks, nextExport, files, topic, erasing, readyMails>>

-----------------------------------------------------------------------------
(* Time, faults, erasure *)

TimePasses ==
  /\ "time" \in expScope.ops /\ export.id # 0
  /\ \/ export.age < 2 /\ export' = [export EXCEPT !.age = @ + 1]
     \/ export.state = "ready" /\ ~export.over /\ export.age = 2 /\ export' = [export EXCEPT !.over = TRUE]
     \/ /\ export.part["product"].status = "dispatched" /\ ~export.part["product"].silent
        /\ export' = [export EXCEPT !.part["product"].silent = TRUE]
  /\ UNCHANGED <<expScope, asks, nextExport, files, topic, jobs, erasing, readyMails>>

JobStops(j) ==
  /\ "fault" \in expScope.ops /\ jobs[j].pc # "idle" /\ Rest(j)
  /\ UNCHANGED <<expScope, asks, export, nextExport, files, topic, erasing, readyMails>>

\* Days after the lock: nothing is under way and the upload URLs are dead.
AccountPurged ==
  /\ "purge" \in expScope.ops /\ erasing = "no" /\ \A j \in Jobs : jobs[j].pc = "idle"
  /\ erasing' = "list" /\ topic' = {}
  /\ UNCHANGED <<expScope, asks, export, nextExport, files, jobs, readyMails>>

\* EraseOwner deletes what is listed under the person's prefix, then the row.
BugToErase == FilesOf(export)
ToErase == files

EraseFiles ==
  /\ erasing = "list"
  /\ IF ToErase \cap files = {} THEN erasing' = "row" /\ UNCHANGED files
     ELSE (\E f \in ToErase \cap files : files' = files \ {f}) /\ UNCHANGED erasing
  /\ UNCHANGED <<expScope, asks, export, nextExport, topic, jobs, readyMails>>

EraseRow ==
  /\ erasing = "row" /\ erasing' = "done" /\ export' = NoExport
  /\ UNCHANGED <<expScope, asks, nextExport, files, topic, jobs, readyMails>>

ExportNext ==
  \/ \E j \in Jobs :
       \/ RequestExport(j) \/ ClearFiles(j) \/ SaveExport(j) \/ Dispatch(j) \/ Publish(j) \/ RecordAck(j)
       \/ BuildPart(j) \/ SetOwnPart(j) \/ FinishBuild(j) \/ Notify(j) \/ MarkNotified(j) \/ SendReady(j)
       \/ ExportStatus(j) \/ DiscardExport(j) \/ EndExport(j) \/ JobStops(j)
       \/ \E i \in ExportIds, r \in {"ready", "failed"} : AckExport(j, i, r)
  \/ \E i \in ExportIds : ProductUploads(i)
  \/ TimePasses \/ AccountPurged \/ EraseFiles \/ EraseRow

ExportSpec == ExportInit /\ [][ExportNext]_xVars

-----------------------------------------------------------------------------
(* Safety *)

\* When the account is purged no file of any of its exports is left, also none that the
\* row had stopped naming.
NoFileSurvivesPurge == erasing \in {"row", "done"} => files = {}

\* What the comment of dispatch says: an ack is not overwritten by a dispatch.
AckNotOverwritten ==
  [][export.id = export'.id /\ export.part["product"].status = "ready" /\ export'.parts
       => export'.part["product"].status # "dispatched"]_xVars

\* What the comment of Discard says: discarding is not a way around MinInterval.
DiscardKeepsInterval ==
  [][export.state = "expired" /\ export'.id = export.id => export'.state = "expired"]_xVars
=============================================================================
