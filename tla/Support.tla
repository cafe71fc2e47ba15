------------------------------ MODULE Support ------------------------------
(***************************************************************************)
(* One support ticket, from its creation to the survey after its closing   *)
(* and the redaction of its owner's words when the account is deleted:     *)
(* domain/support, handler/support.go, support_admin.go, support_ws.go and *)
(* middleware/support.go.                                                  *)
(*                                                                         *)
(* Every write to the table is a step.  A text is either somebody's words  *)
(* or the redacted body; validation of texts, categories and priorities,   *)
(* and the wording of e-mails are left out.                                *)
(***************************************************************************)
EXTENDS Integers, Sequences

CONSTANTS
  Callers,        \* requests in progress
  Sockets,        \* websocket connections to the ticket
  MaxWords,       \* bound on the messages of the thread
  SupportScopes   \* entry points of a behaviour and its number of requests

ASSUME SupportAssumption == MaxWords \in Nat /\ \A x \in SupportScopes : x.calls \in Nat

VARIABLES
  supScope, callsLeft,
  ticket,      \* the ticket's META row
  thread,      \* its messages
  notes,       \* its internal notes
  metrics,     \* tickets created and resolved, the same in each of the four periods
  callers,     \* request -> where it is
  agentRole,   \* the agent's account has a support role
  gone,        \* the owner's account was deleted
  listed,      \* the index by user still shows the ticket
  redactor,    \* the redaction of the owner's tickets
  sockets,     \* connection -> what it was admitted as
  \* What happened, for the properties only:
  surveys,     \* survey e-mails sent
  scores,      \* surveys answered
  overheard    \* connections that received an internal note

uVars == <<supScope, callsLeft, ticket, thread, notes, metrics, callers, agentRole, gone, listed, redactor,
           sockets, surveys, scores, overheard>>
records == <<thread, notes, metrics>>
owner == <<gone, listed, redactor>>
mailbox == <<surveys, scores>>
audience == <<sockets, overheard, agentRole>>

-----------------------------------------------------------------------------
(* State *)

Levels == {"none", "specialist", "engineering"}
\* address: an e-mail address was given with the ticket; the anonymous token exists
\* when there is no owner at creation.
NoSupportTicket == [status |-> "none", owner |-> FALSE, token |-> FALSE, address |-> FALSE, level |-> "none",
                    rated |-> FALSE, comment |-> FALSE, asked |-> FALSE, mailed |-> FALSE]
SupportTicket == [status: {"none", "open", "answered", "closed"}, owner: BOOLEAN, token: BOOLEAN, address: BOOLEAN,
           level: Levels, rated: BOOLEAN, comment: BOOLEAN, asked: BOOLEAN, mailed: BOOLEAN]
Says(who) == [by |-> who, body |-> "words"]

Hangup == [pc |-> "idle", op |-> "none", arg |-> "none", asked |-> FALSE]
CallSteps == {"idle", "put", "system", "first", "confirmMail", "message", "answered", "replyMail", "note",
              "escalate", "status", "statusSystem", "survey", "markAsked", "rate", "rateSystem"}

SupportTypeOK ==
  /\ supScope \in SupportScopes /\ callsLeft \in 0..supScope.calls
  /\ ticket \in SupportTicket
  /\ thread \in Seq([by: {"user", "agent", "system"}, body: {"words", "redacted"}]) /\ Len(thread) <= MaxWords
  /\ notes \in 0..MaxWords /\ metrics \in [created: 0..1, resolved: Nat]
  /\ \A q \in Callers : callers[q].pc \in CallSteps
  /\ agentRole \in BOOLEAN /\ gone \in BOOLEAN /\ listed \in BOOLEAN
  /\ redactor \in {"off", "list", "messages", "drop", "done"}
  /\ sockets \in [Sockets -> {"none", "party", "agent"}]
  /\ surveys \in Nat /\ scores \in Nat /\ overheard \subseteq {c \in Sockets : sockets[c] = "agent"}

SupportInit ==
  /\ supScope \in SupportScopes /\ callsLeft = supScope.calls
  /\ ticket = NoSupportTicket /\ thread = <<>> /\ notes = 0 /\ metrics = [created |-> 0, resolved |-> 0]
  /\ callers = [q \in Callers |-> Hangup]
  /\ agentRole = TRUE /\ gone = FALSE /\ listed = FALSE /\ redactor = "off"
  /\ sockets = [c \in Sockets |-> "none"]
  /\ surveys = 0 /\ scores = 0 /\ overheard = {}

-----------------------------------------------------------------------------
(* Requests *)

Ring(q, op) ==
  /\ callers[q].pc = "idle" /\ op \in supScope.ops
  /\ callsLeft > 0 /\ callsLeft' = callsLeft - 1
PickUp(q, pc, op, arg) ==
  callers' = [callers EXCEPT ![q] = [Hangup EXCEPT !.pc = pc, !.op = op, !.arg = arg, !.asked = ticket.asked]]
Proceed(q, pc) == callers' = [callers EXCEPT ![q].pc = pc]
Finish(q) == callers' = [callers EXCEPT ![q] = Hangup]

\* resolveAccess: the owner, who signs in, or whoever holds the anonymous token.
ResolveAccess == ticket.status # "none" /\ ((ticket.owner /\ ~gone) \/ ticket.token)
RequireSupportRole == agentRole

\* The condition of every write that a closed ticket refuses.
BugStillOpen == ticket.status # "none"
StillOpen == ticket.status \notin {"none", "closed"}

Post(m) == Len(thread) < MaxWords /\ thread' = Append(thread, m)

-----------------------------------------------------------------------------
(* Creation *)

\* The number is allocated, then the row is written.  An address that comes with the
\* form is kept also when the caller is signed in.
CreateTicket(q, signedIn, address) ==
  /\ Ring(q, "create") /\ ticket = NoSupportTicket /\ \A r \in Callers : callers[r].op # "create"
  /\ signedIn \/ address
  /\ signedIn => ~gone
  /\ callers' = [callers EXCEPT ![q] = [Hangup EXCEPT !.pc = "put", !.op = "create",
                   !.arg = IF ~signedIn THEN "anonymous" ELSE IF address THEN "both" ELSE "owner"]]
  /\ UNCHANGED <<supScope, ticket, records, owner, mailbox, audience>>

PutTicket(q) ==
  LET how == callers[q].arg IN
  /\ callers[q].pc = "put"
  /\ ticket' = [NoSupportTicket EXCEPT !.status = "open", !.owner = how # "anonymous", !.token = how = "anonymous",
                                !.address = how # "owner"]
  /\ listed' = (how # "anonymous")
  /\ metrics' = [metrics EXCEPT !.created = @ + 1]
  /\ Proceed(q, "system")
  /\ UNCHANGED <<supScope, callsLeft, thread, notes, gone, redactor, mailbox, audience>>

\* A system message asks for nothing.
PutSystemMessage(q) ==
  /\ callers[q].pc \in {"system", "statusSystem", "rateSystem"}
  /\ Post(Says("system"))
  /\ IF callers[q].pc = "system" THEN Proceed(q, "first")
     ELSE IF callers[q].pc = "statusSystem" /\ callers[q].arg = "closed" /\ ~callers[q].asked THEN Proceed(q, "survey")
     ELSE Finish(q)
  /\ UNCHANGED <<supScope, callsLeft, ticket, notes, metrics, owner, mailbox, audience>>

PutFirstMessage(q) ==
  /\ callers[q].pc = "first"
  /\ IF StillOpen THEN Post(Says("user")) /\ Proceed(q, "confirmMail") ELSE Finish(q) /\ UNCHANGED thread
  /\ UNCHANGED <<supScope, callsLeft, ticket, notes, metrics, owner, mailbox, audience>>

\* The confirmation, then the id it was sent under; a failure is logged.
ConfirmByMail(q) ==
  /\ callers[q].pc = "confirmMail"
  /\ \E sent \in BOOLEAN : ticket' = [ticket EXCEPT !.mailed = @ \/ sent]
  /\ Finish(q)
  /\ UNCHANGED <<supScope, callsLeft, records, owner, mailbox, audience>>

-----------------------------------------------------------------------------
(* Replies, notes and escalation *)

ReplyAsUser(q) ==
  /\ Ring(q, "reply") /\ ResolveAccess /\ ticket.status # "closed"
  /\ PickUp(q, "message", "reply", "user")
  /\ UNCHANGED <<supScope, ticket, records, owner, mailbox, audience>>

ReplyAsAgent(q) ==
  /\ Ring(q, "reply") /\ RequireSupportRole /\ ticket.status \notin {"none", "closed"}
  /\ PickUp(q, "message", "reply", "agent")
  /\ UNCHANGED <<supScope, ticket, records, owner, mailbox, audience>>

\* One transaction: the ticket is open, and the message.
PutMessage(q) ==
  /\ callers[q].pc = "message"
  /\ IF StillOpen
     THEN /\ Post(Says(callers[q].arg))
          /\ IF callers[q].arg = "agent" THEN Proceed(q, "answered") ELSE Finish(q)
     ELSE Finish(q) /\ UNCHANGED thread
  /\ UNCHANGED <<supScope, callsLeft, ticket, notes, metrics, owner, mailbox, audience>>

MarkAnswered(q) ==
  /\ callers[q].pc = "answered"
  /\ IF StillOpen THEN ticket' = [ticket EXCEPT !.status = "answered"] /\ Proceed(q, "replyMail")
     ELSE Finish(q) /\ UNCHANGED ticket
  /\ UNCHANGED <<supScope, callsLeft, records, owner, mailbox, audience>>

\* resolveTicketEmail: the owner's address, or the one the ticket came with.
Recipient == (ticket.owner /\ ~gone) \/ (~ticket.owner /\ ticket.address)

ReplyByMail(q) ==
  /\ callers[q].pc = "replyMail"
  /\ \E sent \in BOOLEAN : ticket' = [ticket EXCEPT !.mailed = @ \/ (sent /\ Recipient)]
  /\ Finish(q)
  /\ UNCHANGED <<supScope, callsLeft, records, owner, mailbox, audience>>

AddInternalNote(q) ==
  /\ Ring(q, "note") /\ RequireSupportRole /\ ticket.status \notin {"none", "closed"}
  /\ PickUp(q, "note", "note", "none")
  /\ UNCHANGED <<supScope, ticket, records, owner, mailbox, audience>>

\* Mutant: the note goes to the ticket's own channel.
BugInternalChannel == {c \in Sockets : sockets[c] # "none"}
InternalChannel == {c \in Sockets : sockets[c] = "agent"}

PutInternalNote(q) ==
  /\ callers[q].pc = "note" /\ notes < MaxWords
  /\ IF StillOpen THEN notes' = notes + 1 /\ overheard' = overheard \cup InternalChannel
     ELSE UNCHANGED <<notes, overheard>>
  /\ Finish(q)
  /\ UNCHANGED <<supScope, callsLeft, ticket, thread, metrics, owner, mailbox, sockets, agentRole>>

SetEscalation(q, level) ==
  /\ Ring(q, "escalate") /\ RequireSupportRole /\ ticket.status \notin {"none", "closed"}
  /\ PickUp(q, "escalate", "escalate", level)
  /\ UNCHANGED <<supScope, ticket, records, owner, mailbox, audience>>

UpdateEscalation(q) ==
  /\ callers[q].pc = "escalate"
  /\ ticket' = IF StillOpen THEN [ticket EXCEPT !.level = callers[q].arg] ELSE ticket
  /\ Finish(q)
  /\ UNCHANGED <<supScope, callsLeft, records, owner, mailbox, audience>>

-----------------------------------------------------------------------------
(* Status and survey *)

\* A closing reads nps_requested_at first; a ticket that has the status is left alone.
SetStatus(q, status) ==
  /\ Ring(q, "status") /\ RequireSupportRole /\ ticket.status \notin {"none", "closed", status}
  /\ PickUp(q, "status", "status", status)
  /\ UNCHANGED <<supScope, ticket, records, owner, mailbox, audience>>

MayClose == StillOpen

\* CloseTicket counts the ticket in the same transaction.
WriteStatus(q) ==
  LET new == callers[q].arg IN
  /\ callers[q].pc = "status"
  /\ IF (IF new = "closed" THEN MayClose ELSE StillOpen)
     THEN /\ ticket' = [ticket EXCEPT !.status = new]
          /\ metrics' = IF new = "closed" THEN [metrics EXCEPT !.resolved = @ + 1] ELSE metrics
          /\ Proceed(q, "statusSystem")
     ELSE Finish(q) /\ UNCHANGED <<ticket, metrics>>
  /\ UNCHANGED <<supScope, callsLeft, thread, notes, owner, mailbox, audience>>

\* The request for a rating, by the row as it was read before the closing.
SendSurvey(q) ==
  /\ callers[q].pc = "survey"
  /\ \/ Recipient /\ surveys' = surveys + 1 /\ Proceed(q, "markAsked")
     \/ surveys' = surveys /\ Finish(q)
  /\ UNCHANGED <<supScope, callsLeft, ticket, records, owner, scores, audience>>

MarkNPSRequested(q) ==
  /\ callers[q].pc = "markAsked"
  /\ ticket' = [ticket EXCEPT !.asked = TRUE] /\ Finish(q)
  /\ UNCHANGED <<supScope, callsLeft, records, owner, mailbox, audience>>

SubmitNPS(q, comment) ==
  /\ Ring(q, "rate") /\ ResolveAccess /\ ticket.status = "closed" /\ ~ticket.rated
  /\ PickUp(q, "rate", "rate", IF comment THEN "comment" ELSE "none")
  /\ UNCHANGED <<supScope, ticket, records, owner, mailbox, audience>>

\* The write has no condition.
WriteNPS(q) ==
  /\ callers[q].pc = "rate"
  /\ ticket' = [ticket EXCEPT !.rated = TRUE, !.comment = callers[q].arg = "comment"]
  /\ scores' = scores + 1
  /\ Proceed(q, "rateSystem")
  /\ UNCHANGED <<supScope, callsLeft, records, owner, surveys, audience>>

-----------------------------------------------------------------------------
(* The redaction of a deleted account *)

\* Days after the account was locked, so that the owner has no request in progress.
OwnerDeleted ==
  /\ "delete" \in supScope.ops /\ ~gone /\ redactor = "off"
  /\ \A q \in Callers : callers[q].op \notin {"create", "rate"} /\ callers[q].arg # "user"
  /\ gone' = TRUE /\ redactor' = "list"
  /\ UNCHANGED <<supScope, callsLeft, ticket, records, callers, listed, mailbox, audience>>

\* ListByUser reads the index, which follows the table with a delay.
ListTickets ==
  /\ redactor = "list"
  /\ redactor' = IF listed THEN "messages" ELSE "done"
  /\ UNCHANGED <<supScope, callsLeft, ticket, records, callers, gone, listed, mailbox, audience>>

Unredacted == {i \in 1..Len(thread) : thread[i] = Says("user")}

\* Mutant: the ticket is let go of before its messages are redacted.
BugMessagesLeft == FALSE
MessagesLeft == Unredacted # {}

RedactMessage ==
  /\ redactor = "messages"
  /\ IF MessagesLeft
     THEN \E i \in Unredacted : (\A j \in Unredacted : i <= j)
            /\ thread' = [thread EXCEPT ![i].body = "redacted"] /\ UNCHANGED redactor
     ELSE redactor' = "drop" /\ UNCHANGED thread
  /\ UNCHANGED <<supScope, callsLeft, ticket, notes, metrics, callers, gone, listed, mailbox, audience>>

DropOwner ==
  /\ redactor = "drop"
  /\ ticket' = [ticket EXCEPT !.owner = FALSE, !.comment = FALSE]
  /\ redactor' = "list"
  /\ UNCHANGED <<supScope, callsLeft, records, callers, gone, listed, mailbox, audience>>

UserIndexCatchesUp ==
  /\ listed # ticket.owner /\ listed' = ticket.owner
  /\ UNCHANGED <<supScope, callsLeft, ticket, records, callers, gone, redactor, mailbox, audience>>

\* The worker stops; the purge starts over.
RedactorRestarts ==
  /\ "fault" \in supScope.ops /\ redactor \in {"messages", "drop"}
  /\ redactor' = "list"
  /\ UNCHANGED <<supScope, callsLeft, ticket, records, callers, gone, listed, mailbox, audience>>

-----------------------------------------------------------------------------
(* The notification stream *)

\* The first frame authenticates; an agent also joins the agents' channel.
Connect(c, as) ==
  /\ "listen" \in supScope.ops /\ sockets[c] = "none"
  /\ IF as = "agent" THEN agentRole /\ ticket.status # "none" ELSE as = "party" /\ ResolveAccess
  /\ sockets' = [sockets EXCEPT ![c] = as]
  /\ UNCHANGED <<supScope, callsLeft, ticket, records, callers, owner, mailbox, overheard, agentRole>>

Disconnect(c) ==
  /\ sockets[c] # "none"
  /\ sockets' = [sockets EXCEPT ![c] = "none"] /\ overheard' = overheard \ {c}
  /\ UNCHANGED <<supScope, callsLeft, ticket, records, callers, owner, mailbox, agentRole>>

\* Roles are changed in the table; the connections that are open stay as they are.
RoleTaken ==
  /\ "listen" \in supScope.ops /\ agentRole /\ agentRole' = FALSE
  /\ UNCHANGED <<supScope, callsLeft, ticket, records, callers, owner, mailbox, sockets, overheard>>

CallFails(q) ==
  /\ "fault" \in supScope.ops /\ callers[q].pc # "idle" /\ Finish(q)
  /\ UNCHANGED <<supScope, callsLeft, ticket, records, owner, mailbox, audience>>

SupportNext ==
  \/ \E q \in Callers :
       \/ \E signedIn, address \in BOOLEAN : CreateTicket(q, signedIn, address)
       \/ PutTicket(q) \/ PutSystemMessage(q) \/ PutFirstMessage(q) \/ ConfirmByMail(q)
       \/ ReplyAsUser(q) \/ ReplyAsAgent(q) \/ PutMessage(q) \/ MarkAnswered(q) \/ ReplyByMail(q)
       \/ AddInternalNote(q) \/ PutInternalNote(q)
       \/ (\E level \in Levels : SetEscalation(q, level)) \/ UpdateEscalation(q)
       \/ (\E status \in {"open", "answered", "closed"} : SetStatus(q, status)) \/ WriteStatus(q)
       \/ SendSurvey(q) \/ MarkNPSRequested(q)
       \/ (\E comment \in BOOLEAN : SubmitNPS(q, comment)) \/ WriteNPS(q)
       \/ CallFails(q)
  \/ OwnerDeleted \/ ListTickets \/ RedactMessage \/ DropOwner \/ UserIndexCatchesUp \/ RedactorRestarts
  \/ \E c \in Sockets : (\E as \in {"party", "agent"} : Connect(c, as)) \/ Disconnect(c)
  \/ RoleTaken

SupportSpec == SupportInit /\ [][SupportNext]_uVars

-----------------------------------------------------------------------------
(* Safety *)

\* "Closed tickets are immutable": whatever was under way when a ticket was closed, its
\* status, level and notes stay, only the system adds to its thread, and two agents who
\* close it at the same time count one resolution and send one survey.
ClosedIsFinal ==
  [][ticket.status = "closed" =>
       /\ ticket'.status = "closed" /\ ticket'.level = ticket.level /\ notes' = notes
       /\ metrics'.resolved = 1 /\ surveys' <= 1
       /\ \A i \in (Len(thread) + 1)..Len(thread') : thread'[i].by = "system"]_uVars

\* A ticket whose owner was dropped, or that the redaction has passed, holds none of the
\* words of the deleted account, wherever the redaction was interrupted: it could not be
\* found again.
NoWordsStranded ==
  gone /\ metrics.created = 1 /\ ~ticket.token /\ (~ticket.owner \/ redactor = "done") =>
    Unredacted = {} /\ ~ticket.comment

\* What the data model says: a score is set once.
NPSSetOnce == scores <= 1
=============================================================================
