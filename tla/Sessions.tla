------------------------------ MODULE Sessions ------------------------------
(***************************************************************************)
(* Sessions and refresh tokens of one person (api/internal/domain/session) *)
(* with the handlers that use them: login, authorization-code exchange,    *)
(* refresh, revocation, step-up and the lock of an account deletion.       *)
(*                                                                         *)
(* Every DynamoDB call is a step of its own; other requests run between    *)
(* two steps.  A call that fails ends the operation: without its effect    *)
(* (Crash, which is also the instance stopping) or with it (the Fault      *)
(* disjunct of a write).  Partitions of different people never meet, so    *)
(* one person is enough.                                                   *)
(***************************************************************************)
EXTENDS Integers

CONSTANTS
  Sids, Clients,      \* session ids, OAuth clients
  Procs,              \* requests in progress
  MaxTokens,          \* bound of the refresh tokens generated, in any scene
  Scenes,             \* what a behaviour exercises; each takes one
  Nil

ASSUME SessionsAssumption ==
  /\ Nil \notin Sids \cup Clients /\ MaxTokens \in Nat
  /\ \A x \in Scenes :
       /\ x.sids \subseteq Sids /\ x.clients \subseteq Clients
       /\ x.product \subseteq x.clients      \* with access to the product being left
       /\ x.ttl \in Nat                      \* the lifetime of a session
       /\ x.time \in Nat /\ x.faults \in Nat  \* bounds of the clock, and of failed calls
       /\ x.tokens \in 0..MaxTokens          \* bound of the refresh tokens generated

VARIABLES
  use,        \* the scene
  sess,       \* session id -> SESSION row
  toks,       \* session id -> client -> REFRESH row
  lookups,    \* token hash -> lookup row
  nextHash,   \* the next token to be generated; a token is its number
  codes,      \* authorization codes in the cache, as <<session, client>>
  blocked,    \* the person's deletion_state is set
  procs, now, faults,
  \* What happened, for the properties only:
  held,       \* refresh tokens that reached their client
  ended,      \* sessions that were live and are no more
  cause,      \* sessions someone ended, or a token of which was presented twice
  replayed    \* sessions of which a token was presented after its rotation

vars == <<use, sess, toks, lookups, nextHash, codes, blocked, procs, now, faults,
          held, ended, cause, replayed>>
rows == <<sess, toks, lookups, nextHash, codes>>
seen == <<held, ended, cause, replayed>>

Hashes == 1..MaxTokens

Never == -1   \* the expires_at of a row that has none: long past

Session == [row: BOOLEAN, expires: Int]
NoSession == [row |-> FALSE, expires |-> Never]

RefreshToken == [hash: 0..MaxTokens, expires: Int]
NoToken == [hash |-> 0, expires |-> Never]

Lookup == [state: {"none", "active", "consumed"}, sid: Sids \cup {Nil},
           client: Clients \cup {Nil}, expires: Int]
NoLookup == [state |-> "none", sid |-> Nil, client |-> Nil, expires |-> Never]

IsExpired(r) == now > r.expires
Live(s) == sess[s].row /\ ~IsExpired(sess[s])

Steps == {"idle", "create", "user", "getSession", "issueGet", "issuePut", "lookup", "row",
          "session", "rotate", "mint", "consumed", "mark", "listSessions", "list", "delete",
          "dropToken", "dropSession", "updateMFA"}
OpNames == {"login", "exchange", "refresh", "revokeToken", "logout", "revokeAll", "unlink",
            "lock", "stepUp"}

Proc == [op: OpNames \cup {"idle"}, pc: Steps, sid: Sids \cup {Nil},
         client: Clients \cup {Nil}, hash: 0..MaxTokens,
         asked: Clients \cup {Nil},     \* the client that presents the token
         expires: Int,                  \* read from the session
         todo: SUBSET Clients, sids: SUBSET Sids,  \* what loops have left
         late: BOOLEAN,     \* the session had ended when the request arrived
         barred: BOOLEAN]   \* the person has been blocked since it arrived
Idle == [op |-> "idle", pc |-> "idle", sid |-> Nil, client |-> Nil, hash |-> 0, asked |-> Nil,
         expires |-> Never, todo |-> {}, sids |-> {}, late |-> FALSE, barred |-> FALSE]

\* A token in a client's hands; from is the token it was traded for, 0 for a code.
Held == [hash: Hashes, sid: Sids, client: Clients, from: 0..MaxTokens]

TypeOK ==
  /\ use \in Scenes
  /\ sess \in [Sids -> Session]
  /\ toks \in [Sids -> [Clients -> RefreshToken]]
  /\ lookups \in [Hashes -> Lookup]
  /\ nextHash \in 1..(MaxTokens + 1)
  /\ codes \subseteq Sids \X Clients
  /\ blocked \in BOOLEAN
  /\ procs \in [Procs -> Proc]
  /\ now \in Nat /\ faults \in Nat
  /\ held \subseteq Held
  /\ ended \subseteq Sids /\ cause \subseteq Sids /\ replayed \subseteq Sids

\* The table may hold a session whose client has a token issued before lookup
\* rows existed.
Init ==
  /\ use \in Scenes
  /\ \E old \in {{}} \cup {{o} : o \in use.sids \X use.clients} :
       /\ old # {} => use.tokens > 0 /\ "legacy" \in use.ops
       /\ sess = [s \in Sids |-> IF \E o \in old : o[1] = s
                                 THEN [row |-> TRUE, expires |-> use.ttl]
                                 ELSE NoSession]
       /\ toks = [s \in Sids |-> [c \in Clients |->
                   IF <<s, c>> \in old THEN [hash |-> 1, expires |-> use.ttl] ELSE NoToken]]
       /\ nextHash = IF old = {} THEN 1 ELSE 2
       /\ held = {[hash |-> 1, sid |-> o[1], client |-> o[2], from |-> 0] : o \in old}
  /\ lookups = [h \in Hashes |-> NoLookup]
  /\ codes = {} /\ blocked = FALSE
  /\ procs = [p \in Procs |-> Idle]
  /\ now = 0 /\ faults = 0
  /\ ended = {} /\ cause = {} /\ replayed = {}

-----------------------------------------------------------------------------
(* Processes *)

Goto(p, pc) == procs' = [procs EXCEPT ![p].pc = pc]
Return(p) == procs' = [procs EXCEPT ![p] = Idle]
Free(p, op) == procs[p].pc = "idle" /\ op \in use.ops

Begin(p, op, pc, s, c) ==
  procs' = [procs EXCEPT ![p] = [Idle EXCEPT !.op = op, !.pc = pc, !.sid = s, !.client = c,
                                             !.late = s \in ended, !.barred = blocked]]

Fault == faults < use.faults /\ faults' = faults + 1
NoFault == UNCHANGED faults

\* The sessions that are live in this state and not in the next one have ended.
NoteEnded == ended' = ended \cup {s \in Sids : Live(s) /\ ~(sess'[s].row /\ now' <= sess'[s].expires)}

-----------------------------------------------------------------------------
(* The repository *)

Delete(s) == sess' = [sess EXCEPT ![s] = NoSession]
DeleteRefreshToken(s, c) == toks' = [toks EXCEPT ![s][c] = NoToken]

\* Mutant: the ids swapped.
BugActiveLookup(s, c, expires) == [state |-> "active", sid |-> c, client |-> s, expires |-> expires]
ActiveLookup(s, c, expires) == [state |-> "active", sid |-> s, client |-> c, expires |-> expires]
ConsumedLookup(s, c, until) == [state |-> "consumed", sid |-> s, client |-> c, expires |-> until]

\* Mutant: a token that was generated before.
BugPutRefreshToken(s, c, expires) ==
  /\ toks' = [toks EXCEPT ![s][c] = [hash |-> 1, expires |-> expires]]
  /\ lookups' = [lookups EXCEPT ![1] = ActiveLookup(s, c, expires)]
  /\ UNCHANGED nextHash

\* PutRefreshToken: one transaction writes the row, whatever it held, and the
\* lookup of a hash never seen before.
PutRefreshToken(s, c, expires) ==
  /\ nextHash <= use.tokens
  /\ toks' = [toks EXCEPT ![s][c] = [hash |-> nextHash, expires |-> expires]]
  /\ lookups' = [lookups EXCEPT ![nextHash] = ActiveLookup(s, c, expires)]
  /\ nextHash' = nextHash + 1

\* Mutant: the rotation without its conditions.
BugRotateAllowed(s, c, h) == TRUE
RotateAllowed(s, c, h) ==
  /\ toks[s][c].hash = h
  /\ lookups[h].state \in {"none", "active"}

\* RotateRefreshToken: one transaction moves the row to the next hash, marks the
\* old one consumed for the life of the session, and adds the new lookup.
RotateRefreshToken(s, c, h, until) ==
  /\ nextHash <= use.tokens
  /\ RotateAllowed(s, c, h)
  /\ toks' = [toks EXCEPT ![s][c] = [hash |-> nextHash, expires |-> now + use.ttl]]
  /\ lookups' = [lookups EXCEPT ![h] = ConsumedLookup(s, c, until),
                                ![nextHash] = ActiveLookup(s, c, now + use.ttl)]
  /\ nextHash' = nextHash + 1

-----------------------------------------------------------------------------
(* Login and authorization *)

\* The handler checked the credentials and that the account is not blocked.
Login(p, s) ==
  /\ Free(p, "login") /\ ~blocked
  /\ ~sess[s].row /\ s \notin ended /\ \A q \in Procs : procs[q].sid # s
  /\ Begin(p, "login", "create", s, Nil)
  /\ UNCHANGED <<rows, seen, blocked, now, faults>>

Create(p) ==
  /\ procs[p].pc = "create"
  /\ sess' = [sess EXCEPT ![procs[p].sid] = [row |-> TRUE, expires |-> now + use.ttl]]
  /\ NoFault \/ Fault
  /\ Return(p)
  /\ UNCHANGED <<toks, lookups, nextHash, codes, blocked, now, seen>>

\* GET /authorize with the session's cookie stores a code; the session may have
\* ended since the cookie was looked up.  An expired session is deleted.
Authorize(s, c) ==
  /\ "exchange" \in use.ops
  /\ \/ /\ (Live(s) \/ s \in ended) /\ nextHash <= use.tokens
        /\ codes' = codes \cup {<<s, c>>} /\ UNCHANGED sess
     \/ /\ sess[s].row /\ sess[s].expires # Never /\ IsExpired(sess[s])
        /\ Delete(s) /\ UNCHANGED codes
  /\ UNCHANGED <<toks, lookups, nextHash, seen, blocked, procs, now, faults>>

\* The code exchange consumes the code first (GetAndDelete) ...
Exchange(p, s, c) ==
  /\ Free(p, "exchange")
  /\ <<s, c>> \in codes
  /\ codes' = codes \ {<<s, c>>}
  /\ Begin(p, "exchange", "user", s, c)
  /\ UNCHANGED <<sess, toks, lookups, nextHash, seen, blocked, now, faults>>

\* ... then reads the user and refuses one scheduled for deletion ...
ExchangeUser(p) ==
  /\ procs[p].pc = "user"
  /\ IF blocked THEN Return(p) ELSE Goto(p, "getSession")
  /\ UNCHANGED <<rows, seen, blocked, now, faults>>

\* ... then the session, without looking at its expiry ...
ExchangeSession(p) ==
  /\ procs[p].pc = "getSession"
  /\ IF sess[procs[p].sid].row THEN Goto(p, "issueGet") ELSE Return(p)
  /\ UNCHANGED <<rows, seen, blocked, now, faults>>

\* ... and IssueClientToken reads it once more.
IssueGet(p) ==
  /\ procs[p].pc = "issueGet"
  /\ LET s == sess[procs[p].sid]
     IN \/ ~s.row /\ Return(p)
        \/ s.row /\ IsExpired(s) /\ Goto(p, "dropSession")
        \/ /\ s.row /\ ~IsExpired(s)
           /\ procs' = [procs EXCEPT ![p] = [@ EXCEPT !.pc = "issuePut", !.expires = s.expires]]
  /\ UNCHANGED <<rows, seen, blocked, now, faults>>

IssuePut(p) ==
  /\ procs[p].pc = "issuePut"
  /\ PutRefreshToken(procs[p].sid, procs[p].client, procs[p].expires)
  /\ \/ /\ NoFault
        /\ held' = held \cup {[hash |-> nextHash, sid |-> procs[p].sid,
                               client |-> procs[p].client, from |-> 0]}
     \/ Fault /\ UNCHANGED held
  /\ Return(p)
  /\ UNCHANGED <<sess, codes, blocked, now, ended, cause, replayed>>

-----------------------------------------------------------------------------
(* Refresh *)

\* A client presents a token it was given, at any later time and any number of
\* times.
Refresh(p, t, c) ==
  /\ Free(p, "refresh")
  /\ procs' = [procs EXCEPT ![p] = [Idle EXCEPT !.op = "refresh", !.pc = "lookup",
                 !.hash = t.hash, !.asked = c, !.late = t.sid \in ended, !.barred = blocked]]
  /\ cause' = IF \/ lookups[t.hash].state = "consumed"
                 \/ \E q \in Procs : procs[q].op = "refresh" /\ procs[q].hash = t.hash
              THEN cause \cup {t.sid} ELSE cause
  /\ replayed' = IF lookups[t.hash].state = "consumed" THEN replayed \cup {t.sid} ELSE replayed
  /\ UNCHANGED <<rows, held, ended, blocked, now, faults>>

RevokeClientToken(p, t) ==
  /\ Free(p, "revokeToken")
  /\ procs' = [procs EXCEPT ![p] = [Idle EXCEPT !.op = "revokeToken", !.pc = "lookup",
                                                !.hash = t.hash]]
  /\ UNCHANGED <<rows, seen, blocked, now, faults>>

\* No row with the presented hash: a refresh looks whether it was consumed.
NotFound(p) == IF procs[p].op = "refresh" THEN Goto(p, "consumed") ELSE Return(p)

\* The row of the presented token was read: /revoke deletes it, a refresh
\* checks the client and the expiry.
Found(p, s, c) ==
  LET at(pc) == procs' = [procs EXCEPT ![p] = [@ EXCEPT !.pc = pc, !.sid = s, !.client = c]]
  IN CASE procs[p].op = "revokeToken" -> at("dropToken")
       [] procs[p].op = "refresh" /\ procs[p].asked # c -> Return(p)
       [] procs[p].op = "refresh" /\ procs[p].asked = c /\ IsExpired(toks[s][c]) -> at("dropToken")
       [] OTHER -> at("session")

\* GetRefreshTokenByHash: the lookup row, or for an old token the hash index.
GetLookup(p) ==
  /\ procs[p].pc = "lookup"
  /\ LET h == procs[p].hash
         l == lookups[h]
     IN \/ /\ l.state = "active"
           /\ procs' = [procs EXCEPT ![p] = [@ EXCEPT !.pc = "row", !.sid = l.sid, !.client = l.client]]
        \/ l.state = "consumed" /\ NotFound(p)
        \/ /\ l.state = "none"
           /\ \/ \E s \in Sids, c \in Clients : toks[s][c].hash = h /\ Found(p, s, c)
              \/ (\A s \in Sids, c \in Clients : toks[s][c].hash # h) /\ NotFound(p)
  /\ UNCHANGED <<rows, seen, blocked, now, faults>>

GetRow(p) ==
  /\ procs[p].pc = "row"
  /\ IF toks[procs[p].sid][procs[p].client].hash = procs[p].hash
     THEN Found(p, procs[p].sid, procs[p].client) ELSE NotFound(p)
  /\ UNCHANGED <<rows, seen, blocked, now, faults>>

\* Mutant: the replay of a consumed token is only refused.
BugGetConsumed(p) ==
  /\ procs[p].pc = "consumed" /\ Return(p)
  /\ UNCHANGED <<rows, seen, blocked, now, faults>>

\* A consumed token came back: the session it belongs to is revoked.
GetConsumed(p) ==
  /\ procs[p].pc = "consumed"
  /\ LET l == lookups[procs[p].hash]
     IN IF l.state = "consumed"
        THEN procs' = [procs EXCEPT ![p] = [@ EXCEPT !.pc = "list", !.sid = l.sid, !.client = l.client]]
        ELSE Return(p)
  /\ UNCHANGED <<rows, seen, blocked, now, faults>>

\* Mutant: the token does not die with its session.
BugGetSession(p) ==
  /\ procs[p].pc = "session" /\ Goto(p, "rotate")
  /\ UNCHANGED <<rows, seen, blocked, now, faults>>

GetSession(p) ==
  /\ procs[p].pc = "session"
  /\ LET s == sess[procs[p].sid]
     IN \/ ~s.row /\ Goto(p, "dropToken")
        \/ s.row /\ IsExpired(s) /\ Goto(p, "dropSession")
        \/ /\ s.row /\ ~IsExpired(s)
           /\ procs' = [procs EXCEPT ![p] = [@ EXCEPT !.pc = "rotate", !.expires = s.expires]]
  /\ UNCHANGED <<rows, seen, blocked, now, faults>>

\* The transaction; when its conditions fail the session is revoked.  The new
\* token is held by the process until the answer is sent.
Rotate(p) ==
  /\ procs[p].pc = "rotate"
  /\ LET s == procs[p].sid
         c == procs[p].client
     IN \/ /\ RotateRefreshToken(s, c, procs[p].hash, procs[p].expires)
           /\ \/ NoFault /\ procs' = [procs EXCEPT ![p] = [@ EXCEPT !.pc = "mint", !.expires = nextHash]]
              \/ Fault /\ Return(p)
        \/ /\ ~RotateAllowed(s, c, procs[p].hash)
           /\ NoFault /\ Goto(p, "list")
           /\ UNCHANGED <<toks, lookups, nextHash>>
  /\ UNCHANGED <<sess, codes, seen, blocked, now>>

\* Mutant: the refresh grant without its look at the deletion state.
BugMint(p) ==
  /\ procs[p].pc = "mint"
  /\ held' = held \cup {[hash |-> procs[p].expires, sid |-> procs[p].sid,
                         client |-> procs[p].client, from |-> procs[p].hash]}
  /\ Return(p)
  /\ UNCHANGED <<rows, ended, cause, replayed, blocked, now, faults>>

\* The handler refuses a blocked account after the rotation, and answers.
Mint(p) ==
  /\ procs[p].pc = "mint"
  /\ held' = IF blocked THEN held
             ELSE held \cup {[hash |-> procs[p].expires, sid |-> procs[p].sid,
                              client |-> procs[p].client, from |-> procs[p].hash]}
  /\ Return(p)
  /\ UNCHANGED <<rows, ended, cause, replayed, blocked, now, faults>>

-----------------------------------------------------------------------------
(* Revocation *)

\* Logout, RP-initiated logout and /revoke with a session's cookie, and the
\* sessions page, which names any session, also one that is gone.
Revoke(p, s) ==
  /\ Free(p, "logout") /\ (Live(s) \/ s \in ended)
  /\ Begin(p, "logout", "list", s, Nil)
  /\ cause' = cause \cup {s}
  /\ UNCHANGED <<rows, held, ended, replayed, blocked, now, faults>>

\* RevokeAll spares the session the request came from, if any.
RevokeAll(p, except) ==
  /\ Free(p, "revokeAll")
  /\ Begin(p, "revokeAll", "listSessions", except, Nil)
  /\ UNCHANGED <<rows, seen, blocked, now, faults>>

\* RevokeClients: a service unlink revokes the tokens of its product.
RevokeClients(p) ==
  /\ Free(p, "unlink") /\ use.product # {}
  /\ Begin(p, "unlink", "listSessions", Nil, Nil)
  /\ UNCHANGED <<rows, seen, blocked, now, faults>>

\* The lock of an account deletion marks the user, then revokes every session.
Lock(p) ==
  /\ Free(p, "lock")
  /\ Begin(p, "lock", "mark", Nil, Nil)
  /\ UNCHANGED <<rows, seen, blocked, now, faults>>

Mark(p) ==
  /\ procs[p].pc = "mark"
  /\ blocked' = TRUE
  /\ \/ NoFault /\ Goto(p, "listSessions")
     \/ Fault /\ Return(p)
  /\ UNCHANGED <<rows, seen, now>>

\* The deletion was cancelled.
Unblock ==
  /\ blocked
  /\ blocked' = FALSE
  /\ procs' = [p \in Procs |-> [procs[p] EXCEPT !.barred = FALSE]]
  /\ UNCHANGED <<rows, seen, now, faults>>

\* On to the next session of a loop, or back.
NextSession(p, left) ==
  IF left = {} THEN Return(p)
  ELSE \E s \in left :
         procs' = [procs EXCEPT ![p] = [@ EXCEPT !.pc = "list", !.sid = s, !.sids = left \ {s}]]

ListByUserID(p) ==
  /\ procs[p].pc = "listSessions"
  /\ LET listed == {s \in Sids : Live(s)} \ {procs[p].sid}
     IN /\ NextSession(p, listed)
        /\ cause' = IF procs[p].op = "unlink" THEN cause ELSE cause \cup listed
  /\ UNCHANGED <<rows, held, ended, replayed, blocked, now, faults>>

\* Revoke ends a session after its tokens; an unlink leaves the session.
Finish(p) ==
  IF procs[p].op = "unlink" THEN NextSession(p, procs[p].sids) ELSE Goto(p, "dropSession")

ListTokens(p) ==
  /\ procs[p].pc = "list"
  /\ LET listed == {c \in (IF procs[p].op = "unlink" THEN use.product ELSE Clients) :
                      toks[procs[p].sid][c].hash # 0}
     IN IF listed = {} THEN Finish(p)
        ELSE procs' = [procs EXCEPT ![p] = [@ EXCEPT !.pc = "delete", !.todo = listed]]
  /\ UNCHANGED <<rows, seen, blocked, now, faults>>

DeleteListed(p) ==
  /\ procs[p].pc = "delete"
  /\ \E c \in procs[p].todo :
       /\ DeleteRefreshToken(procs[p].sid, c)
       /\ \/ /\ NoFault
             /\ IF procs[p].todo = {c} THEN Finish(p)
                ELSE procs' = [procs EXCEPT ![p].todo = @ \ {c}]
          \/ Fault /\ Return(p)
  /\ UNCHANGED <<sess, lookups, nextHash, codes, seen, blocked, now>>

DropSession(p) ==
  /\ procs[p].pc = "dropSession"
  /\ Delete(procs[p].sid)
  /\ \/ NoFault /\ NextSession(p, procs[p].sids)
     \/ Fault /\ Return(p)
  /\ UNCHANGED now /\ NoteEnded
  /\ UNCHANGED <<toks, lookups, nextHash, codes, held, cause, replayed, blocked>>

DropToken(p) ==
  /\ procs[p].pc = "dropToken"
  /\ DeleteRefreshToken(procs[p].sid, procs[p].client)
  /\ NoFault \/ Fault
  /\ Return(p)
  /\ UNCHANGED <<sess, lookups, nextHash, codes, seen, blocked, now>>

-----------------------------------------------------------------------------
(* Step-up *)

\* RecordMFA reads the session ...
RecordMFA(p, s) ==
  /\ Free(p, "stepUp") /\ sess[s].row
  /\ Begin(p, "stepUp", "updateMFA", s, Nil)
  /\ UNCHANGED <<rows, seen, blocked, now, faults>>

\* ... and updates its proof attributes.  The update of a row deleted meanwhile
\* fails or leaves a row of these attributes alone, without an expiry.
UpdateMFA(p) ==
  /\ procs[p].pc = "updateMFA"
  /\ \/ sess' = [sess EXCEPT ![procs[p].sid].row = TRUE]
     \/ ~sess[procs[p].sid].row /\ UNCHANGED sess
  /\ NoFault \/ Fault
  /\ Return(p)
  /\ UNCHANGED <<toks, lookups, nextHash, codes, seen, blocked, now>>

-----------------------------------------------------------------------------
(* The environment *)

\* A call failed without effect, or the instance stopped.
Crash(p) ==
  /\ procs[p].pc # "idle"
  /\ Fault /\ Return(p)
  /\ UNCHANGED <<rows, seen, blocked, now>>

Tick ==
  /\ now < use.time
  /\ now' = now + 1
  /\ UNCHANGED sess /\ NoteEnded
  /\ UNCHANGED <<toks, lookups, nextHash, codes, held, cause, replayed, blocked, procs, faults>>

\* DynamoDB removes an expired row at some later time; codes expire too.
Prune ==
  /\ "ttl" \in use.ops
  /\ \/ \E s \in Sids : /\ sess[s].row /\ sess[s].expires # Never /\ IsExpired(sess[s])
                        /\ Delete(s) /\ UNCHANGED <<toks, lookups, codes>>
     \/ \E s \in Sids, c \in Clients :
          /\ toks[s][c].hash # 0 /\ IsExpired(toks[s][c])
          /\ DeleteRefreshToken(s, c) /\ UNCHANGED <<sess, lookups, codes>>
     \/ \E h \in Hashes : /\ lookups[h].state # "none" /\ IsExpired(lookups[h])
                          /\ lookups' = [lookups EXCEPT ![h] = NoLookup]
                          /\ UNCHANGED <<sess, toks, codes>>
     \/ \E x \in codes : codes' = codes \ {x} /\ UNCHANGED <<sess, toks, lookups>>
  /\ UNCHANGED <<nextHash, seen, blocked, procs, now, faults>>

Continue(p) ==
  \/ Create(p)
  \/ ExchangeUser(p) \/ ExchangeSession(p) \/ IssueGet(p) \/ IssuePut(p)
  \/ GetLookup(p) \/ GetRow(p) \/ GetConsumed(p) \/ GetSession(p) \/ Rotate(p) \/ Mint(p)
  \/ Mark(p) \/ ListByUserID(p) \/ ListTokens(p) \/ DeleteListed(p)
  \/ DropSession(p) \/ DropToken(p) \/ UpdateMFA(p)

Start(p) ==
  \/ \E s \in use.sids : Login(p, s) \/ Revoke(p, s) \/ RecordMFA(p, s)
  \/ \E s \in use.sids, c \in use.clients : Exchange(p, s, c)
  \/ \E t \in held, c \in use.clients : Refresh(p, t, c)
  \/ \E t \in held : RevokeClientToken(p, t)
  \/ \E s \in use.sids \cup {Nil} : RevokeAll(p, s)
  \/ RevokeClients(p) \/ Lock(p)

Next ==
  /\ UNCHANGED use
  /\ \/ Tick \/ Prune \/ Unblock
     \/ \E s \in use.sids, c \in use.clients : Authorize(s, c)
     \/ \E p \in Procs : Start(p) \/ Continue(p) \/ Crash(p)

Spec == Init /\ [][Next]_vars

-----------------------------------------------------------------------------
(* The component implements the token chains it promises. *)

\* A token is usable while it is the current one of a live session.
Family == INSTANCE TokenFamily WITH
  opened  <- ended \cup {s \in Sids : Live(s)},
  alive   <- {s \in Sids : Live(s)},
  current <- [s \in Sids |-> [c \in Clients |-> IF Live(s) THEN toks[s][c].hash ELSE 0]],
  seen    <- 1..(nextHash - 1)

\* Under every interleaving and failure, a session that ended never opens again,
\* its tokens are unusable from then on, and a chain only moves to new tokens.
ImplementsFamily == Family!FSpec

-----------------------------------------------------------------------------
(* Safety *)

\* A refresh token is traded at most once, however many requests present it at
\* the same time: the rotation is one conditional transaction.
OneSuccessor ==
  \A t, u \in held : t.from = u.from /\ t.from # 0 => t = u

\* A token row and its lookup agree: the current token of a chain is found by its
\* hash (or predates lookups), and is never one that was already consumed.
CurrentIsActive ==
  \A s \in Sids, c \in Clients :
    LET t == toks[s][c]
    IN t.hash # 0 /\ ~IsExpired(t) =>
         \/ lookups[t.hash] = ActiveLookup(s, c, t.expires)
         \/ lookups[t.hash] = NoLookup /\ t.hash = 1

\* A chain of refresh tokens never forks, and always knows its last token.
ChainSound == OneSuccessor /\ CurrentIsActive

\* p hands a new refresh token, and the access token with it, to its client.
Delivers(p) == procs'[p] # procs[p] /\ held' # held

\* Whoever asks after the session ended gets nothing, also with a code, or with a
\* token issued while the revocation was already past it.
EndedGetsNothing == [][\A p \in Procs : Delivers(p) => ~procs[p].late]_vars

\* From the start of a deletion's grace period, no credential that survived the
\* revocation, or was created during it, gets a token.
BarredGetsNothing == [][\A p \in Procs : Delivers(p) => ~procs[p].barred]_vars

\* A session is ended by someone who asks for it, or by a token that was presented
\* twice.
EndsForCause ==
  [][\A s \in Sids : Live(s) /\ ~sess'[s].row => s \in cause]_vars

\* A token presented after its rotation ends the session, whatever ran at the same
\* time: when all requests are done and none of them failed, it is over.
ReplayEndsSession ==
  faults = 0 /\ (\A p \in Procs : procs[p].pc = "idle") =>
    \A s \in replayed : ~Live(s)
=============================================================================
