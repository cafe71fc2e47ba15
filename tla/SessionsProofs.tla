--------------------------- MODULE SessionsProofs ---------------------------
(***************************************************************************)
(* Sessions and token chains, for every number of sessions, clients,       *)
(* requests, tokens and failed calls.                                      *)
(*                                                                         *)
(* A request acts on what it read steps ago.  The inductive invariant says *)
(* what it may still rely on (Good): the session it names has been opened, *)
(* the token it presents belongs to the chain it goes on with, the token   *)
(* it traded is current nowhere.  Of the rows it says that a token belongs *)
(* to one chain for ever (OwnedOnce), and that what is current is found.    *)
(***************************************************************************)
EXTENDS Sessions, TLAPS

\* The session has been open, now or once.
Known(s) == s \in ended \/ Live(s)

\* A session row that is there was opened; one that is gone has no expiry left;
\* an ended session is never live again.
SessionsOK ==
  \A s \in Sids :
    /\ sess[s].row => Known(s)
    /\ ~sess[s].row => sess[s].expires = Never
    /\ s \in ended => ~Live(s)

\* Token h belongs to the chain of session s and client c: a row, a lookup, a
\* client or an answer on its way says so.
Belongs(h, s, c) ==
  \/ h # 0 /\ toks[s][c].hash = h
  \/ lookups[h].state # "none" /\ lookups[h].sid = s /\ lookups[h].client = c
  \/ \E t \in held : t.hash = h /\ t.sid = s /\ t.client = c
  \/ \E p \in Procs : /\ procs[p].pc = "mint" /\ procs[p].expires = h
                      /\ procs[p].sid = s /\ procs[p].client = c

OwnedOnce ==
  /\ \A h \in Hashes, s \in Sids, c \in Clients :
       Belongs(h, s, c) => h < nextHash /\ Known(s)
  /\ \A h \in Hashes, s1, s2 \in Sids, c1, c2 \in Clients :
       Belongs(h, s1, c1) /\ Belongs(h, s2, c2) => s1 = s2 /\ c1 = c2

\* CurrentIsActive without its premise on the clock; lookups name their chain.
LookupsOK ==
  /\ \A s \in Sids, c \in Clients :
       LET t == toks[s][c]
       IN t.hash # 0 =>
            \/ lookups[t.hash] = ActiveLookup(s, c, t.expires)
            \/ lookups[t.hash] = NoLookup /\ (t.hash = 1 \/ IsExpired(t))
  /\ \A h \in Hashes : lookups[h].state # "none" =>
       lookups[h].sid \in Sids /\ lookups[h].client \in Clients

\* No row has the token.
Spent(h) == \A s \in Sids, c \in Clients : toks[s][c].hash # h

\* A token that was traded is spent; it is traded once.
TradedOK ==
  /\ \A t \in held : t.from # 0 => t.from < nextHash /\ Spent(t.from)
  /\ OneSuccessor

Chained == {"row", "session", "rotate", "mint"}
OnToken == Chained \cup {"lookup", "consumed"}
OnClient == Chained \cup {"user", "getSession", "issueGet", "issuePut", "dropToken"}
OnSession == OnClient \cup {"list", "delete", "dropSession", "updateMFA"}

\* The token a request presents is one that reached its client, of session s.
Presents(x, s) == \E t \in held : t.hash = x.hash /\ t.sid = s

\* What request x may rely on.
Names(x) ==
  /\ x.pc = "create" => x.sid \in Sids /\ ~Known(x.sid)
  /\ x.pc \in OnSession => x.sid \in Sids /\ Known(x.sid)
  /\ x.pc \in OnClient => x.client \in Clients
  /\ x.pc \in {"lookup", "row"} => x.op \in {"refresh", "revokeToken"}
  /\ x.pc \in {"consumed", "session", "rotate", "mint"} => x.op = "refresh"
  /\ \A s \in x.sids : Known(s)

Trades(x) ==
  /\ x.pc \in OnToken => x.hash \in Hashes /\ x.hash < nextHash
  /\ x.pc \in {"lookup", "consumed"} => \E s \in Sids : Presents(x, s)
  /\ x.pc \in Chained => \E t \in held : t.hash = x.hash /\ t.sid = x.sid /\ t.client = x.client
  /\ x.pc = "rotate" /\ Live(x.sid) => x.expires = sess[x.sid].expires
  /\ x.pc = "mint" => /\ x.expires \in Hashes /\ x.expires < nextHash
                      /\ Spent(x.hash) /\ \A t \in held : t.from # x.hash

Allowed(x) ==
  /\ x.pc \in {"user", "getSession", "issueGet"} /\ x.late => x.sid \in ended
  /\ x.pc \in {"lookup", "row", "session"} /\ x.op = "refresh" /\ x.late =>
       \E s \in ended : Presents(x, s)
  /\ x.pc \in {"issuePut", "rotate", "mint"} => ~x.late
  /\ x.barred => blocked
  /\ x.pc \in {"getSession", "issueGet", "issuePut"} => ~x.barred

Good(x) == Names(x) /\ Trades(x) /\ Allowed(x)

\* Two requests never open the same session, nor trade the same token.
Apart ==
  \A p, q \in Procs : p # q =>
    /\ procs[p].pc = "create" /\ procs[q].pc = "create" => procs[p].sid # procs[q].sid
    /\ procs[p].pc = "mint" /\ procs[q].pc = "mint" => procs[p].hash # procs[q].hash

\* A consumed token is remembered as long as its session lives.
Remembered ==
  \A h \in Hashes : lookups[h].state = "consumed" /\ Live(lookups[h].sid) =>
    lookups[h].expires = sess[lookups[h].sid].expires

\* Request x will end session s because one of its tokens came back.
Ends(x, s) ==
  /\ x.op = "refresh"
  /\ \/ x.pc \in {"lookup", "consumed"} /\ lookups[x.hash].state = "consumed" /\ lookups[x.hash].sid = s
     \/ x.pc \in {"list", "delete", "dropSession"} /\ x.sid = s

ReplayOK ==
  /\ \A s \in replayed : Known(s)
  /\ faults = 0 => \A s \in replayed : Live(s) => \E p \in Procs : Ends(procs[p], s)

CodesOK == \A x \in codes : Known(x[1])

\* The inductive invariant.
Inv ==
  /\ TypeOK /\ SessionsOK /\ CodesOK /\ OwnedOnce /\ LookupsOK /\ TradedOK
  /\ (\A p \in Procs : Good(procs[p])) /\ Apart
  /\ Remembered /\ ReplayOK

-----------------------------------------------------------------------------
(* Records and processes *)

LEMMA StepNames ==
  /\ \A pc \in {"idle", "create", "user", "getSession", "issueGet", "issuePut", "lookup", "row",
                "session", "rotate", "mint", "consumed", "mark", "listSessions", "list", "delete",
                "dropToken", "dropSession", "updateMFA"} : pc \in Steps
  /\ \A op \in {"login", "exchange", "refresh", "revokeToken", "logout", "revokeAll", "unlink",
                "lock", "stepUp", "idle"} : op \in OpNames \cup {"idle"}
BY DEF Steps, OpNames

LEMMA IdleType == Idle \in Proc
BY SessionsAssumption DEF Idle, Proc, Steps, OpNames, Never

LEMMA IdleGood == Idle.pc = "idle" /\ Good(Idle)
<1>1. Idle.pc = "idle" /\ Idle.sids = {} /\ Idle.barred = FALSE
  BY DEF Idle
<1> QED BY <1>1 DEF Good, Names, Trades, Allowed, Chained, OnToken, OnClient, OnSession

LEMMA ProcSet ==
  ASSUME procs \in [Procs -> Proc], NEW p \in Procs, NEW x \in Proc,
         procs' = [procs EXCEPT ![p] = x]
  PROVE  /\ procs' \in [Procs -> Proc] /\ procs'[p] = x
         /\ \A q \in Procs : q # p => procs'[q] = procs[q]
OBVIOUS

\* What one step may do to the rows that requests rely on.
Stable ==
  /\ \A s \in Sids : Known(s) => Known(s)' /\ (Live(s)' => Live(s) /\ sess'[s].expires = sess[s].expires)
  /\ ended \subseteq ended' /\ held \subseteq held' /\ nextHash <= nextHash'
  /\ \A h \in Hashes : h < nextHash /\ Spent(h) => Spent(h)'
  /\ blocked => blocked'

LEMMA GoodStable ==
  ASSUME TypeOK, TypeOK', Stable, NEW x \in Proc, Good(x),
         x.pc = "create" => ~Known(x.sid)',
         x.pc = "mint" => \A t \in held' : t.from # x.hash
  PROVE  Good(x)'
<1>1. Names(x)'
  <2>1. \A s \in x.sids : s \in Sids
    BY DEF Proc
  <2> QED BY <2>1 DEF Good, Names, Stable
<1>2. Trades(x)'
  BY DEF Good, Names, Trades, Stable, Presents, TypeOK, Hashes, Chained, OnToken, OnClient, OnSession
<1>3. Allowed(x)'
  BY DEF Good, Allowed, Stable, Presents
<1> QED BY <1>1, <1>2, <1>3 DEF Good

LEMMA GoodStep ==
  ASSUME TypeOK, TypeOK', Stable, \A q \in Procs : Good(procs[q]), NEW p \in Procs, NEW x \in Proc,
         procs' = [procs EXCEPT ![p] = x], Good(x)',
         \A q \in Procs : q # p =>
           /\ procs[q].pc = "create" => ~Known(procs[q].sid)'
           /\ procs[q].pc = "mint" => \A t \in held' : t.from # procs[q].hash
  PROVE  \A q \in Procs : Good(procs[q])'
<1> SUFFICES ASSUME NEW q \in Procs PROVE Good(procs[q])'
  OBVIOUS
<1>1. CASE q = p
  <2>1. procs'[q] = x
    BY <1>1 DEF TypeOK
  <2> QED BY <2>1 DEF Good, Names, Trades, Allowed, Presents
<1>2. CASE q # p
  <2>1. PICK y : y = procs[q]
    OBVIOUS
  <2>2. procs'[q] = y /\ y \in Proc /\ Good(y)
    BY <1>2, <2>1 DEF TypeOK
  <2>3. Good(y)'
    BY <1>2, <2>1, <2>2, GoodStable
  <2> QED BY <2>2, <2>3 DEF Good, Names, Trades, Allowed, Presents
<1> QED BY <1>1, <1>2

-----------------------------------------------------------------------------
(* Steps that generate and deliver no token *)

\* Sessions open or end, tokens are dropped, expired lookups disappear.
Calm ==
  /\ UNCHANGED <<nextHash, held>> /\ now <= now' /\ ended \subseteq ended' /\ (blocked => blocked')
  /\ \A s \in Sids : Known(s) => Known(s)' /\ (Live(s)' => Live(s) /\ sess'[s].expires = sess[s].expires)
  /\ \A s \in Sids, c \in Clients : toks'[s][c] = toks[s][c] \/ toks'[s][c] = NoToken
  /\ \A h \in Hashes : \/ lookups'[h] = lookups[h]
                       \/ lookups'[h] = NoLookup /\ IsExpired(lookups[h])
  /\ \A x \in codes' : x \in codes \/ Known(x[1])

LEMMA CalmRows ==
  ASSUME Inv, TypeOK', Calm, \A q \in Procs : procs'[q].pc = "mint" => procs'[q] = procs[q]
  PROVE  CodesOK' /\ OwnedOnce' /\ LookupsOK' /\ TradedOK' /\ Remembered' /\ Stable
<1> USE DEF TypeOK
<1>0. TypeOK
  BY DEF Inv
<1>1. \A h \in Hashes, s \in Sids, c \in Clients : Belongs(h, s, c)' => Belongs(h, s, c)
  <2> SUFFICES ASSUME NEW h \in Hashes, NEW s \in Sids, NEW c \in Clients, Belongs(h, s, c)'
               PROVE  Belongs(h, s, c)
    OBVIOUS
  <2>1. CASE h # 0 /\ toks'[s][c].hash = h
    BY <2>1 DEF Calm, Belongs, NoToken
  <2>2. CASE lookups'[h].state # "none" /\ lookups'[h].sid = s /\ lookups'[h].client = c
    BY <2>2 DEF Calm, Belongs, NoLookup
  <2>3. CASE \E t \in held' : t.hash = h /\ t.sid = s /\ t.client = c
    BY <2>3 DEF Calm, Belongs
  <2>4. CASE \E p \in Procs : /\ procs'[p].pc = "mint" /\ procs'[p].expires = h
                              /\ procs'[p].sid = s /\ procs'[p].client = c
    BY <2>4 DEF Belongs
  <2> QED BY <2>1, <2>2, <2>3, <2>4 DEF Belongs
<1>2. \A s \in Sids : Known(s) => Known(s)'
  BY DEF Calm
<1>3. OwnedOnce'
  BY <1>0, <1>1, <1>2 DEF Inv, OwnedOnce, Calm
<1>4. CodesOK'
  BY <1>0, <1>2 DEF Inv, CodesOK, Calm
<1>5. LookupsOK'
  <2>1. ASSUME NEW s \in Sids, NEW c \in Clients, toks'[s][c].hash # 0
        PROVE  \/ lookups'[toks'[s][c].hash] = ActiveLookup(s, c, toks'[s][c].expires)
               \/ /\ lookups'[toks'[s][c].hash] = NoLookup
                  /\ toks'[s][c].hash = 1 \/ IsExpired(toks[s][c])'
    <3>1. toks'[s][c] = toks[s][c]
      BY <2>1 DEF Calm, NoToken
    <3>2. toks[s][c].hash \in Hashes /\ toks[s][c].expires \in Int
      BY <1>0, <2>1, <3>1 DEF RefreshToken, Hashes
    <3>3. IsExpired(toks[s][c]) => IsExpired(toks[s][c])'
      BY <1>0, <3>1, <3>2 DEF Calm, IsExpired
    <3>4. CASE lookups[toks[s][c].hash] = ActiveLookup(s, c, toks[s][c].expires)
      BY <3>1, <3>2, <3>3, <3>4 DEF Calm, ActiveLookup, IsExpired
    <3>5. CASE lookups[toks[s][c].hash] = NoLookup /\ (toks[s][c].hash = 1 \/ IsExpired(toks[s][c]))
      BY <3>1, <3>2, <3>3, <3>5 DEF Calm
    <3> QED BY <2>1, <3>1, <3>4, <3>5 DEF Inv, LookupsOK
  <2>2. \A h \in Hashes : lookups'[h].state # "none" => lookups'[h].sid \in Sids /\ lookups'[h].client \in Clients
    BY DEF Inv, LookupsOK, Calm, NoLookup
  <2> QED BY <2>1, <2>2 DEF LookupsOK, ActiveLookup
<1>6. \A h \in Hashes : Spent(h) => Spent(h)'
  BY DEF Spent, Calm, NoToken, Hashes
<1>7. TradedOK'
  <2>1. \A t \in held : t.from # 0 => t.from \in Hashes
    BY <1>0, SessionsAssumption DEF Held, Hashes
  <2> QED BY <1>6, <2>1 DEF Inv, TradedOK, OneSuccessor, Calm
<1>8. Remembered'
  <2> SUFFICES ASSUME NEW h \in Hashes, lookups'[h].state = "consumed", Live(lookups[h].sid)'
               PROVE  lookups'[h].expires = sess'[lookups'[h].sid].expires
    BY DEF Remembered, Live, IsExpired
  <2>1. lookups'[h] = lookups[h]
    BY DEF Calm, NoLookup
  <2>2. lookups[h].sid \in Sids /\ lookups[h].client \in Clients
    BY <2>1 DEF Inv, LookupsOK
  <2>3. Known(lookups[h].sid)
    BY <2>1, <2>2 DEF Inv, OwnedOnce, Belongs
  <2>4. PICK s \in Sids : s = lookups[h].sid
    BY <2>2
  <2>5. Live(s)'
    BY <2>1, <2>4 DEF Live, IsExpired
  <2>6. Live(s) /\ sess'[s].expires = sess[s].expires
    BY <2>3, <2>4, <2>5 DEF Calm
  <2> QED BY <2>1, <2>4, <2>6 DEF Inv, Remembered
<1>9. Stable
  BY <1>0, <1>6 DEF Stable, Calm
<1> QED BY <1>3, <1>4, <1>5, <1>7, <1>8, <1>9

LEMMA SameRecord ==
  ASSUME NEW x, NEW p, procs'[p] = x
  PROVE  /\ Good(x)' => Good(procs[p])'
         /\ \A s : Ends(x, s)' => Ends(procs[p], s)'
BY DEF Good, Names, Trades, Allowed, Presents, Ends

LEMMA CalmStep ==
  ASSUME Inv, TypeOK', SessionsOK', Calm, UNCHANGED replayed, faults' = 0 => faults = 0,
         \A q \in Procs : \/ procs'[q] = procs[q]
                          \/ Good(procs[q])' /\ procs'[q].pc \notin {"create", "mint"},
         \A q \in Procs : procs'[q] = procs[q] /\ procs[q].pc = "create" => ~Known(procs[q].sid)',
         faults' = 0 => \A q \in Procs, s \in Sids : Live(s)' /\ Ends(procs[q], s) => Ends(procs[q], s)'
  PROVE  Inv'
<1>1. \A q \in Procs : procs'[q].pc = "mint" => procs'[q] = procs[q]
  OBVIOUS
<1>2. CodesOK' /\ OwnedOnce' /\ LookupsOK' /\ TradedOK' /\ Remembered' /\ Stable
  BY <1>1, CalmRows
<1>3. \A q \in Procs : Good(procs[q])'
  <2> SUFFICES ASSUME NEW q \in Procs, procs'[q] = procs[q] PROVE Good(procs[q])'
    OBVIOUS
  <2>1. PICK x : x = procs[q]
    OBVIOUS
  <2>2. x \in Proc /\ Good(x)
    BY <2>1 DEF Inv, TypeOK
  <2>3. x.pc = "create" => ~Known(x.sid)'
    BY <2>1
  <2>4. x.pc = "mint" => \A t \in held' : t.from # x.hash
    BY <2>2 DEF Good, Trades, Calm
  <2>5. TypeOK
    BY DEF Inv
  <2>6. Good(x)'
    BY <1>2, <2>2, <2>3, <2>4, <2>5, GoodStable
  <2> QED BY <2>1, <2>6, SameRecord
<1>4. Apart'
  BY DEF Inv, Apart
<1>5. ReplayOK'
  <2>1. \A s \in replayed : Known(s)' /\ (Live(s)' => Live(s))
    BY DEF Inv, ReplayOK, TypeOK, Calm
  <2> QED BY <2>1 DEF Inv, TypeOK, ReplayOK
<1> QED BY <1>2, <1>3, <1>4, <1>5 DEF Inv

\* A step of one request.
LEMMA WriteStep ==
  ASSUME Inv, TypeOK', SessionsOK', Calm, UNCHANGED <<lookups, replayed>>, faults' = 0 => faults = 0,
         NEW p \in Procs, NEW x \in Proc,
         procs' = [procs EXCEPT ![p] = x], Good(x), x.pc \notin {"create", "mint"},
         \A q \in Procs : q # p /\ procs[q].pc = "create" => ~Known(procs[q].sid)',
         faults' = 0 => \A s \in Sids : Live(s)' /\ Ends(procs[p], s) => Ends(x, s)
  PROVE  Inv'
<1>1. procs'[p] = x /\ \A q \in Procs : q # p => procs'[q] = procs[q]
  BY ProcSet DEF Inv, TypeOK
<1>2. Stable
  BY <1>1, CalmRows
<1>3. Good(x)'
  BY <1>2, GoodStable DEF Inv
<1>5. faults' = 0 => \A q \in Procs, s \in Sids : Live(s)' /\ Ends(procs[q], s) => Ends(procs[q], s)'
  BY <1>1 DEF Ends
<1>6. \A q \in Procs : procs'[q] = procs[q] \/ (Good(procs[q])' /\ procs'[q].pc \notin {"create", "mint"})
  <2> TAKE q \in Procs
  <2>1. CASE q = p
    BY <1>1, <1>3, <2>1, SameRecord
  <2>2. CASE q # p
    BY <1>1, <2>2
  <2> QED BY <2>1, <2>2
<1>7. \A q \in Procs : procs'[q] = procs[q] /\ procs[q].pc = "create" => ~Known(procs[q].sid)'
  BY <1>1
<1> QED BY <1>5, <1>6, <1>7, CalmStep

-----------------------------------------------------------------------------
(* Steps of one request that write no row *)

\* No row changes but for a code that is used up.
Still ==
  /\ UNCHANGED <<use, sess, toks, lookups, nextHash, held, ended, blocked, now>>
  /\ codes' \subseteq codes /\ cause' \subseteq Sids /\ replayed' \subseteq Sids /\ faults' \in Nat

Quiet == Still /\ UNCHANGED replayed

LEMMA StillCalm ==
  ASSUME Inv, Still
  PROVE  Calm /\ SessionsOK'
<1>1. now \in Int
  BY DEF Inv, TypeOK
<1> QED BY <1>1 DEF Inv, SessionsOK, Still, Calm, Known, Live, IsExpired

LEMMA StillStep ==
  ASSUME Inv, Still, NEW p \in Procs, NEW x \in Proc,
         procs' = [procs EXCEPT ![p] = x], Good(x), x.pc # "mint",
         x.pc = "create" => \A q \in Procs : procs[q].pc = "create" => procs[q].sid # x.sid,
         \A s \in replayed' : s \in replayed \/ Ends(x, s),
         faults' = 0 => faults = 0 /\ \A s \in Sids : Live(s) /\ Ends(procs[p], s) => Ends(x, s)
  PROVE  Inv'
<1>0. TypeOK'
  BY ProcSet DEF Inv, TypeOK, Still
<1> USE ProcSet, <1>0 DEF TypeOK
<1>1. SessionsOK' /\ CodesOK' /\ OwnedOnce' /\ LookupsOK' /\ TradedOK' /\ Remembered' /\ Stable
  <2>1. Calm /\ SessionsOK'
    BY StillCalm
  <2>2. \A q \in Procs : procs'[q].pc = "mint" => procs'[q] = procs[q]
    BY DEF Inv
  <2> QED BY <2>1, <2>2, CalmRows
<1>2. Good(x)'
  BY DEF Good, Names, Trades, Allowed, Presents, Spent, Known, Live, IsExpired, Still
<1>4. \A q \in Procs : Good(procs[q])'
  <2>1. \A q \in Procs : q # p =>
           /\ procs[q].pc = "create" => ~Known(procs[q].sid)'
           /\ procs[q].pc = "mint" => \A t \in held' : t.from # procs[q].hash
    BY DEF Inv, Good, Names, Trades, Known, Live, IsExpired, Still
  <2> QED BY <1>1, <1>2, <2>1, GoodStep DEF Inv
<1>5. Apart'
  BY DEF Inv, Apart
<1>6. ReplayOK'
  <2>0. \A s \in replayed' : Known(s)'
    <3>1. \A h \in Hashes : lookups[h].state # "none" => Known(lookups[h].sid)
      BY DEF Inv, LookupsOK, OwnedOnce, Belongs
    <3>2. \A s : Ends(x, s) => Known(s)
      BY <3>1 DEF Good, Names, Trades, Ends, OnSession, OnToken
    <3> QED BY <3>2 DEF Inv, ReplayOK, Still, Known, Live, IsExpired
  <2> SUFFICES ASSUME faults' = 0, NEW s \in replayed', Live(s) PROVE \E q \in Procs : Ends(procs[q], s)'
    BY <2>0 DEF ReplayOK, Still, Live, IsExpired
  <2>1. PICK q \in Procs : Ends(procs'[q], s)
    <3>1. CASE Ends(x, s)
      BY <3>1 DEF Inv
    <3>2. CASE s \in replayed
      <4>1. PICK q \in Procs : Ends(procs[q], s)
        BY <3>2 DEF Inv, ReplayOK
      <4> QED BY <4>1 DEF Inv
    <3> QED BY <3>1, <3>2
  <2> QED BY <2>1 DEF Ends, Still
<1> QED BY <1>0, <1>1, <1>4, <1>5, <1>6 DEF Inv

LEMMA QuietStep ==
  ASSUME Inv, Quiet, NEW p \in Procs, NEW x \in Proc,
         procs' = [procs EXCEPT ![p] = x], Good(x), x.pc \notin {"create", "mint"},
         faults' = 0 => faults = 0 /\ \A s \in Sids : Live(s) /\ Ends(procs[p], s) => Ends(x, s)
  PROVE  Inv'
BY StillStep DEF Quiet

\* Request y for session s arrives as x.
Marked(x, y, s) == x = [y EXCEPT !.late = s \in ended, !.barred = blocked]
MarksOK(x, s) == (x.late => s \in ended) /\ (x.barred => blocked)

LEMMA Stamped ==
  ASSUME NEW y \in Proc, NEW s, blocked \in BOOLEAN, NEW x, Marked(x, y, s)
  PROVE  /\ x \in Proc /\ x.op = y.op /\ x.pc = y.pc /\ x.sid = y.sid /\ x.client = y.client
         /\ x.hash = y.hash /\ x.sids = y.sids
         /\ MarksOK(x, s)
<1>1. x.late \in BOOLEAN /\ x.barred \in BOOLEAN
  BY DEF Proc, Marked
<1>2. x = [y EXCEPT !.late = x.late, !.barred = x.barred]
  BY DEF Proc, Marked
<1>3. x \in Proc
  BY <1>1, <1>2 DEF Proc
<1>4. MarksOK(x, s)
  BY DEF Proc, Marked, MarksOK
<1> QED BY <1>2, <1>3, <1>4 DEF Proc

LEMMA QuietReturn ==
  ASSUME Inv, Quiet, NEW p \in Procs, Return(p), faults' = 0 => faults = 0,
         faults' = 0 => \A s \in Sids : ~Live(s) \/ ~Ends(procs[p], s)
  PROVE  Inv'
BY IdleType, IdleGood, QuietStep DEF Return

\* The steps of an operation that have nothing to rely on but the session.
LEMMA SimpleGood ==
  ASSUME NEW x \in Proc, x.pc \in {"list", "delete", "dropSession", "updateMFA", "mark", "listSessions"},
         x.pc \in OnSession => x.sid \in Sids /\ Known(x.sid),
         \A s \in x.sids : Known(s), x.barred => blocked
  PROVE  Good(x)
BY DEF Good, Names, Trades, Allowed, Chained, OnToken, OnClient, OnSession

LEMMA QuietStarts ==
  ASSUME Inv, UNCHANGED use, NEW p \in Procs,
         \/ \E s \in use.sids : Revoke(p, s) \/ RecordMFA(p, s)
         \/ \E s \in use.sids, c \in use.clients : Exchange(p, s, c)
         \/ \E s \in use.sids \cup {Nil} : RevokeAll(p, s)
         \/ RevokeClients(p) \/ Lock(p)
  PROVE  Inv'
<1>1. /\ procs \in [Procs -> Proc] /\ faults \in Nat /\ cause \subseteq Sids
      /\ use.sids \subseteq Sids /\ use.clients \subseteq Clients
  BY SessionsAssumption DEF Inv, TypeOK
<1>2. Quiet /\ faults' = faults /\ procs[p].pc = "idle"
  BY <1>1 DEF Quiet, Still, Inv, TypeOK, Revoke, RecordMFA, Exchange, RevokeAll, RevokeClients, Lock, Free, rows, seen
<1>3. ASSUME NEW op \in OpNames \cup {"idle"}, NEW pc \in Steps, NEW s \in Sids \cup {Nil},
             NEW c \in Clients \cup {Nil}, Begin(p, op, pc, s, c),
             \/ pc \in {"listSessions", "mark"}
             \/ pc \in {"list", "updateMFA"} /\ s \in Sids /\ Known(s)
             \/ pc = "user" /\ s \in Sids /\ c \in Clients /\ Known(s)
      PROVE  Inv'
  <2>1. blocked \in BOOLEAN /\ Idle \in Proc /\ Idle.sids = {}
    BY IdleType DEF Inv, TypeOK, Idle
  <2>2. PICK y : y = [Idle EXCEPT !.op = op, !.pc = pc, !.sid = s, !.client = c]
    OBVIOUS
  <2>3. y \in Proc /\ y.pc = pc /\ y.sid = s /\ y.client = c /\ y.sids = {}
    BY <2>1, <2>2 DEF Proc
  <2>4. PICK x : Marked(x, y, s)
    BY DEF Marked
  <2>5. /\ x \in Proc /\ x.pc = pc /\ x.sid = s /\ x.client = c
        /\ MarksOK(x, s) /\ x.sids = {}
    BY <2>1, <2>3, <2>4, Stamped
  <2>6. Good(x)
    BY <1>3, <2>5 DEF MarksOK, Good, Names, Trades, Allowed, Chained, OnToken, OnClient, OnSession
  <2>7. procs' = [procs EXCEPT ![p] = x]
    BY <1>3, <2>2, <2>4 DEF Begin, Marked
  <2> QED BY <1>2, <1>3, <2>5, <2>6, <2>7, QuietStep DEF Ends
<1>4. ASSUME NEW s \in use.sids, Revoke(p, s) PROVE Inv'
  BY <1>1, <1>3, <1>4, StepNames DEF Revoke, Known
<1>5. ASSUME NEW s \in use.sids, RecordMFA(p, s) PROVE Inv'
  <2>1. Known(s)
    BY <1>1, <1>5 DEF RecordMFA, Inv, SessionsOK
  <2> QED BY <1>1, <1>3, <1>5, <2>1, StepNames DEF RecordMFA
<1>6. ASSUME NEW s \in use.sids, NEW c \in use.clients, Exchange(p, s, c) PROVE Inv'
  <2>1. Known(s)
    BY <1>1, <1>6 DEF Exchange, Inv, CodesOK
  <2> QED BY <1>1, <1>3, <1>6, <2>1, StepNames DEF Exchange
<1>7. ASSUME NEW s \in use.sids \cup {Nil}, RevokeAll(p, s) PROVE Inv'
  BY <1>1, <1>3, <1>7, StepNames DEF RevokeAll
<1>8. CASE RevokeClients(p)
  BY <1>3, <1>8, StepNames DEF RevokeClients
<1>9. CASE Lock(p)
  BY <1>3, <1>9, StepNames DEF Lock
<1> QED BY <1>4, <1>5, <1>6, <1>7, <1>8, <1>9

\* The code exchange up to the new token.
LEMMA QuietExchange ==
  ASSUME Inv, UNCHANGED use, NEW p \in Procs, ExchangeUser(p) \/ ExchangeSession(p) \/ IssueGet(p)
  PROVE  Inv'
<1>1. /\ procs[p] \in Proc /\ Good(procs[p]) /\ faults \in Nat /\ cause \subseteq Sids
      /\ sess \in [Sids -> Session]
  BY DEF Inv, TypeOK
<1>2. Quiet /\ faults' = faults /\ procs[p].pc \in {"user", "getSession", "issueGet"}
  BY <1>1 DEF Quiet, Still, Inv, TypeOK, ExchangeUser, ExchangeSession, IssueGet, rows, seen
<1>3. /\ procs[p].sid \in Sids /\ Known(procs[p].sid) /\ procs[p].client \in Clients
      /\ (\A s \in procs[p].sids : Known(s)) /\ (procs[p].barred => blocked)
      /\ procs[p].late => procs[p].sid \in ended
  BY <1>1, <1>2 DEF Good, Names, Allowed, OnClient, OnSession
<1>4. \A s : ~Ends(procs[p], s)
  BY <1>2 DEF Ends
<1>5. CASE Return(p)
  BY <1>2, <1>4, <1>5, QuietReturn
<1>6. ASSUME NEW x \in Proc, procs' = [procs EXCEPT ![p] = x], Good(x), x.pc \notin {"create", "mint"} PROVE Inv'
  BY <1>2, <1>4, <1>6, QuietStep
<1>7. ASSUME NEW pc \in {"getSession", "issueGet", "issuePut", "dropSession"}, NEW e \in Int, NEW x,
             procs' = [procs EXCEPT ![p] = x],
             \/ x = [procs[p] EXCEPT !.pc = pc] /\ e = procs[p].expires
             \/ x = [procs[p] EXCEPT !.pc = pc, !.expires = e],
             pc \in {"getSession", "issueGet", "issuePut"} => ~procs[p].barred,
             pc = "issuePut" => Live(procs[p].sid)
      PROVE  Inv'
  <2>1. /\ x \in Proc /\ x.pc = pc /\ x.sid = procs[p].sid /\ x.client = procs[p].client
        /\ x.late = procs[p].late /\ x.barred = procs[p].barred /\ x.sids = procs[p].sids
    <3>1. CASE x = [procs[p] EXCEPT !.pc = pc]
      BY <1>1, <3>1, StepNames DEF Proc
    <3>2. CASE x = [procs[p] EXCEPT !.pc = pc, !.expires = e]
      BY <1>1, <3>2, StepNames DEF Proc
    <3> QED BY <1>7, <3>1, <3>2
  <2>2. pc = "issuePut" => ~x.late
    BY <1>3, <1>7, <2>1 DEF Inv, SessionsOK
  <2>3. Names(x) /\ Trades(x)
    BY <1>3, <2>1 DEF Names, Trades, Chained, OnToken, OnClient, OnSession
  <2>4. Allowed(x)
    BY <1>3, <1>7, <2>1, <2>2 DEF Allowed
  <2> QED BY <1>6, <1>7, <2>1, <2>3, <2>4 DEF Good
<1>8. procs[p].expires \in Int
  BY SMTT(20), <1>1 DEF Proc
<1>9. CASE ExchangeUser(p)
  BY <1>3, <1>5, <1>7, <1>8, <1>9 DEF ExchangeUser, Goto
<1>10. procs[p].pc # "user" => ~procs[p].barred
  BY SMTT(20), <1>1, <1>2 DEF Good, Allowed
<1>11. CASE ExchangeSession(p)
  BY ZenonT(30), <1>5, <1>7, <1>8, <1>10, <1>11 DEF ExchangeSession, Goto
<1>12. CASE IssueGet(p)
  <2>1. sess[procs[p].sid].expires \in Int
    BY <1>1, <1>3 DEF Session
  <2> QED BY <1>5, <1>7, <1>8, <1>10, <1>12, <2>1 DEF IssueGet, Goto, Live
<1> QED BY <1>9, <1>11, <1>12

\* Reading the row of a presented token.
LEMMA QuietNotFound ==
  ASSUME Inv, Quiet, NEW p \in Procs, NotFound(p), faults' = faults, procs[p].pc \in {"lookup", "row"}
  PROVE  Inv'
<1>1. procs[p] \in Proc /\ Good(procs[p])
  BY DEF Inv, TypeOK
<1>2. CASE procs[p].op # "refresh"
  BY <1>2, QuietReturn DEF NotFound, Ends
<1>3. CASE procs[p].op = "refresh"
  <2>1. PICK x : x = [procs[p] EXCEPT !.pc = "consumed"]
    OBVIOUS
  <2>2. /\ x \in Proc /\ x.op = procs[p].op /\ x.pc = "consumed" /\ x.hash = procs[p].hash
        /\ x.sids = procs[p].sids /\ x.barred = procs[p].barred
    BY <1>1, <2>1, StepNames DEF Proc
  <2>3. Names(x) /\ Allowed(x)
    BY <1>1, <1>3, <2>2 DEF Good, Names, Allowed, OnClient, OnSession, Chained
  <2>4. Trades(x)
    <3>1. \E s \in Sids : Presents(procs[p], s)
      BY <1>1, <1>3 DEF Good, Names, Trades, Presents, Chained, OnClient, OnSession
    <3> QED BY <1>1, <2>2, <3>1 DEF Good, Trades, Presents, OnToken, Chained
  <2>5. \A s \in Sids : Ends(procs[p], s) => Ends(x, s)
    BY <2>2 DEF Ends
  <2>6. procs' = [procs EXCEPT ![p] = x]
    BY <1>3, <2>1 DEF NotFound, Goto
  <2> QED BY <2>2, <2>3, <2>4, <2>5, <2>6, QuietStep DEF Good
<1> QED BY <1>2, <1>3

LEMMA QuietFound ==
  ASSUME Inv, Quiet, NEW p \in Procs, NEW s \in Sids, NEW c \in Clients, Found(p, s, c), faults' = faults,
         procs[p].pc \in {"lookup", "row"}, toks[s][c].hash = procs[p].hash,
         procs[p].pc = "lookup" => lookups[procs[p].hash].state # "consumed"
  PROVE  Inv'
<1>1. procs[p] \in Proc /\ Good(procs[p])
  BY DEF Inv, TypeOK
<1>2. /\ procs[p].hash \in Hashes /\ procs[p].hash < nextHash /\ procs[p].op \in {"refresh", "revokeToken"}
      /\ (\A r \in procs[p].sids : Known(r)) /\ (procs[p].barred => blocked)
  BY <1>1 DEF Good, Names, Trades, Allowed, OnToken, Chained
<1>3. Belongs(procs[p].hash, s, c) /\ Known(s)
  <2>1. Belongs(procs[p].hash, s, c)
    BY <1>2, SessionsAssumption DEF Belongs, Hashes
  <2> QED BY <1>2, <2>1 DEF Inv, OwnedOnce
<1>4. \A t \in held : t.hash = procs[p].hash => t.sid = s /\ t.client = c
  <2> SUFFICES ASSUME NEW t \in held, t.hash = procs[p].hash PROVE t.sid = s /\ t.client = c
    OBVIOUS
  <2>1. t \in Held
    BY DEF Inv, TypeOK
  <2>2. t.sid \in Sids /\ t.client \in Clients /\ Belongs(procs[p].hash, t.sid, t.client)
    BY <2>1 DEF Belongs, Held
  <2> QED BY <1>2, <1>3, <2>2 DEF Inv, OwnedOnce
<1>5. \E t \in held : t.hash = procs[p].hash
  BY <1>1 DEF Good, Trades, Presents, Chained
<1>7. \A r : ~Ends(procs[p], r)
  BY DEF Ends
<1>8. ASSUME NEW pc \in {"dropToken", "session"}, pc = "session" => procs[p].op = "refresh",
             procs' = [procs EXCEPT ![p] = [procs[p] EXCEPT !.pc = pc, !.sid = s, !.client = c]]
      PROVE  Inv'
  <2>1. PICK x : x = [procs[p] EXCEPT !.pc = pc, !.sid = s, !.client = c]
    OBVIOUS
  <2>2. /\ x \in Proc /\ x.op = procs[p].op /\ x.pc = pc /\ x.sid = s /\ x.client = c
        /\ x.hash = procs[p].hash /\ x.late = procs[p].late /\ x.barred = procs[p].barred
        /\ x.sids = procs[p].sids
    BY <1>1, <2>1, StepNames DEF Proc
  <2>3. Names(x)
    BY <1>2, <1>3, <1>8, <2>2 DEF Names, OnClient, OnSession, Chained
  <2>4. Trades(x)
    BY <1>2, <1>4, <1>5, <2>2 DEF Trades, OnToken, Chained
  <2>5. Allowed(x)
    BY <1>1, <1>2, <2>2 DEF Good, Allowed, Presents
  <2>6. procs' = [procs EXCEPT ![p] = x]
    BY <1>8, <2>1
  <2> QED BY <1>7, <2>2, <2>3, <2>4, <2>5, <2>6, QuietStep DEF Good
<1>9. CASE Return(p)
  BY <1>7, <1>9, QuietReturn
<1> QED BY <1>2, <1>8, <1>9 DEF Found

LEMMA QuietRefresh ==
  ASSUME Inv, UNCHANGED use, NEW p \in Procs,
         GetLookup(p) \/ GetRow(p) \/ GetConsumed(p) \/ GetSession(p)
  PROVE  Inv'
<1>1. /\ procs[p] \in Proc /\ Good(procs[p]) /\ faults \in Nat /\ cause \subseteq Sids
      /\ sess \in [Sids -> Session] /\ lookups \in [Hashes -> Lookup]
  BY DEF Inv, TypeOK
<1>2. Quiet /\ faults' = faults /\ procs[p].pc \in {"lookup", "row", "consumed", "session"}
  BY <1>1 DEF Quiet, Still, Inv, TypeOK, GetLookup, GetRow, GetConsumed, GetSession, rows, seen
<1>3. /\ procs[p].hash \in Hashes /\ procs[p].hash < nextHash /\ procs[p].op \in {"refresh", "revokeToken"}
      /\ (\A r \in procs[p].sids : Known(r)) /\ (procs[p].barred => blocked)
  BY <1>1, <1>2 DEF Good, Names, Trades, Allowed, OnToken, Chained
<1> DEFINE h == procs[p].hash
           l == lookups[h]
<1>4. l \in Lookup
  BY <1>1, <1>3
<1>5. ASSUME l.state # "none" PROVE l.sid \in Sids /\ l.client \in Clients /\ Belongs(h, l.sid, l.client) /\ Known(l.sid)
  <2>1. l.sid \in Sids /\ l.client \in Clients
    BY <1>3, <1>5 DEF Inv, LookupsOK
  <2>2. Belongs(h, l.sid, l.client)
    BY <1>5 DEF Belongs
  <2> QED BY <1>3, <2>1, <2>2 DEF Inv, OwnedOnce
<1>6. ASSUME l.state # "none" PROVE \A t \in held : t.hash = h => t.sid = l.sid /\ t.client = l.client
  <2> SUFFICES ASSUME NEW t \in held, t.hash = h PROVE t.sid = l.sid /\ t.client = l.client
    OBVIOUS
  <2>1. t \in Held
    BY DEF Inv, TypeOK
  <2>2. t.sid \in Sids /\ t.client \in Clients /\ Belongs(h, t.sid, t.client)
    BY <2>1 DEF Belongs, Held
  <2> QED BY <1>3, <1>5, <1>6, <2>2 DEF Inv, OwnedOnce
<1>7. CASE GetLookup(p)
  <2>1. procs[p].pc = "lookup" /\ \E t \in held : t.hash = h
    BY <1>1, <1>7 DEF GetLookup, Good, Trades, Presents
  <2>2. ASSUME l.state = "active",
               procs' = [procs EXCEPT ![p] = [@ EXCEPT !.pc = "row", !.sid = l.sid, !.client = l.client]]
        PROVE  Inv'
    <3>1. PICK x : x = [procs[p] EXCEPT !.pc = "row", !.sid = l.sid, !.client = l.client]
      OBVIOUS
    <3>2. /\ x \in Proc /\ x.op = procs[p].op /\ x.pc = "row" /\ x.sid = l.sid /\ x.client = l.client
          /\ x.hash = h /\ x.late = procs[p].late /\ x.barred = procs[p].barred /\ x.sids = procs[p].sids
      BY <1>1, <1>5, <2>2, <3>1, StepNames DEF Proc
    <3>3. Names(x)
      BY <1>3, <1>5, <2>2, <3>2 DEF Names, OnClient, OnSession, Chained
    <3>4. Trades(x)
      BY <1>3, <1>6, <2>1, <2>2, <3>2 DEF Trades, OnToken, Chained
    <3>5. Allowed(x)
      BY <1>1, <2>1, <3>2 DEF Good, Allowed, Presents
    <3>6. \A s : ~Ends(procs[p], s)
      BY <2>1, <2>2 DEF Ends
    <3>7. procs' = [procs EXCEPT ![p] = x]
      BY <2>2, <3>1
    <3> QED BY <1>2, <3>2, <3>3, <3>4, <3>5, <3>6, <3>7, QuietStep DEF Good
  <2>3. ASSUME NotFound(p) PROVE Inv'
    BY <1>2, <2>1, <2>3, QuietNotFound
  <2>4. ASSUME l.state = "none", NEW s \in Sids, NEW c \in Clients, toks[s][c].hash = h, Found(p, s, c) PROVE Inv'
    BY <1>2, <2>1, <2>4, QuietFound
  <2> QED BY <1>7, <2>2, <2>3, <2>4 DEF GetLookup
<1>8. CASE GetRow(p)
  <2>1. procs[p].pc = "row" /\ procs[p].sid \in Sids /\ procs[p].client \in Clients
    BY <1>1, <1>8 DEF GetRow, Good, Names, OnClient, OnSession, Chained
  <2> QED BY <1>2, <1>8, <2>1, QuietFound, QuietNotFound DEF GetRow
<1>9. CASE GetConsumed(p)
  <2>1. procs[p].pc = "consumed" /\ procs[p].op = "refresh"
    BY <1>1, <1>9 DEF GetConsumed, Good, Names
  <2>2. CASE l.state = "consumed"
    <3>1. PICK x : x = [procs[p] EXCEPT !.pc = "list", !.sid = l.sid, !.client = l.client]
      OBVIOUS
    <3>2. /\ x \in Proc /\ x.op = procs[p].op /\ x.pc = "list" /\ x.sid = l.sid
          /\ x.barred = procs[p].barred /\ x.sids = procs[p].sids
      BY <1>1, <1>5, <2>2, <3>1, StepNames DEF Proc
    <3>3. Good(x)
      BY <1>3, <1>5, <2>2, <3>2, SimpleGood
    <3>4. \A s : Ends(procs[p], s) => Ends(x, s)
      BY <2>1, <3>2 DEF Ends
    <3>5. procs' = [procs EXCEPT ![p] = x]
      BY <1>9, <2>2, <3>1 DEF GetConsumed
    <3> QED BY <1>2, <3>2, <3>3, <3>4, <3>5, QuietStep
  <2>3. CASE l.state # "consumed"
    <3>1. \A s : ~Ends(procs[p], s)
      BY <2>1, <2>3 DEF Ends
    <3> QED BY <1>2, <1>9, <2>3, <3>1, QuietReturn DEF GetConsumed
  <2> QED BY <2>2, <2>3
<1>10. CASE GetSession(p)
  <2>1. /\ procs[p].pc = "session" /\ procs[p].op = "refresh"
        /\ procs[p].sid \in Sids /\ procs[p].client \in Clients /\ Known(procs[p].sid)
        /\ \E t \in held : t.hash = h /\ t.sid = procs[p].sid /\ t.client = procs[p].client
    BY <1>1, <1>10 DEF GetSession, Good, Names, Trades, OnClient, OnSession, Chained
  <2>2. \A s : ~Ends(procs[p], s)
    BY <2>1 DEF Ends
  <2>3. ASSUME NEW pc \in {"dropToken", "dropSession"}, Goto(p, pc) PROVE Inv'
    <3>1. PICK x : x = [procs[p] EXCEPT !.pc = pc]
      OBVIOUS
    <3>2. /\ x \in Proc /\ x.pc = pc /\ x.sid = procs[p].sid /\ x.client = procs[p].client
          /\ x.barred = procs[p].barred /\ x.sids = procs[p].sids
      BY <1>1, <3>1, StepNames DEF Proc
    <3>3. Good(x)
      BY <1>3, <2>1, <3>2 DEF Good, Names, Trades, Allowed, OnToken, OnClient, OnSession, Chained
    <3>4. procs' = [procs EXCEPT ![p] = x]
      BY <2>3, <3>1 DEF Goto
    <3> QED BY <1>2, <2>2, <3>2, <3>3, <3>4, QuietStep
  <2>4. ASSUME Live(procs[p].sid),
               procs' = [procs EXCEPT ![p] = [@ EXCEPT !.pc = "rotate", !.expires = sess[procs[p].sid].expires]]
        PROVE  Inv'
    <3>1. PICK x : x = [procs[p] EXCEPT !.pc = "rotate", !.expires = sess[procs[p].sid].expires]
      OBVIOUS
    <3>2. sess[procs[p].sid].expires \in Int
      BY <1>1, <2>1 DEF Session
    <3>3. /\ x \in Proc /\ x.op = procs[p].op /\ x.pc = "rotate" /\ x.sid = procs[p].sid
          /\ x.client = procs[p].client /\ x.hash = h /\ x.expires = sess[procs[p].sid].expires
          /\ x.late = procs[p].late /\ x.barred = procs[p].barred /\ x.sids = procs[p].sids
      BY <1>1, <3>1, <3>2, StepNames DEF Proc
    <3>4. ~procs[p].late
      <4> SUFFICES ASSUME procs[p].late PROVE FALSE
        OBVIOUS
      <4>1. PICK s \in ended : Presents(procs[p], s)
        BY <1>1, <2>1 DEF Good, Allowed
      <4>2. PICK t \in held : t.hash = h /\ t.sid = s
        BY <4>1 DEF Presents
      <4>3. PICK u \in held : u.hash = h /\ u.sid = procs[p].sid
        BY <2>1
      <4>4. t \in Held /\ u \in Held
        BY DEF Inv, TypeOK
      <4>5. Belongs(h, t.sid, t.client) /\ Belongs(h, u.sid, u.client)
        BY <4>2, <4>3 DEF Belongs
      <4>6. t.sid = u.sid
        BY <1>3, <4>4, <4>5 DEF Inv, OwnedOnce, Held
      <4> QED BY <2>1, <2>4, <4>2, <4>3, <4>6 DEF Inv, SessionsOK
    <3>5. Names(x)
      BY <1>3, <2>1, <3>3 DEF Names, OnClient, OnSession, Chained
    <3>6. Trades(x)
      BY <1>3, <2>1, <3>3 DEF Trades, OnToken, Chained
    <3>7. Allowed(x)
      BY <1>3, <3>3, <3>4 DEF Allowed
    <3>8. procs' = [procs EXCEPT ![p] = x]
      BY <2>4, <3>1
    <3> QED BY <1>2, <2>2, <3>3, <3>5, <3>6, <3>7, <3>8, QuietStep DEF Good
  <2> QED BY <1>10, <2>3, <2>4 DEF GetSession, Live
<1> QED BY <1>2, <1>7, <1>8, <1>9, <1>10

\* The next request record of a loop over sessions that were opened.
LEMMA NextSessionFacts ==
  ASSUME TypeOK, NEW p \in Procs, NEW left \in SUBSET Sids, NextSession(p, left),
         \A s \in left : Known(s), procs[p].barred => blocked
  PROVE  \E x \in Proc : /\ procs' = [procs EXCEPT ![p] = x]
                         /\ x.pc \in {"idle", "list"} /\ Good(x)
<1>1. procs[p] \in Proc
  BY DEF TypeOK
<1>2. CASE left = {}
  BY <1>2, IdleType, IdleGood DEF NextSession, Return
<1>3. CASE left # {}
  <2>1. PICK s \in left : procs' = [procs EXCEPT ![p] = [@ EXCEPT !.pc = "list", !.sid = s, !.sids = left \ {s}]]
    BY <1>3 DEF NextSession
  <2>2. PICK x : x = [procs[p] EXCEPT !.pc = "list", !.sid = s, !.sids = left \ {s}]
    OBVIOUS
  <2>3. x \in Proc /\ x.pc = "list" /\ x.sid = s /\ x.barred = procs[p].barred /\ x.sids = left \ {s}
    BY <1>1, <2>2, StepNames DEF Proc
  <2>4. Good(x)
    BY <2>3, SimpleGood
  <2>5. procs' = [procs EXCEPT ![p] = x]
    BY <2>1, <2>2
  <2> QED BY <2>3, <2>4, <2>5
<1> QED BY <1>2, <1>3

LEMMA QuietRevocation ==
  ASSUME Inv, UNCHANGED use, NEW p \in Procs, ListByUserID(p) \/ ListTokens(p)
  PROVE  Inv'
<1>1. /\ TypeOK /\ procs[p] \in Proc /\ Good(procs[p]) /\ faults \in Nat /\ cause \subseteq Sids
  BY DEF Inv, TypeOK
<1>2. Quiet /\ faults' = faults /\ procs[p].pc \in {"listSessions", "list"}
  BY <1>1 DEF Quiet, Still, Inv, TypeOK, ListByUserID, ListTokens, rows, seen
<1>3. (\A r \in procs[p].sids : Known(r)) /\ (procs[p].barred => blocked) /\ procs[p].sids \subseteq Sids
  BY <1>1 DEF Good, Names, Allowed, Proc
<1>4. CASE ListByUserID(p)
  <2>1. PICK left \in SUBSET Sids : NextSession(p, left) /\ \A s \in left : Known(s)
    BY <1>4 DEF ListByUserID, Known
  <2>2. PICK x \in Proc : procs' = [procs EXCEPT ![p] = x] /\ x.pc \in {"idle", "list"} /\ Good(x)
    BY <1>1, <1>3, <2>1, NextSessionFacts
  <2>3. \A s : ~Ends(procs[p], s)
    BY <1>4 DEF ListByUserID, Ends
  <2> QED BY <1>2, <2>2, <2>3, QuietStep
<1>5. CASE ListTokens(p)
  <2>1. procs[p].pc = "list" /\ procs[p].sid \in Sids /\ Known(procs[p].sid)
    BY <1>1, <1>5 DEF ListTokens, Good, Names, OnSession
  <2>2. CASE procs[p].op = "unlink" /\ NextSession(p, procs[p].sids)
    <3>1. PICK x \in Proc : procs' = [procs EXCEPT ![p] = x] /\ x.pc \in {"idle", "list"} /\ Good(x)
      BY <1>1, <1>3, <2>2, NextSessionFacts
    <3>2. \A s : ~Ends(procs[p], s)
      BY <2>2 DEF Ends
    <3> QED BY <1>2, <3>1, <3>2, QuietStep
  <2>3. ASSUME NEW pc \in {"delete", "dropSession"}, NEW todo \in SUBSET Clients,
               procs' = [procs EXCEPT ![p] = [procs[p] EXCEPT !.pc = pc, !.todo = todo]]
        PROVE  Inv'
    <3>1. PICK x : x = [procs[p] EXCEPT !.pc = pc, !.todo = todo]
      OBVIOUS
    <3>2. /\ x \in Proc /\ x.op = procs[p].op /\ x.pc = pc /\ x.sid = procs[p].sid
          /\ x.barred = procs[p].barred /\ x.sids = procs[p].sids
      BY <1>1, <3>1, StepNames DEF Proc
    <3>3. Good(x)
      BY <1>3, <2>1, <3>2, SimpleGood
    <3>4. \A s : Ends(procs[p], s) => Ends(x, s)
      BY <2>1, <3>2 DEF Ends
    <3>5. procs' = [procs EXCEPT ![p] = x]
      BY <2>3, <3>1
    <3> QED BY <1>2, <3>2, <3>3, <3>4, <3>5, QuietStep
  <2>4. ASSUME Goto(p, "dropSession") PROVE Inv'
    <3>1. [procs[p] EXCEPT !.pc = "dropSession"] =
            [procs[p] EXCEPT !.pc = "dropSession", !.todo = procs[p].todo]
      BY <1>1 DEF Proc
    <3>2. procs[p].todo \in SUBSET Clients
      BY <1>1 DEF Proc
    <3> QED BY <2>3, <2>4, <3>1, <3>2 DEF Goto
  <2>5. ASSUME NEW listed,
               listed = {c \in (IF procs[p].op = "unlink" THEN use.product ELSE Clients) :
                           toks[procs[p].sid][c].hash # 0}
        PROVE  listed \subseteq Clients
    BY <1>1, <2>5, SessionsAssumption DEF TypeOK
  <2>6. PICK listed \in SUBSET Clients :
          IF listed = {} THEN Finish(p)
          ELSE procs' = [procs EXCEPT ![p] = [@ EXCEPT !.pc = "delete", !.todo = listed]]
    BY <1>5, <2>5 DEF ListTokens
  <2>7. CASE listed = {}
    BY <2>2, <2>4, <2>6, <2>7 DEF Finish
  <2>8. CASE listed # {}
    BY <2>3, <2>6, <2>8
  <2> QED BY <2>7, <2>8
<1> QED BY <1>4, <1>5

\* A request that presents a token: what it will act on is the token's chain.
LEMMA PresentsToken ==
  ASSUME Inv, NEW t \in held
  PROVE  /\ t.hash \in Hashes /\ t.hash < nextHash /\ t.sid \in Sids
         /\ lookups[t.hash].state # "none" => lookups[t.hash].sid = t.sid
<1>1. t \in Held
  BY DEF Inv, TypeOK
<1>2. t.hash \in Hashes /\ t.sid \in Sids /\ t.client \in Clients /\ Belongs(t.hash, t.sid, t.client)
  BY <1>1 DEF Held, Belongs
<1>3. t.hash < nextHash
  BY <1>2 DEF Inv, OwnedOnce
<1>4. ASSUME lookups[t.hash].state # "none" PROVE lookups[t.hash].sid = t.sid
  <2>1. lookups[t.hash].sid \in Sids /\ lookups[t.hash].client \in Clients
    BY <1>2, <1>4 DEF Inv, LookupsOK
  <2>2. Belongs(t.hash, lookups[t.hash].sid, lookups[t.hash].client)
    BY <1>4 DEF Belongs
  <2> QED BY <1>2, <2>1, <2>2 DEF Inv, OwnedOnce
<1> QED BY <1>2, <1>3, <1>4

LEMMA QuietOthers ==
  ASSUME Inv, UNCHANGED use, NEW p \in Procs,
         Crash(p) \/ \E t \in held : RevokeClientToken(p, t)
  PROVE  Inv'
<1>1. /\ TypeOK /\ faults \in Nat /\ cause \subseteq Sids /\ Idle \in Proc
  BY IdleType DEF Inv, TypeOK
<1>2. CASE Crash(p)
  <2>1. Quiet /\ faults' # 0
    BY <1>1, <1>2 DEF Quiet, Still, Inv, TypeOK, Crash, Fault, rows, seen
  <2> QED BY <1>2, <2>1, QuietReturn DEF Crash
<1>3. ASSUME NEW t \in held, RevokeClientToken(p, t) PROVE Inv'
  <2>1. Quiet /\ faults' = faults /\ procs[p].pc = "idle"
    BY <1>1, <1>3 DEF Quiet, Still, Inv, TypeOK, RevokeClientToken, Free, rows, seen
  <2>2. PICK x : x = [Idle EXCEPT !.op = "revokeToken", !.pc = "lookup", !.hash = t.hash]
    OBVIOUS
  <2>3. t.hash \in Hashes /\ t.hash < nextHash /\ t.sid \in Sids /\ t.hash \in 0..MaxTokens
    BY PresentsToken, SessionsAssumption DEF Hashes
  <2>4. /\ x \in Proc /\ x.op = "revokeToken" /\ x.pc = "lookup" /\ x.hash = t.hash
        /\ x.sids = {} /\ x.barred = FALSE
    <3>1. Idle.sids = {} /\ Idle.barred = FALSE
      BY DEF Idle
    <3> QED BY <1>1, <2>2, <2>3, <3>1, StepNames DEF Proc
  <2>5. Good(x)
    BY <2>3, <2>4 DEF Good, Names, Trades, Allowed, Presents, OnToken, OnClient, OnSession, Chained
  <2>6. procs' = [procs EXCEPT ![p] = x]
    BY <1>3, <2>2 DEF RevokeClientToken
  <2> QED BY <2>1, <2>4, <2>5, <2>6, QuietStep DEF Ends
<1> QED BY <1>2, <1>3

\* The presented token is consumed: the request will end its session.
LEMMA RefreshInv ==
  ASSUME Inv, UNCHANGED use, NEW p \in Procs, NEW t \in held, NEW c \in use.clients, Refresh(p, t, c)
  PROVE  Inv'
<1>1. /\ TypeOK /\ Idle \in Proc /\ Idle.sids = {} /\ blocked \in BOOLEAN /\ c \in Clients
      /\ replayed \subseteq Sids /\ cause \subseteq Sids /\ faults \in Nat
  BY IdleType, SessionsAssumption DEF Inv, TypeOK, Idle
<1>2. /\ t.hash \in Hashes /\ t.hash < nextHash /\ t.sid \in Sids /\ t.hash \in 0..MaxTokens
      /\ lookups[t.hash].state # "none" => lookups[t.hash].sid = t.sid
  BY PresentsToken, SessionsAssumption DEF Hashes
<1>3. Still /\ faults' = faults /\ procs[p].pc = "idle"
  BY <1>1, <1>2 DEF Still, Refresh, Free, rows
<1>4. PICK y : y = [Idle EXCEPT !.op = "refresh", !.pc = "lookup", !.hash = t.hash, !.asked = c]
  OBVIOUS
<1>5. y \in Proc /\ y.op = "refresh" /\ y.pc = "lookup" /\ y.hash = t.hash /\ y.sids = {}
  BY <1>1, <1>2, <1>4, StepNames DEF Proc
<1>6. PICK x : Marked(x, y, t.sid)
  BY DEF Marked
<1>7. x \in Proc /\ x.op = "refresh" /\ x.pc = "lookup" /\ x.hash = t.hash /\ x.sids = {} /\ MarksOK(x, t.sid)
  BY <1>1, <1>5, <1>6, Stamped
<1>8. Presents(x, t.sid)
  BY <1>7 DEF Presents
<1>9. Names(x) /\ Trades(x)
  BY <1>2, <1>7, <1>8 DEF Names, Trades, OnToken, OnClient, OnSession, Chained
<1>10. Allowed(x)
  BY <1>7, <1>8 DEF Allowed, MarksOK
<1>11. procs' = [procs EXCEPT ![p] = x]
  BY <1>3, <1>4, <1>6 DEF Refresh, Marked
<1>12. \A s \in replayed' : s \in replayed \/ Ends(x, s)
  BY <1>2, <1>7 DEF Refresh, Ends
<1> QED BY <1>3, <1>7, <1>9, <1>10, <1>11, <1>12, StillStep DEF Ends, Good

LEMMA LoginInv ==
  ASSUME Inv, UNCHANGED use, NEW p \in Procs, NEW s \in use.sids, Login(p, s)
  PROVE  Inv'
<1>1. /\ TypeOK /\ Idle \in Proc /\ Idle.sids = {} /\ blocked \in BOOLEAN /\ s \in Sids
  BY IdleType, SessionsAssumption DEF Inv, TypeOK, Idle
<1>2. Quiet /\ faults' = faults /\ procs[p].pc = "idle" /\ ~Known(s)
  BY DEF Quiet, Still, Inv, TypeOK, Login, Free, Known, Live, rows, seen
<1>3. PICK y : y = [Idle EXCEPT !.op = "login", !.pc = "create", !.sid = s, !.client = Nil]
  OBVIOUS
<1>4. y \in Proc /\ y.pc = "create" /\ y.sid = s /\ y.sids = {}
  BY <1>1, <1>3, StepNames DEF Proc
<1>5. PICK x : Marked(x, y, s)
  BY DEF Marked
<1>6. x \in Proc /\ x.pc = "create" /\ x.sid = s /\ x.sids = {} /\ MarksOK(x, s)
  BY <1>1, <1>4, <1>5, Stamped
<1>7. Good(x)
  BY <1>1, <1>2, <1>6 DEF MarksOK, Good, Names, Trades, Allowed, OnToken, OnClient, OnSession, Chained
<1>8. procs' = [procs EXCEPT ![p] = x]
  BY <1>3, <1>5 DEF Login, Begin, Marked
<1>9. \A q \in Procs : procs[q].pc = "create" => procs[q].sid # x.sid
  BY <1>6 DEF Login
<1> QED BY <1>2, <1>6, <1>7, <1>8, <1>9, StillStep DEF Quiet, Ends

-----------------------------------------------------------------------------
(* Steps that write sessions *)

\* What a step may do to the sessions: end them, or open new ones.
SessionsKept ==
  /\ sess' \in [Sids -> Session] /\ now' \in Nat /\ now <= now'
  /\ ended' \subseteq Sids /\ ended \subseteq ended' /\ SessionsOK'
  /\ \A s \in Sids : Known(s) => Known(s)' /\ (Live(s)' => Live(s) /\ sess'[s].expires = sess[s].expires)

OpensNone == \A s \in Sids : Known(s)' => Known(s)

LEMMA SessionTypes ==
  ASSUME Inv
  PROVE  /\ TypeOK /\ now \in Int /\ now >= 0 /\ SessionsOK /\ sess \in [Sids -> Session]
         /\ NoSession \in Session /\ NoToken \in RefreshToken /\ NoLookup \in Lookup
         /\ \A s \in Sids : sess[s].row \in BOOLEAN /\ sess[s].expires \in Int
<1>1. NoSession \in Session /\ NoLookup \in Lookup
  BY DEF NoSession, Session, NoLookup, Lookup, Never
<1>2. NoToken \in RefreshToken
  BY SessionsAssumption DEF NoToken, RefreshToken, Never
<1> QED BY <1>1, <1>2 DEF Inv, TypeOK, Session

LEMMA SameSessions ==
  ASSUME Inv, UNCHANGED <<sess, ended, now>>
  PROVE  SessionsKept /\ OpensNone
<1>1. now \in Nat /\ ended \subseteq Sids
  BY DEF Inv, TypeOK
<1> QED BY <1>1, SessionTypes DEF SessionsKept, OpensNone, SessionsOK, Known, Live, IsExpired

LEMMA DeletedSession ==
  ASSUME Inv, NEW s \in Sids, Delete(s), UNCHANGED now,
         NoteEnded \/ (IsExpired(sess[s]) /\ UNCHANGED ended)
  PROVE  SessionsKept /\ OpensNone
<1>1. now \in Nat /\ ended \subseteq Sids
  BY DEF Inv, TypeOK
<1>2. /\ sess' \in [Sids -> Session] /\ sess'[s] = NoSession
      /\ \A r \in Sids : r # s => sess'[r] = sess[r]
  BY SessionTypes DEF Delete
<1>3. sess'[s].row = FALSE /\ sess'[s].expires = Never
  BY <1>2 DEF NoSession
<1>4. ended' \subseteq Sids /\ ended \subseteq ended'
  BY <1>1 DEF NoteEnded
<1>5. \A r \in Sids : r # s => /\ r \in ended' <=> r \in ended
                               /\ Live(r)' <=> Live(r)
  BY <1>1, <1>2, SessionTypes DEF NoteEnded, Live, IsExpired
<1>6. ~Live(s)' /\ (Live(s) => s \in ended') /\ (s \in ended' => s \in ended \/ Live(s))
  BY <1>1, <1>3, SessionTypes DEF NoteEnded, Live, IsExpired
<1>7. SessionsOK'
  BY <1>2, <1>3, <1>4, <1>5, <1>6, SessionTypes DEF SessionsOK, Known
<1>8. \A r \in Sids : /\ Known(r) => Known(r)' /\ (Live(r)' => Live(r) /\ sess'[r].expires = sess[r].expires)
                      /\ Known(r)' => Known(r)
  BY <1>2, <1>4, <1>5, <1>6 DEF Known
<1> QED BY <1>1, <1>2, <1>4, <1>7, <1>8 DEF SessionsKept, OpensNone

LEMMA TickedSessions ==
  ASSUME Inv, Tick
  PROVE  SessionsKept /\ OpensNone
<1>1. now \in Nat /\ ended \subseteq Sids /\ sess' = sess /\ now' = now + 1
  BY DEF Inv, TypeOK, Tick
<1>2. ended' \subseteq Sids /\ ended \subseteq ended'
  BY <1>1 DEF Tick, NoteEnded
<1>3. \A r \in Sids : /\ Live(r)' => Live(r)
                      /\ Live(r) => Live(r)' \/ r \in ended'
                      /\ r \in ended' => r \in ended \/ (Live(r) /\ ~Live(r)')
  BY <1>1, SessionTypes DEF Tick, NoteEnded, Live, IsExpired
<1>4. SessionsOK'
  BY <1>1, <1>2, <1>3, SessionTypes DEF SessionsOK, Known
<1>5. \A r \in Sids : (Known(r) => Known(r)') /\ (Known(r)' => Known(r))
  BY <1>2, <1>3 DEF Known
<1> QED BY <1>1, <1>2, <1>3, <1>4, <1>5, SessionTypes DEF SessionsKept, OpensNone

LEMMA UpdatedSession ==
  ASSUME Inv, NEW s \in Sids, Known(s), UNCHANGED <<ended, now>>,
         \/ sess' = [sess EXCEPT ![s].row = TRUE]
         \/ ~sess[s].row /\ UNCHANGED sess
  PROVE  SessionsKept /\ OpensNone
<1>1. CASE UNCHANGED sess
  BY <1>1, SameSessions
<1>2. CASE sess' = [sess EXCEPT ![s].row = TRUE]
  <2>1. now \in Nat /\ ended \subseteq Sids
    BY DEF Inv, TypeOK
  <2>2. /\ sess' \in [Sids -> Session] /\ sess'[s].row = TRUE /\ sess'[s].expires = sess[s].expires
        /\ \A r \in Sids : r # s => sess'[r] = sess[r]
    BY <1>2, SessionTypes DEF Session
  <2>3. \A r \in Sids : Live(r)' <=> Live(r)
    BY <2>1, <2>2, SessionTypes DEF SessionsOK, Live, IsExpired, Never
  <2>4. SessionsOK'
    BY <2>1, <2>2, <2>3, SessionTypes DEF SessionsOK, Known
  <2> QED BY <2>1, <2>2, <2>3, <2>4 DEF SessionsKept, OpensNone, Known
<1> QED BY <1>1, <1>2

LEMMA CreatedSession ==
  ASSUME Inv, NEW s \in Sids, ~Known(s), UNCHANGED <<ended, now>>,
         sess' = [sess EXCEPT ![s] = [row |-> TRUE, expires |-> now + use.ttl]]
  PROVE  SessionsKept /\ Live(s)' /\ \A r \in Sids \ {s} : Known(r)' => Known(r)
<1>1. now \in Nat /\ ended \subseteq Sids /\ use.ttl \in Nat
  BY SessionsAssumption DEF Inv, TypeOK
<1>2. PICK y : y = [row |-> TRUE, expires |-> now + use.ttl]
  OBVIOUS
<1>3. y \in Session /\ y.row = TRUE /\ y.expires = now + use.ttl
  BY <1>1, <1>2 DEF Session
<1>4. /\ sess' \in [Sids -> Session] /\ sess'[s] = y
      /\ \A r \in Sids : r # s => sess'[r] = sess[r]
  BY <1>2, <1>3, SessionTypes
<1>5. Live(s)' /\ \A r \in Sids \ {s} : Live(r)' <=> Live(r)
  BY <1>1, <1>3, <1>4, SessionTypes DEF Live, IsExpired
<1>6. SessionsOK'
  BY <1>1, <1>3, <1>4, <1>5, SessionTypes DEF SessionsOK, Known
<1> QED BY <1>1, <1>4, <1>5, <1>6 DEF SessionsKept, Known

-----------------------------------------------------------------------------
(* The actions among them *)

LEMMA DeletedToken ==
  ASSUME Inv, NEW s \in Sids, NEW c \in Clients, DeleteRefreshToken(s, c)
  PROVE  /\ toks' \in [Sids -> [Clients -> RefreshToken]]
         /\ \A r \in Sids, d \in Clients : toks'[r][d] = toks[r][d] \/ toks'[r][d] = NoToken
BY SessionTypes DEF DeleteRefreshToken, TypeOK

LEMMA CreateInv ==
  ASSUME Inv, UNCHANGED use, NEW p \in Procs, Create(p)
  PROVE  Inv'
<1>1. TypeOK /\ procs[p] \in Proc /\ Good(procs[p]) /\ procs[p].pc = "create"
  BY DEF Inv, TypeOK, Create
<1>2. PICK s \in Sids : s = procs[p].sid /\ ~Known(s)
  BY <1>1 DEF Good, Names
<1>3. /\ UNCHANGED <<toks, lookups, nextHash, codes, blocked, now, held, ended, cause, replayed>>
      /\ procs' = [procs EXCEPT ![p] = Idle]
      /\ sess' = [sess EXCEPT ![s] = [row |-> TRUE, expires |-> now + use.ttl]]
      /\ faults' \in Nat /\ (faults' = 0 => faults = 0)
  BY <1>1, <1>2 DEF Create, Return, Fault, NoFault, seen, TypeOK
<1>4. SessionsKept /\ \A r \in Sids \ {s} : Known(r)' => Known(r)
  BY <1>2, <1>3, CreatedSession
<1>5. Calm
  BY <1>3, <1>4 DEF Calm, SessionsKept
<1>6. TypeOK' /\ SessionsOK'
  BY <1>1, <1>3, <1>4, IdleType, ProcSet DEF TypeOK, SessionsKept
<1>7. ASSUME NEW q \in Procs, q # p, procs[q].pc = "create" PROVE ~Known(procs[q].sid)'
  <2>1. Good(procs[q]) /\ procs[q].sid # s
    BY <1>1, <1>2, <1>7 DEF Inv, Apart
  <2>2. procs[q].sid \in Sids \ {s} /\ ~Known(procs[q].sid)
    BY <1>7, <2>1 DEF Good, Names
  <2>3. procs'[q] = procs[q]
    BY <1>1, <1>3, <1>7 DEF TypeOK
  <2> QED BY <1>4, <2>2, <2>3 DEF Known, Live, IsExpired
<1>8. \A r : ~Ends(procs[p], r)
  BY <1>1 DEF Ends
<1> QED BY <1>3, <1>5, <1>6, <1>7, <1>8, IdleType, IdleGood, WriteStep

\* A step that opens no session.
LEMMA OldSessionsStep ==
  ASSUME Inv, TypeOK', Calm, SessionsKept, OpensNone,
         UNCHANGED <<lookups, replayed>>, faults' = 0 => faults = 0,
         NEW p \in Procs, NEW x \in Proc,
         procs' = [procs EXCEPT ![p] = x], Good(x), x.pc \notin {"create", "mint"},
         faults' = 0 => \A s \in Sids : Live(s)' /\ Ends(procs[p], s) => Ends(x, s)
  PROVE  Inv'
<1>1. \A q \in Procs : q # p /\ procs[q].pc = "create" => ~Known(procs[q].sid)'
  BY DEF OpensNone, Inv, Good, Names
<1> QED BY <1>1, WriteStep DEF SessionsKept

LEMMA UpdateMFAInv ==
  ASSUME Inv, UNCHANGED use, NEW p \in Procs, UpdateMFA(p)
  PROVE  Inv'
<1>1. TypeOK /\ procs[p] \in Proc /\ Good(procs[p]) /\ procs[p].pc = "updateMFA"
  BY DEF Inv, TypeOK, UpdateMFA
<1>2. PICK s \in Sids : s = procs[p].sid /\ Known(s)
  BY <1>1 DEF Good, Names, OnSession
<1>3. /\ UNCHANGED <<toks, lookups, nextHash, codes, blocked, now, held, ended, cause, replayed>>
      /\ procs' = [procs EXCEPT ![p] = Idle]
      /\ sess' = [sess EXCEPT ![s].row = TRUE] \/ (~sess[s].row /\ UNCHANGED sess)
      /\ faults' \in Nat /\ (faults' = 0 => faults = 0)
  BY <1>1, <1>2 DEF UpdateMFA, Return, Fault, NoFault, seen, TypeOK
<1>4. SessionsKept /\ OpensNone
  BY <1>2, <1>3, UpdatedSession
<1>5. Calm
  BY <1>3, <1>4 DEF Calm, SessionsKept
<1>6. TypeOK'
  BY <1>1, <1>3, <1>4, IdleType, ProcSet DEF TypeOK, SessionsKept
<1>7. \A r : ~Ends(procs[p], r)
  BY <1>1 DEF Ends
<1> QED BY <1>3, <1>4, <1>5, <1>6, <1>7, IdleType, IdleGood, OldSessionsStep

LEMMA DropTokenInv ==
  ASSUME Inv, UNCHANGED use, NEW p \in Procs, DropToken(p)
  PROVE  Inv'
<1>1. TypeOK /\ procs[p] \in Proc /\ Good(procs[p]) /\ procs[p].pc = "dropToken"
  BY DEF Inv, TypeOK, DropToken
<1>2. PICK s \in Sids, c \in Clients : s = procs[p].sid /\ c = procs[p].client
  BY <1>1 DEF Good, Names, OnSession, OnClient
<1>3. /\ UNCHANGED <<sess, lookups, nextHash, codes, blocked, now, held, ended, cause, replayed>>
      /\ procs' = [procs EXCEPT ![p] = Idle]
      /\ DeleteRefreshToken(s, c)
      /\ faults' \in Nat /\ (faults' = 0 => faults = 0)
  BY <1>1, <1>2 DEF DropToken, Return, Fault, NoFault, seen, TypeOK
<1>4. SessionsKept /\ OpensNone
  BY <1>3, SameSessions
<1>5. Calm
  BY <1>3, <1>4, DeletedToken DEF Calm, SessionsKept
<1>6. TypeOK'
  BY <1>1, <1>3, <1>4, IdleType, ProcSet, DeletedToken DEF TypeOK, SessionsKept
<1>7. \A r : ~Ends(procs[p], r)
  BY <1>1 DEF Ends
<1> QED BY <1>3, <1>4, <1>5, <1>6, <1>7, IdleType, IdleGood, OldSessionsStep

LEMMA DropSessionInv ==
  ASSUME Inv, UNCHANGED use, NEW p \in Procs, DropSession(p)
  PROVE  Inv'
<1>1. TypeOK /\ procs[p] \in Proc /\ Good(procs[p]) /\ procs[p].pc = "dropSession"
  BY DEF Inv, TypeOK, DropSession
<1>2. PICK s \in Sids : s = procs[p].sid /\ Known(s)
  BY <1>1 DEF Good, Names, OnSession
<1>3. /\ UNCHANGED <<toks, lookups, nextHash, codes, blocked, now, held, cause, replayed>>
      /\ Delete(s) /\ NoteEnded
      /\ faults' \in Nat /\ (faults' = 0 => faults = 0)
      /\ NextSession(p, procs[p].sids) \/ Return(p)
  BY <1>1, <1>2 DEF DropSession, Fault, NoFault, TypeOK
<1>4. SessionsKept /\ OpensNone /\ ~Live(s)'
  BY <1>3, DeletedSession, SessionTypes DEF Delete, Live, NoSession
<1>5. Calm
  BY <1>3, <1>4 DEF Calm, SessionsKept
<1>6. (\A r \in procs[p].sids : Known(r)) /\ (procs[p].barred => blocked) /\ procs[p].sids \in SUBSET Sids
  BY <1>1 DEF Good, Names, Allowed, Proc
<1>7. PICK x \in Proc : procs' = [procs EXCEPT ![p] = x] /\ x.pc \in {"idle", "list"} /\ Good(x)
  <2>1. CASE NextSession(p, procs[p].sids)
    BY <1>1, <1>6, <2>1, NextSessionFacts
  <2>2. CASE Return(p)
    BY <2>2, IdleType, IdleGood DEF Return
  <2> QED BY <1>3, <2>1, <2>2
<1>8. TypeOK'
  BY <1>1, <1>3, <1>4, <1>7, ProcSet DEF TypeOK, SessionsKept
<1>9. \A r : Ends(procs[p], r) => r = s
  BY <1>1, <1>2 DEF Ends
<1> QED BY <1>3, <1>4, <1>5, <1>7, <1>8, <1>9, OldSessionsStep

LEMMA MarkInv ==
  ASSUME Inv, UNCHANGED use, NEW p \in Procs, Mark(p)
  PROVE  Inv'
<1>1. TypeOK /\ procs[p] \in Proc /\ Good(procs[p]) /\ procs[p].pc = "mark"
  BY DEF Inv, TypeOK, Mark
<1>2. /\ UNCHANGED <<sess, toks, lookups, nextHash, codes, now, held, ended, cause, replayed>>
      /\ blocked' = TRUE
      /\ faults' \in Nat /\ (faults' = 0 => faults = 0)
      /\ Goto(p, "listSessions") \/ Return(p)
  BY <1>1 DEF Mark, Fault, NoFault, rows, seen, TypeOK
<1>3. SessionsKept /\ OpensNone
  BY <1>2, SameSessions
<1>4. Calm
  BY <1>2, <1>3 DEF Calm, SessionsKept
<1>5. PICK x \in Proc : procs' = [procs EXCEPT ![p] = x] /\ x.pc \in {"idle", "listSessions"} /\ Good(x)
  <2>1. CASE Goto(p, "listSessions")
    <3>1. PICK x : x = [procs[p] EXCEPT !.pc = "listSessions"]
      OBVIOUS
    <3>2. x \in Proc /\ x.pc = "listSessions" /\ x.sids = procs[p].sids /\ x.barred = procs[p].barred
      BY <1>1, <3>1, StepNames DEF Proc
    <3>3. Good(x)
      <4>1. (\A r \in procs[p].sids : Known(r)) /\ (procs[p].barred => blocked)
        BY <1>1 DEF Good, Names, Allowed
      <4> QED BY <3>2, <4>1, SimpleGood DEF OnSession, OnClient, Chained
    <3>4. procs' = [procs EXCEPT ![p] = x]
      BY <2>1, <3>1 DEF Goto
    <3> QED BY <3>2, <3>3, <3>4
  <2>2. CASE Return(p)
    BY <2>2, IdleType, IdleGood DEF Return
  <2> QED BY <1>2, <2>1, <2>2
<1>6. TypeOK'
  BY <1>1, <1>2, <1>3, <1>5, ProcSet DEF TypeOK, SessionsKept
<1>7. \A r : ~Ends(procs[p], r)
  BY <1>1 DEF Ends
<1> QED BY <1>2, <1>3, <1>4, <1>5, <1>6, <1>7, OldSessionsStep

LEMMA DeleteListedInv ==
  ASSUME Inv, UNCHANGED use, NEW p \in Procs, DeleteListed(p)
  PROVE  Inv'
<1>1. TypeOK /\ procs[p] \in Proc /\ Good(procs[p]) /\ procs[p].pc = "delete"
  BY DEF Inv, TypeOK, DeleteListed
<1>2. PICK s \in Sids : s = procs[p].sid /\ Known(s)
  BY <1>1 DEF Good, Names, OnSession
<1>3. PICK c \in Clients :
        /\ DeleteRefreshToken(s, c)
        /\ \/ NoFault /\ (Finish(p) \/ procs' = [procs EXCEPT ![p].todo = @ \ {c}])
           \/ Fault /\ Return(p)
  BY <1>1, <1>2 DEF DeleteListed, Proc
<1>4. /\ UNCHANGED <<sess, lookups, nextHash, codes, blocked, now, held, ended, cause, replayed>>
      /\ faults' \in Nat /\ (faults' = 0 => faults = 0)
  BY <1>1, <1>3 DEF DeleteListed, Fault, NoFault, seen, TypeOK
<1>5. SessionsKept /\ OpensNone
  BY <1>4, SameSessions
<1>6. Calm
  BY <1>3, <1>4, <1>5, DeletedToken DEF Calm, SessionsKept
<1>7. (\A r \in procs[p].sids : Known(r)) /\ (procs[p].barred => blocked) /\ procs[p].sids \in SUBSET Sids
  BY <1>1 DEF Good, Names, Allowed, Proc
<1>8. PICK x \in Proc : /\ procs' = [procs EXCEPT ![p] = x]
                        /\ x.pc \in {"idle", "list", "delete", "dropSession"} /\ Good(x)
                        /\ faults' = 0 => \A r : Ends(procs[p], r) => Ends(x, r)
  <2>1. ASSUME NEW pc \in {"delete", "dropSession"}, NEW todo \in SUBSET Clients,
               procs' = [procs EXCEPT ![p] = [procs[p] EXCEPT !.pc = pc, !.todo = todo]]
        PROVE  \E x \in Proc : /\ procs' = [procs EXCEPT ![p] = x] /\ x.pc = pc /\ Good(x)
                               /\ \A r : Ends(procs[p], r) => Ends(x, r)
    <3>1. PICK x : x = [procs[p] EXCEPT !.pc = pc, !.todo = todo]
      OBVIOUS
    <3>2. /\ x \in Proc /\ x.op = procs[p].op /\ x.pc = pc /\ x.sid = procs[p].sid
          /\ x.barred = procs[p].barred /\ x.sids = procs[p].sids
      BY <1>1, <3>1, StepNames DEF Proc
    <3>3. Good(x)
      BY <1>2, <1>7, <3>2, SimpleGood
    <3>4. \A r : Ends(procs[p], r) => Ends(x, r)
      BY <1>1, <3>2 DEF Ends
    <3>5. procs' = [procs EXCEPT ![p] = x]
      BY <2>1, <3>1
    <3> QED BY <3>2, <3>3, <3>4, <3>5
  <2>2. procs[p].todo \in SUBSET Clients
    BY <1>1 DEF Proc
  <2>3. CASE Goto(p, "dropSession")
    <3>1. [procs[p] EXCEPT !.pc = "dropSession"] =
            [procs[p] EXCEPT !.pc = "dropSession", !.todo = procs[p].todo]
      BY <1>1 DEF Proc
    <3> QED BY <2>1, <2>2, <2>3, <3>1 DEF Goto
  <2>4. CASE procs' = [procs EXCEPT ![p].todo = @ \ {c}]
    <3>1. [procs[p] EXCEPT !.todo = procs[p].todo \ {c}] =
            [procs[p] EXCEPT !.pc = "delete", !.todo = procs[p].todo \ {c}]
      BY <1>1 DEF Proc
    <3>2. procs' = [procs EXCEPT ![p] = [procs[p] EXCEPT !.todo = procs[p].todo \ {c}]]
      BY <2>4
    <3>3. procs[p].todo \ {c} \in SUBSET Clients
      BY <2>2
    <3> QED BY <2>1, <3>1, <3>2, <3>3
  <2>5. CASE procs[p].op = "unlink" /\ NextSession(p, procs[p].sids)
    <3>1. PICK x \in Proc : procs' = [procs EXCEPT ![p] = x] /\ x.pc \in {"idle", "list"} /\ Good(x)
      BY <1>1, <1>7, <2>5, NextSessionFacts
    <3>2. \A r : ~Ends(procs[p], r)
      BY <2>5 DEF Ends
    <3> QED BY <3>1, <3>2
  <2>6. CASE Fault /\ Return(p)
    <3>1. faults' # 0
      BY <1>1, <2>6 DEF Fault, TypeOK
    <3> QED BY <2>6, <3>1, IdleType, IdleGood DEF Return
  <2> QED BY <1>3, <2>3, <2>4, <2>5, <2>6 DEF Finish
<1>9. TypeOK'
  BY <1>1, <1>3, <1>4, <1>5, <1>8, ProcSet, DeletedToken DEF TypeOK, SessionsKept
<1> QED BY <1>4, <1>5, <1>6, <1>8, <1>9, OldSessionsStep

-----------------------------------------------------------------------------
(* The environment *)

\* A step of no request.
LEMMA OutsideStep ==
  ASSUME Inv, TypeOK', Calm, SessionsKept, OpensNone, UNCHANGED <<procs, replayed, faults>>,
         \A q \in Procs, s \in Sids : Live(s)' /\ Ends(procs[q], s) => Ends(procs[q], s)'
  PROVE  Inv'
<1>1. \A q \in Procs : procs[q].pc = "create" => ~Known(procs[q].sid)'
  <2>1. \A q \in Procs : procs[q].pc = "create" => procs[q].sid \in Sids /\ ~Known(procs[q].sid)
    BY DEF Inv, Good, Names
  <2> QED BY <2>1 DEF OpensNone, Known, Live, IsExpired
<1> QED BY <1>1, CalmStep DEF SessionsKept

LEMMA TickInv ==
  ASSUME Inv, UNCHANGED use, Tick
  PROVE  Inv'
<1>1. TypeOK /\ SessionsKept /\ OpensNone
  BY TickedSessions DEF Inv
<1>2. UNCHANGED <<sess, toks, lookups, nextHash, codes, held, cause, replayed, blocked, procs, faults>>
  BY DEF Tick
<1>3. Calm
  BY <1>1, <1>2 DEF Calm, SessionsKept
<1>4. TypeOK'
  BY <1>1, <1>2 DEF TypeOK, SessionsKept
<1>5. \A q \in Procs, s \in Sids : Ends(procs[q], s) => Ends(procs[q], s)'
  BY <1>2 DEF Ends
<1> QED BY <1>1, <1>2, <1>3, <1>4, <1>5, OutsideStep

LEMMA AuthorizeInv ==
  ASSUME Inv, UNCHANGED use, NEW s \in use.sids, NEW c \in use.clients, Authorize(s, c)
  PROVE  Inv'
<1>1. TypeOK /\ s \in Sids /\ c \in Clients
  BY SessionsAssumption DEF Inv, TypeOK
<1>2. UNCHANGED <<toks, lookups, nextHash, held, ended, cause, replayed, blocked, procs, now, faults>>
  BY DEF Authorize, seen
<1>3. SessionsKept /\ OpensNone
  BY <1>1, <1>2, SameSessions, DeletedSession DEF Authorize
<1>4. codes' \subseteq Sids \X Clients /\ \A x \in codes' : x \in codes \/ Known(x[1])
  BY <1>1 DEF Authorize, TypeOK, Known
<1>5. Calm
  BY <1>2, <1>3, <1>4 DEF Calm, SessionsKept
<1>6. TypeOK'
  BY <1>1, <1>2, <1>3, <1>4 DEF TypeOK, SessionsKept
<1>7. \A q \in Procs, r \in Sids : Ends(procs[q], r) => Ends(procs[q], r)'
  BY <1>2 DEF Ends
<1> QED BY <1>2, <1>3, <1>5, <1>6, <1>7, OutsideStep

LEMMA PruneInv ==
  ASSUME Inv, UNCHANGED use, Prune
  PROVE  Inv'
<1>1. TypeOK /\ codes \subseteq Sids \X Clients
  BY DEF Inv, TypeOK
<1>2. UNCHANGED <<nextHash, held, ended, cause, replayed, blocked, procs, now, faults>>
  BY DEF Prune, seen
<1>3. ASSUME SessionsKept, OpensNone, toks' \in [Sids -> [Clients -> RefreshToken]],
             \A s \in Sids, c \in Clients : toks'[s][c] = toks[s][c] \/ toks'[s][c] = NoToken,
             UNCHANGED lookups, codes' \subseteq codes
      PROVE  Inv'
  <2>1. Calm
    BY <1>2, <1>3 DEF Calm, SessionsKept
  <2>2. TypeOK'
    BY <1>1, <1>2, <1>3 DEF TypeOK, SessionsKept
  <2>3. \A q \in Procs, r \in Sids : Ends(procs[q], r) => Ends(procs[q], r)'
    BY <1>2, <1>3 DEF Ends
  <2> QED BY <1>2, <1>3, <2>1, <2>2, <2>3, OutsideStep
<1>4. ASSUME NEW s \in Sids, IsExpired(sess[s]), Delete(s), UNCHANGED <<toks, lookups, codes>>
      PROVE  Inv'
  <2>1. SessionsKept /\ OpensNone
    BY <1>2, <1>4, DeletedSession
  <2> QED BY <1>1, <1>3, <1>4, <2>1 DEF TypeOK
<1>5. ASSUME NEW s \in Sids, NEW c \in Clients, DeleteRefreshToken(s, c), UNCHANGED <<sess, lookups, codes>>
      PROVE  Inv'
  BY <1>2, <1>3, <1>5, SameSessions, DeletedToken
<1>6. ASSUME NEW x \in codes, codes' = codes \ {x}, UNCHANGED <<sess, toks, lookups>>
      PROVE  Inv'
  BY <1>1, <1>2, <1>3, <1>6, SameSessions DEF TypeOK
<1>7. ASSUME NEW h \in Hashes, IsExpired(lookups[h]), lookups' = [lookups EXCEPT ![h] = NoLookup],
             UNCHANGED <<sess, toks, codes>>
      PROVE  Inv'
  <2>1. SessionsKept /\ OpensNone
    BY <1>2, <1>7, SameSessions
  <2>2. /\ lookups' \in [Hashes -> Lookup]
        /\ \A g \in Hashes : \/ lookups'[g] = lookups[g]
                             \/ lookups'[g] = NoLookup /\ IsExpired(lookups[g])
    BY <1>7, SessionTypes DEF TypeOK
  <2>3. Calm
    BY <1>2, <1>7, <2>1, <2>2 DEF Calm, SessionsKept
  <2>4. TypeOK'
    BY <1>1, <1>2, <1>7, <2>1, <2>2 DEF TypeOK, SessionsKept
  <2>5. ASSUME NEW q \in Procs, NEW s \in Sids, Live(s)', Ends(procs[q], s) PROVE Ends(procs[q], s)'
    <3>1. CASE procs[q].pc \in {"lookup", "consumed"}
      <4>1. /\ procs[q].hash \in Hashes /\ lookups[procs[q].hash].state = "consumed"
            /\ lookups[procs[q].hash].sid = s
        BY <2>5, <3>1 DEF Inv, Good, Trades, Ends, OnToken
      <4>2. Live(s)
        BY <1>2, <1>7, <2>5 DEF Live, IsExpired
      <4>3. ~IsExpired(lookups[procs[q].hash])
        BY <4>1, <4>2 DEF Inv, Remembered, Live, IsExpired
      <4>4. lookups'[procs[q].hash] = lookups[procs[q].hash]
        BY <2>2, <4>1, <4>3
      <4> QED BY <1>2, <2>5, <4>4 DEF Ends
    <3>2. CASE procs[q].pc \notin {"lookup", "consumed"}
      BY <1>2, <2>5, <3>2 DEF Ends
    <3> QED BY <3>1, <3>2
  <2> QED BY <1>2, <2>1, <2>3, <2>4, <2>5, OutsideStep
<1> QED BY <1>4, <1>5, <1>6, <1>7 DEF Prune

LEMMA UnblockInv ==
  ASSUME Inv, UNCHANGED use, Unblock
  PROVE  Inv'
<1>1. TypeOK
  BY DEF Inv
<1>2. /\ UNCHANGED <<sess, toks, lookups, nextHash, codes, held, ended, cause, replayed, now, faults>>
      /\ blocked' = FALSE
  BY DEF Unblock, rows, seen
<1>3. ASSUME NEW q \in Procs
      PROVE  /\ procs'[q] \in Proc /\ procs'[q].op = procs[q].op /\ procs'[q].pc = procs[q].pc
             /\ procs'[q].sid = procs[q].sid /\ procs'[q].client = procs[q].client
             /\ procs'[q].hash = procs[q].hash /\ procs'[q].expires = procs[q].expires
             /\ procs'[q].sids = procs[q].sids /\ procs'[q].late = procs[q].late
             /\ procs'[q].barred = FALSE
  BY <1>1, ZenonT(40) DEF Unblock, TypeOK, Proc
<1>4. procs' \in [Procs -> Proc]
  BY <1>3 DEF Unblock
<1>5. TypeOK'
  BY <1>1, <1>2, <1>4 DEF TypeOK
<1>6. \A s : (Known(s)' <=> Known(s)) /\ (Live(s)' <=> Live(s))
  BY <1>2 DEF Known, Live, IsExpired
<1>7. \A h, s, c : Belongs(h, s, c)' <=> Belongs(h, s, c)
  <2>1. \A q \in Procs : /\ procs'[q].pc = procs[q].pc /\ procs'[q].expires = procs[q].expires
                         /\ procs'[q].sid = procs[q].sid /\ procs'[q].client = procs[q].client
    BY <1>3
  <2> QED BY <1>2, <2>1 DEF Belongs
<1>8. SessionsOK' /\ CodesOK' /\ LookupsOK' /\ TradedOK'
  <2>1. SessionsOK' /\ CodesOK'
    BY <1>2, <1>6 DEF Inv, SessionsOK, CodesOK
  <2>2. LookupsOK' /\ TradedOK'
    BY <1>2 DEF Inv, LookupsOK, TradedOK, OneSuccessor, Spent, IsExpired
  <2> QED BY <2>1, <2>2
<1>9. OwnedOnce' /\ Remembered'
  BY <1>2, <1>6, <1>7 DEF Inv, OwnedOnce, Remembered, Live, IsExpired
<1>10. ASSUME NEW q \in Procs PROVE Good(procs[q])'
  <2>1. Good(procs[q]) /\ procs[q].sids \subseteq Sids
    BY <1>1 DEF Inv, TypeOK, Proc
  <2>2. Names(procs[q])'
    BY <1>2, <1>3, <2>1 DEF Good, Names, Known, Live, IsExpired
  <2>3. Trades(procs[q])'
    <3>1. PICK x : x = procs[q]
      OBVIOUS
    <3>2. Trades(x)'
      BY <1>2, <2>1, <3>1 DEF Good, Trades, Presents, Spent, Live, IsExpired
    <3>3. /\ x.pc = procs'[q].pc /\ x.hash = procs'[q].hash /\ x.sid = procs'[q].sid
          /\ x.client = procs'[q].client /\ x.expires = procs'[q].expires
      BY <1>3, <3>1
    <3> QED BY <3>2, <3>3 DEF Trades, Presents, Live, IsExpired
  <2>4. Allowed(procs[q])'
    BY <1>2, <1>3, <2>1, ZenonT(40) DEF Good, Allowed, Presents
  <2> QED BY <2>2, <2>3, <2>4 DEF Good
<1>11. Apart'
  <2>1. \A q \in Procs : /\ procs'[q].pc = procs[q].pc /\ procs'[q].sid = procs[q].sid
                         /\ procs'[q].hash = procs[q].hash
    BY <1>3
  <2> QED BY <2>1 DEF Inv, Apart
<1>12. ReplayOK'
  <2>1. \A q \in Procs : \A s : Ends(procs[q], s) => Ends(procs[q], s)'
    BY <1>2, <1>3 DEF Ends
  <2> QED BY <1>2, <1>6, <2>1 DEF Inv, ReplayOK
<1> QED BY <1>5, <1>8, <1>9, <1>10, <1>11, <1>12 DEF Inv

-----------------------------------------------------------------------------
(* Steps that generate a token *)

\* The chain of s and c goes on with a new token; the one before may be consumed.
Issued(s, c) ==
  /\ UNCHANGED <<use, sess, codes, blocked, now, ended, cause, replayed>>
  /\ nextHash \in Hashes /\ nextHash' = nextHash + 1
  /\ toks'[s][c].hash = nextHash
  /\ \A r \in Sids, d \in Clients : r # s \/ d # c => toks'[r][d] = toks[r][d]
  /\ lookups'[nextHash] = ActiveLookup(s, c, toks'[s][c].expires)
  /\ \A h \in Hashes \ {nextHash} :
       \/ lookups'[h] = lookups[h]
       \/ /\ h = toks[s][c].hash /\ lookups'[h].state = "consumed"
          /\ lookups'[h].sid = s /\ lookups'[h].client = c
          /\ Live(s) => lookups'[h].expires = sess[s].expires
  /\ held \subseteq held'
  /\ held' \subseteq held \cup {[hash |-> nextHash, sid |-> s, client |-> c, from |-> 0]}

LEMMA IssuedRows ==
  ASSUME Inv, TypeOK', NEW s \in Sids, NEW c \in Clients, Known(s), Issued(s, c),
         \A q \in Procs : procs'[q].pc = "mint" =>
           \/ procs'[q] = procs[q]
           \/ procs'[q].expires = nextHash /\ procs'[q].sid = s /\ procs'[q].client = c
  PROVE  /\ SessionsOK' /\ CodesOK' /\ OwnedOnce' /\ LookupsOK' /\ TradedOK' /\ Remembered'
         /\ Stable /\ \A r : (Known(r)' <=> Known(r)) /\ (Live(r)' <=> Live(r))
<1>0. TypeOK
  BY DEF Inv
<1>1. /\ UNCHANGED <<use, sess, codes, blocked, now, ended, cause, replayed>>
      /\ nextHash \in Hashes /\ nextHash' = nextHash + 1 /\ nextHash \in Int
  BY DEF Issued, Hashes
<1>2. \A r : (Known(r)' <=> Known(r)) /\ (Live(r)' <=> Live(r))
  BY <1>1 DEF Known, Live, IsExpired
<1>3. SessionsOK' /\ CodesOK'
  BY <1>1, <1>2 DEF Inv, SessionsOK, CodesOK
<1>4. \A r \in Sids, d \in Clients : toks[r][d].hash # 0 =>
        toks[r][d].hash \in Hashes /\ toks[r][d].hash < nextHash /\ Belongs(toks[r][d].hash, r, d)
  <2>1. \A r \in Sids, d \in Clients : toks[r][d].hash \in 0..MaxTokens
    BY <1>0 DEF TypeOK, RefreshToken
  <2>2. \A r \in Sids, d \in Clients : toks[r][d].hash # 0 => toks[r][d].hash \in Hashes
    BY <2>1, SessionsAssumption DEF Hashes
  <2>3. \A r \in Sids, d \in Clients : toks[r][d].hash # 0 => Belongs(toks[r][d].hash, r, d)
    BY DEF Belongs
  <2> QED BY <2>2, <2>3 DEF Inv, OwnedOnce
<1>5. ASSUME NEW h \in Hashes, NEW r \in Sids, NEW d \in Clients, Belongs(h, r, d)'
      PROVE  Belongs(h, r, d) \/ (h = nextHash /\ r = s /\ d = c)
  <2>1. CASE h # 0 /\ toks'[r][d].hash = h
    BY <2>1 DEF Issued, Belongs
  <2>2. CASE lookups'[h].state # "none" /\ lookups'[h].sid = r /\ lookups'[h].client = d
    <3>1. CASE h = nextHash
      BY <2>2, <3>1 DEF Issued, ActiveLookup
    <3>2. CASE h # nextHash /\ lookups'[h] = lookups[h]
      BY <2>2, <3>2 DEF Belongs
    <3>3. CASE h = toks[s][c].hash /\ lookups'[h].sid = s /\ lookups'[h].client = c
      BY <2>2, <3>3 DEF Belongs, Hashes
    <3> QED BY <3>1, <3>2, <3>3 DEF Issued
  <2>3. CASE \E t \in held' : t.hash = h /\ t.sid = r /\ t.client = d
    BY <2>3 DEF Issued, Belongs
  <2>4. CASE \E p \in Procs : /\ procs'[p].pc = "mint" /\ procs'[p].expires = h
                              /\ procs'[p].sid = r /\ procs'[p].client = d
    BY <2>4 DEF Belongs
  <2> QED BY <1>5, <2>1, <2>2, <2>3, <2>4 DEF Belongs
<1>6. OwnedOnce'
  <2>1. \A h \in Hashes, r \in Sids, d \in Clients : Belongs(h, r, d) => h < nextHash /\ h # nextHash
    BY <1>1 DEF Inv, OwnedOnce, Hashes
  <2>2. \A h \in Hashes, r \in Sids, d \in Clients : Belongs(h, r, d)' => h < nextHash' /\ Known(r)'
    BY <1>1, <1>2, <1>5 DEF Inv, OwnedOnce, Hashes
  <2>3. \A h \in Hashes, r1, r2 \in Sids, d1, d2 \in Clients :
          Belongs(h, r1, d1)' /\ Belongs(h, r2, d2)' => r1 = r2 /\ d1 = d2
    BY <1>5, <2>1 DEF Inv, OwnedOnce
  <2> QED BY <2>2, <2>3 DEF OwnedOnce
<1>7. \A r \in Sids, d \in Clients : r # s \/ d # c => toks'[r][d] = toks[r][d]
  BY DEF Issued
<1>8. LookupsOK'
  <2>1. ASSUME NEW r \in Sids, NEW d \in Clients, toks'[r][d].hash # 0
        PROVE  \/ lookups'[toks'[r][d].hash] = ActiveLookup(r, d, toks'[r][d].expires)
               \/ /\ lookups'[toks'[r][d].hash] = NoLookup
                  /\ toks'[r][d].hash = 1 \/ IsExpired(toks[r][d])'
    <3>1. CASE r = s /\ d = c
      BY <3>1 DEF Issued
    <3>2. CASE r # s \/ d # c
      <4>1. toks'[r][d] = toks[r][d]
        BY <1>7, <3>2
      <4>2. PICK h \in Hashes : h = toks[r][d].hash /\ h < nextHash /\ Belongs(h, r, d)
        BY <1>4, <2>1, <4>1
      <4>3. h # toks[s][c].hash
        <5> SUFFICES ASSUME h = toks[s][c].hash PROVE FALSE
          OBVIOUS
        <5>1. Belongs(h, s, c)
          BY DEF Belongs, Hashes
        <5> QED BY <3>2, <4>2, <5>1 DEF Inv, OwnedOnce
      <4>4. lookups'[h] = lookups[h]
        BY <1>1, <4>2, <4>3 DEF Issued, Hashes
      <4>5. IsExpired(toks[r][d]) => IsExpired(toks[r][d])'
        BY <1>1, <4>1 DEF IsExpired
      <4> QED BY <2>1, <4>1, <4>2, <4>4, <4>5 DEF Inv, LookupsOK
    <3> QED BY <3>1, <3>2
  <2>2. \A h \in Hashes : lookups'[h].state # "none" => lookups'[h].sid \in Sids /\ lookups'[h].client \in Clients
    BY DEF Inv, LookupsOK, Issued, ActiveLookup
  <2> QED BY <2>1, <2>2 DEF LookupsOK, ActiveLookup
<1>9. \A h \in Hashes : h < nextHash /\ Spent(h) => Spent(h)'
  BY <1>1, <1>7 DEF Spent, Issued, Hashes
<1>10. TradedOK'
  <2>1. \A t \in held : t.from # 0 => t.from \in Hashes /\ t.from < nextHash /\ Spent(t.from)
    BY <1>0, SessionsAssumption DEF TypeOK, Held, Hashes, Inv, TradedOK
  <2>2. \A t \in held' : t.from # 0 => t \in held
    BY DEF Issued
  <2>3. \A t \in held' : t.from # 0 => t.from < nextHash' /\ Spent(t.from)'
    BY <1>1, <1>9, <2>1, <2>2 DEF Hashes
  <2> QED BY <2>2, <2>3 DEF Inv, TradedOK, OneSuccessor
<1>11. Remembered'
  <2> SUFFICES ASSUME NEW h \in Hashes, lookups'[h].state = "consumed", Live(lookups[h].sid)'
               PROVE  lookups'[h].expires = sess'[lookups'[h].sid].expires
    BY DEF Remembered
  <2>1. h # nextHash
    BY DEF Issued, ActiveLookup
  <2>2. CASE lookups'[h] = lookups[h]
    BY <1>1, <2>2 DEF Inv, Remembered, Live, IsExpired
  <2>3. CASE lookups'[h].sid = s /\ (Live(s) => lookups'[h].expires = sess[s].expires)
    BY <1>1, <2>3 DEF Live, IsExpired
  <2> QED BY <2>1, <2>2, <2>3 DEF Issued
<1>12. Stable
  BY <1>1, <1>2, <1>9 DEF Stable, Issued
<1> QED BY <1>2, <1>3, <1>6, <1>8, <1>10, <1>11, <1>12

LEMMA IssuedStep ==
  ASSUME Inv, TypeOK', NEW s \in Sids, NEW c \in Clients, Known(s), Issued(s, c),
         NEW p \in Procs, NEW x \in Proc, procs' = [procs EXCEPT ![p] = x], Good(x)', x.pc # "create",
         x.pc = "mint" => /\ x.expires = nextHash /\ x.sid = s /\ x.client = c
                          /\ x.hash \in Hashes /\ x.hash = toks[s][c].hash,
         faults' = 0 => faults = 0 /\ \A r \in Sids : ~Ends(procs[p], r)
  PROVE  Inv'
<1>0. TypeOK /\ nextHash \in Int
  BY DEF Inv, TypeOK
<1>1. procs'[p] = x /\ \A q \in Procs : q # p => procs'[q] = procs[q]
  BY <1>0, ProcSet DEF TypeOK
<1>2. /\ SessionsOK' /\ CodesOK' /\ OwnedOnce' /\ LookupsOK' /\ TradedOK' /\ Remembered'
      /\ Stable /\ \A r : (Known(r)' <=> Known(r)) /\ (Live(r)' <=> Live(r))
  BY <1>1, IssuedRows
<1>3. \A q \in Procs : Good(procs[q])'
  <2>1. \A q \in Procs : q # p =>
          /\ procs[q].pc = "create" => ~Known(procs[q].sid)'
          /\ procs[q].pc = "mint" => \A t \in held' : t.from # procs[q].hash
    <3>1. \A q \in Procs : procs[q].pc = "create" => ~Known(procs[q].sid)
      BY DEF Inv, Good, Names
    <3>2. \A q \in Procs : procs[q].pc = "mint" =>
            procs[q].hash \in Hashes /\ \A t \in held : t.from # procs[q].hash
      BY DEF Inv, Good, Trades, OnToken, Chained
    <3>3. \A t \in held' : t \in held \/ t.from = 0
      BY DEF Issued
    <3>4. 0 \notin Hashes
      BY DEF Hashes
    <3> QED BY <1>1, <1>2, <3>1, <3>2, <3>3, <3>4 DEF Known, Live, IsExpired
  <2> QED BY <1>0, <1>2, <2>1, GoodStep DEF Inv
<1>4. Apart'
  <2>1. \A q \in Procs : procs[q].pc = "mint" => procs[q].hash # toks[s][c].hash
    BY DEF Inv, Good, Trades, Spent
  <2> QED BY <1>1, <2>1 DEF Inv, Apart
<1>5. ReplayOK'
  <2>1. ASSUME NEW q \in Procs, q # p, NEW r \in Sids, Ends(procs[q], r) PROVE Ends(procs[q], r)'
    <3>1. CASE procs[q].pc \in {"lookup", "consumed"}
      <4>1. PICK h \in Hashes : h = procs[q].hash /\ h < nextHash
        BY <3>1 DEF Inv, Good, Trades, OnToken
      <4>2. lookups[h].state = "consumed" /\ lookups[h].sid = r
        BY <2>1, <3>1, <4>1 DEF Ends
      <4>3. h # nextHash
        BY <1>0, <4>1 DEF Hashes
      <4>4. lookups'[h].state = "consumed" /\ lookups'[h].sid = r
        <5>1. CASE lookups'[h] = lookups[h]
          BY <4>2, <5>1
        <5>2. CASE h = toks[s][c].hash /\ lookups'[h].state = "consumed" /\ lookups'[h].sid = s
          <6>1. Belongs(h, s, c)
            BY <5>2 DEF Belongs, Hashes
          <6>2. Belongs(h, r, lookups[h].client) /\ lookups[h].client \in Clients
            BY <4>2 DEF Belongs, Inv, LookupsOK
          <6> QED BY <5>2, <6>1, <6>2 DEF Inv, OwnedOnce
        <5> QED BY <4>3, <5>1, <5>2 DEF Issued
      <4> QED BY <1>1, <2>1, <3>1, <4>1, <4>4 DEF Ends
    <3>2. CASE procs[q].pc \notin {"lookup", "consumed"}
      BY <1>1, <2>1, <3>2 DEF Ends
    <3> QED BY <3>1, <3>2
  <2> SUFFICES ASSUME faults' = 0, NEW r \in replayed, Live(r) PROVE \E q \in Procs : Ends(procs[q], r)'
    BY <1>2 DEF Inv, ReplayOK, Issued
  <2>2. PICK q \in Procs : Ends(procs[q], r)
    BY DEF Inv, ReplayOK
  <2>3. r \in Sids
    BY <1>0 DEF TypeOK
  <2>4. q # p
    BY <2>2, <2>3
  <2> QED BY <2>1, <2>2, <2>3, <2>4
<1> QED BY <1>2, <1>3, <1>4, <1>5 DEF Inv

LEMMA IssuePutInv ==
  ASSUME Inv, UNCHANGED use, NEW p \in Procs, IssuePut(p)
  PROVE  Inv'
<1>1. TypeOK /\ procs[p] \in Proc /\ Good(procs[p]) /\ procs[p].pc = "issuePut" /\ procs[p].expires \in Int
  BY DEF Inv, TypeOK, IssuePut, Proc
<1>2. PICK s \in Sids, c \in Clients : s = procs[p].sid /\ c = procs[p].client /\ Known(s)
  BY <1>1 DEF Good, Names, OnSession, OnClient
<1>3. nextHash \in Hashes /\ nextHash \in 0..MaxTokens /\ nextHash + 1 \in 1..(MaxTokens + 1)
  BY <1>1, SessionsAssumption DEF IssuePut, PutRefreshToken, TypeOK, Hashes
<1>4. /\ UNCHANGED <<use, sess, codes, blocked, now, ended, cause, replayed>>
      /\ toks' = [toks EXCEPT ![s][c] = [hash |-> nextHash, expires |-> procs[p].expires]]
      /\ lookups' = [lookups EXCEPT ![nextHash] = ActiveLookup(s, c, procs[p].expires)]
      /\ nextHash' = nextHash + 1
      /\ procs' = [procs EXCEPT ![p] = Idle]
      /\ faults' \in Nat /\ (faults' = 0 => faults = 0)
  BY <1>1, <1>2 DEF IssuePut, PutRefreshToken, Return, Fault, NoFault, TypeOK
<1>5. PICK t : t = [hash |-> nextHash, expires |-> procs[p].expires]
  OBVIOUS
<1>6. t \in RefreshToken /\ t.hash = nextHash /\ t.expires = procs[p].expires
  BY <1>1, <1>3, <1>5 DEF RefreshToken
<1>7. ActiveLookup(s, c, procs[p].expires) \in Lookup
  BY <1>1 DEF ActiveLookup, Lookup
<1>8. /\ toks' \in [Sids -> [Clients -> RefreshToken]] /\ toks'[s][c] = t
      /\ \A r \in Sids, d \in Clients : r # s \/ d # c => toks'[r][d] = toks[r][d]
  BY <1>1, <1>4, <1>5, <1>6 DEF TypeOK
<1>9. /\ lookups' \in [Hashes -> Lookup] /\ lookups'[nextHash] = ActiveLookup(s, c, t.expires)
      /\ \A h \in Hashes \ {nextHash} : lookups'[h] = lookups[h]
  BY <1>1, <1>3, <1>4, <1>6, <1>7 DEF TypeOK
<1>10. PICK n : n = [hash |-> nextHash, sid |-> s, client |-> c, from |-> 0]
  OBVIOUS
<1>11. n \in Held
  BY <1>3, <1>10, SessionsAssumption DEF Held
<1>12. held \subseteq held' /\ held' \subseteq held \cup {n}
  BY <1>2, <1>10 DEF IssuePut
<1>13. TypeOK'
  BY <1>1, <1>3, <1>4, <1>8, <1>9, <1>11, <1>12, IdleType, ProcSet DEF TypeOK
<1>14. Issued(s, c)
  BY <1>3, <1>4, <1>6, <1>8, <1>9, <1>10, <1>12 DEF Issued
<1>15. Good(Idle)'
  BY IdleGood DEF Good, Names, Trades, Allowed, Idle, OnToken, OnClient, OnSession, Chained
<1>16. \A r : ~Ends(procs[p], r)
  BY <1>1 DEF Ends
<1> QED BY <1>2, <1>4, <1>13, <1>14, <1>15, <1>16, IdleType, IdleGood, IssuedStep

LEMMA RotateInv ==
  ASSUME Inv, UNCHANGED use, NEW p \in Procs, Rotate(p)
  PROVE  Inv'
<1>1. /\ TypeOK /\ procs[p] \in Proc /\ Good(procs[p]) /\ procs[p].pc = "rotate" /\ procs[p].op = "refresh"
      /\ procs[p].expires \in Int /\ procs[p].hash \in Hashes /\ procs[p].hash < nextHash
  BY DEF Inv, TypeOK, Rotate, Proc, Good, Names, Trades, OnToken, Chained
<1>2. PICK s \in Sids, c \in Clients, h \in Hashes :
        s = procs[p].sid /\ c = procs[p].client /\ h = procs[p].hash /\ Known(s)
  BY <1>1 DEF Good, Names, OnSession, OnClient, Chained
<1>3. \A r : ~Ends(procs[p], r)
  BY <1>1 DEF Ends
<1>4. ASSUME NoFault, Goto(p, "list"), UNCHANGED <<toks, lookups, nextHash, sess, codes, seen, blocked, now>>
      PROVE  Inv'
  <2>1. PICK x : x = [procs[p] EXCEPT !.pc = "list"]
    OBVIOUS
  <2>2. x \in Proc /\ x.pc = "list" /\ x.sid = s /\ x.barred = procs[p].barred /\ x.sids = procs[p].sids
    BY <1>1, <1>2, <2>1, StepNames DEF Proc
  <2>3. (\A r \in procs[p].sids : Known(r)) /\ (procs[p].barred => blocked)
    BY <1>1 DEF Good, Names, Allowed
  <2>4. Good(x)
    BY <1>2, <2>2, <2>3, SimpleGood
  <2>5. Quiet /\ faults' = faults
    BY <1>1, <1>4 DEF Quiet, Still, TypeOK, NoFault, seen
  <2>6. procs' = [procs EXCEPT ![p] = x]
    BY <1>4, <2>1 DEF Goto
  <2> QED BY <1>3, <2>2, <2>4, <2>5, <2>6, QuietStep
<1>5. ASSUME RotateRefreshToken(s, c, h, procs[p].expires),
             UNCHANGED <<sess, codes, seen, blocked, now>>,
             \/ NoFault /\ procs' = [procs EXCEPT ![p] = [@ EXCEPT !.pc = "mint", !.expires = nextHash]]
             \/ Fault /\ Return(p)
      PROVE  Inv'
  <2>1. nextHash \in Int /\ nextHash \in Hashes /\ nextHash \in 0..MaxTokens /\ nextHash + 1 \in 1..(MaxTokens + 1)
    BY SMTT(20), <1>1, <1>5, SessionsAssumption DEF RotateRefreshToken, TypeOK, Hashes
  <2>2. /\ UNCHANGED <<use, sess, codes, blocked, now, held, ended, cause, replayed>>
        /\ toks' = [toks EXCEPT ![s][c] = [hash |-> nextHash, expires |-> now + use.ttl]]
        /\ lookups' = [lookups EXCEPT ![h] = ConsumedLookup(s, c, procs[p].expires),
                                      ![nextHash] = ActiveLookup(s, c, now + use.ttl)]
        /\ nextHash' = nextHash + 1 /\ toks[s][c].hash = h
        /\ faults' \in Nat /\ (faults' = 0 => faults = 0) /\ use.ttl \in Nat
    BY <1>1, <1>5, SessionsAssumption DEF RotateRefreshToken, RotateAllowed, Fault, NoFault, TypeOK, seen
  <2>3. PICK t : t = [hash |-> nextHash, expires |-> now + use.ttl]
    OBVIOUS
  <2>4. t \in RefreshToken /\ t.hash = nextHash /\ t.expires = now + use.ttl
    BY <1>1, <2>1, <2>2, <2>3 DEF RefreshToken, TypeOK
  <2>5. PICK new \in Lookup, old \in Lookup :
          new = ActiveLookup(s, c, t.expires) /\ old = ConsumedLookup(s, c, procs[p].expires)
    <3>1. t.expires \in Int
      BY <2>4 DEF RefreshToken
    <3> QED BY <1>1, <3>1 DEF ActiveLookup, ConsumedLookup, Lookup
  <2>6. /\ toks' \in [Sids -> [Clients -> RefreshToken]] /\ toks'[s][c] = t
        /\ \A r \in Sids, d \in Clients : r # s \/ d # c => toks'[r][d] = toks[r][d]
    BY <1>1, <2>2, <2>3, <2>4 DEF TypeOK
  <2>7. h # nextHash /\ h < nextHash
    BY <1>1, <1>2, <2>1 DEF Hashes
  <2>8. /\ lookups' \in [Hashes -> Lookup] /\ lookups'[nextHash] = new /\ lookups'[h] = old
        /\ \A g \in Hashes : g # nextHash /\ g # h => lookups'[g] = lookups[g]
    BY <1>1, <2>1, <2>2, <2>4, <2>5, <2>7 DEF TypeOK
  <2>9. Live(s) => procs[p].expires = sess[s].expires
    BY <1>1, <1>2 DEF Good, Trades
  <2>10. old.state = "consumed" /\ old.sid = s /\ old.client = c /\ old.expires = procs[p].expires
    BY <2>5 DEF ConsumedLookup
  <2>11. Issued(s, c)
    BY <2>1, <2>2, <2>4, <2>5, <2>6, <2>7, <2>8, <2>9, <2>10 DEF Issued
  <2>12. CASE NoFault /\ procs' = [procs EXCEPT ![p] = [@ EXCEPT !.pc = "mint", !.expires = nextHash]]
    <3>1. PICK x : x = [procs[p] EXCEPT !.pc = "mint", !.expires = nextHash]
      OBVIOUS
    <3>2. /\ x \in Proc /\ x.pc = "mint" /\ x.op = "refresh" /\ x.sid = s /\ x.client = c
          /\ x.hash = h /\ x.expires = nextHash
          /\ x.late = procs[p].late /\ x.barred = procs[p].barred /\ x.sids = procs[p].sids
      BY <1>1, <1>2, <2>1, <3>1, StepNames DEF Proc
    <3>3. procs' = [procs EXCEPT ![p] = x]
      BY <2>12, <3>1
    <3>4. TypeOK'
      BY <1>1, <2>1, <2>2, <2>6, <2>8, <3>2, <3>3, ProcSet DEF TypeOK
    <3>5. Names(x)'
      <4>1. \A r : Known(r)' <=> Known(r)
        BY <2>2 DEF Known, Live, IsExpired
      <4>2. \A r \in procs[p].sids : Known(r)
        BY <1>1 DEF Good, Names
      <4> QED BY <1>2, <3>2, <4>1, <4>2 DEF Names, OnSession, OnClient, Chained
    <3>6. Spent(h)'
      <4>1. \A r \in Sids, d \in Clients : toks[r][d].hash = h => r = s /\ d = c
        <5>1. \A r \in Sids, d \in Clients : toks[r][d].hash = h => Belongs(h, r, d)
          BY DEF Belongs, Hashes
        <5> QED BY <2>2, <5>1 DEF Inv, OwnedOnce
      <4> QED BY <2>4, <2>6, <2>7, <4>1 DEF Spent
    <3>7. \A u \in held : u.from # h
      BY <2>2 DEF Inv, TradedOK, Spent, Hashes
    <3>8. Trades(x)'
      <4>1. \E u \in held : u.hash = h /\ u.sid = s /\ u.client = c
        BY <1>1, <1>2 DEF Good, Trades, Chained
      <4>2. h < nextHash' /\ nextHash < nextHash'
        BY <2>1, <2>2, <2>7 DEF Hashes
      <4> QED BY <2>1, <2>2, <3>2, <3>6, <3>7, <4>1, <4>2 DEF Trades, OnToken, Chained
    <3>9. Allowed(x)'
      BY <1>1, <2>2, <3>2 DEF Good, Allowed
    <3> QED BY <1>2, <1>3, <2>2, <2>11, <3>2, <3>3, <3>4, <3>5, <3>8, <3>9, IssuedStep DEF Good
  <2>13. CASE Fault /\ Return(p)
    <3>1. procs' = [procs EXCEPT ![p] = Idle]
      BY <2>13 DEF Return
    <3>2. TypeOK'
      BY <1>1, <2>1, <2>2, <2>6, <2>8, <3>1, IdleType, ProcSet DEF TypeOK
    <3>3. Good(Idle)'
      BY IdleGood DEF Good, Names, Trades, Allowed, Idle, OnToken, OnClient, OnSession, Chained
    <3> QED BY <1>2, <1>3, <2>2, <2>11, <3>1, <3>2, <3>3, IdleType, IdleGood, IssuedStep
  <2> QED BY <1>5, <2>12, <2>13
<1> QED BY <1>2, <1>4, <1>5 DEF Rotate

\* The answer of a rotation reaches the client, or a blocked account is refused.
LEMMA MintInv ==
  ASSUME Inv, UNCHANGED use, NEW p \in Procs, Mint(p)
  PROVE  Inv'
<1>1. /\ TypeOK /\ procs[p] \in Proc /\ Good(procs[p]) /\ procs[p].pc = "mint"
      /\ procs[p].hash \in Hashes /\ procs[p].hash < nextHash /\ procs[p].expires \in Hashes
      /\ Spent(procs[p].hash) /\ (\A t \in held : t.from # procs[p].hash)
  BY DEF Inv, TypeOK, Mint, Good, Trades, OnToken, Chained
<1>2. PICK s \in Sids, c \in Clients, h \in Hashes, n \in Hashes :
        /\ s = procs[p].sid /\ c = procs[p].client /\ h = procs[p].hash /\ n = procs[p].expires
        /\ Known(s) /\ Belongs(n, s, c)
  <2>1. procs[p].sid \in Sids /\ procs[p].client \in Clients /\ Known(procs[p].sid)
    BY <1>1 DEF Good, Names, OnSession, OnClient, Chained
  <2>2. Belongs(procs[p].expires, procs[p].sid, procs[p].client)
    BY <1>1 DEF Belongs
  <2> QED BY <1>1, <2>1, <2>2
<1>3. PICK u : u = [hash |-> n, sid |-> s, client |-> c, from |-> h]
  OBVIOUS
<1>4. u \in Held /\ u.hash = n /\ u.sid = s /\ u.client = c /\ u.from = h /\ h # 0
  BY <1>3, SessionsAssumption DEF Held, Hashes
<1>5. /\ UNCHANGED <<sess, toks, lookups, nextHash, codes, blocked, now, faults, ended, cause, replayed>>
      /\ held' = held \/ held' = held \cup {u}
      /\ procs' = [procs EXCEPT ![p] = Idle]
  BY <1>2, <1>3 DEF Mint, Return, rows
<1>6. TypeOK'
  BY <1>1, <1>4, <1>5, IdleType, ProcSet DEF TypeOK
<1>7. procs'[p] = Idle /\ \A q \in Procs : q # p => procs'[q] = procs[q]
  BY <1>1, <1>5, IdleType, ProcSet DEF TypeOK
<1>8. \A r : (Known(r)' <=> Known(r)) /\ (Live(r)' <=> Live(r))
  BY <1>5 DEF Known, Live, IsExpired
<1>9. \A g, r, d : Belongs(g, r, d)' => Belongs(g, r, d)
  <2> SUFFICES ASSUME NEW g, NEW r, NEW d, Belongs(g, r, d)' PROVE Belongs(g, r, d)
    OBVIOUS
  <2>1. CASE \/ g # 0 /\ toks'[r][d].hash = g
             \/ lookups'[g].state # "none" /\ lookups'[g].sid = r /\ lookups'[g].client = d
    BY <1>5, <2>1 DEF Belongs
  <2>2. CASE \E t \in held' : t.hash = g /\ t.sid = r /\ t.client = d
    BY <1>2, <1>4, <1>5, <2>2 DEF Belongs
  <2>3. CASE \E q \in Procs : /\ procs'[q].pc = "mint" /\ procs'[q].expires = g
                              /\ procs'[q].sid = r /\ procs'[q].client = d
    BY <1>7, <2>3, IdleGood DEF Belongs
  <2> QED BY <2>1, <2>2, <2>3 DEF Belongs
<1>10. OwnedOnce'
  BY <1>5, <1>8, <1>9 DEF Inv, OwnedOnce
<1>11. SessionsOK' /\ CodesOK'
  BY <1>5, <1>8 DEF Inv, SessionsOK, CodesOK
<1>12. LookupsOK' /\ Remembered'
  BY <1>5 DEF Inv, LookupsOK, Remembered, Live, IsExpired
<1>13. \A g : Spent(g)' <=> Spent(g)
  BY <1>5 DEF Spent
<1>14. TradedOK'
  <2>1. \A t \in held' : t.from # 0 => t.from < nextHash' /\ Spent(t.from)
    BY <1>1, <1>2, <1>4, <1>5 DEF Inv, TradedOK
  <2>2. OneSuccessor'
    BY <1>1, <1>2, <1>4, <1>5 DEF Inv, TradedOK, OneSuccessor
  <2> QED BY <1>5, <2>1, <2>2 DEF TradedOK, Spent
<1>15. Stable
  BY <1>1, <1>5, <1>8, <1>13 DEF Stable, TypeOK
<1>16. \A q \in Procs : Good(procs[q])'
  <2>1. Good(Idle)'
    BY IdleGood DEF Good, Names, Trades, Allowed, Idle, OnToken, OnClient, OnSession, Chained
  <2>2. \A q \in Procs : q # p =>
          /\ procs[q].pc = "create" => ~Known(procs[q].sid)'
          /\ procs[q].pc = "mint" => \A t \in held' : t.from # procs[q].hash
    <3>1. \A q \in Procs : procs[q].pc = "create" => ~Known(procs[q].sid)
      BY DEF Inv, Good, Names
    <3>2. \A q \in Procs : procs[q].pc = "mint" => \A t \in held : t.from # procs[q].hash
      BY DEF Inv, Good, Trades
    <3>3. \A q \in Procs : q # p /\ procs[q].pc = "mint" => procs[q].hash # h
      BY <1>1, <1>2 DEF Inv, Apart
    <3> QED BY <1>4, <1>5, <1>7, <1>8, <3>1, <3>2, <3>3 DEF Known, Live, IsExpired
  <2> QED BY <1>1, <1>5, <1>6, <1>15, <2>1, <2>2, IdleType, GoodStep DEF Inv
<1>17. Apart'
  BY <1>7, IdleGood DEF Inv, Apart
<1>18. ReplayOK'
  <2>1. \A r : ~Ends(procs[p], r)
    BY <1>1 DEF Ends
  <2>2. \A q \in Procs : q # p => \A r : Ends(procs[q], r) => Ends(procs[q], r)'
    BY <1>5, <1>7 DEF Ends
  <2> QED BY <1>5, <1>8, <2>1, <2>2 DEF Inv, ReplayOK
<1> QED BY <1>6, <1>10, <1>11, <1>12, <1>14, <1>16, <1>17, <1>18 DEF Inv

-----------------------------------------------------------------------------
(* The invariant *)

LEMMA InitInv == Init => Inv
<1> SUFFICES ASSUME Init PROVE Inv
  OBVIOUS
<1>1. /\ use \in Scenes /\ use.sids \subseteq Sids /\ use.clients \subseteq Clients /\ use.ttl \in Nat
      /\ use.tokens \in 0..MaxTokens
  BY SessionsAssumption DEF Init
<1>2. PICK old :
        /\ old \in {{}} \cup {{o} : o \in use.sids \X use.clients}
        /\ old # {} => use.tokens > 0 /\ "legacy" \in use.ops
        /\ sess = [s \in Sids |-> IF \E o \in old : o[1] = s
                                  THEN [row |-> TRUE, expires |-> use.ttl]
                                  ELSE NoSession]
        /\ toks = [s \in Sids |-> [c \in Clients |->
                    IF <<s, c>> \in old THEN [hash |-> 1, expires |-> use.ttl] ELSE NoToken]]
        /\ nextHash = IF old = {} THEN 1 ELSE 2
        /\ held = {[hash |-> 1, sid |-> o[1], client |-> o[2], from |-> 0] : o \in old}
  BY Zenon DEF Init
<1>3. /\ lookups = [h \in Hashes |-> NoLookup] /\ codes = {} /\ blocked = FALSE
      /\ procs = [p \in Procs |-> Idle] /\ now = 0 /\ faults = 0
      /\ ended = {} /\ cause = {} /\ replayed = {}
  BY DEF Init
<1>4. /\ old \subseteq Sids \X Clients
      /\ \A a, b \in old : a = b
      /\ old # {} => 1 \in Hashes /\ MaxTokens >= 1
  BY <1>1, <1>2, SessionsAssumption DEF Hashes
<1>5. PICK open, none, first, zero :
        /\ open = [row |-> TRUE, expires |-> use.ttl] /\ none = NoSession
        /\ first = [hash |-> 1, expires |-> use.ttl] /\ zero = NoToken
  OBVIOUS
<1>6. /\ open.row = TRUE /\ open.expires = use.ttl /\ none.row = FALSE /\ none.expires = Never
      /\ first.hash = 1 /\ zero.hash = 0
      /\ open \in Session /\ none \in Session /\ zero \in RefreshToken
      /\ old # {} => first \in RefreshToken
  <2>1. old # {} => 1 \in 0..MaxTokens
    BY <1>4, SessionsAssumption
  <2> QED BY <1>1, <1>5, <2>1, SessionsAssumption DEF Session, RefreshToken, NoSession, NoToken, Never
<1>7. \A s \in Sids : \/ sess[s] = open /\ (\E o \in old : o[1] = s)
                      \/ sess[s] = none
  BY <1>2, <1>5
<1>8. \A s \in Sids, c \in Clients : \/ toks[s][c] = first /\ <<s, c>> \in old
                                     \/ toks[s][c] = zero
  BY <1>2, <1>5
<1>9. \A t \in held : \E o \in old : t = [hash |-> 1, sid |-> o[1], client |-> o[2], from |-> 0]
  BY <1>2
<1>10. \A t \in held : t \in Held /\ t.hash = 1 /\ t.from = 0 /\ <<t.sid, t.client>> \in old
  <2> SUFFICES ASSUME NEW t \in held PROVE t \in Held /\ t.hash = 1 /\ t.from = 0 /\ <<t.sid, t.client>> \in old
    OBVIOUS
  <2>1. PICK o \in old : t = [hash |-> 1, sid |-> o[1], client |-> o[2], from |-> 0]
    BY <1>9
  <2>2. o[1] \in Sids /\ o[2] \in Clients /\ o = <<o[1], o[2]>>
    BY <1>4
  <2>3. 1 \in Hashes /\ 0 \in 0..MaxTokens
    BY <1>4, SessionsAssumption
  <2> QED BY <2>1, <2>2, <2>3 DEF Held
<1>11. TypeOK
  <2>1. sess \in [Sids -> Session]
    BY <1>2, <1>6, <1>7
  <2>2. toks \in [Sids -> [Clients -> RefreshToken]]
    BY <1>2, <1>5, <1>6
  <2>3. lookups \in [Hashes -> Lookup]
    BY <1>3 DEF Lookup, NoLookup, Never
  <2>4. nextHash \in 1..(MaxTokens + 1)
    BY <1>2, <1>4, SessionsAssumption
  <2>5. procs \in [Procs -> Proc]
    BY <1>3, IdleType
  <2> QED BY <1>1, <1>3, <1>10, <2>1, <2>2, <2>3, <2>4, <2>5 DEF TypeOK
<1>12. \A s \in Sids : Live(s) <=> \E o \in old : o[1] = s
  <2> SUFFICES ASSUME NEW s \in Sids PROVE Live(s) <=> \E o \in old : o[1] = s
    OBVIOUS
  <2>1. CASE \E o \in old : o[1] = s
    <3>1. sess[s] = open
      BY <1>2, <1>5, <2>1
    <3> QED BY <1>1, <1>3, <1>6, <2>1, <3>1 DEF Live, IsExpired
  <2>2. CASE ~\E o \in old : o[1] = s
    BY <1>6, <1>7, <2>2 DEF Live
  <2> QED BY <2>1, <2>2
<1>13. SessionsOK /\ CodesOK
  BY <1>3, <1>6, <1>7, <1>12 DEF SessionsOK, CodesOK, Known
<1>14. \A h \in Hashes, s \in Sids, c \in Clients : Belongs(h, s, c) => h = 1 /\ <<s, c>> \in old
  BY <1>3, <1>6, <1>8, <1>10, IdleGood DEF Belongs, NoLookup
<1>15. OwnedOnce
  <2>1. \A s \in Sids, c \in Clients : <<s, c>> \in old => nextHash = 2 /\ 1 < nextHash
    BY <1>2
  <2>2. \A s \in Sids, c \in Clients : <<s, c>> \in old => Known(s)
    BY <1>12 DEF Known
  <2>3. \A s1, s2 \in Sids, c1, c2 \in Clients : <<s1, c1>> \in old /\ <<s2, c2>> \in old => s1 = s2 /\ c1 = c2
    BY <1>4
  <2>4. \A h \in Hashes, s \in Sids, c \in Clients : Belongs(h, s, c) => h < nextHash /\ Known(s)
    BY <1>14, <2>1, <2>2
  <2>5. \A h \in Hashes, s1, s2 \in Sids, c1, c2 \in Clients :
          Belongs(h, s1, c1) /\ Belongs(h, s2, c2) => s1 = s2 /\ c1 = c2
    BY <1>14, <2>3
  <2> QED BY <2>4, <2>5 DEF OwnedOnce
<1>16. LookupsOK
  <2>1. \A s \in Sids, c \in Clients : toks[s][c].hash # 0 => toks[s][c].hash = 1 /\ 1 \in Hashes
    BY <1>4, <1>6, <1>8
  <2> QED BY <1>3, <2>1 DEF LookupsOK, NoLookup
<1>17. TradedOK
  BY <1>10 DEF TradedOK, OneSuccessor
<1>18. Remembered /\ ReplayOK
  BY <1>3 DEF Remembered, ReplayOK, NoLookup
<1>19. (\A p \in Procs : Good(procs[p])) /\ Apart
  BY <1>3, IdleGood DEF Apart
<1> QED BY <1>11, <1>13, <1>15, <1>16, <1>17, <1>18, <1>19 DEF Inv

LEMMA NextInv == Inv /\ [Next]_vars => Inv'
<1> SUFFICES ASSUME Inv, [Next]_vars PROVE Inv'
  OBVIOUS
<1>1. CASE UNCHANGED vars
  <2>1. UNCHANGED <<use, sess, toks, lookups, nextHash, codes, blocked, procs, now, faults, held, ended, cause, replayed>>
    BY <1>1 DEF vars
  <2>2. SessionsKept /\ OpensNone
    BY <2>1, SameSessions
  <2>3. Calm
    BY <2>1, <2>2 DEF Calm, SessionsKept
  <2>4. TypeOK'
    BY <2>1 DEF Inv, TypeOK
  <2>5. \A q \in Procs, s \in Sids : Ends(procs[q], s) => Ends(procs[q], s)'
    BY <2>1 DEF Ends
  <2> QED BY <2>1, <2>2, <2>3, <2>4, <2>5, OutsideStep
<1>2. CASE Next
  <2>1. UNCHANGED use
    BY <1>2 DEF Next
  <2>2. CASE Tick \/ Prune \/ Unblock
    BY <2>1, <2>2, TickInv, PruneInv, UnblockInv
  <2>3. CASE \E s \in use.sids, c \in use.clients : Authorize(s, c)
    BY <2>1, <2>3, AuthorizeInv
  <2>4. ASSUME NEW p \in Procs, Start(p) PROVE Inv'
    BY <2>1, <2>4, LoginInv, RefreshInv, QuietStarts, QuietOthers DEF Start
  <2>5. ASSUME NEW p \in Procs, Continue(p) PROVE Inv'
    <3>1. CASE Create(p) \/ IssuePut(p) \/ Rotate(p) \/ Mint(p) \/ Mark(p)
      BY <2>1, <3>1, CreateInv, IssuePutInv, RotateInv, MintInv, MarkInv
    <3>2. CASE DeleteListed(p) \/ DropSession(p) \/ DropToken(p) \/ UpdateMFA(p)
      BY <2>1, <3>2, DeleteListedInv, DropSessionInv, DropTokenInv, UpdateMFAInv
    <3>3. CASE ExchangeUser(p) \/ ExchangeSession(p) \/ IssueGet(p)
      BY <2>1, <3>3, QuietExchange
    <3>4. CASE GetLookup(p) \/ GetRow(p) \/ GetConsumed(p) \/ GetSession(p)
      BY <2>1, <3>4, QuietRefresh
    <3>5. CASE ListByUserID(p) \/ ListTokens(p)
      BY <2>1, <3>5, QuietRevocation
    <3> QED BY <2>5, <3>1, <3>2, <3>3, <3>4, <3>5 DEF Continue
  <2>6. ASSUME NEW p \in Procs, Crash(p) PROVE Inv'
    BY <2>1, <2>6, QuietOthers
  <2> QED BY <1>2, <2>2, <2>3, <2>4, <2>5, <2>6 DEF Next
<1> QED BY <1>1, <1>2

LEMMA AlwaysInv == Spec => []Inv
BY InitInv, NextInv, PTL DEF Spec

-----------------------------------------------------------------------------
(* The safety properties *)

\* Every row, process and history variable keeps its type, whatever requests
\* interleave and fail.
THEOREM TypeCorrect == Spec => []TypeOK
<1>1. Inv => TypeOK
  BY DEF Inv
<1> QED BY <1>1, AlwaysInv, PTL

\* A refresh token is traded for at most one successor and the current token of
\* a chain is found by its hash: RotateRefreshToken is one conditional transaction.
THEOREM ChainCorrect == Spec => []ChainSound
<1>1. Inv => ChainSound
  <2> SUFFICES ASSUME Inv PROVE CurrentIsActive /\ OneSuccessor
    BY DEF ChainSound
  <2>1. OneSuccessor
    BY DEF Inv, TradedOK
  <2>2. CurrentIsActive
    BY DEF Inv, LookupsOK, CurrentIsActive
  <2> QED BY <2>1, <2>2
<1> QED BY <1>1, AlwaysInv, PTL

\* When a token was presented after its rotation and no call failed, its session
\* is over once no request is in progress: Refresh revokes it, and a consumed
\* lookup outlives every live session.
THEOREM ReplayCorrect == Spec => []ReplayEndsSession
<1>1. Inv => ReplayEndsSession
  <2> SUFFICES ASSUME Inv, faults = 0, \A p \in Procs : procs[p].pc = "idle", NEW s \in replayed, Live(s)
               PROVE  FALSE
    BY DEF ReplayEndsSession
  <2>1. PICK p \in Procs : Ends(procs[p], s)
    BY DEF Inv, ReplayOK
  <2> QED BY <2>1 DEF Ends
<1> QED BY <1>1, AlwaysInv, PTL

\* Only two steps deliver a token: the end of a code exchange and of a refresh.
LEMMA Delivery ==
  ASSUME Inv, [Next]_vars, NEW p \in Procs, Delivers(p)
  PROVE  IssuePut(p) \/ (Mint(p) /\ ~blocked)
<1>1. procs \in [Procs -> Proc] /\ held' # held /\ procs'[p] # procs[p]
  BY DEF Inv, TypeOK, Delivers
<1>2. ~(UNCHANGED vars)
  BY <1>1 DEF vars
<1>3. ~(Tick \/ Prune \/ Unblock)
  BY <1>1 DEF Tick, Prune, Unblock, seen
<1>4. ~\E s \in use.sids, c \in use.clients : Authorize(s, c)
  BY <1>1 DEF Authorize, seen
<1>5. ASSUME NEW q \in Procs, Start(q) PROVE FALSE
  BY <1>1, <1>5 DEF Start, Login, Revoke, RecordMFA, Exchange, Refresh, RevokeClientToken, RevokeAll,
                    RevokeClients, Lock, seen
<1>6. ASSUME NEW q \in Procs, Crash(q) PROVE FALSE
  BY <1>1, <1>6 DEF Crash, seen
<1>7. ASSUME NEW q \in Procs, Continue(q) PROVE q = p /\ (IssuePut(q) \/ (Mint(q) /\ ~blocked))
  <2>1. IssuePut(q) \/ (Mint(q) /\ ~blocked)
    <3>1. ~Create(q) /\ ~ExchangeUser(q) /\ ~ExchangeSession(q) /\ ~IssueGet(q)
      BY <1>1 DEF Create, ExchangeUser, ExchangeSession, IssueGet, seen
    <3>2. ~GetLookup(q) /\ ~GetRow(q) /\ ~GetConsumed(q) /\ ~GetSession(q) /\ ~Rotate(q)
      BY <1>1 DEF GetLookup, GetRow, GetConsumed, GetSession, Rotate, seen
    <3>3. ~Mark(q) /\ ~ListByUserID(q) /\ ~ListTokens(q) /\ ~DeleteListed(q)
      BY <1>1 DEF Mark, ListByUserID, ListTokens, DeleteListed, seen
    <3>4. ~DropSession(q) /\ ~DropToken(q) /\ ~UpdateMFA(q)
      BY <1>1 DEF DropSession, DropToken, UpdateMFA, seen
    <3>5. Mint(q) => ~blocked
      BY <1>1 DEF Mint
    <3> QED BY <1>7, <3>1, <3>2, <3>3, <3>4, <3>5 DEF Continue
  <2>2. procs' = [procs EXCEPT ![q] = Idle]
    BY <2>1 DEF IssuePut, Mint, Return
  <2> QED BY <1>1, <2>1, <2>2
<1> QED BY <1>2, <1>3, <1>4, <1>5, <1>6, <1>7 DEF Next

\* A request that arrived after its session ended is answered no token, by a
\* code exchange or a refresh, also when it raced the revocation.
THEOREM EndedCorrect == Spec => EndedGetsNothing
<1>1. Inv /\ [Next]_vars => [\A p \in Procs : Delivers(p) => ~procs[p].late]_vars
  <2> SUFFICES ASSUME Inv, [Next]_vars, NEW p \in Procs, Delivers(p) PROVE ~procs[p].late
    OBVIOUS
  <2>1. procs[p].pc \in {"issuePut", "mint"}
    BY Delivery DEF IssuePut, Mint
  <2> QED BY <2>1 DEF Inv, Good, Allowed
<1> QED BY <1>1, AlwaysInv, PTL DEF Spec, EndedGetsNothing

\* A request that arrives while the person is blocked is answered no token as long
\* as the block lasts: the exchange looks before it issues, the refresh before it
\* answers.
THEOREM BarredCorrect == Spec => BarredGetsNothing
<1>1. Inv /\ [Next]_vars => [\A p \in Procs : Delivers(p) => ~procs[p].barred]_vars
  <2> SUFFICES ASSUME Inv, [Next]_vars, NEW p \in Procs, Delivers(p) PROVE ~procs[p].barred
    OBVIOUS
  <2>1. procs[p].pc = "issuePut" \/ ~blocked
    BY Delivery DEF IssuePut, Mint
  <2> QED BY <2>1 DEF Inv, Good, Allowed
<1> QED BY <1>1, AlwaysInv, PTL DEF Spec, BarredGetsNothing

-----------------------------------------------------------------------------
(* The refinement: sessions and tokens implement TokenFamily *)

Alive == {s \in Sids : Live(s)}
Current == [s \in Sids |-> [c \in Clients |-> IF Live(s) THEN toks[s][c].hash ELSE 0]]

\* A token in a row was generated, for a session that has been open.
LEMMA Generated ==
  ASSUME Inv, NEW s \in Sids, NEW c \in Clients
  PROVE  /\ toks[s][c].hash \in Nat
         /\ toks[s][c].hash # 0 => toks[s][c].hash \in 1..(nextHash - 1) /\ Known(s)
<1>1. toks[s][c].hash \in 0..MaxTokens /\ nextHash \in Nat
  BY DEF Inv, TypeOK, RefreshToken
<1>2. toks[s][c].hash # 0 => toks[s][c].hash \in Hashes /\ Belongs(toks[s][c].hash, s, c)
  BY <1>1, SessionsAssumption DEF Hashes, Belongs
<1> QED BY <1>1, <1>2, SessionsAssumption DEF Inv, OwnedOnce

LEMMA FamilyInit == Init => Family!FInit
<1> SUFFICES ASSUME Init PROVE Family!FInit
  OBVIOUS
<1>1. Inv /\ ended = {} /\ nextHash \in {1, 2}
  BY InitInv DEF Init
<1>2. 1..(nextHash - 1) \in {{}, {1}}
  BY <1>1
<1>3. Current \in [Sids -> [Clients -> 1..(nextHash - 1) \cup {0}]]
  BY <1>1, Generated DEF Current
<1>4. \A s \in Sids, c \in Clients : Current[s][c] # 0 => s \in Alive
  BY DEF Current, Alive
<1> QED BY <1>1, <1>2, <1>3, <1>4 DEF Family!FInit, Current, Alive

LEMMA FamilySame ==
  ASSUME UNCHANGED <<sess, toks, nextHash, ended, now>>
  PROVE  UNCHANGED Family!fvars
BY DEF Family!fvars, Live, IsExpired

\* Sessions end: what is left of them is unusable.
LEMMA FamilyEnds ==
  ASSUME Inv, SessionsKept, OpensNone, UNCHANGED <<toks, nextHash>>
  PROVE  Family!FNext
<1>1. PICK dead \in SUBSET Sids : dead = {s \in Sids : Live(s) /\ ~Live(s)'}
  OBVIOUS
<1>2. \A s \in Sids : (Live(s)' <=> Live(s) /\ s \notin dead) /\ (Known(s)' <=> Known(s))
  BY <1>1 DEF SessionsKept, OpensNone, Known, Inv, SessionsOK
<1>3. Alive' = Alive \ dead
  BY <1>2 DEF Alive
<1>4. ended \subseteq Sids /\ ended' \subseteq Sids
  BY DEF Inv, TypeOK, SessionsKept
<1>5. (ended \cup Alive)' = ended \cup Alive
  BY <1>2, <1>4 DEF Known, Alive
<1>6. Current' = [s \in Sids |-> IF s \in dead THEN [c \in Clients |-> 0] ELSE Current[s]]
  BY <1>1, <1>2 DEF Current
<1>7. Family!FEnd(dead)
  BY <1>3, <1>5, <1>6 DEF Family!FEnd, Alive, Current
<1> QED BY <1>7 DEF Family!FNext

LEMMA CurrentSet ==
  ASSUME NEW s \in Sids, NEW c \in Clients, NEW h, \A r \in Sids : Live(r)' <=> Live(r),
         toks'[s][c].hash = h, Live(s) \/ h = 0,
         \A r \in Sids, d \in Clients : r # s \/ d # c => toks'[r][d] = toks[r][d]
  PROVE  Current' = [Current EXCEPT ![s][c] = h]
<1>1. PICK f, g : f = Current /\ g = Current'
  OBVIOUS
<1>2. f = [r \in Sids |-> [d \in Clients |-> IF Live(r) THEN toks[r][d].hash ELSE 0]]
  BY <1>1 DEF Current
<1>3. g = [r \in Sids |-> [d \in Clients |-> IF Live(r) THEN toks'[r][d].hash ELSE 0]]
  BY <1>1 DEF Current
<1>4. \A r \in Sids : r # s => g[r] = f[r]
  BY <1>2, <1>3
<1>5. g[s] = [f[s] EXCEPT ![c] = h]
  BY <1>2, <1>3
<1>6. g = [f EXCEPT ![s] = [f[s] EXCEPT ![c] = h]]
  BY <1>2, <1>3, <1>4, <1>5
<1> QED BY <1>1, <1>6

LEMMA FamilyDrops ==
  ASSUME Inv, NEW s \in Sids, NEW c \in Clients, DeleteRefreshToken(s, c),
         UNCHANGED <<sess, nextHash, ended, now>>
  PROVE  Family!FNext
<1>1. \A r \in Sids : Live(r)' <=> Live(r)
  BY DEF Live, IsExpired
<1>2. toks \in [Sids -> [Clients -> RefreshToken]]
  BY DEF Inv, TypeOK
<1>3. /\ toks'[s][c].hash = 0
      /\ \A r \in Sids, d \in Clients : r # s \/ d # c => toks'[r][d] = toks[r][d]
  BY <1>2 DEF DeleteRefreshToken, NoToken
<1>4. Current' = [Current EXCEPT ![s][c] = 0]
  BY <1>1, <1>3, CurrentSet
<1>5. Alive' = Alive
  BY <1>1 DEF Alive
<1>6. Family!FDrop(s, c)
  BY <1>4, <1>5 DEF Family!FDrop, Alive, Current
<1> QED BY <1>6 DEF Family!FNext

\* A new session has no token.
LEMMA FamilyOpens ==
  ASSUME Inv, NEW p \in Procs, Create(p)
  PROVE  Family!FNext
<1>1. Good(procs[p]) /\ procs[p].pc = "create"
  BY DEF Inv, Create
<1>2. PICK s \in Sids : s = procs[p].sid /\ ~Known(s)
  BY <1>1 DEF Good, Names
<1>3. UNCHANGED <<toks, nextHash, ended, now>>
  BY DEF Create, seen
<1>4. SessionsKept /\ Live(s)' /\ \A r \in Sids \ {s} : Known(r)' => Known(r)
  BY <1>2, <1>3, CreatedSession DEF Create
<1>5. \A r \in Sids \ {s} : Live(r)' <=> Live(r)
  BY <1>3, <1>4 DEF SessionsKept, Known, Inv, SessionsOK
<1>6. ~Live(s) /\ s \notin ended
  BY <1>2 DEF Known
<1>7. Alive' = Alive \cup {s}
  BY <1>4, <1>5 DEF Alive
<1>8. \A c \in Clients : toks[s][c].hash = 0
  BY <1>2, Generated
<1>9. Current' = Current
  BY <1>3, <1>5, <1>6, <1>8 DEF Current
<1>10. (ended \cup Alive)' = (ended \cup Alive) \cup {s} /\ s \notin ended \cup Alive
  BY <1>3, <1>6, <1>7 DEF Alive
<1>11. Family!FOpen(s)
  BY <1>3, <1>7, <1>9, <1>10 DEF Family!FOpen, Alive, Current
<1> QED BY <1>11 DEF Family!FNext

\* A token is new; it is usable when the session still lives.
LEMMA FamilyAdvances ==
  ASSUME Inv, NEW s \in Sids, NEW c \in Clients, NEW expires, nextHash \in Hashes,
         toks' = [toks EXCEPT ![s][c] = [hash |-> nextHash, expires |-> expires]],
         nextHash' = nextHash + 1, UNCHANGED <<sess, ended, now>>
  PROVE  Family!FNext
<1>1. \A r \in Sids : Live(r)' <=> Live(r)
  BY DEF Live, IsExpired
<1>2. toks \in [Sids -> [Clients -> RefreshToken]] /\ nextHash \in Nat /\ nextHash >= 1
  BY DEF Inv, TypeOK, Hashes
<1>3. /\ toks'[s][c].hash = nextHash
      /\ \A r \in Sids, d \in Clients : r # s \/ d # c => toks'[r][d] = toks[r][d]
  BY <1>2
<1>4. Alive' = Alive
  BY <1>1 DEF Alive
<1>5. (1..(nextHash - 1))' = 1..(nextHash - 1) \cup {nextHash} /\ nextHash \notin 1..(nextHash - 1)
  BY <1>2
<1>6. PICK h \in 1..MaxTokens : h = nextHash
  BY DEF Hashes
<1>7. CASE Live(s)
  <2>1. Current' = [Current EXCEPT ![s][c] = h]
    BY <1>1, <1>3, <1>6, <1>7, CurrentSet
  <2>2. s \in Alive
    BY <1>7 DEF Alive
  <2>3. Family!FAdvance(h)
    BY <1>4, <1>5, <1>6, <2>1, <2>2 DEF Family!FAdvance, Alive, Current
  <2> QED BY <2>3 DEF Family!FNext
<1>8. CASE ~Live(s)
  <2>1. Current' = Current
    <3>1. \A r \in Sids : [d \in Clients |-> IF Live(r)' THEN toks'[r][d].hash ELSE 0] =
                          [d \in Clients |-> IF Live(r) THEN toks[r][d].hash ELSE 0]
      BY <1>1, <1>3, <1>8
    <3> QED BY <3>1 DEF Current
  <2>2. Family!FAdvance(h)
    BY <1>4, <1>5, <1>6, <2>1 DEF Family!FAdvance, Alive, Current
  <2> QED BY <2>2 DEF Family!FNext
<1> QED BY <1>7, <1>8

LEMMA FamilyStep ==
  ASSUME Inv, [Next]_vars
  PROVE  [Family!FNext]_(Family!fvars)
<1>1. CASE UNCHANGED vars
  BY <1>1, FamilySame DEF vars
<1>2. CASE Tick
  BY <1>2, TickedSessions, FamilyEnds DEF Tick
<1>3. CASE Unblock
  BY <1>3, FamilySame DEF Unblock, rows, seen
<1>4. CASE Prune
  <2>1. UNCHANGED <<nextHash, ended, now>>
    BY <1>4 DEF Prune, seen
  <2>2. ASSUME NEW s \in Sids, IsExpired(sess[s]), Delete(s), UNCHANGED toks PROVE Family!FNext
    BY <2>1, <2>2, DeletedSession, FamilyEnds
  <2>3. ASSUME NEW s \in Sids, NEW c \in Clients, DeleteRefreshToken(s, c), UNCHANGED sess PROVE Family!FNext
    BY <2>1, <2>3, FamilyDrops
  <2>4. CASE UNCHANGED <<sess, toks>>
    BY <2>1, <2>4, FamilySame
  <2> QED BY <1>4, <2>2, <2>3, <2>4 DEF Prune
<1>5. ASSUME NEW s \in use.sids, NEW c \in use.clients, Authorize(s, c) PROVE [Family!FNext]_(Family!fvars)
  <2>1. UNCHANGED <<toks, nextHash, ended, now>> /\ s \in Sids
    BY <1>5, SessionsAssumption DEF Authorize, seen, Inv, TypeOK
  <2>2. CASE UNCHANGED sess
    BY <2>1, <2>2, FamilySame
  <2>3. CASE IsExpired(sess[s]) /\ Delete(s)
    BY <2>1, <2>3, DeletedSession, FamilyEnds
  <2> QED BY <1>5, <2>2, <2>3 DEF Authorize
<1>6. ASSUME NEW p \in Procs, Start(p) \/ Crash(p) PROVE UNCHANGED Family!fvars
  <2>1. UNCHANGED <<sess, toks, nextHash, ended, now>>
    BY <1>6 DEF Start, Login, Revoke, RecordMFA, Exchange, Refresh, RevokeClientToken, RevokeAll,
                RevokeClients, Lock, Crash, rows, seen
  <2> QED BY <2>1, FamilySame
<1>7. ASSUME NEW p \in Procs, Continue(p) PROVE [Family!FNext]_(Family!fvars)
  <2>0. procs[p] \in Proc /\ Good(procs[p]) /\ nextHash \in 1..(MaxTokens + 1) /\ use.tokens \in 0..MaxTokens
    BY SessionsAssumption DEF Inv, TypeOK
  <2>1. CASE Create(p)
    BY <2>1, FamilyOpens
  <2>2. CASE IssuePut(p)
    <3>1. procs[p].sid \in Sids /\ procs[p].client \in Clients
      BY <2>0, <2>2 DEF IssuePut, Good, Names, OnSession, OnClient
    <3>2. nextHash \in Hashes
      BY <2>0, <2>2, SessionsAssumption DEF IssuePut, PutRefreshToken, Hashes
    <3> QED BY <2>2, <3>1, <3>2, FamilyAdvances DEF IssuePut, PutRefreshToken
  <2>3. CASE Rotate(p)
    <3>1. procs[p].sid \in Sids /\ procs[p].client \in Clients /\ UNCHANGED <<sess, ended, now>>
      BY <2>0, <2>3 DEF Rotate, Good, Names, OnSession, OnClient, Chained, seen
    <3>2. CASE UNCHANGED <<toks, nextHash>>
      BY <3>1, <3>2, FamilySame
    <3>3. CASE RotateRefreshToken(procs[p].sid, procs[p].client, procs[p].hash, procs[p].expires)
      <4>1. nextHash \in Hashes
        BY <2>0, <3>3, SessionsAssumption DEF RotateRefreshToken, Hashes
      <4> QED BY <3>1, <3>3, <4>1, FamilyAdvances DEF RotateRefreshToken
    <3> QED BY <2>3, <3>2, <3>3 DEF Rotate
  <2>4. CASE DeleteListed(p)
    <3>1. procs[p].sid \in Sids /\ procs[p].todo \subseteq Clients /\ UNCHANGED <<sess, nextHash, ended, now>>
      BY <2>0, <2>4 DEF DeleteListed, Good, Names, OnSession, Proc, seen
    <3>2. PICK c \in Clients : DeleteRefreshToken(procs[p].sid, c)
      BY <2>4, <3>1 DEF DeleteListed
    <3> QED BY <3>1, <3>2, FamilyDrops
  <2>5. CASE DropToken(p)
    <3>1. procs[p].sid \in Sids /\ procs[p].client \in Clients /\ UNCHANGED <<sess, nextHash, ended, now>>
      BY <2>0, <2>5 DEF DropToken, Good, Names, OnSession, OnClient, seen
    <3> QED BY <2>5, <3>1, FamilyDrops DEF DropToken
  <2>6. CASE DropSession(p)
    <3>1. procs[p].sid \in Sids
      BY <2>0, <2>6 DEF DropSession, Good, Names, OnSession
    <3>2. SessionsKept /\ OpensNone
      BY <2>6, <3>1, DeletedSession DEF DropSession
    <3> QED BY <2>6, <3>2, FamilyEnds DEF DropSession
  <2>7. CASE UpdateMFA(p)
    <3>1. procs[p].sid \in Sids /\ Known(procs[p].sid) /\ UNCHANGED <<toks, nextHash, ended, now>>
      BY <2>0, <2>7 DEF UpdateMFA, Good, Names, OnSession, seen
    <3>2. SessionsKept /\ OpensNone
      BY <2>7, <3>1, UpdatedSession DEF UpdateMFA
    <3> QED BY <3>1, <3>2, FamilyEnds
  <2>8. CASE \/ ExchangeUser(p) \/ ExchangeSession(p) \/ IssueGet(p) \/ GetLookup(p) \/ GetRow(p)
             \/ GetConsumed(p) \/ GetSession(p) \/ Mint(p) \/ Mark(p) \/ ListByUserID(p) \/ ListTokens(p)
    <3>1. UNCHANGED <<sess, toks, nextHash, ended, now>>
      BY <2>8 DEF ExchangeUser, ExchangeSession, IssueGet, GetLookup, GetRow, GetConsumed, GetSession, Mint,
                  Mark, ListByUserID, ListTokens, rows, seen
    <3> QED BY SMTT(20), <3>1, FamilySame
  <2> QED BY <1>7, <2>1, <2>2, <2>3, <2>4, <2>5, <2>6, <2>7, <2>8 DEF Continue
<1> QED BY <1>1, <1>2, <1>3, <1>4, <1>5, <1>6, <1>7 DEF Next

\* Under every interleaving and failure the sessions and their token rows do what
\* TokenFamily allows: no session opens twice, nothing of an ended session is
\* usable, a chain moves only to tokens that were never seen.
THEOREM FamilyCorrect == Spec => ImplementsFamily
<1>1. Init => Family!FInit
  BY FamilyInit
<1>2. Inv /\ [Next]_vars => [Family!FNext]_(Family!fvars)
  BY FamilyStep
<1> QED BY <1>1, <1>2, AlwaysInv, PTL DEF Spec, ImplementsFamily, Family!FSpec
=============================================================================
