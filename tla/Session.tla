------------------------------ MODULE Session ------------------------------
(***************************************************************************)
(* Login sessions: their tokens in memory and in the database, and the     *)
(* mutex that guards them.  Source: pkg/session/manager.go, store.go and   *)
(* server/handlers/session.go.                                             *)
(*                                                                         *)
(* Every method runs under Manager.mu, but those that write to the         *)
(* database keep the mutex while they wait for a connection, and the pool  *)
(* has one (cmd/server/main.go:56).  Such a method is two steps here: what *)
(* it does up to its write (call holds the rest), and the answer of the    *)
(* database (Written, WriteFailed).                                        *)
(*                                                                         *)
(* A login saves its row without the mutex, but nobody knows its tokens    *)
(* before it returns, so it is one step; a failed login leaves nothing and *)
(* is none.  The same holds for the activity timestamp ValidateSession     *)
(* writes without the mutex: nothing reads it.                             *)
(***************************************************************************)

CONSTANTS
    Sessions,     \* a session stands for its master token, which never changes
    Tokens,       \* access tokens; generateToken makes none twice
    Contexts,     \* active role, warehouse, database and schema of a session
    None

ASSUME NoneAssumption == None \notin Sessions \cup Tokens \cup Contexts

VARIABLES
    up,           \* the server runs
    access,       \* Manager.sessions, by access token
    master,       \* keys of Manager.masterTokens
    object,       \* the Session both maps point to
    call,         \* the method that holds mu and waits for the database
    rows,         \* the table _sessions, by access token
    busy,         \* a query has the connection
    cancelReq,    \* the token of a cancel request that is not yet answered
    stale,        \* access tokens past their ExpiresAt
    masterStale,  \* sessions past the validity of their master token
    issued,       \* history variable: how each token came about
    replaced,     \* history variable: tokens that a renewal replaced
    told          \* history variable: what the client knows of its session

memVars == <<access, master, object>>
timeVars == <<stale, masterStale>>
queryVars == <<busy, cancelReq>>
historyVars == <<issued, replaced, told>>
vars == <<up, memVars, call, rows, queryVars, timeVars, historyVars>>
-----------------------------------------------------------------------------
\* Type definitions

Objects == [token : Tokens, context : Contexts]
Rows == [session : Sessions, context : Contexts]
Calls == [op : {"set", "renew", "logout", "delete", "touch"},
          session : Sessions \cup {None},
          token : Tokens,
          before : Contexts \cup {None}]

ASSUME NoneIsNoRecord == None \notin Objects \cup Rows \cup Calls

Free == up /\ call = None

Await(op, s, t, before) ==
    call' = [op |-> op, session |-> s, token |-> t, before |-> before]

\* ValidateSession and InspectSession let a request with token t in.
Valid(t) == access[t] # None /\ t \notin stale

\* The session CloseSession finds for t, in either map.
Named(s, t) == s \in master /\ (access[t] = s \/ object[s].token = t)
-----------------------------------------------------------------------------
\* Methods

CreateAuthenticatedSession(s, t, c) ==
    /\ up
    /\ ~busy
    /\ told[s] = "nothing"
    /\ issued[t] = "no"
    /\ access' = [access EXCEPT ![t] = s]
    /\ master' = master \cup {s}
    /\ object' = [object EXCEPT ![s] = [token |-> t, context |-> c]]
    /\ rows' = [rows EXCEPT ![t] = [session |-> s, context |-> c]]
    /\ issued' = [issued EXCEPT ![t] = "login"]
    /\ told' = [told EXCEPT ![s] = "open"]
    /\ UNCHANGED <<up, call, queryVars, timeVars, replaced>>

\* SetWarehouseContext, SetActiveRole and UpdateSessionContext.
SetContext(t, c) ==
    LET s == access[t]
    IN
    /\ Free
    /\ s # None
    /\ object' = [object EXCEPT ![s].context = c]
    /\ Await("set", s, t, object[s].context)
    /\ UNCHANGED <<up, access, master, rows, queryVars, timeVars, historyVars>>

\* InspectSession, UpdateLastAccessed and CleanupExpiredSessions forget an
\* expired access token; its master token stays.
Evict(t) ==
    /\ Free
    /\ access[t] # None
    /\ t \in stale
    /\ access' = [access EXCEPT ![t] = None]
    /\ UNCHANGED <<up, master, object, call, rows, queryVars, timeVars, historyVars>>

\* The heartbeat.
UpdateLastAccessed(t) ==
    /\ Free
    /\ Valid(t)
    /\ Await("touch", access[t], t, None)
    /\ UNCHANGED <<up, memVars, rows, queryVars, timeVars, historyVars>>

\* Fault: logout looks for the master token through the access token only.
CloseSessionByAccess(t, op) ==
    /\ Free
    /\ issued[t] # "no"
    /\ \/ access[t] # None /\ master' = master \ {access[t]} /\ Await(op, access[t], t, None)
       \/ access[t] = None /\ UNCHANGED master /\ \E s \in Sessions \cup {None} :
             /\ IF s = None THEN \A r \in Sessions : ~Named(r, t) ELSE Named(s, t)
             /\ Await(op, s, t, None)
    /\ access' = [access EXCEPT ![t] = None]
    /\ UNCHANGED <<up, object, rows, queryVars, timeVars, historyVars>>

\* Both tokens go at once, also if the access token was evicted before.
CloseSession(t, op) ==
    /\ Free
    /\ issued[t] # "no"
    /\ access' = [access EXCEPT ![t] = None]
    /\ master' = {s \in master : ~Named(s, t)}
    /\ \/ \E s \in Sessions : Named(s, t) /\ Await(op, s, t, None)
       \/ (\A s \in Sessions : ~Named(s, t)) /\ Await(op, None, t, None)
    /\ UNCHANGED <<up, object, rows, queryVars, timeVars, historyVars>>

\* Fault: the access token of an expired session stays in its map.
ExpireMasterOnly(s) ==
    /\ s \in masterStale
    /\ master' = master \ {s}
    /\ UNCHANGED <<up, access, object, call, rows, queryVars, timeVars, historyVars>>

\* RenewToken with a master token that has expired.
ExpireSession(s) ==
    /\ s \in masterStale
    /\ master' = master \ {s}
    /\ access' = [access EXCEPT ![object[s].token] = None]
    /\ UNCHANGED <<up, object, call, rows, queryVars, timeVars, historyVars>>

RenewToken(s, t) ==
    /\ Free
    /\ s \in master
    /\ \/ ExpireSession(s)
       \/ /\ s \notin masterStale
          /\ issued[t] = "no"
          /\ issued' = [issued EXCEPT ![t] = "renewal"]
          /\ Await("renew", s, t, None)
          /\ UNCHANGED <<up, memVars, rows, queryVars, timeVars, replaced, told>>
-----------------------------------------------------------------------------
\* The database answers the method that holds the mutex

\* Save, with INSERT OR REPLACE.
Saved ==
    LET s == call.session
    IN
    /\ call.op = "set"
    /\ rows' = [rows EXCEPT ![call.token] = [session |-> s, context |-> object[s].context]]
    /\ UNCHANGED <<memVars, historyVars>>

\* Fault: the renewal leaves the old row.
ReplacedKeepsRow ==
    LET s == call.session
        t == call.token
    IN
    /\ call.op = "renew"
    /\ rows' = [rows EXCEPT ![t] = [session |-> s, context |-> object[s].context]]
    /\ access' = [access EXCEPT ![object[s].token] = None, ![t] = s]
    /\ object' = [object EXCEPT ![s].token = t]
    /\ replaced' = replaced \cup {object[s].token}
    /\ UNCHANGED <<master, issued, told>>

\* ReplaceToken, one transaction, and the rest of RenewToken.
Replaced ==
    LET s == call.session
        t == call.token
    IN
    /\ call.op = "renew"
    /\ rows' = [rows EXCEPT ![object[s].token] = None,
                            ![t] = [session |-> s, context |-> object[s].context]]
    /\ access' = [access EXCEPT ![object[s].token] = None, ![t] = s]
    /\ object' = [object EXCEPT ![s].token = t]
    /\ replaced' = replaced \cup {object[s].token}
    /\ UNCHANGED <<master, issued, told>>

Tell(s, what) == told' = [r \in Sessions |-> IF r = s THEN what ELSE told[r]]

\* Delete, and both logout handlers report success.
Deleted ==
    /\ call.op \in {"logout", "delete"}
    /\ rows' = [rows EXCEPT ![call.token] = None]
    /\ Tell(call.session, "closed")
    /\ UNCHANGED <<memVars, issued, replaced>>

Touched == call.op = "touch" /\ UNCHANGED <<memVars, rows, historyVars>>

Written ==
    /\ call # None
    /\ ~busy
    /\ Saved \/ Replaced \/ Deleted \/ Touched
    /\ call' = None
    /\ UNCHANGED <<up, queryVars, timeVars>>

\* The fields get their old values back.
Rollback ==
    /\ call.op = "set"
    /\ object' = [object EXCEPT ![call.session].context = call.before]
    /\ UNCHANGED told

\* The DELETE handler takes any error for a session that is already closed.
ReportedClosed ==
    /\ call.op = "delete"
    /\ Tell(call.session, "reportedClosed")
    /\ UNCHANGED object

\* The write fails, or its client goes away while it waits for the connection.
WriteFailed ==
    /\ call # None
    /\ \/ Rollback
       \/ ReportedClosed
       \/ call.op \in {"renew", "logout", "touch"} /\ UNCHANGED <<object, told>>
    /\ call' = None
    /\ UNCHANGED <<up, access, master, rows, queryVars, timeVars, issued, replaced>>
-----------------------------------------------------------------------------
\* Queries, and the requests that cancel them

\* A request that ValidateSession let in runs its query on the connection;
\* meanwhile its session may have been closed or renewed.
StartQuery ==
    /\ up
    /\ ~busy
    /\ \E s \in Sessions : told[s] # "nothing"
    /\ busy' = TRUE
    /\ UNCHANGED <<up, memVars, call, rows, cancelReq, timeVars, historyVars>>

EndQuery ==
    /\ busy
    /\ busy' = FALSE
    /\ UNCHANGED <<up, memVars, call, rows, cancelReq, timeVars, historyVars>>

RequestCancel(t) ==
    /\ busy
    /\ cancelReq = None
    /\ issued[t] # "no"
    /\ cancelReq' = t
    /\ UNCHANGED <<up, memVars, call, rows, busy, timeVars, historyVars>>

\* InspectSession lets the cancel request in, and the query is interrupted.
Cancel ==
    /\ Free
    /\ cancelReq # None
    /\ busy' = (busy /\ ~Valid(cancelReq))
    /\ access' = [access EXCEPT ![cancelReq] = IF Valid(cancelReq) THEN @ ELSE None]
    /\ cancelReq' = None
    /\ UNCHANGED <<up, master, object, call, rows, timeVars, historyVars>>
-----------------------------------------------------------------------------
\* Time and restarts

ExpireAccess(t) ==
    /\ issued[t] # "no"
    /\ stale' = stale \cup {t}
    /\ UNCHANGED <<up, memVars, call, rows, queryVars, masterStale, historyVars>>

\* A master token is valid four times as long as the access token it came with.
ExpireMaster(s) ==
    /\ object[s] # None
    /\ object[s].token \in stale \/ issued[object[s].token] = "renewal"
    /\ masterStale' = masterStale \cup {s}
    /\ UNCHANGED <<up, memVars, call, rows, queryVars, stale, historyVars>>

Crash ==
    /\ up
    /\ up' = FALSE
    /\ access' = [t \in Tokens |-> None]
    /\ master' = {}
    /\ object' = [s \in Sessions |-> None]
    /\ call' = None
    /\ busy' = FALSE
    /\ cancelReq' = None
    /\ UNCHANGED <<rows, timeVars, historyVars>>

\* Rows with an expired access token are skipped, whatever their master token.
Loaded == {t \in Tokens : rows[t] # None /\ t \notin stale}

NewPersistentManager ==
    /\ ~up
    /\ up' = TRUE
    /\ access' = [t \in Tokens |-> IF t \in Loaded THEN rows[t].session ELSE None]
    /\ master' = {rows[t].session : t \in Loaded}
    /\ object' \in [Sessions -> Objects \cup {None}]
    /\ \A s \in Sessions :
          IF \E t \in Loaded : rows[t].session = s
          THEN \E t \in Loaded : /\ rows[t].session = s
                                 /\ object'[s] = [token |-> t, context |-> rows[t].context]
          ELSE object'[s] = None
    /\ UNCHANGED <<call, rows, queryVars, timeVars, historyVars>>
-----------------------------------------------------------------------------
Init ==
    /\ up = TRUE
    /\ access = [t \in Tokens |-> None]
    /\ master = {}
    /\ object = [s \in Sessions |-> None]
    /\ call = None
    /\ rows = [t \in Tokens |-> None]
    /\ busy = FALSE
    /\ cancelReq = None
    /\ stale = {}
    /\ masterStale = {}
    /\ issued = [t \in Tokens |-> "no"]
    /\ replaced = {}
    /\ told = [s \in Sessions |-> "nothing"]

Next ==
    \/ \E s \in Sessions, t \in Tokens, c \in Contexts : CreateAuthenticatedSession(s, t, c)
    \/ \E t \in Tokens, c \in Contexts : SetContext(t, c)
    \/ \E t \in Tokens : Evict(t)
    \/ \E t \in Tokens : UpdateLastAccessed(t)
    \/ \E t \in Tokens, op \in {"logout", "delete"} : CloseSession(t, op)
    \/ \E s \in Sessions, t \in Tokens : RenewToken(s, t)
    \/ Written
    \/ WriteFailed
    \/ StartQuery
    \/ EndQuery
    \/ \E t \in Tokens : RequestCancel(t)
    \/ Cancel
    \/ \E t \in Tokens : ExpireAccess(t)
    \/ \E s \in Sessions : ExpireMaster(s)
    \/ Crash
    \/ NewPersistentManager

Spec == Init /\ [][Next]_vars

\* A write gets its connection and a request gets the mutex.  A query may run
\* for as long as it likes, and no client has to go away.
Fairness == SF_vars(Written) /\ SF_vars(Cancel)

FairSpec == Spec /\ Fairness
-----------------------------------------------------------------------------
\* Every variable has its type; nothing is in memory while the server is
\* down, and both maps lead to the same sessions.
TypeOK ==
    /\ up \in BOOLEAN
    /\ access \in [Tokens -> Sessions \cup {None}]
    /\ master \in SUBSET Sessions
    /\ object \in [Sessions -> Objects \cup {None}]
    /\ call \in Calls \cup {None}
    /\ rows \in [Tokens -> Rows \cup {None}]
    /\ busy \in BOOLEAN
    /\ cancelReq \in Tokens \cup {None}
    /\ stale \in SUBSET Tokens
    /\ masterStale \in SUBSET Sessions
    /\ issued \in [Tokens -> {"no", "login", "renewal"}]
    /\ replaced \in SUBSET Tokens
    /\ told \in [Sessions -> {"nothing", "open", "closed", "reportedClosed"}]
    /\ ~up => master = {} /\ call = None
    /\ \A s \in master : object[s] # None
    /\ \A t \in Tokens : access[t] # None => access[t] \in master

\* A session answers to one access token, the one its object holds: two
\* logins or renewals never leave a second key to it, in memory or in the
\* table a restart reads.
OneTokenEach ==
    /\ \A t \in Tokens : access[t] # None => object[access[t]].token = t
    /\ \A t, u \in Tokens :
          rows[t] # None /\ rows[u] # None /\ rows[t].session = rows[u].session => t = u

\* A token that was replaced by a renewal is dead, across restarts too.
ReplacedIsDead ==
    \A t \in replaced : access[t] = None /\ rows[t] = None

\* What a restart would read is what memory holds, for every session that can
\* still be used or renewed: a failed write is rolled back.
RowsFollowMemory ==
    \A s \in master :
        ~(call # None /\ call.op = "set" /\ call.session = s) =>
            rows[object[s].token] = [session |-> s, context |-> object[s].context]

\* A session whose row is gone never comes back, whatever token its client
\* tries and however often the server restarts.
LogoutIsFinal ==
    \A s \in Sessions : told[s] = "closed" =>
        /\ s \notin master
        /\ \A t \in Tokens : access[t] # s /\ (rows[t] # None => rows[t].session # s)

\* While the server runs, a session can be renewed until its master token
\* expires or a logout takes it: no other request, expiry or failure does.
RenewableUntilLogout ==
    [][\A s \in master \ master' :
          \/ ~up'
          \/ s \in masterStale
          \/ call' # None /\ call'.op \in {"logout", "delete"} /\ call'.session = s]_vars

\* manager.go:243-245: a closed session must not be resurrected.
ClosedStaysClosed ==
    \A s \in Sessions : told[s] \in {"closed", "reportedClosed"} => s \notin master

\* manager.go:185-187: a cancel request is let in while a query has the only
\* connection, so that it can release the connection.
CancelAnswered == cancelReq # None ~> cancelReq = None

\* A context that is being saved does not show before it is: whoever would
\* read it waits for the mutex.
Shown(s) ==
    IF call # None /\ call.op = "set" /\ call.session = s
    THEN call.before ELSE object[s].context

\* The entries the table holds, those the master tokens lead to, and those the
\* access tokens lead to.
Entry(s, t, c) == [session |-> s, token |-> t, context |-> c]

Stored ==
    {Entry(rows[t].session, t, rows[t].context) : t \in {u \in Tokens : rows[u] # None}}

Renewable == {Entry(s, object[s].token, Shown(s)) : s \in master}

Usable ==
    {Entry(access[t], t, Shown(access[t])) : t \in {u \in Tokens : access[u] # None}}

Status == [s \in Sessions |-> CASE told[s] = "nothing" -> "new"
                                [] told[s] = "closed" -> "over"
                                [] OTHER -> "open"]

\* A token without a row, unless a renewal is about to write one.
Dead ==
    {t \in Tokens : /\ issued[t] # "no"
                   /\ rows[t] = None
                   /\ ~(call # None /\ call.op = "renew" /\ call.token = t)}

\* Session keeps the registry SessionRegistry describes: a change shows at once
\* and in all three places or nowhere, a renewal swaps the token and keeps the
\* rest, and neither a token nor a session comes back once it is gone, although
\* every write takes two steps and may fail between them.
Registry == INSTANCE SessionRegistry WITH
                status <- Status,
                stored <- Stored,
                renewable <- Renewable,
                usable <- Usable,
                dead <- Dead

ImplementsRegistry == Registry!Spec
=============================================================================
