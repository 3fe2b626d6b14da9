--------------------------- MODULE SessionProofs ---------------------------
(***************************************************************************)
(* Proofs about Session, for every set of sessions, tokens and contexts.   *)
(*                                                                         *)
(* The invariants rest on what the method that holds the mutex has already *)
(* made sure of when it waits for the database, so the inductive invariant *)
(* has one part per kind of call.                                          *)
(*                                                                         *)
(* The second half proves that Session implements SessionRegistry, with    *)
(* one lemma per action: most steps of a method leave the registry as it   *)
(* is, and the one at which the rest of the program can see the change is  *)
(* the registry's.                                                         *)
(***************************************************************************)
EXTENDS Session, TLAPS

\* A token that was not issued yet occurs nowhere.
FreshTokens ==
    \A t \in Tokens : issued[t] = "no" =>
        /\ access[t] = None
        /\ rows[t] = None
        /\ t \notin replaced
        /\ \A s \in Sessions : object[s] # None => object[s].token # t

\* A session that was not opened yet occurs nowhere.
FreshSessions ==
    \A s \in Sessions : told[s] = "nothing" =>
        /\ s \notin master
        /\ \A t \in Tokens : rows[t] # None => rows[t].session # s

\* A session in memory has a row of its own.
RowsKept ==
    \A s \in master : /\ rows[object[s].token] # None
                      /\ rows[object[s].token].session = s

\* The row still has the value a failed save goes back to.
SetPending ==
    call # None /\ call.op = "set" =>
        /\ call.session \in master
        /\ call.before \in Contexts
        /\ object[call.session].token = call.token
        /\ access[call.token] = call.session
        /\ rows[call.token].context = call.before

\* The new token is issued, but not in use.
RenewPending ==
    call # None /\ call.op = "renew" =>
        /\ call.session \in master
        /\ issued[call.token] # "no"
        /\ access[call.token] = None
        /\ rows[call.token] = None
        /\ call.token \notin replaced
        /\ \A s \in Sessions : object[s] # None => object[s].token # call.token

\* Only the row is left of the session that is being closed.
ClosePending ==
    call # None /\ call.op \in {"logout", "delete"} =>
        /\ issued[call.token] # "no"
        /\ \A s \in master : object[s].token # call.token
        /\ call.session # None =>
              /\ call.session \notin master
              /\ told[call.session] \notin {"nothing", "closed"}
              /\ rows[call.token] # None
              /\ rows[call.token].session = call.session
              /\ \A t \in Tokens :
                    rows[t] # None /\ rows[t].session = call.session => t = call.token

SInv ==
    /\ TypeOK
    /\ OneTokenEach
    /\ ReplacedIsDead
    /\ RowsFollowMemory
    /\ LogoutIsFinal
    /\ FreshTokens
    /\ FreshSessions
    /\ RowsKept
    /\ SetPending
    /\ RenewPending
    /\ ClosePending

\* A step that changes none of what the invariant is about.
LEMMA SameView ==
    ASSUME SInv, TypeOK', UNCHANGED <<access, master, object, rows, call, issued, replaced, told>>
    PROVE  SInv'
<1> USE DEF SInv
<1>1. /\ OneTokenEach'
      /\ ReplacedIsDead'
      /\ RowsFollowMemory'
      /\ LogoutIsFinal'
      /\ FreshTokens'
      /\ FreshSessions'
      /\ RowsKept'
      /\ SetPending'
      /\ RenewPending'
      /\ ClosePending'
  BY DEF OneTokenEach, ReplacedIsDead, RowsFollowMemory, LogoutIsFinal,
     FreshTokens, FreshSessions, RowsKept, SetPending, RenewPending,
     ClosePending
<1>2. QED
  BY <1>1

\* A login uses a new session and a new token.
LEMMA CreatePreserves ==
    ASSUME SInv, NEW s \in Sessions, NEW t \in Tokens, NEW c \in Contexts,
           CreateAuthenticatedSession(s, t, c)
    PROVE  SInv'
<1> USE DEF SInv
<1>1. TypeOK'
  BY NoneIsNoRecord DEF TypeOK, Objects, Rows, CreateAuthenticatedSession,
     timeVars, queryVars
<1>2. OneTokenEach'
  BY DEF TypeOK, OneTokenEach, FreshSessions, CreateAuthenticatedSession
<1>3. ReplacedIsDead'
  BY DEF ReplacedIsDead, FreshTokens, CreateAuthenticatedSession
<1>4. RowsFollowMemory'
  BY DEF TypeOK, RowsFollowMemory, FreshTokens, CreateAuthenticatedSession
<1>5. FreshTokens'
  BY DEF TypeOK, FreshTokens, CreateAuthenticatedSession
<1>6. FreshSessions'
  BY DEF TypeOK, FreshSessions, CreateAuthenticatedSession
<1>7. RowsKept'
  BY NoneIsNoRecord DEF TypeOK, FreshTokens, RowsKept, Rows,
     CreateAuthenticatedSession
<1>8. SetPending'
  BY DEF TypeOK, FreshTokens, FreshSessions, SetPending,
     CreateAuthenticatedSession
<1>9. ClosePending'
  BY DEF TypeOK, ClosePending, CreateAuthenticatedSession
<1>10. /\ LogoutIsFinal'
       /\ RenewPending'
  BY DEF LogoutIsFinal, RenewPending, CreateAuthenticatedSession
<1>11. QED
  BY <1>1, <1>2, <1>3, <1>4, <1>5, <1>6, <1>7, <1>8, <1>9, <1>10

\* From here until the write is answered the row lags behind.
LEMMA SetContextPreserves ==
    ASSUME SInv, NEW t \in Tokens, NEW c \in Contexts, SetContext(t, c)
    PROVE  SInv'
<1> USE DEF SInv
<1>1. TypeOK'
  BY NoneIsNoRecord DEF TypeOK, Objects, Calls, SetContext, Await, timeVars,
     queryVars, historyVars
<1>2. RowsFollowMemory'
  BY NoneIsNoRecord DEF TypeOK, RowsFollowMemory, Objects, Calls, SetContext,
     Free, Await
<1>3. FreshTokens'
  BY DEF TypeOK, FreshTokens, SetContext, historyVars
<1>4. SetPending'
  <2> DEFINE s == access[t]
  <2>1. s \in master /\ object[s] \in Objects /\ object[s].token = t
    BY DEF SetContext, TypeOK, OneTokenEach
  <2>2. rows[t].context = object[s].context
    <3>1. call = None
      BY DEF SetContext, Free
    <3>2. rows[object[s].token] = [session |-> s, context |-> object[s].context]
      BY <2>1, <3>1 DEF RowsFollowMemory
    <3>3. QED
      BY <2>1, <3>2
  <2>3. /\ call' = [op |-> "set", session |-> s, token |-> t, before |-> object[s].context]
        /\ object' = [object EXCEPT ![s].context = c]
        /\ master' = master /\ rows' = rows /\ access' = access
    BY DEF SetContext, Await
  <2>4. object'[s].token = t /\ object[s].context \in Contexts
    BY <2>1, <2>3 DEF TypeOK, Objects
  <2>5. QED
    BY <2>1, <2>2, <2>3, <2>4 DEF SetPending
<1>5. /\ OneTokenEach'
      /\ ReplacedIsDead'
      /\ LogoutIsFinal'
      /\ FreshSessions'
      /\ RowsKept'
      /\ RenewPending'
      /\ ClosePending'
  BY DEF OneTokenEach, ReplacedIsDead, LogoutIsFinal, FreshSessions, RowsKept,
     RenewPending, ClosePending, SetContext, historyVars, Await
<1>6. QED
  BY <1>1, <1>2, <1>3, <1>4, <1>5

\* An expired access token is forgotten.
LEMMA EvictPreserves ==
    ASSUME SInv, call = None, NEW t \in Tokens, access' = [access EXCEPT ![t] = None], TypeOK',
           UNCHANGED <<master, object, rows, call, issued, replaced, told>>
    PROVE  SInv'
<1> USE DEF SInv
<1>1. LogoutIsFinal'
  BY NoneAssumption DEF LogoutIsFinal
<1>2. /\ OneTokenEach'
      /\ ReplacedIsDead'
      /\ RowsFollowMemory'
      /\ FreshTokens'
      /\ FreshSessions'
      /\ RowsKept'
      /\ SetPending'
      /\ RenewPending'
      /\ ClosePending'
  BY DEF OneTokenEach, ReplacedIsDead, RowsFollowMemory, FreshTokens,
     FreshSessions, RowsKept, SetPending, RenewPending, ClosePending
<1>3. QED
  BY <1>1, <1>2

\* A heartbeat waits for its write.
LEMMA HeartbeatPreserves ==
    ASSUME SInv, NEW t \in Tokens, UpdateLastAccessed(t)
    PROVE  SInv'
<1> USE DEF SInv
<1>1. TypeOK'
  BY DEF TypeOK, Calls, UpdateLastAccessed, Await, Valid, memVars, timeVars,
     queryVars, historyVars
<1>2. /\ OneTokenEach'
      /\ ReplacedIsDead'
      /\ RowsFollowMemory'
      /\ LogoutIsFinal'
      /\ FreshTokens'
      /\ FreshSessions'
      /\ RowsKept'
      /\ SetPending'
      /\ RenewPending'
      /\ ClosePending'
  BY DEF OneTokenEach, ReplacedIsDead, RowsFollowMemory, LogoutIsFinal,
     FreshTokens, FreshSessions, RowsKept, SetPending, RenewPending,
     ClosePending, UpdateLastAccessed, memVars, historyVars, Free, Await
<1>3. QED
  BY <1>1, <1>2

\* After the first half of a logout only the row is left.
LEMMA ClosePreserves ==
    ASSUME SInv, NEW t \in Tokens, NEW op \in {"logout", "delete"}, CloseSession(t, op)
    PROVE  SInv'
<1> USE DEF SInv
<1>1. TypeOK'
  BY DEF TypeOK, OneTokenEach, Calls, CloseSession, Free, Await, Named,
     timeVars, queryVars, historyVars
<1>2. LogoutIsFinal'
  BY NoneAssumption DEF LogoutIsFinal, CloseSession, historyVars
<1>3. ClosePending'
  <2>1. PICK s \in Sessions \cup {None} :
            /\ Await(op, s, t, None)
            /\ IF s = None THEN \A r \in Sessions : ~Named(r, t) ELSE Named(s, t)
    BY NoneAssumption DEF CloseSession
  <2>2. /\ call' = [op |-> op, session |-> s, token |-> t, before |-> None]
        /\ master' = {r \in master : ~Named(r, t)}
        /\ UNCHANGED <<object, rows, issued, told>> /\ issued[t] # "no"
    BY <2>1 DEF CloseSession, Await, historyVars
  <2>3. ASSUME s # None
        PROVE  /\ s \in master /\ object[s].token = t /\ s \notin master'
               /\ rows[t] # None /\ rows[t].session = s
               /\ told[s] \notin {"nothing", "closed"}
    <3>1. Named(s, t) /\ s \in Sessions /\ s \in master
      BY <2>1, <2>3 DEF Named
    <3>2. object[s].token = t
      BY <3>1, <2>3 DEF Named, OneTokenEach
    <3>3. rows[t] # None /\ rows[t].session = s
      BY <3>1, <3>2 DEF RowsKept
    <3>4. told[s] \notin {"nothing", "closed"}
      BY <3>1 DEF FreshSessions, LogoutIsFinal
    <3>5. QED
      BY <2>2, <3>1, <3>2, <3>3, <3>4
  <2>4. \A r \in master' : object[r].token # t
    BY <2>2 DEF Named, TypeOK
  <2>5. \A u \in Tokens : s # None /\ rows[u] # None /\ rows[u].session = s => u = t
    BY <2>3 DEF OneTokenEach
  <2>6. QED
    BY <2>2, <2>3, <2>4, <2>5 DEF ClosePending
<1>4. /\ OneTokenEach'
      /\ ReplacedIsDead'
      /\ RowsFollowMemory'
      /\ FreshTokens'
      /\ FreshSessions'
      /\ RowsKept'
      /\ SetPending'
      /\ RenewPending'
  BY DEF OneTokenEach, ReplacedIsDead, RowsFollowMemory, FreshTokens,
     FreshSessions, RowsKept, SetPending, RenewPending, CloseSession,
     historyVars, Free, Await
<1>5. QED
  BY <1>1, <1>2, <1>3, <1>4

\* A session whose master token has expired is dropped.
LEMMA ExpirePreserves ==
    ASSUME SInv, Free, NEW s \in master, ExpireSession(s)
    PROVE  SInv'
<1> USE DEF SInv
<1>1. TypeOK'
  BY DEF TypeOK, OneTokenEach, ExpireSession, timeVars, queryVars, historyVars
<1>2. LogoutIsFinal'
  BY NoneAssumption DEF LogoutIsFinal, ExpireSession, historyVars
<1>3. /\ OneTokenEach'
      /\ ReplacedIsDead'
      /\ RowsFollowMemory'
      /\ FreshTokens'
      /\ FreshSessions'
      /\ RowsKept'
      /\ SetPending'
      /\ RenewPending'
      /\ ClosePending'
  BY DEF OneTokenEach, ReplacedIsDead, RowsFollowMemory, FreshTokens,
     FreshSessions, RowsKept, SetPending, RenewPending, ClosePending,
     ExpireSession, historyVars, Free
<1>4. QED
  BY <1>1, <1>2, <1>3

\* A renewal reserves its token.
LEMMA RenewPreserves ==
    ASSUME SInv, Free, NEW s \in master, NEW t \in Tokens, issued[t] = "no",
           issued' = [issued EXCEPT ![t] = "renewal"], Await("renew", s, t, None),
           UNCHANGED <<up, memVars, rows, queryVars, timeVars, replaced, told>>
    PROVE  SInv'
<1> USE DEF SInv
<1>1. TypeOK'
  BY DEF TypeOK, Calls, Await, memVars, timeVars, queryVars
<1>2. RenewPending'
  BY DEF TypeOK, FreshTokens, RenewPending, Await, memVars
<1>3. /\ OneTokenEach'
      /\ ReplacedIsDead'
      /\ RowsFollowMemory'
      /\ LogoutIsFinal'
      /\ FreshTokens'
      /\ FreshSessions'
      /\ RowsKept'
      /\ SetPending'
      /\ ClosePending'
  BY DEF OneTokenEach, ReplacedIsDead, RowsFollowMemory, LogoutIsFinal,
     FreshTokens, FreshSessions, RowsKept, SetPending, ClosePending, memVars,
     Free, Await
<1>4. QED
  BY <1>1, <1>2, <1>3

\* The row catches up.
LEMMA SavedPreserves ==
    ASSUME SInv, call # None, Saved, call' = None, UNCHANGED <<up, queryVars, timeVars>>
    PROVE  SInv'
<1> USE DEF SInv
<1>1. TypeOK'
  BY DEF TypeOK, SetPending, Objects, Rows, Saved, memVars, timeVars,
     queryVars, historyVars
<1>2. OneTokenEach'
  BY DEF OneTokenEach, RowsKept, SetPending, Saved, memVars
<1>3. ReplacedIsDead'
  BY DEF ReplacedIsDead, RowsKept, SetPending, Saved, memVars, historyVars
<1>4. RowsFollowMemory'
  BY DEF TypeOK, RowsFollowMemory, RowsKept, SetPending, Calls, Saved, memVars
<1>5. LogoutIsFinal'
  BY DEF LogoutIsFinal, SetPending, Saved, memVars, historyVars
<1>6. FreshTokens'
  BY DEF TypeOK, FreshTokens, SetPending, Saved, memVars, historyVars
<1>7. FreshSessions'
  BY DEF FreshSessions, SetPending, Saved, memVars, historyVars
<1>8. RowsKept'
  BY NoneIsNoRecord DEF TypeOK, RowsKept, SetPending, Objects, Rows, Saved,
     memVars
<1>9. /\ SetPending'
      /\ RenewPending'
      /\ ClosePending'
  BY DEF SetPending, RenewPending, ClosePending, Saved
<1>10. QED
  BY <1>1, <1>2, <1>3, <1>4, <1>5, <1>6, <1>7, <1>8, <1>9

\* The row, the index and the object go over to the new token.
LEMMA ReplacedPreserves ==
    ASSUME SInv, call # None, Replaced, call' = None, UNCHANGED <<up, queryVars, timeVars>>
    PROVE  SInv'
<1> USE DEF SInv
<1>1. TypeOK'
  BY NoneIsNoRecord DEF TypeOK, RenewPending, Objects, Rows, Calls, Replaced,
     timeVars, queryVars
<1>2. OneTokenEach'
  BY DEF TypeOK, OneTokenEach, RowsKept, RenewPending, Objects, Replaced
<1>3. ReplacedIsDead'
  BY DEF TypeOK, ReplacedIsDead, RenewPending, Objects, Replaced
<1>4. RowsFollowMemory'
  BY DEF TypeOK, RowsFollowMemory, RenewPending, Objects, Calls, Replaced
<1>5. LogoutIsFinal'
  BY DEF TypeOK, LogoutIsFinal, RenewPending, Calls, Replaced
<1>6. FreshTokens'
  BY DEF TypeOK, FreshTokens, RenewPending, Replaced
<1>7. FreshSessions'
  BY DEF TypeOK, FreshSessions, RenewPending, Replaced
<1>8. RowsKept'
  BY NoneIsNoRecord DEF TypeOK, RowsKept, RenewPending, Objects, Rows, Calls,
     Replaced
<1>9. /\ SetPending'
      /\ RenewPending'
      /\ ClosePending'
  BY DEF SetPending, RenewPending, ClosePending, Replaced
<1>10. QED
  BY <1>1, <1>2, <1>3, <1>4, <1>5, <1>6, <1>7, <1>8, <1>9

\* The second half of a logout.
LEMMA DeletedPreserves ==
    ASSUME SInv, call # None, Deleted, call' = None, UNCHANGED <<up, queryVars, timeVars>>
    PROVE  SInv'
<1> USE DEF SInv
<1>1. TypeOK'
  BY DEF TypeOK, Deleted, Tell, memVars, timeVars, queryVars
<1>2. RowsFollowMemory'
  BY DEF RowsFollowMemory, ClosePending, Deleted, memVars
<1>3. LogoutIsFinal'
  BY NoneAssumption DEF TypeOK, LogoutIsFinal, ClosePending, Deleted, Tell,
     memVars
<1>4. RowsKept'
  BY DEF RowsKept, ClosePending, Deleted, memVars
<1>5. /\ OneTokenEach'
      /\ ReplacedIsDead'
      /\ FreshTokens'
      /\ FreshSessions'
      /\ SetPending'
      /\ RenewPending'
      /\ ClosePending'
  BY DEF OneTokenEach, ReplacedIsDead, FreshTokens, FreshSessions, SetPending,
     RenewPending, ClosePending, Deleted, memVars, Tell
<1>6. QED
  BY <1>1, <1>2, <1>3, <1>4, <1>5

\* A failed write goes back to what the row says.
LEMMA WriteFailedPreserves ==
    ASSUME SInv, WriteFailed
    PROVE  SInv'
<1> USE DEF SInv
<1>1. TypeOK'
  BY NoneIsNoRecord DEF TypeOK, SetPending, Objects, WriteFailed, Rollback,
     ReportedClosed, Tell, timeVars, queryVars
<1>2. OneTokenEach'
  BY DEF TypeOK, OneTokenEach, Objects, WriteFailed, Rollback, ReportedClosed
<1>3. RowsFollowMemory'
  BY DEF TypeOK, RowsFollowMemory, RowsKept, SetPending, Objects, Rows,
     WriteFailed, Rollback, ReportedClosed
<1>4. FreshTokens'
  BY DEF TypeOK, FreshTokens, SetPending, Objects, WriteFailed, Rollback,
     ReportedClosed
<1>5. RowsKept'
  BY DEF TypeOK, RowsKept, Objects, WriteFailed, Rollback, ReportedClosed
<1>6. /\ ReplacedIsDead'
      /\ LogoutIsFinal'
      /\ FreshSessions'
      /\ SetPending'
      /\ RenewPending'
      /\ ClosePending'
  BY DEF ReplacedIsDead, LogoutIsFinal, FreshSessions, SetPending,
     RenewPending, ClosePending, WriteFailed, Rollback, ReportedClosed, Tell
<1>7. QED
  BY <1>1, <1>2, <1>3, <1>4, <1>5, <1>6

\* Nothing is left in memory.
LEMMA CrashPreserves ==
    ASSUME SInv, Crash
    PROVE  SInv'
<1> USE DEF SInv
<1>1. TypeOK'
  BY DEF TypeOK, Crash, timeVars, historyVars
<1>2. ReplacedIsDead'
  BY DEF TypeOK, ReplacedIsDead, Crash, historyVars
<1>3. LogoutIsFinal'
  BY NoneAssumption DEF LogoutIsFinal, Crash, historyVars
<1>4. /\ OneTokenEach'
      /\ RowsFollowMemory'
      /\ FreshTokens'
      /\ FreshSessions'
      /\ RowsKept'
      /\ SetPending'
      /\ RenewPending'
      /\ ClosePending'
  BY DEF OneTokenEach, RowsFollowMemory, FreshTokens, FreshSessions, RowsKept,
     SetPending, RenewPending, ClosePending, Crash, historyVars
<1>5. QED
  BY <1>1, <1>2, <1>3, <1>4

\* Memory is read from the rows, and each session has one.
LEMMA RestartPreserves ==
    ASSUME SInv, NewPersistentManager
    PROVE  SInv'
<1> USE DEF SInv
<1>1. TypeOK'
  BY NoneIsNoRecord DEF TypeOK, Objects, Rows, NewPersistentManager, Loaded,
     timeVars, queryVars, historyVars
<1>2. OneTokenEach'
  BY DEF TypeOK, OneTokenEach, Rows, NewPersistentManager, Loaded
<1>3. ReplacedIsDead'
  BY DEF TypeOK, ReplacedIsDead, NewPersistentManager, Loaded, historyVars
<1>4. RowsFollowMemory'
  BY DEF TypeOK, RowsFollowMemory, Rows, NewPersistentManager, Loaded
<1>5. LogoutIsFinal'
  BY DEF TypeOK, LogoutIsFinal, NewPersistentManager, Loaded, historyVars
<1>6. RowsKept'
  BY DEF TypeOK, RowsKept, Rows, NewPersistentManager, Loaded
<1>7. SetPending'
  BY DEF TypeOK, SetPending, NewPersistentManager
<1>8. RenewPending'
  BY DEF TypeOK, RenewPending, NewPersistentManager
<1>9. ClosePending'
  BY DEF TypeOK, ClosePending, NewPersistentManager
<1>10. /\ FreshTokens'
       /\ FreshSessions'
  BY DEF FreshTokens, FreshSessions, NewPersistentManager, Loaded, historyVars
<1>11. QED
  BY <1>1, <1>2, <1>3, <1>4, <1>5, <1>6, <1>7, <1>8, <1>9, <1>10

LEMMA InitSInv ==
    ASSUME Init
    PROVE  SInv
<1> USE DEF Init
<1>1. TypeOK
  BY DEF TypeOK
<1>2. OneTokenEach /\ ReplacedIsDead /\ RowsFollowMemory /\ LogoutIsFinal
  BY DEF OneTokenEach, ReplacedIsDead, RowsFollowMemory, LogoutIsFinal
<1>3. FreshTokens /\ FreshSessions /\ RowsKept
  BY DEF FreshTokens, FreshSessions, RowsKept
<1>4. SetPending /\ RenewPending /\ ClosePending
  BY DEF SetPending, RenewPending, ClosePending
<1>5. QED
  BY <1>1, <1>2, <1>3, <1>4 DEF SInv

LEMMA NextSInv ==
    ASSUME SInv, [Next]_vars
    PROVE  SInv'
<1>1. ASSUME NEW s \in Sessions, NEW t \in Tokens, NEW c \in Contexts,
             CreateAuthenticatedSession(s, t, c)
      PROVE  SInv'
  BY <1>1, CreatePreserves
<1>2. ASSUME NEW t \in Tokens, NEW c \in Contexts, SetContext(t, c)
      PROVE  SInv'
  BY <1>2, SetContextPreserves
<1>3. ASSUME NEW t \in Tokens, Evict(t)
      PROVE  SInv'
  <2>1. TypeOK'
    BY <1>3 DEF SInv, TypeOK, Evict, Free, queryVars, timeVars, historyVars
  <2>2. QED
    BY <1>3, <2>1, EvictPreserves DEF Evict, Free, historyVars
<1>4. ASSUME NEW t \in Tokens, UpdateLastAccessed(t)
      PROVE  SInv'
  BY <1>4, HeartbeatPreserves
<1>5. ASSUME NEW t \in Tokens, NEW op \in {"logout", "delete"}, CloseSession(t, op)
      PROVE  SInv'
  BY <1>5, ClosePreserves
<1>6. ASSUME NEW s \in Sessions, NEW t \in Tokens, RenewToken(s, t)
      PROVE  SInv'
  <2>1. Free /\ s \in master
    BY <1>6 DEF RenewToken
  <2>2. CASE ExpireSession(s)
    BY <2>1, <2>2, ExpirePreserves
  <2>3. CASE ~ExpireSession(s)
    BY <1>6, <2>1, <2>3, RenewPreserves DEF RenewToken
  <2>4. QED
    BY <2>2, <2>3
<1>7. ASSUME Written
      PROVE  SInv'
  <2>1. call # None /\ call' = None /\ UNCHANGED <<up, queryVars, timeVars>>
    BY <1>7 DEF Written
  <2>2. CASE Saved
    BY <2>1, <2>2, SavedPreserves
  <2>3. CASE Replaced
    BY <2>1, <2>3, ReplacedPreserves
  <2>4. CASE Deleted
    BY <2>1, <2>4, DeletedPreserves
  <2>5. CASE Touched
    <3>1. TypeOK'
      BY <2>1, <2>5 DEF SInv, TypeOK, Touched, memVars, historyVars, queryVars, timeVars
    <3>2. UNCHANGED <<master, object, rows, issued, replaced, told, access>>
      BY <2>5 DEF Touched, memVars, historyVars
    <3>3. OneTokenEach' /\ ReplacedIsDead' /\ LogoutIsFinal'
      BY <3>2 DEF SInv, OneTokenEach, ReplacedIsDead, LogoutIsFinal
    <3>4. RowsFollowMemory' /\ RowsKept'
      BY <2>5, <3>2 DEF SInv, RowsFollowMemory, RowsKept, Touched
    <3>5. FreshTokens' /\ FreshSessions'
      BY <3>2 DEF SInv, FreshTokens, FreshSessions
    <3>6. SetPending' /\ RenewPending' /\ ClosePending'
      BY <2>1 DEF SetPending, RenewPending, ClosePending
    <3>7. QED
      BY <3>1, <3>3, <3>4, <3>5, <3>6 DEF SInv
  <2>6. QED
    BY <1>7, <2>2, <2>3, <2>4, <2>5 DEF Written
<1>8. ASSUME WriteFailed
      PROVE  SInv'
  BY <1>8, WriteFailedPreserves
<1>9. ASSUME StartQuery \/ EndQuery
      PROVE  SInv'
  <2>1. UNCHANGED <<up, access, master, object, call, rows, cancelReq, stale, masterStale,
                    issued, replaced, told>>
    BY <1>9 DEF StartQuery, EndQuery, memVars, timeVars, historyVars
  <2>2. busy' \in BOOLEAN
    BY <1>9 DEF StartQuery, EndQuery
  <2>3. TypeOK'
    BY <2>1, <2>2 DEF SInv, TypeOK
  <2>4. QED
    BY <2>1, <2>3, SameView
<1>10. ASSUME NEW t \in Tokens, RequestCancel(t) \/ ExpireAccess(t)
       PROVE  SInv'
  <2>1. UNCHANGED <<up, access, master, object, call, rows, busy, masterStale, issued,
                    replaced, told>>
    BY <1>10 DEF RequestCancel, ExpireAccess, memVars, timeVars, queryVars, historyVars
  <2>2. cancelReq' \in Tokens \cup {None} /\ stale' \in SUBSET Tokens
    BY <1>10 DEF RequestCancel, ExpireAccess, SInv, TypeOK, timeVars, queryVars
  <2>3. TypeOK'
    BY <2>1, <2>2 DEF SInv, TypeOK
  <2>4. QED
    BY <2>1, <2>3, SameView
<1>11. ASSUME Cancel
       PROVE  SInv'
  <2>1. cancelReq \in Tokens
    BY <1>11 DEF Cancel, SInv, TypeOK
  <2>2. /\ UNCHANGED <<up, master, object, call, rows, stale, masterStale, issued, replaced, told>>
        /\ call = None /\ cancelReq' = None
    BY <1>11 DEF Cancel, Free, timeVars, historyVars
  <2>3. busy' \in BOOLEAN
    BY <1>11 DEF Cancel
  <2>4. access' \in {access, [access EXCEPT ![cancelReq] = None]}
    BY <1>11, <2>1 DEF Cancel, SInv, TypeOK
  <2>5. TypeOK'
    BY <2>1, <2>2, <2>3, <2>4 DEF SInv, TypeOK
  <2>6. CASE access' = access
    BY <2>2, <2>5, <2>6, SameView
  <2>7. CASE access' = [access EXCEPT ![cancelReq] = None]
    BY <2>1, <2>2, <2>5, <2>7, EvictPreserves
  <2>8. QED
    BY <2>4, <2>6, <2>7
<1>12. ASSUME NEW s \in Sessions, ExpireMaster(s)
       PROVE  SInv'
  <2>1. TypeOK'
    BY <1>12 DEF ExpireMaster, SInv, TypeOK, memVars, queryVars, historyVars
  <2>2. QED
    BY <1>12, <2>1, SameView DEF ExpireMaster, memVars, historyVars
<1>13. ASSUME Crash
       PROVE  SInv'
  BY <1>13, CrashPreserves
<1>14. ASSUME NewPersistentManager
       PROVE  SInv'
  BY <1>14, RestartPreserves
<1>15. ASSUME UNCHANGED vars
       PROVE  SInv'
  <2>1. TypeOK'
    BY <1>15 DEF SInv, TypeOK, vars, memVars, timeVars, queryVars, historyVars
  <2>2. QED
    BY <1>15, <2>1, SameView DEF vars, memVars, historyVars
<1>16. QED
  BY <1>1, <1>2, <1>3, <1>4, <1>5, <1>6, <1>7, <1>8, <1>9, <1>10, <1>11, <1>12, <1>13, <1>14,
     <1>15 DEF Next

\* The inductive invariant.
THEOREM SessionInvariant == Spec => []SInv
<1>1. SInv /\ [Next]_vars => SInv'
  BY NextSInv
<1>2. QED
  BY InitSInv, <1>1, PTL DEF Spec

\* Type correctness; both maps lead to the same sessions.
THEOREM SessionTypeOK == Spec => []TypeOK
<1>1. SInv => TypeOK
  BY DEF SInv
<1>2. QED
  BY SessionInvariant, <1>1, PTL

\* A session answers to one access token, in memory and in the table.
THEOREM SessionOneTokenEach == Spec => []OneTokenEach
<1>1. SInv => OneTokenEach
  BY DEF SInv
<1>2. QED
  BY SessionInvariant, <1>1, PTL

\* A renewed token is dead (manager.go:331-350, store.go:175-199).
THEOREM SessionReplacedIsDead == Spec => []ReplacedIsDead
<1>1. SInv => ReplacedIsDead
  BY DEF SInv
<1>2. QED
  BY SessionInvariant, <1>1, PTL

\* Failed writes are rolled back, so a restart finds what memory holds.
THEOREM SessionRowsFollowMemory == Spec => []RowsFollowMemory
<1>1. SInv => RowsFollowMemory
  BY DEF SInv
<1>2. QED
  BY SessionInvariant, <1>1, PTL

\* A session whose row was deleted by a logout never comes back.
THEOREM SessionLogoutIsFinal == Spec => []LogoutIsFinal
<1>1. SInv => LogoutIsFinal
  BY DEF SInv
<1>2. QED
  BY SessionInvariant, <1>1, PTL

\* A token names one session at most, whichever map is asked.
LEMMA OneSessionEach ==
    ASSUME SInv, NEW r \in Sessions, NEW s \in Sessions, NEW t \in Tokens,
           Named(r, t), Named(s, t)
    PROVE  r = s
<1> USE DEF SInv
<1>1. object[r].token = t /\ object[s].token = t
  BY NoneAssumption DEF Named, TypeOK, OneTokenEach
<1>2. rows[t] # None /\ rows[t].session = r /\ rows[t].session = s
  BY <1>1 DEF Named, RowsKept
<1>3. QED
  BY <1>2

\* While the server runs only a logout or its own expiry ends a master token.
THEOREM SessionRenewable == Spec => RenewableUntilLogout
<1> DEFINE Lost(s) == \/ ~up'
                      \/ s \in masterStale
                      \/ call' # None /\ call'.op \in {"logout", "delete"} /\ call'.session = s
<1>1. SInv /\ [Next]_vars =>
        [\A s \in master \ master' :
            \/ ~up'
            \/ s \in masterStale
            \/ call' # None /\ call'.op \in {"logout", "delete"} /\ call'.session = s]_vars
  <2>1. SUFFICES ASSUME SInv, Next, NEW s \in master, s \notin master'
                 PROVE  Lost(s)
    OBVIOUS
  <2>2. ASSUME NEW t \in Tokens, NEW op \in {"logout", "delete"}, CloseSession(t, op)
        PROVE  Lost(s)
    <3>1. Named(s, t)
      BY <2>1, <2>2 DEF CloseSession
    <3>2. PICK r \in Sessions : Named(r, t) /\ Await(op, r, t, None)
      BY <2>1, <2>2, <3>1 DEF CloseSession, SInv, TypeOK
    <3>3. r = s
      <4>1. s \in Sessions
        BY <2>1 DEF SInv, TypeOK
      <4>2. QED
        BY <2>1, <3>1, <3>2, <4>1, OneSessionEach
    <3>4. call' = [op |-> op, session |-> s, token |-> t, before |-> None]
      BY <3>2, <3>3 DEF Await
    <3>5. call' \in Calls
      BY <3>2, <3>3, <3>4, <2>2 DEF Calls
    <3>6. call' # None
      BY <3>5, NoneIsNoRecord
    <3>7. QED
      BY <3>4, <3>6
  <2>3. ASSUME NEW r \in Sessions, NEW t \in Tokens, RenewToken(r, t)
        PROVE  Lost(s)
    BY <2>1, <2>3 DEF RenewToken, ExpireSession, memVars
  <2>4. CASE Crash
    BY <2>4 DEF Crash
  <2>5. CASE NewPersistentManager
    BY <2>1, <2>5 DEF NewPersistentManager, SInv, TypeOK
  <2>6. CASE Written \/ WriteFailed
    BY <2>1, <2>6 DEF Written, Saved, Replaced, Deleted, Touched, WriteFailed, memVars
  <2>7. CASE StartQuery \/ EndQuery \/ Cancel
    BY <2>1, <2>7 DEF StartQuery, EndQuery, Cancel, memVars
  <2>8. QED
    BY <2>1, <2>2, <2>3, <2>4, <2>5, <2>6, <2>7
       DEF Next, CreateAuthenticatedSession, SetContext, Evict, UpdateLastAccessed,
           RequestCancel, ExpireAccess, ExpireMaster, memVars
<1>2. QED
  BY SessionInvariant, <1>1, PTL DEF Spec, RenewableUntilLogout
-----------------------------------------------------------------------------
\* The refinement: what the entries of the registry are, read off the state.

Entries == [session : Sessions, token : Tokens, context : Contexts]

InStored(e) == rows[e.token] = [session |-> e.session, context |-> e.context]

InRenewable(e) ==
    /\ e.session \in master
    /\ object[e.session].token = e.token
    /\ Shown(e.session) = e.context

InUsable(e) == access[e.token] = e.session /\ Shown(e.session) = e.context

\* The three sets as filters.
StoredView == Stored = {e \in Entries : InStored(e)}
RenewableView == Renewable = {e \in Entries : InRenewable(e)}
UsableView == Usable = {e \in Entries : InUsable(e)}

\* An entry is its three fields.
LEMMA EntryFields ==
    /\ \A s \in Sessions, t \in Tokens, c \in Contexts :
          /\ Entry(s, t, c) \in Entries
          /\ Entry(s, t, c).session = s
          /\ Entry(s, t, c).token = t
          /\ Entry(s, t, c).context = c
    /\ \A e \in Entries :
          /\ e.session \in Sessions /\ e.token \in Tokens /\ e.context \in Contexts
          /\ e = Entry(e.session, e.token, e.context)
  BY DEF Entry, Entries

\* A session in memory shows a context.
LEMMA ShownContext ==
    ASSUME SInv, NEW s \in master
    PROVE  Shown(s) \in Contexts /\ object[s].token \in Tokens
<1>1. object[s] \in Objects
  BY DEF SInv, TypeOK
<1>2. object[s].token \in Tokens /\ object[s].context \in Contexts
  BY <1>1 DEF Objects
<1>3. QED
  BY <1>2 DEF SInv, SetPending, Shown

LEMMA StoredIs == SInv => StoredView
<1> SUFFICES ASSUME SInv
             PROVE  Stored = {e \in Entries : InStored(e)}
  BY DEF StoredView
<1>1. ASSUME NEW e \in Stored
      PROVE  e \in Entries /\ InStored(e)
  <2>1. PICK t \in Tokens : rows[t] # None /\ e = Entry(rows[t].session, t, rows[t].context)
    BY <1>1 DEF Stored
  <2>2. rows[t] \in Rows
    BY <2>1 DEF SInv, TypeOK
  <2>3. PICK r \in Rows : rows[t] = r
    BY <2>2
  <2>4. r.session \in Sessions /\ r.context \in Contexts
        /\ r = [session |-> r.session, context |-> r.context]
    BY DEF Rows
  <2>5. e = Entry(r.session, t, r.context)
    BY <2>1, <2>3
  <2>6. e \in Entries /\ e.session = r.session /\ e.token = t /\ e.context = r.context
    BY <2>4, <2>5, EntryFields
  <2>7. QED
    BY <2>3, <2>4, <2>6 DEF InStored
<1>2. ASSUME NEW e \in Entries, InStored(e)
      PROVE  e \in Stored
  <2>1. e.token \in Tokens /\ rows[e.token] = [session |-> e.session, context |-> e.context]
    BY <1>2, EntryFields DEF InStored
  <2>2. rows[e.token] \in Rows
    BY <2>1, EntryFields DEF Rows
  <2>3. rows[e.token] # None
    BY <2>2, NoneIsNoRecord
  <2>4. rows[e.token].session = e.session /\ rows[e.token].context = e.context
    BY <2>1
  <2>5. e = Entry(rows[e.token].session, e.token, rows[e.token].context)
    BY <2>4, EntryFields
  <2>6. QED
    BY <2>1, <2>3, <2>5 DEF Stored
<1>3. QED
  BY <1>1, <1>2

LEMMA RenewableIs == SInv => RenewableView
<1> SUFFICES ASSUME SInv
             PROVE  Renewable = {e \in Entries : InRenewable(e)}
  BY DEF RenewableView
<1>1. ASSUME NEW e \in Renewable
      PROVE  e \in Entries /\ InRenewable(e)
  <2>1. PICK s \in master : e = Entry(s, object[s].token, Shown(s))
    BY <1>1 DEF Renewable
  <2>2. s \in Sessions /\ object[s].token \in Tokens /\ Shown(s) \in Contexts
    BY <2>1, ShownContext DEF SInv, TypeOK
  <2>3. QED
    BY <2>1, <2>2, EntryFields DEF InRenewable
<1>2. ASSUME NEW e \in Entries, InRenewable(e)
      PROVE  e \in Renewable
  BY <1>2, EntryFields DEF Renewable, InRenewable
<1>3. QED
  BY <1>1, <1>2

LEMMA UsableIs == SInv => UsableView
<1> SUFFICES ASSUME SInv
             PROVE  Usable = {e \in Entries : InUsable(e)}
  BY DEF UsableView
<1>1. ASSUME NEW e \in Usable
      PROVE  e \in Entries /\ InUsable(e)
  <2>1. PICK t \in Tokens : access[t] # None /\ e = Entry(access[t], t, Shown(access[t]))
    BY <1>1 DEF Usable
  <2>2. access[t] \in Sessions /\ access[t] \in master
    BY <2>1 DEF SInv, TypeOK
  <2>3. Shown(access[t]) \in Contexts
    BY <2>2, ShownContext
  <2>4. QED
    BY <2>1, <2>2, <2>3, EntryFields DEF InUsable
<1>2. ASSUME NEW e \in Entries, InUsable(e)
      PROVE  e \in Usable
  <2>1. e.token \in Tokens /\ access[e.token] # None
    BY <1>2, EntryFields, NoneAssumption DEF InUsable
  <2>2. QED
    BY <1>2, <2>1, EntryFields DEF Usable, InUsable
<1>3. QED
  BY <1>1, <1>2

\* In this state and the next.
LEMMA View ==
    ASSUME SInv, SInv'
    PROVE  /\ Stored = {e \in Entries : InStored(e)}
           /\ Renewable = {e \in Entries : InRenewable(e)}
           /\ Usable = {e \in Entries : InUsable(e)}
           /\ Stored' = {e \in Entries : InStored(e)'}
           /\ Renewable' = {e \in Entries : InRenewable(e)'}
           /\ Usable' = {e \in Entries : InUsable(e)'}
<1>1. StoredView /\ RenewableView /\ UsableView
  BY StoredIs, RenewableIs, UsableIs
<1>2. StoredView' /\ RenewableView' /\ UsableView'
  BY StoredIs, RenewableIs, UsableIs, PTL
<1>3. QED
  BY <1>1, <1>2 DEF StoredView, RenewableView, UsableView, Entries

\* The three sets are nested.
LEMMA Nested ==
    ASSUME SInv, NEW e \in Entries
    PROVE  /\ InUsable(e) => InRenewable(e)
           /\ InRenewable(e) => InStored(e)
<1>1. e.session \in Sessions /\ e.token \in Tokens /\ e.context \in Contexts
  BY EntryFields
<1>2. InUsable(e) => InRenewable(e)
  BY <1>1, NoneAssumption DEF InUsable, InRenewable, SInv, TypeOK, OneTokenEach
<1>3. ASSUME InRenewable(e)
      PROVE  rows[e.token] = [session |-> e.session, context |-> e.context]
  <2> DEFINE s == e.session
  <2>1. s \in master /\ object[s].token = e.token
    BY <1>3 DEF InRenewable
  <2>2. CASE call # None /\ call.op = "set" /\ call.session = s
    <3>1. call.token = e.token /\ e.context = call.before
      BY <1>3, <2>1, <2>2 DEF InRenewable, Shown, SInv, SetPending
    <3>2. rows[e.token].context = e.context /\ rows[e.token].session = s
      BY <2>1, <2>2, <3>1 DEF SInv, SetPending, RowsKept
    <3>3. rows[e.token] \in Rows
      BY <1>1, <2>1 DEF SInv, TypeOK, RowsKept
    <3>4. QED
      BY <3>2, <3>3 DEF Rows
  <2>3. CASE ~(call # None /\ call.op = "set" /\ call.session = s)
    <3>1. object[s].context = e.context
      BY <1>3, <2>3 DEF InRenewable, Shown
    <3>2. rows[object[s].token] = [session |-> s, context |-> object[s].context]
      BY <2>1, <2>3 DEF SInv, RowsFollowMemory
    <3>3. QED
      BY <2>1, <3>1, <3>2
  <2>4. QED
    BY <2>2, <2>3
<1>4. QED
  BY <1>2, <1>3 DEF InStored

\* A token without a row that is not dead is fresh.
LEMMA FreshToken ==
    ASSUME SInv, NEW t \in Tokens, rows[t] = None, t \notin Dead
    PROVE  Registry!Fresh(t)
<1>1. \A e \in Stored : e.token # t
  BY EntryFields DEF Stored, SInv, TypeOK, Entry
<1>2. QED
  BY <1>1 DEF Registry!Fresh

\* What the abstract variables depend on.
LEMMA SameStatus ==
    ASSUME UNCHANGED told
    PROVE  Status' = Status
  BY DEF Status

LEMMA SameStored ==
    ASSUME UNCHANGED rows
    PROVE  Stored' = Stored
  BY DEF Stored, Entry

LEMMA SameDead ==
    ASSUME UNCHANGED <<issued, rows>>,
           \A t \in Tokens : (call # None /\ call.op = "renew" /\ call.token = t)'
                         <=> (call # None /\ call.op = "renew" /\ call.token = t)
    PROVE  Dead' = Dead
  BY DEF Dead

LEMMA SameMemory ==
    ASSUME SInv, SInv', UNCHANGED <<access, master>>,
           \A s \in master : /\ object'[s].token = object[s].token
                             /\ Shown(s)' = Shown(s)
    PROVE  Renewable' = Renewable /\ Usable' = Usable
<1>1. Renewable' = Renewable
  BY DEF Renewable, Entry
<1>2. \A t \in Tokens : access[t] # None => access[t] \in master
  BY DEF SInv, TypeOK
<1>3. Usable' = Usable
  <2>1. ASSUME NEW t \in Tokens, access[t] # None
        PROVE  Entry(access[t], t, Shown(access[t]))' = Entry(access[t], t, Shown(access[t]))
    BY <2>1, <1>2 DEF Entry
  <2>2. QED
    BY <2>1 DEF Usable
<1>4. QED
  BY <1>1, <1>3

\* A step that changes none of what the registry shows.
LEMMA RegistryStutters ==
    ASSUME SInv, SInv', UNCHANGED <<up, told, rows, issued, access, master, object, call>>
    PROVE  UNCHANGED Registry!vars
<1>1. Status' = Status /\ Stored' = Stored
  BY SameStatus, SameStored
<1>2. Dead' = Dead
  BY SameDead
<1>3. \A s \in master : Shown(s)' = Shown(s)
  BY DEF Shown
<1>4. Renewable' = Renewable /\ Usable' = Usable
  BY <1>3, SameMemory
<1>5. QED
  BY <1>1, <1>2, <1>4 DEF Registry!vars

\* A login.
LEMMA CreateIsLogin ==
    ASSUME SInv, SInv', NEW s \in Sessions, NEW t \in Tokens, NEW c \in Contexts,
           CreateAuthenticatedSession(s, t, c)
    PROVE  Registry!Login(s, t, c)
<1> DEFINE f == Entry(s, t, c)
<1>1. /\ up /\ told[s] = "nothing" /\ issued[t] = "no"
      /\ access' = [access EXCEPT ![t] = s]
      /\ master' = master \cup {s}
      /\ object' = [object EXCEPT ![s] = [token |-> t, context |-> c]]
      /\ rows' = [rows EXCEPT ![t] = [session |-> s, context |-> c]]
      /\ issued' = [issued EXCEPT ![t] = "login"]
      /\ told' = [told EXCEPT ![s] = "open"]
      /\ UNCHANGED <<up, call>>
  BY DEF CreateAuthenticatedSession
<1>2. /\ s \notin master
      /\ access[t] = None /\ rows[t] = None
      /\ \A r \in Sessions : object[r] # None => object[r].token # t
  BY <1>1 DEF SInv, FreshSessions, FreshTokens
<1>3. f \in Entries /\ f.session = s /\ f.token = t /\ f.context = c
  BY EntryFields
<1>4. Registry!Fresh(t)
  <2>1. t \notin Dead
    BY <1>1 DEF Dead
  <2>2. QED
    BY <1>2, <2>1, FreshToken
<1>5. Status[s] = "new" /\ Status' = [Status EXCEPT ![s] = "open"]
  BY <1>1 DEF Status, SInv, TypeOK
<1>6. Dead' = Dead
  <2>1. call # None /\ call.op = "renew" => call.token # t
    BY <1>1 DEF SInv, RenewPending
  <2>2. \A u \in Tokens : rows'[u] = None <=> (rows[u] = None /\ u # t)
    BY <1>1, <1>3, NoneIsNoRecord DEF SInv, TypeOK, Rows
  <2>3. \A u \in Tokens : u # t => issued'[u] = issued[u]
    BY <1>1 DEF SInv, TypeOK
  <2>4. QED
    BY <1>1, <2>2, <2>3 DEF Dead
<1>7. \A e \in Entries : InStored(e)' <=> (InStored(e) \/ e = f)
  <2>1. SUFFICES ASSUME NEW e \in Entries
                 PROVE  InStored(e)' <=> (InStored(e) \/ e = f)
    OBVIOUS
  <2>2. e.session \in Sessions /\ e.token \in Tokens /\ e.context \in Contexts
        /\ e = Entry(e.session, e.token, e.context)
    BY EntryFields
  <2>3. CASE e.token = t
    <3>1. rows'[t] = [session |-> s, context |-> c]
      BY <1>1 DEF SInv, TypeOK
    <3>2. ~InStored(e)
      BY <1>2, <2>2, <2>3, NoneIsNoRecord DEF InStored, Rows
    <3>3. InStored(e)' <=> (e.session = s /\ e.context = c)
      BY <2>3, <3>1 DEF InStored
    <3>4. QED
      BY <1>3, <2>2, <2>3, <3>2, <3>3
  <2>4. CASE e.token # t
    <3>1. rows'[e.token] = rows[e.token]
      BY <1>1, <2>2, <2>4 DEF SInv, TypeOK
    <3>2. QED
      BY <1>3, <2>4, <3>1 DEF InStored
  <2>5. QED
    BY <2>3, <2>4
<1>8. /\ object'[s].token = t /\ object'[s].context = c
      /\ \A r \in master : object'[r] = object[r]
  BY <1>1, <1>2 DEF SInv, TypeOK
<1>9. /\ Shown(s)' = c
      /\ \A r \in master : Shown(r)' = Shown(r)
  BY <1>1, <1>2, <1>8 DEF Shown, SInv, SetPending
<1>10. \A e \in Entries : InRenewable(e)' <=> (InRenewable(e) \/ e = f)
  BY <1>1, <1>2, <1>3, <1>8, <1>9, EntryFields DEF InRenewable
<1>11. \A e \in Entries : InUsable(e)' <=> (InUsable(e) \/ e = f)
  <2>1. \A u \in Tokens : access'[u] = IF u = t THEN s ELSE access[u]
    BY <1>1 DEF SInv, TypeOK
  <2>2. \A e \in Entries : InUsable(e) => e.token # t /\ e.session \in master
    BY <1>2, NoneAssumption, EntryFields DEF InUsable, SInv, TypeOK
  <2>3. \A e \in Entries : access[e.token] = e.session => e.session \in master
    BY NoneAssumption, EntryFields DEF SInv, TypeOK
  <2>4. QED
    BY <1>2, <1>3, <1>9, <2>1, <2>2, <2>3, EntryFields DEF InUsable
<1>12. /\ Stored' = Stored \cup {f}
       /\ Renewable' = Renewable \cup {f}
       /\ Usable' = Usable \cup {f}
  BY <1>3, <1>7, <1>10, <1>11, View
<1>13. f = Registry!Entry(s, t, c)
  BY DEF Entry, Registry!Entry
<1>14. QED
  BY <1>1, <1>4, <1>5, <1>6, <1>12, <1>13 DEF Registry!Login

\* A new context is not shown before its row is written.
LEMMA SetContextStutters ==
    ASSUME SInv, SInv', NEW t \in Tokens, NEW c \in Contexts, SetContext(t, c)
    PROVE  UNCHANGED Registry!vars
<1>1. access[t] \in Sessions
  BY DEF SetContext, SInv, TypeOK
<1>2. PICK s \in Sessions : s = access[t]
  BY <1>1
<1>3. /\ call = None /\ s \in master /\ object[s] \in Objects
      /\ object' = [object EXCEPT ![s].context = c]
      /\ call' = [op |-> "set", session |-> s, token |-> t, before |-> object[s].context]
      /\ UNCHANGED <<up, access, master, rows, issued, told>>
  BY <1>2 DEF SetContext, Free, Await, historyVars, SInv, TypeOK
<1>4. call' \in Calls
  BY <1>3 DEF Calls, Objects
<1>5. call' # None
  BY <1>4, NoneIsNoRecord
<1>6. \A r \in master : object'[r].token = object[r].token
  BY <1>3 DEF SInv, TypeOK, Objects
<1>7. \A r \in master : Shown(r)' = Shown(r)
  <2>1. Shown(s)' = Shown(s)
    BY <1>3, <1>5 DEF Shown
  <2>2. ASSUME NEW r \in master, r # s
        PROVE  Shown(r)' = Shown(r)
    <3>1. object'[r] = object[r]
      BY <1>3, <2>2 DEF SInv, TypeOK
    <3>2. QED
      BY <1>3, <2>2, <3>1 DEF Shown
  <2>3. QED
    BY <2>1, <2>2
<1>8. Renewable' = Renewable /\ Usable' = Usable
  BY <1>3, <1>6, <1>7, SameMemory
<1>9. Status' = Status /\ Stored' = Stored
  BY <1>3, SameStatus, SameStored
<1>10. Dead' = Dead
  BY <1>3, SameDead
<1>11. QED
  BY <1>3, <1>8, <1>9, <1>10 DEF Registry!vars

\* An access token is forgotten.
LEMMA EvictIsLapse ==
    ASSUME SInv, SInv', NEW t \in Tokens, access[t] # None,
           access' = [access EXCEPT ![t] = None],
           UNCHANGED <<up, told, rows, issued, master, object, call>>
    PROVE  \E e \in Usable : Registry!Lapse(e)
<1> DEFINE e == Entry(access[t], t, Shown(access[t]))
<1>1. access[t] \in Sessions /\ access[t] \in master
  BY DEF SInv, TypeOK
<1>2. e \in Entries /\ e.session = access[t] /\ e.token = t /\ e.context = Shown(access[t])
  BY <1>1, ShownContext, EntryFields
<1>3. e \in Usable
  BY <1>2 DEF Usable
<1>4. Status' = Status /\ Stored' = Stored /\ Dead' = Dead
  BY SameStatus, SameStored, SameDead
<1>5. \A s \in Sessions : Shown(s)' = Shown(s)
  BY DEF Shown
<1>6. Renewable' = Renewable
  BY <1>5 DEF Renewable, SInv, TypeOK
<1>7. \A x \in Entries : InUsable(x)' <=> (InUsable(x) /\ x # e)
  <2>1. SUFFICES ASSUME NEW x \in Entries
                 PROVE  InUsable(x)' <=> (InUsable(x) /\ x # e)
    OBVIOUS
  <2>2. x.session \in Sessions /\ x.token \in Tokens /\ x = Entry(x.session, x.token, x.context)
    BY EntryFields
  <2>3. CASE x.token = t
    <3>1. ~InUsable(x)'
      BY <2>2, <2>3, NoneAssumption DEF InUsable, SInv, TypeOK
    <3>2. InUsable(x) => x = e
      BY <2>2, <2>3 DEF InUsable
    <3>3. QED
      BY <3>1, <3>2
  <2>4. CASE x.token # t
    <3>1. access'[x.token] = access[x.token]
      BY <2>2, <2>4 DEF SInv, TypeOK
    <3>2. QED
      BY <1>2, <1>5, <2>2, <2>4, <3>1 DEF InUsable
  <2>5. QED
    BY <2>3, <2>4
<1>8. Usable' = Usable \ {e}
  BY <1>7, View
<1>9. QED
  BY <1>3, <1>4, <1>6, <1>8 DEF Registry!Lapse

\* A session leaves both maps.
LEMMA LeaveIsRetire ==
    ASSUME SInv, SInv', call = None, NEW s \in master, master' = master \ {s},
           access' = [t \in Tokens |-> IF access[t] = s THEN None ELSE access[t]],
           UNCHANGED <<up, told, rows, issued, object>>,
           call' = None \/ call'.op \notin {"set", "renew"}
    PROVE  \E e \in Renewable : Registry!Retire(e)
<1> DEFINE e == Entry(s, object[s].token, Shown(s))
<1>1. s \in Sessions
  BY DEF SInv, TypeOK
<1>2. /\ e \in Entries /\ e.session = s /\ e.token = object[s].token /\ e.context = Shown(s)
  BY <1>1, ShownContext, EntryFields
<1>3. e \in Renewable
  BY DEF Renewable
<1>4. Status' = Status /\ Stored' = Stored /\ Dead' = Dead
  BY SameStatus, SameStored, SameDead
<1>5. \A r \in Sessions : Shown(r)' = Shown(r)
  BY DEF Shown
<1>6. \A x \in Entries : InRenewable(x)' <=> (InRenewable(x) /\ x # e)
  BY <1>2, <1>5, EntryFields DEF InRenewable
<1>7. \A x \in Entries : InUsable(x)' <=> (InUsable(x) /\ x # e)
  <2>1. SUFFICES ASSUME NEW x \in Entries
                 PROVE  InUsable(x)' <=> (InUsable(x) /\ x # e)
    OBVIOUS
  <2>2. x.session \in Sessions /\ x.token \in Tokens
    BY EntryFields
  <2>3. InUsable(x) => (x.session = s <=> x = e)
    BY <1>2, <2>2, Nested, EntryFields DEF InRenewable
  <2>4. InUsable(x)' <=> (InUsable(x) /\ x.session # s)
    BY <1>5, <2>2, NoneAssumption DEF InUsable
  <2>5. QED
    BY <2>3, <2>4
<1>8. Renewable' = Renewable \ {e} /\ Usable' = Usable \ {e}
  BY <1>6, <1>7, View
<1>9. QED
  BY <1>3, <1>4, <1>8 DEF Registry!Retire

\* The first half of a logout takes the session out of service, if the token
\* names one.
LEMMA CloseIsRetire ==
    ASSUME SInv, SInv', NEW t \in Tokens, NEW op \in {"logout", "delete"}, CloseSession(t, op)
    PROVE  (\E e \in Renewable : Registry!Retire(e)) \/ UNCHANGED Registry!vars
<1>1. /\ call = None
      /\ access' = [access EXCEPT ![t] = None]
      /\ master' = {r \in master : ~Named(r, t)}
      /\ UNCHANGED <<up, told, rows, issued, object>>
  BY DEF CloseSession, Free, historyVars
<1>2. call'.op \notin {"set", "renew"}
  BY DEF CloseSession, Await
<1>3. CASE \E s \in Sessions : Named(s, t)
  <2>1. PICK s \in Sessions : Named(s, t)
    BY <1>3
  <2>2. s \in master /\ object[s].token = t
    BY <2>1, NoneAssumption DEF Named, SInv, OneTokenEach
  <2>3. master' = master \ {s}
    BY <1>1, <2>1, OneSessionEach DEF SInv, TypeOK
  <2>4. \A u \in Tokens : access[u] = s => u = t
    BY <2>1, <2>2, NoneAssumption DEF SInv, OneTokenEach
  <2>5. access[t] = s \/ access[t] = None
    <3>1. ASSUME access[t] # None
          PROVE  access[t] = s
      <4>1. access[t] \in Sessions /\ Named(access[t], t)
        BY <3>1 DEF SInv, TypeOK, Named
      <4>2. QED
        BY <2>1, <4>1, OneSessionEach
    <3>2. QED
      BY <3>1
  <2>6. access' = [u \in Tokens |-> IF access[u] = s THEN None ELSE access[u]]
    BY <1>1, <2>4, <2>5 DEF SInv, TypeOK
  <2>7. QED
    BY <1>1, <1>2, <2>2, <2>3, <2>6, LeaveIsRetire
<1>4. CASE \A s \in Sessions : ~Named(s, t)
  <2>1. access[t] = None
    BY <1>4 DEF SInv, TypeOK, Named
  <2>2. master' = master /\ access' = access
    BY <1>1, <1>4, <2>1 DEF SInv, TypeOK
  <2>3. Status' = Status /\ Stored' = Stored /\ Dead' = Dead
    BY <1>1, <1>2, SameStatus, SameStored, SameDead
  <2>4. \A r \in master : Shown(r)' = Shown(r) /\ object'[r].token = object[r].token
    BY <1>1, <1>2 DEF Shown
  <2>5. Renewable' = Renewable /\ Usable' = Usable
    BY <2>2, <2>4, SameMemory
  <2>6. QED
    BY <1>1, <2>3, <2>5 DEF Registry!vars
<1>5. QED
  BY <1>3, <1>4

\* A renewal comes too late.
LEMMA ExpireIsRetire ==
    ASSUME SInv, SInv', Free, NEW s \in master, ExpireSession(s)
    PROVE  \E e \in Renewable : Registry!Retire(e)
<1>1. /\ master' = master \ {s}
      /\ access' = [access EXCEPT ![object[s].token] = None]
      /\ call = None
      /\ UNCHANGED <<up, told, rows, issued, object, call>>
  BY DEF ExpireSession, Free, historyVars
<1>2. \A u \in Tokens : access[u] = s => u = object[s].token
  BY NoneAssumption DEF SInv, TypeOK, OneTokenEach
<1>3. access[object[s].token] \in {s, None}
  <2>1. object[s].token \in Tokens
    BY ShownContext
  <2>2. ASSUME access[object[s].token] # None
        PROVE  access[object[s].token] = s
    <3>1. PICK r \in Sessions : r = access[object[s].token] /\ Named(r, object[s].token)
      BY <2>1, <2>2 DEF SInv, TypeOK, Named
    <3>2. Named(s, object[s].token) /\ s \in Sessions
      BY DEF Named, SInv, TypeOK
    <3>3. QED
      BY <2>1, <3>1, <3>2, OneSessionEach
  <2>3. QED
    BY <2>2
<1>4. access' = [u \in Tokens |-> IF access[u] = s THEN None ELSE access[u]]
  BY <1>1, <1>2, <1>3 DEF SInv, TypeOK
<1>5. QED
  BY <1>1, <1>4, LeaveIsRetire

\* A renewal has drawn its token.
LEMMA RenewStutters ==
    ASSUME SInv, SInv', Free, NEW s \in master, NEW t \in Tokens, issued[t] = "no",
           issued' = [issued EXCEPT ![t] = "renewal"], Await("renew", s, t, None),
           UNCHANGED <<up, memVars, rows, queryVars, timeVars, replaced, told>>
    PROVE  UNCHANGED Registry!vars
<1>1. /\ call = None
      /\ call' = [op |-> "renew", session |-> s, token |-> t, before |-> None]
      /\ UNCHANGED <<up, access, master, object, rows, told>>
  BY DEF Free, Await, memVars
<1>2. call' \in Calls /\ call' # None
  BY <1>1, NoneIsNoRecord DEF Calls, SInv, TypeOK
<1>3. Status' = Status /\ Stored' = Stored
  BY <1>1, SameStatus, SameStored
<1>4. Dead' = Dead
  <2>1. \A u \in Tokens : issued'[u] # "no" <=> (issued[u] # "no" \/ u = t)
    BY DEF SInv, TypeOK
  <2>2. QED
    BY <1>1, <1>2, <2>1 DEF Dead
<1>5. \A r \in master : Shown(r)' = Shown(r) /\ object'[r].token = object[r].token
  BY <1>1 DEF Shown
<1>6. Renewable' = Renewable /\ Usable' = Usable
  BY <1>1, <1>5, SameMemory
<1>7. QED
  BY <1>1, <1>3, <1>4, <1>6 DEF Registry!vars

\* The context shows when its row is written.
LEMMA SavedIsSetContext ==
    ASSUME SInv, SInv', call # None, Saved, call' = None, up' = up
    PROVE  \E e \in Usable, c \in Contexts : Registry!SetContext(e, c)
<1>1. PICK s \in Sessions, t \in Tokens, b \in Contexts, c \in Contexts :
          /\ s = call.session /\ t = call.token /\ b = call.before /\ c = object[s].context
  <2>1. call.session \in master /\ call.before \in Contexts /\ call.token \in Tokens
    BY DEF Saved, SInv, SetPending, TypeOK, Calls
  <2>2. object[call.session] \in Objects
    BY <2>1 DEF SInv, TypeOK
  <2>3. QED
    BY <2>1, <2>2 DEF Objects, SInv, TypeOK
<1>2. /\ s \in master /\ object[s].token = t /\ access[t] = s
      /\ rows' = [rows EXCEPT ![t] = [session |-> s, context |-> c]]
      /\ UNCHANGED <<access, master, object, issued, told>>
      /\ call.op = "set"
  BY <1>1 DEF Saved, SInv, SetPending, memVars, historyVars
<1>3. Shown(s) = b /\ Shown(s)' = c
  BY <1>1, <1>2 DEF Shown
<1>4. \A r \in Sessions : r # s => Shown(r)' = Shown(r)
  BY <1>1, <1>2 DEF Shown
<1> DEFINE e == Entry(s, t, b)
           f == Entry(s, t, c)
<1>5. /\ e \in Entries /\ e.session = s /\ e.token = t /\ e.context = b
      /\ f \in Entries /\ f.session = s /\ f.token = t /\ f.context = c
  BY EntryFields
<1>6. InUsable(e) /\ InRenewable(e) /\ InStored(e)
  <2>1. InUsable(e)
    BY <1>2, <1>3, <1>5 DEF InUsable
  <2>2. QED
    BY <2>1, <1>5, Nested
<1>7. \A x \in Entries : InStored(x)' <=> ((InStored(x) /\ x # e) \/ x = f)
  <2>1. SUFFICES ASSUME NEW x \in Entries
                 PROVE  InStored(x)' <=> ((InStored(x) /\ x # e) \/ x = f)
    OBVIOUS
  <2>2. /\ x.session \in Sessions /\ x.token \in Tokens
        /\ x = Entry(x.session, x.token, x.context)
    BY EntryFields
  <2>3. CASE x.token = t
    <3>1. rows'[t] = [session |-> s, context |-> c]
      BY <1>2 DEF SInv, TypeOK
    <3>2. InStored(x)' <=> x.session = s /\ x.context = c
      BY <2>3, <3>1 DEF InStored
    <3>3. rows[t] = [session |-> s, context |-> b]
      BY <1>5, <1>6 DEF InStored
    <3>4. InStored(x) => x = e
      BY <2>2, <2>3, <3>3 DEF InStored
    <3>5. QED
      BY <1>5, <2>2, <2>3, <3>2, <3>4
  <2>4. CASE x.token # t
    <3>1. rows'[x.token] = rows[x.token]
      BY <1>2, <2>2, <2>4 DEF SInv, TypeOK
    <3>2. QED
      BY <1>5, <2>4, <3>1 DEF InStored
  <2>5. QED
    BY <2>3, <2>4
<1>8. \A x \in Entries : InRenewable(x)' <=> ((InRenewable(x) /\ x # e) \/ x = f)
  <2>1. SUFFICES ASSUME NEW x \in Entries
                 PROVE  InRenewable(x)' <=> ((InRenewable(x) /\ x # e) \/ x = f)
    OBVIOUS
  <2>2. /\ x.session \in Sessions
        /\ x = Entry(x.session, x.token, x.context)
    BY EntryFields
  <2>3. CASE x.session = s
    <3>1. InRenewable(x)' <=> x = f
      BY <1>2, <1>3, <1>5, <2>2, <2>3 DEF InRenewable
    <3>2. InRenewable(x) => x = e
      BY <1>2, <1>3, <2>2, <2>3 DEF InRenewable
    <3>3. QED
      BY <3>1, <3>2
  <2>4. CASE x.session # s
    BY <1>2, <1>4, <1>5, <2>2, <2>4 DEF InRenewable
  <2>5. QED
    BY <2>3, <2>4
<1>9. \A x \in Entries : InUsable(x)' <=> ((InUsable(x) /\ x # e) \/ x = f)
  <2>1. SUFFICES ASSUME NEW x \in Entries
                 PROVE  InUsable(x)' <=> ((InUsable(x) /\ x # e) \/ x = f)
    OBVIOUS
  <2>2. /\ x.session \in Sessions /\ x.token \in Tokens
        /\ x = Entry(x.session, x.token, x.context)
    BY EntryFields
  <2>3. CASE x.session = s
    <3>1. access[x.token] = s => x.token = t
      BY <1>2, <2>2, NoneAssumption DEF SInv, OneTokenEach
    <3>2. InUsable(x)' <=> x = f
      BY <1>2, <1>3, <1>5, <2>2, <2>3, <3>1 DEF InUsable
    <3>3. InUsable(x) => x = e
      BY <1>2, <1>3, <2>2, <2>3, <3>1 DEF InUsable
    <3>4. QED
      BY <3>2, <3>3
  <2>4. CASE x.session # s
    BY <1>2, <1>4, <1>5, <2>2, <2>4 DEF InUsable
  <2>5. QED
    BY <2>3, <2>4
<1>10. /\ e \in Stored /\ e \in Renewable /\ e \in Usable
       /\ Stored' = (Stored \ {e}) \cup {f}
       /\ Renewable' = (Renewable \ {e}) \cup {f}
       /\ Usable' = (Usable \ {e}) \cup {f}
  BY <1>5, <1>6, <1>7, <1>8, <1>9, View
<1>11. Status' = Status
  BY <1>2, SameStatus
<1>12. Dead' = Dead
  <2>1. rows[t] # None
    BY <1>2 DEF SInv, RowsKept
  <2>2. [session |-> s, context |-> c] \in Rows
    BY DEF Rows
  <2>3. \A u \in Tokens : rows'[u] = None <=> rows[u] = None
    BY <1>2, <2>1, <2>2, NoneIsNoRecord DEF SInv, TypeOK
  <2>4. QED
    BY <1>2, <2>3 DEF Dead
<1>13. f = Registry!Entry(e.session, e.token, c)
  BY <1>5 DEF Entry, Registry!Entry
<1>14. Registry!SetContext(e, c)
  BY <1>10, <1>11, <1>12, <1>13 DEF Registry!SetContext, Registry!Swap
<1>15. QED
  BY <1>10, <1>14

\* The old token goes and the new one comes in one step.
LEMMA ReplacedIsRenew ==
    ASSUME SInv, SInv', call # None, Replaced, call' = None, up' = up
    PROVE  \E e \in Renewable, t \in Tokens : Registry!Renew(e, t)
<1>1. PICK s \in Sessions, t \in Tokens, u \in Tokens, c \in Contexts :
          /\ s = call.session /\ t = call.token /\ u = object[s].token /\ c = object[s].context
  <2>1. call.session \in master /\ call.token \in Tokens
    BY DEF Replaced, SInv, RenewPending, TypeOK, Calls
  <2>2. object[call.session] \in Objects
    BY <2>1 DEF SInv, TypeOK
  <2>3. QED
    BY <2>1, <2>2 DEF Objects, SInv, TypeOK
<1>2. /\ s \in master /\ call.op = "renew" /\ u # t
      /\ access[t] = None /\ rows[t] = None /\ issued[t] # "no"
      /\ \A r \in Sessions : object[r] # None => object[r].token # t
      /\ rows' = [rows EXCEPT ![u] = None, ![t] = [session |-> s, context |-> c]]
      /\ access' = [access EXCEPT ![u] = None, ![t] = s]
      /\ object' = [object EXCEPT ![s].token = t]
      /\ UNCHANGED <<master, issued, told>>
  BY <1>1 DEF Replaced, SInv, RenewPending, TypeOK
<1>3. Shown(s) = c
  BY <1>1, <1>2 DEF Shown
<1>4. /\ object'[s].token = t /\ object'[s].context = c
      /\ \A r \in Sessions : r # s => object'[r] = object[r]
  BY <1>1, <1>2 DEF SInv, TypeOK, Objects
<1>5. Shown(s)' = c /\ \A r \in Sessions : r # s => Shown(r)' = Shown(r)
  BY <1>2, <1>4 DEF Shown
<1> DEFINE e == Entry(s, u, c)
           f == Entry(s, t, c)
<1>6. /\ e \in Entries /\ e.session = s /\ e.token = u /\ e.context = c
      /\ f \in Entries /\ f.session = s /\ f.token = t /\ f.context = c
  BY EntryFields
<1>7. InRenewable(e) /\ InStored(e)
  <2>1. InRenewable(e)
    BY <1>1, <1>2, <1>3, <1>6 DEF InRenewable
  <2>2. QED
    BY <2>1, <1>6, Nested
<1>8. \A x \in Entries : InStored(x)' <=> ((InStored(x) /\ x # e) \/ x = f)
  <2>1. SUFFICES ASSUME NEW x \in Entries
                 PROVE  InStored(x)' <=> ((InStored(x) /\ x # e) \/ x = f)
    OBVIOUS
  <2>2. /\ x.session \in Sessions /\ x.token \in Tokens /\ x.context \in Contexts
        /\ x = Entry(x.session, x.token, x.context)
    BY EntryFields
  <2>3. [session |-> x.session, context |-> x.context] # None
    BY <2>2, NoneIsNoRecord DEF Rows
  <2>4. CASE x.token = t
    <3>1. rows'[t] = [session |-> s, context |-> c]
      BY <1>2 DEF SInv, TypeOK
    <3>2. ~InStored(x)
      BY <1>2, <2>3, <2>4 DEF InStored
    <3>3. InStored(x)' <=> x.session = s /\ x.context = c
      BY <2>4, <3>1 DEF InStored
    <3>4. QED
      BY <1>6, <2>2, <2>4, <3>2, <3>3
  <2>5. CASE x.token = u
    <3>1. rows'[u] = None
      BY <1>2 DEF SInv, TypeOK
    <3>2. ~InStored(x)'
      BY <2>3, <2>5, <3>1 DEF InStored
    <3>3. rows[u] = [session |-> s, context |-> c]
      BY <1>6, <1>7 DEF InStored
    <3>4. InStored(x) => x = e
      BY <2>2, <2>5, <3>3 DEF InStored
    <3>5. QED
      BY <1>2, <1>6, <2>5, <3>2, <3>4
  <2>6. CASE x.token # t /\ x.token # u
    <3>1. rows'[x.token] = rows[x.token]
      BY <1>2, <2>2, <2>6 DEF SInv, TypeOK
    <3>2. QED
      BY <1>6, <2>6, <3>1 DEF InStored
  <2>7. QED
    BY <2>4, <2>5, <2>6
<1>9. \A x \in Entries : InRenewable(x)' <=> ((InRenewable(x) /\ x # e) \/ x = f)
  <2>1. SUFFICES ASSUME NEW x \in Entries
                 PROVE  InRenewable(x)' <=> ((InRenewable(x) /\ x # e) \/ x = f)
    OBVIOUS
  <2>2. /\ x.session \in Sessions
        /\ x = Entry(x.session, x.token, x.context)
    BY EntryFields
  <2>3. CASE x.session = s
    <3>1. InRenewable(x)' <=> x = f
      BY <1>2, <1>4, <1>5, <1>6, <2>2, <2>3 DEF InRenewable
    <3>2. InRenewable(x) => x = e
      BY <1>1, <1>2, <1>3, <2>2, <2>3 DEF InRenewable
    <3>3. QED
      BY <3>1, <3>2
  <2>4. CASE x.session # s
    BY <1>2, <1>4, <1>5, <1>6, <2>2, <2>4 DEF InRenewable
  <2>5. QED
    BY <2>3, <2>4
<1>10. \A x \in Entries : InUsable(x)' <=> ((InUsable(x) /\ x # e) \/ x = f)
  <2>1. SUFFICES ASSUME NEW x \in Entries
                 PROVE  InUsable(x)' <=> ((InUsable(x) /\ x # e) \/ x = f)
    OBVIOUS
  <2>2. /\ x.session \in Sessions /\ x.token \in Tokens
        /\ x = Entry(x.session, x.token, x.context)
    BY EntryFields
  <2>3. CASE x.token = t
    <3>1. access'[t] = s
      BY <1>2 DEF SInv, TypeOK
    <3>2. ~InUsable(x)
      BY <1>2, <2>2, <2>3, NoneAssumption DEF InUsable
    <3>3. InUsable(x)' <=> x = f
      BY <1>5, <1>6, <2>2, <2>3, <3>1 DEF InUsable
    <3>4. QED
      BY <3>2, <3>3
  <2>4. CASE x.token = u
    <3>1. access'[u] = None
      BY <1>2 DEF SInv, TypeOK
    <3>2. ~InUsable(x)'
      BY <2>2, <2>4, <3>1, NoneAssumption DEF InUsable
    <3>3. InUsable(x) => InStored(x)
      BY Nested
    <3>4. rows[u] = [session |-> s, context |-> c]
      BY <1>6, <1>7 DEF InStored
    <3>5. InUsable(x) => x = e
      BY <2>2, <2>4, <3>3, <3>4 DEF InStored
    <3>6. QED
      BY <1>2, <1>6, <2>4, <3>2, <3>5
  <2>5. CASE x.token # t /\ x.token # u
    <3>1. access'[x.token] = access[x.token]
      BY <1>2, <2>2, <2>5 DEF SInv, TypeOK
    <3>2. InUsable(x) => x.session # s
      BY <1>1, <2>2, <2>5, NoneAssumption DEF InUsable, SInv, OneTokenEach
    <3>3. access[x.token] = x.session => x.session # s
      BY <1>1, <2>2, <2>5, NoneAssumption DEF SInv, OneTokenEach
    <3>4. QED
      BY <1>5, <1>6, <2>2, <2>5, <3>1, <3>2, <3>3 DEF InUsable
  <2>6. QED
    BY <2>3, <2>4, <2>5
<1>11. /\ e \in Stored /\ e \in Renewable
       /\ Stored' = (Stored \ {e}) \cup {f}
       /\ Renewable' = (Renewable \ {e}) \cup {f}
       /\ Usable' = (Usable \ {e}) \cup {f}
  BY <1>6, <1>7, <1>8, <1>9, <1>10, View
<1>12. Status' = Status
  BY <1>2, SameStatus
<1>13. Dead' = Dead \cup {u}
  <2>1. issued[u] # "no"
    <3>1. rows[u] # None
      BY <1>1, <1>2 DEF SInv, RowsKept
    <3>2. QED
      BY <3>1 DEF SInv, FreshTokens
  <2>2. [session |-> s, context |-> c] # None
    BY NoneIsNoRecord DEF Rows
  <2>3. \A v \in Tokens : rows'[v] = None <=> (v # t /\ (rows[v] = None \/ v = u))
    BY <1>2, <2>2 DEF SInv, TypeOK
  <2>4. QED
    BY <1>1, <1>2, <2>1, <2>3 DEF Dead
<1>14. Registry!Fresh(t)
  <2>1. t \notin Dead
    BY <1>1, <1>2 DEF Dead
  <2>2. QED
    BY <1>2, <2>1, FreshToken
<1>15. f = Registry!Entry(e.session, t, e.context)
  BY <1>6 DEF Entry, Registry!Entry
<1>16. Registry!Renew(e, t)
  BY <1>6, <1>11, <1>12, <1>13, <1>14, <1>15 DEF Registry!Renew, Registry!Swap
<1>17. QED
  BY <1>11, <1>16

\* The end of a call that waited for neither a context nor a new token.
LEMMA AnswerStutters ==
    ASSUME SInv, SInv', call # None, call.op \notin {"set", "renew"}, call' = None,
           UNCHANGED <<up, access, master, object, rows, issued>>, Status' = Status
    PROVE  UNCHANGED Registry!vars
<1>1. Stored' = Stored /\ Dead' = Dead
  BY SameStored, SameDead
<1>2. \A r \in master : Shown(r)' = Shown(r)
  BY DEF Shown
<1>3. Renewable' = Renewable /\ Usable' = Usable
  BY <1>2, SameMemory
<1>4. QED
  BY <1>1, <1>3 DEF Registry!vars

\* The second half of a logout deletes the entry, if it is still there.
LEMMA DeletedIsDelete ==
    ASSUME SInv, SInv', call # None, Deleted, call' = None, up' = up
    PROVE  (\E e \in Stored, b \in BOOLEAN : Registry!Delete(e, b)) \/ UNCHANGED Registry!vars
<1>1. PICK t \in Tokens, s \in Sessions \cup {None} : t = call.token /\ s = call.session
  BY DEF SInv, TypeOK, Calls
<1>2. /\ call.op \in {"logout", "delete"}
      /\ rows' = [rows EXCEPT ![t] = None]
      /\ told' = [r \in Sessions |-> IF r = s THEN "closed" ELSE told[r]]
      /\ UNCHANGED <<access, master, object, issued>>
  BY <1>1 DEF Deleted, Tell, memVars
<1>3. /\ issued[t] # "no"
      /\ \A r \in master : object[r].token # t
      /\ s # None => rows[t] # None /\ rows[t].session = s
  BY <1>1, <1>2 DEF SInv, ClosePending
<1>4. CASE rows[t] = None
  <2>1. s = None /\ rows' = rows /\ told' = told
    BY <1>2, <1>3, <1>4, NoneAssumption DEF SInv, TypeOK
  <2>2. Status' = Status
    BY <2>1, SameStatus
  <2>3. QED
    BY <1>2, <2>1, <2>2, AnswerStutters
<1>5. CASE rows[t] # None
  <2>1. PICK q \in Sessions, c \in Contexts : rows[t] = [session |-> q, context |-> c]
    BY <1>5 DEF SInv, TypeOK, Rows
  <2> DEFINE e == Entry(q, t, c)
  <2>2. e \in Entries /\ e.session = q /\ e.token = t /\ e.context = c
    BY EntryFields
  <2>3. InStored(e) /\ ~InRenewable(e)
    BY <1>3, <2>1, <2>2 DEF InStored, InRenewable
  <2>4. \A x \in Entries : InStored(x)' <=> (InStored(x) /\ x # e)
    <3>1. SUFFICES ASSUME NEW x \in Entries
                   PROVE  InStored(x)' <=> (InStored(x) /\ x # e)
      OBVIOUS
    <3>2. /\ x.session \in Sessions /\ x.token \in Tokens /\ x.context \in Contexts
          /\ x = Entry(x.session, x.token, x.context)
      BY EntryFields
    <3>3. CASE x.token = t
      <4>1. rows'[t] = None
        BY <1>2 DEF SInv, TypeOK
      <4>2. ~InStored(x)'
        BY <3>2, <3>3, <4>1, NoneIsNoRecord DEF InStored, Rows
      <4>3. InStored(x) => x = e
        BY <2>1, <3>2, <3>3 DEF InStored
      <4>4. QED
        BY <4>2, <4>3
    <3>4. CASE x.token # t
      <4>1. rows'[x.token] = rows[x.token]
        BY <1>2, <3>2, <3>4 DEF SInv, TypeOK
      <4>2. QED
        BY <2>2, <3>4, <4>1 DEF InStored
    <3>5. QED
      BY <3>3, <3>4
  <2>5. e \in Stored \ Renewable /\ Stored' = Stored \ {e}
    BY <2>2, <2>3, <2>4, View
  <2>6. \A r \in master : Shown(r)' = Shown(r)
    BY <1>2 DEF Shown
  <2>7. Renewable' = Renewable /\ Usable' = Usable
    BY <1>2, <2>6, SameMemory
  <2>8. Dead' = Dead \cup {t}
    <3>1. \A v \in Tokens : rows'[v] = None <=> (rows[v] = None \/ v = t)
      BY <1>2 DEF SInv, TypeOK
    <3>2. QED
      BY <1>2, <1>3, <3>1 DEF Dead
  <2>9. CASE s = None
    <3>1. told' = told
      BY <1>2, <2>9, NoneAssumption DEF SInv, TypeOK
    <3>2. Status' = Status
      BY <3>1, SameStatus
    <3>3. Registry!Delete(e, FALSE)
      BY <2>2, <2>5, <2>7, <2>8, <3>2 DEF Registry!Delete
    <3>4. QED
      BY <2>5, <3>3
  <2>10. CASE s # None
    <3>1. q = s /\ s \in Sessions
      BY <1>3, <2>1, <2>10
    <3>2. Status' = [Status EXCEPT ![q] = "over"]
      BY <1>2, <3>1 DEF Status
    <3>3. Registry!Delete(e, TRUE)
      BY <2>2, <2>5, <2>7, <2>8, <3>2 DEF Registry!Delete
    <3>4. QED
      BY <2>5, <3>3
  <2>11. QED
    BY <2>9, <2>10
<1>6. QED
  BY <1>4, <1>5

\* A failed write shows nothing; the token of a failed renewal is wasted.
LEMMA WriteFailedIsWaste ==
    ASSUME SInv, SInv', WriteFailed
    PROVE  (\E t \in Tokens : Registry!Waste(t)) \/ UNCHANGED Registry!vars
<1>1. /\ call # None /\ call' = None
      /\ UNCHANGED <<up, access, master, rows, issued>>
  BY DEF WriteFailed
<1>2. Stored' = Stored
  BY <1>1, SameStored
<1>3. CASE Rollback
  <2>1. PICK s \in Sessions : s = call.session /\ s \in master
    BY <1>1, <1>3 DEF Rollback, SInv, SetPending, TypeOK
  <2>2. /\ call.op = "set" /\ told' = told
        /\ object' = [object EXCEPT ![s].context = call.before]
        /\ object[s] \in Objects
    BY <1>3, <2>1 DEF Rollback, SInv, TypeOK
  <2>3. \A r \in master : object'[r].token = object[r].token
    BY <2>2 DEF SInv, TypeOK, Objects
  <2>4. \A r \in master : Shown(r)' = Shown(r)
    <3>1. object'[s].context = call.before
      BY <2>2 DEF SInv, TypeOK, Objects
    <3>2. \A r \in master : r # s => object'[r] = object[r]
      BY <2>2 DEF SInv, TypeOK
    <3>3. QED
      BY <1>1, <2>1, <2>2, <3>1, <3>2 DEF Shown
  <2>5. Renewable' = Renewable /\ Usable' = Usable
    BY <1>1, <2>3, <2>4, SameMemory
  <2>6. Status' = Status /\ Dead' = Dead
    BY <1>1, <2>2, SameStatus, SameDead
  <2>7. QED
    BY <1>1, <1>2, <2>5, <2>6 DEF Registry!vars
<1>4. CASE ReportedClosed
  <2>1. /\ call.op = "delete" /\ object' = object
        /\ told' = [r \in Sessions |-> IF r = call.session THEN "reportedClosed" ELSE told[r]]
    BY <1>4 DEF ReportedClosed, Tell
  <2>2. call.session \in Sessions => told[call.session] \notin {"nothing", "closed"}
    BY <1>1, <2>1, NoneAssumption DEF SInv, ClosePending
  <2>3. Status' = Status
    BY <2>1, <2>2 DEF Status
  <2>4. QED
    BY <1>1, <2>1, <2>3, AnswerStutters
<1>5. CASE call.op \in {"logout", "touch"} /\ UNCHANGED <<object, told>>
  <2>1. Status' = Status
    BY <1>5, SameStatus
  <2>2. QED
    BY <1>1, <1>5, <2>1, AnswerStutters
<1>6. CASE call.op = "renew" /\ UNCHANGED <<object, told>>
  <2>1. PICK t \in Tokens : t = call.token
    BY <1>1 DEF SInv, TypeOK, Calls
  <2>2. rows[t] = None /\ issued[t] # "no"
    BY <1>1, <1>6, <2>1 DEF SInv, RenewPending
  <2>3. t \notin Dead
    BY <1>1, <1>6, <2>1 DEF Dead
  <2>4. Dead' = Dead \cup {t}
    BY <1>1, <1>6, <2>1, <2>2 DEF Dead
  <2>5. \A r \in master : Shown(r)' = Shown(r)
    BY <1>1, <1>6 DEF Shown
  <2>6. Renewable' = Renewable /\ Usable' = Usable
    BY <1>1, <1>6, <2>5, SameMemory
  <2>7. Status' = Status
    BY <1>6, SameStatus
  <2>8. Registry!Fresh(t)
    BY <2>2, <2>3, FreshToken
  <2>9. Registry!Waste(t)
    BY <1>1, <1>2, <2>4, <2>6, <2>7, <2>8 DEF Registry!Waste
  <2>10. QED
    BY <2>9
<1>7. QED
  BY <1>3, <1>4, <1>5, <1>6 DEF WriteFailed

\* Nothing is in service when the server is down.
LEMMA CrashIsStop ==
    ASSUME SInv, SInv', Crash
    PROVE  Registry!Stop
<1>1. /\ up /\ up' = FALSE /\ master' = {} /\ call' = None
      /\ access' = [t \in Tokens |-> None]
      /\ UNCHANGED <<rows, issued, told>>
  BY DEF Crash, historyVars
<1>2. Status' = Status /\ Stored' = Stored
  BY <1>1, SameStatus, SameStored
<1>3. Renewable' = {} /\ Usable' = {}
  BY <1>1 DEF Renewable, Usable
<1>4. CASE call # None /\ call.op = "renew"
  <2>1. PICK t \in Tokens : t = call.token
    BY <1>4 DEF SInv, TypeOK, Calls
  <2>2. rows[t] = None /\ issued[t] # "no"
    BY <1>4, <2>1 DEF SInv, RenewPending
  <2>3. t \notin Dead /\ Dead' = Dead \cup {t}
    BY <1>1, <1>4, <2>1, <2>2 DEF Dead
  <2>4. Registry!Fresh(t)
    BY <2>2, <2>3, FreshToken
  <2>5. QED
    BY <1>1, <1>2, <1>3, <2>3, <2>4 DEF Registry!Stop
<1>5. CASE ~(call # None /\ call.op = "renew")
  <2>1. Dead' = Dead
    BY <1>1, <1>5 DEF Dead
  <2>2. QED
    BY <1>1, <1>2, <1>3, <2>1 DEF Registry!Stop
<1>6. QED
  BY <1>4, <1>5

\* A restart finds entries as they were stored.
LEMMA RestartIsRestart ==
    ASSUME SInv, SInv', NewPersistentManager
    PROVE  \E E \in SUBSET Stored : Registry!Restart(E)
<1>1. /\ ~up /\ up' = TRUE /\ call = None /\ call' = None
      /\ access' = [t \in Tokens |-> IF t \in Loaded THEN rows[t].session ELSE None]
      /\ master' = {rows[t].session : t \in Loaded}
      /\ UNCHANGED <<rows, issued, told>>
  BY DEF NewPersistentManager, historyVars, SInv, TypeOK
<1>2. \A s \in Sessions :
          (\E t \in Loaded : rows[t].session = s) =>
              \E t \in Loaded : /\ rows[t].session = s
                                /\ object'[s] = [token |-> t, context |-> rows[t].context]
  BY DEF NewPersistentManager
<1>3. Status' = Status /\ Stored' = Stored /\ Dead' = Dead
  BY <1>1, SameStatus, SameStored, SameDead
<1> DEFINE E == {e \in Entries : InStored(e) /\ e.token \notin stale}
<1>4. E \in SUBSET Stored
  BY View
<1>5. ASSUME NEW x \in Entries
      PROVE  /\ InRenewable(x)' <=> InStored(x) /\ x.token \notin stale
             /\ InUsable(x)' <=> InStored(x) /\ x.token \notin stale
  <2>1. /\ x.session \in Sessions /\ x.token \in Tokens /\ x.context \in Contexts
        /\ [session |-> x.session, context |-> x.context] # None
    BY EntryFields, NoneIsNoRecord DEF Rows
  <2>2. Shown(x.session)' = object'[x.session].context
    BY <1>1 DEF Shown
  <2>3. ASSUME InStored(x), x.token \notin stale
        PROVE  InUsable(x)'
    <3>1. x.token \in Loaded /\ rows[x.token].session = x.session
          /\ rows[x.token].context = x.context
      BY <2>1, <2>3 DEF InStored, Loaded
    <3>2. PICK t \in Loaded : /\ rows[t].session = x.session
                              /\ object'[x.session] = [token |-> t, context |-> rows[t].context]
      BY <1>2, <2>1, <3>1
    <3>3. t = x.token
      BY <3>1, <3>2 DEF Loaded, SInv, OneTokenEach
    <3>4. QED
      BY <1>1, <2>1, <2>2, <3>1, <3>2, <3>3 DEF InUsable
  <2>4. InUsable(x)' => InRenewable(x)'
    BY <2>1, NoneAssumption DEF InUsable, InRenewable, SInv, TypeOK, OneTokenEach
  <2>5. ASSUME InRenewable(x)'
        PROVE  InStored(x) /\ x.token \notin stale
    <3>1. PICK t \in Loaded : /\ rows[t].session = x.session
                              /\ object'[x.session] = [token |-> t, context |-> rows[t].context]
      BY <1>1, <1>2, <2>1, <2>5 DEF InRenewable
    <3>2. object'[x.session].token = t /\ object'[x.session].context = rows[t].context
      BY <3>1
    <3>3. object'[x.session].token = x.token /\ Shown(x.session)' = x.context
      BY <2>5 DEF InRenewable
    <3>4. x.token = t /\ x.context = rows[t].context
      BY <2>2, <3>2, <3>3
    <3>5. rows[t] \in Rows /\ t \notin stale
      BY <3>1 DEF Loaded, SInv, TypeOK
    <3>6. rows[t] = [session |-> x.session, context |-> x.context]
      BY <3>1, <3>4, <3>5 DEF Rows
    <3>7. QED
      BY <3>4, <3>5, <3>6 DEF InStored
  <2>6. QED
    BY <2>3, <2>4, <2>5
<1>6. Renewable' = E /\ Usable' = E
  BY <1>5, View
<1>7. Registry!Restart(E)
  BY <1>1, <1>3, <1>6 DEF Registry!Restart
<1>8. QED
  BY <1>4, <1>7

LEMMA InitIsRegistryInit ==
    ASSUME Init
    PROVE  Registry!Init
<1> USE DEF Init
<1>1. up = TRUE /\ Status = [s \in Sessions |-> "new"]
  BY DEF Status
<1>2. Stored = {} /\ Renewable = {} /\ Usable = {} /\ Dead = {}
  BY DEF Stored, Renewable, Usable, Dead
<1>3. QED
  BY <1>1, <1>2 DEF Registry!Init

\* Every step is a step of the registry or shows nothing.
LEMMA NextIsRegistryNext ==
    ASSUME SInv, SInv', [Next]_vars
    PROVE  Registry!Next \/ UNCHANGED Registry!vars
<1> DEFINE Goal == Registry!Next \/ UNCHANGED Registry!vars
<1>1. ASSUME NEW s \in Sessions, NEW t \in Tokens, NEW c \in Contexts,
             CreateAuthenticatedSession(s, t, c)
      PROVE  Goal
  BY <1>1, CreateIsLogin DEF Registry!Next
<1>2. ASSUME NEW t \in Tokens, NEW c \in Contexts, SetContext(t, c)
      PROVE  Goal
  BY <1>2, SetContextStutters
<1>3. ASSUME NEW t \in Tokens, Evict(t)
      PROVE  Goal
  <2>1. \E e \in Usable : Registry!Lapse(e)
    BY <1>3, EvictIsLapse DEF Evict, historyVars
  <2>2. QED
    BY <2>1 DEF Registry!Next
<1>4. ASSUME NEW t \in Tokens, UpdateLastAccessed(t)
      PROVE  Goal
  <2>1. /\ call = None /\ call'.op = "touch"
        /\ UNCHANGED <<up, access, master, object, rows, issued, told>>
    BY <1>4 DEF UpdateLastAccessed, Free, Await, memVars, historyVars
  <2>2. Status' = Status /\ Stored' = Stored /\ Dead' = Dead
    BY <2>1, SameStatus, SameStored, SameDead
  <2>3. \A r \in master : Shown(r)' = Shown(r) /\ object'[r].token = object[r].token
    BY <2>1 DEF Shown
  <2>4. Renewable' = Renewable /\ Usable' = Usable
    BY <2>1, <2>3, SameMemory
  <2>5. QED
    BY <2>1, <2>2, <2>4 DEF Registry!vars
<1>5. ASSUME NEW t \in Tokens, NEW op \in {"logout", "delete"}, CloseSession(t, op)
      PROVE  Goal
  BY <1>5, CloseIsRetire DEF Registry!Next
<1>6. ASSUME NEW s \in Sessions, NEW t \in Tokens, RenewToken(s, t)
      PROVE  Goal
  <2>1. Free /\ s \in master
    BY <1>6 DEF RenewToken
  <2>2. CASE ExpireSession(s)
    BY <2>1, <2>2, ExpireIsRetire DEF Registry!Next
  <2>3. CASE ~ExpireSession(s)
    BY <1>6, <2>1, <2>3, RenewStutters DEF RenewToken
  <2>4. QED
    BY <2>2, <2>3
<1>7. ASSUME Written
      PROVE  Goal
  <2>1. call # None /\ call' = None /\ up' = up
    BY <1>7 DEF Written
  <2>2. CASE Saved
    <3>1. \E e \in Usable, c \in Contexts : Registry!SetContext(e, c)
      BY <2>1, <2>2, SavedIsSetContext
    <3>2. QED
      BY <3>1 DEF Registry!Next
  <2>3. CASE Replaced
    <3>1. \E e \in Renewable, t \in Tokens : Registry!Renew(e, t)
      BY <2>1, <2>3, ReplacedIsRenew
    <3>2. QED
      BY <3>1 DEF Registry!Next
  <2>4. CASE Deleted
    BY <2>1, <2>4, DeletedIsDelete DEF Registry!Next
  <2>5. CASE Touched
    <3>1. UNCHANGED <<access, master, object, rows, issued, told>> /\ call.op = "touch"
      BY <2>5 DEF Touched, memVars, historyVars
    <3>2. Status' = Status
      BY <3>1, SameStatus
    <3>3. QED
      BY <2>1, <3>1, <3>2, AnswerStutters
  <2>6. QED
    BY <1>7, <2>2, <2>3, <2>4, <2>5 DEF Written
<1>8. ASSUME WriteFailed
      PROVE  Goal
  BY <1>8, WriteFailedIsWaste DEF Registry!Next
<1>9. ASSUME StartQuery \/ EndQuery
      PROVE  Goal
  BY <1>9, RegistryStutters DEF StartQuery, EndQuery, memVars, historyVars
<1>10. ASSUME NEW t \in Tokens, RequestCancel(t) \/ ExpireAccess(t)
       PROVE  Goal
  BY <1>10, RegistryStutters DEF RequestCancel, ExpireAccess, memVars, historyVars
<1>11. ASSUME Cancel
       PROVE  Goal
  <2>1. PICK t \in Tokens : t = cancelReq
    BY <1>11 DEF Cancel, SInv, TypeOK
  <2>2. UNCHANGED <<up, told, rows, issued, master, object, call>>
    BY <1>11 DEF Cancel, historyVars
  <2>3. CASE Valid(t) \/ access[t] = None
    <3>1. access' = access
      BY <1>11, <2>1, <2>3 DEF Cancel, SInv, TypeOK
    <3>2. QED
      BY <2>2, <3>1, RegistryStutters
  <2>4. CASE ~Valid(t) /\ access[t] # None
    <3>1. access' = [access EXCEPT ![t] = None]
      BY <1>11, <2>1, <2>4 DEF Cancel
    <3>2. \E e \in Usable : Registry!Lapse(e)
      BY <2>2, <2>4, <3>1, EvictIsLapse
    <3>3. QED
      BY <3>2 DEF Registry!Next
  <2>5. QED
    BY <2>3, <2>4
<1>12. ASSUME NEW s \in Sessions, ExpireMaster(s)
       PROVE  Goal
  BY <1>12, RegistryStutters DEF ExpireMaster, memVars, historyVars
<1>13. ASSUME Crash
       PROVE  Goal
  BY <1>13, CrashIsStop DEF Registry!Next
<1>14. ASSUME NewPersistentManager
       PROVE  Goal
  BY <1>14, RestartIsRestart DEF Registry!Next
<1>15. ASSUME UNCHANGED vars
       PROVE  Goal
  BY <1>15, RegistryStutters DEF vars, memVars, historyVars
<1>16. QED
  BY <1>1, <1>2, <1>3, <1>4, <1>5, <1>6, <1>7, <1>8, <1>9, <1>10, <1>11, <1>12, <1>13, <1>14,
     <1>15 DEF Next

\* Session implements SessionRegistry, whatever write is answered or fails and
\* whenever the server restarts (manager.go:143-350, store.go).
THEOREM SessionImplementsRegistry == Spec => ImplementsRegistry
<1>1. SInv /\ SInv' /\ [Next]_vars => [Registry!Next]_(Registry!vars)
  BY NextIsRegistryNext
<1>2. QED
  BY InitIsRegistryInit, <1>1, SessionInvariant, PTL
     DEF Spec, ImplementsRegistry, Registry!Spec
=============================================================================
