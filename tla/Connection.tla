----------------------------- MODULE Connection -----------------------------
(***************************************************************************)
(* The connection manager: who holds a database connection and who may     *)
(* write.  Source: pkg/connection/manager.go; the size of the pool is set  *)
(* in cmd/server/main.go.                                                  *)
(*                                                                         *)
(* There are two resources, the connections of the database/sql pool and   *)
(* the mutex writeMu, and they are taken in both orders: a write locks and *)
(* then takes a connection, a pinned section (a CALL) has its connection   *)
(* and locks for each of its writes.                                       *)
(***************************************************************************)
EXTENDS Integers, FiniteSets

CONSTANTS
    Clients,      \* goroutines that use the manager, one call at a time
    Background,   \* those whose calls run under context.Background()
    MaxOpenConns, \* the size of the pool
    None

ASSUME PoolAssumption == MaxOpenConns \in Nat \ {0}
ASSUME BackgroundAssumption == Background \subseteq Clients
ASSUME ClientsAssumption == IsFiniteSet(Clients) /\ None \notin Clients

VARIABLES
    pc,           \* where each client is in its call
    pinned,       \* it is inside the callback of WithConnection
    held,         \* connections it has checked out of the pool
    writeMu       \* who holds the mutex

vars == <<pc, pinned, held, writeMu>>

\* "idle" is between calls, or between two calls of a pinned callback.
PCs == {"idle", "waitPin", "waitRead", "reading", "lock", "waitConn", "writing"}

InUse == {c \in Clients : held[c] > 0}

\* database/sql hands out a connection; the bound is on open connections.
checkout(c) ==
    /\ Cardinality(InUse) < MaxOpenConns
    /\ held' = [held EXCEPT ![c] = @ + 1]

\* A call on the pool returns its connection, one on a pinned connection
\* keeps it.
giveBack(c) == held' = [held EXCEPT ![c] = IF pinned[c] THEN @ ELSE @ - 1]

Goto(c, to) == pc' = [pc EXCEPT ![c] = to]
-----------------------------------------------------------------------------
\* Fault: a nested WithConnection checks out a second connection.
WithConnectionAgain(c) ==
    /\ pc[c] = "idle"
    /\ Goto(c, "waitPin")
    /\ UNCHANGED <<pinned, held, writeMu>>

\* On a pinned manager the callback runs at once, which changes nothing here.
WithConnection(c) ==
    /\ pc[c] = "idle" /\ ~pinned[c]
    /\ Goto(c, "waitPin")
    /\ UNCHANGED <<pinned, held, writeMu>>

Pin(c) ==
    /\ pc[c] = "waitPin"
    /\ checkout(c)
    /\ pinned' = [pinned EXCEPT ![c] = TRUE]
    /\ Goto(c, "idle")
    /\ UNCHANGED writeMu

\* The callback returns and the connection goes back.
Unpin(c) ==
    /\ pc[c] = "idle" /\ pinned[c]
    /\ pinned' = [pinned EXCEPT ![c] = FALSE]
    /\ held' = [held EXCEPT ![c] = @ - 1]
    /\ UNCHANGED <<pc, writeMu>>

\* Query and QueryRow: no lock, and the rows keep the connection until closed.
Query(c) ==
    /\ pc[c] = "idle"
    /\ Goto(c, IF pinned[c] THEN "reading" ELSE "waitRead")
    /\ UNCHANGED <<pinned, held, writeMu>>

Read(c) ==
    /\ pc[c] = "waitRead"
    /\ checkout(c)
    /\ Goto(c, "reading")
    /\ UNCHANGED <<pinned, writeMu>>

CloseRows(c) ==
    /\ pc[c] = "reading"
    /\ giveBack(c)
    /\ Goto(c, "idle")
    /\ UNCHANGED <<pinned, writeMu>>

\* Exec, and ExecTx with all the statements of its transaction.
Exec(c) ==
    /\ pc[c] = "idle"
    /\ Goto(c, "lock")
    /\ UNCHANGED <<pinned, held, writeMu>>

\* Fault: a pinned manager has a mutex of its own.
LockUnlessPinned(c) ==
    /\ pc[c] = "lock"
    /\ \/ pinned[c] /\ Goto(c, "writing") /\ UNCHANGED writeMu
       \/ ~pinned[c] /\ writeMu = None /\ Goto(c, "waitConn") /\ writeMu' = c
    /\ UNCHANGED <<pinned, held>>

\* writeMu.Lock: not interrupted by a canceled context.
Lock(c) ==
    /\ pc[c] = "lock"
    /\ writeMu = None
    /\ writeMu' = c
    /\ Goto(c, IF pinned[c] THEN "writing" ELSE "waitConn")
    /\ UNCHANGED <<pinned, held>>

Write(c) ==
    /\ pc[c] = "waitConn"
    /\ checkout(c)
    /\ Goto(c, "writing")
    /\ UNCHANGED <<pinned, writeMu>>

\* Fault: a failed transaction does not unlock.
FinishKeepsLock(c) ==
    /\ pc[c] = "writing"
    /\ giveBack(c)
    /\ Goto(c, "idle")
    /\ UNCHANGED <<pinned, writeMu>>

\* The statement ends, or the transaction commits or rolls back.
Finish(c) ==
    /\ pc[c] = "writing"
    /\ giveBack(c)
    /\ writeMu' = None
    /\ Goto(c, "idle")
    /\ UNCHANGED pinned

\* The context of a call that waits for a connection is canceled.
Cancel(c) ==
    /\ c \notin Background
    /\ pc[c] \in {"waitPin", "waitRead", "waitConn"}
    /\ writeMu' = IF pc[c] = "waitConn" THEN None ELSE writeMu
    /\ Goto(c, "idle")
    /\ UNCHANGED <<pinned, held>>
-----------------------------------------------------------------------------
Init ==
    /\ pc = [c \in Clients |-> "idle"]
    /\ pinned = [c \in Clients |-> FALSE]
    /\ held = [c \in Clients |-> 0]
    /\ writeMu = None

Next == \E c \in Clients :
    \/ WithConnection(c)
    \/ Pin(c)
    \/ Unpin(c)
    \/ Query(c)
    \/ Read(c)
    \/ CloseRows(c)
    \/ Exec(c)
    \/ Lock(c)
    \/ Write(c)
    \/ Finish(c)
    \/ Cancel(c)

Spec == Init /\ [][Next]_vars

\* Statements and callbacks end, rows get closed, and neither sync.Mutex nor
\* the pool passes over a waiter forever.
Fairness ==
    \A c \in Clients :
        /\ WF_vars(CloseRows(c) \/ Finish(c))
        /\ SF_vars(Unpin(c))
        /\ SF_vars(Pin(c) \/ Read(c) \/ Lock(c) \/ Write(c))

FairSpec == Spec /\ Fairness
-----------------------------------------------------------------------------
\* Every variable has its type; a client holds at most one connection, since
\* a nested WithConnection reuses the one it is pinned to (manager.go:62-71).
TypeOK ==
    /\ pc \in [Clients -> PCs]
    /\ pinned \in [Clients -> BOOLEAN]
    /\ held \in [Clients -> 0..1]
    /\ writeMu \in Clients \cup {None}

\* No connection is leaked or held twice: a client holds one while it is
\* pinned, reads or writes, through nested calls, cancellations and errors.
ConnectionAccounting ==
    \A c \in Clients :
        held[c] = IF pinned[c] \/ pc[c] \in {"reading", "writing"} THEN 1 ELSE 0

\* Writes are serialized across the pool and the pinned connections
\* (manager.go:13-16), and the mutex is held exactly during a write.
WritesSerialized ==
    \A c \in Clients : pc[c] \in {"waitConn", "writing"} <=> writeMu = c

\* Every call returns.
CallsReturn ==
    \A c \in Clients : pc[c] # "idle" ~> pc[c] = "idle"

\* The two orders of taking the resources meet: the holder of the mutex waits
\* for a connection, and every connection is pinned and waits for the mutex.
LockOrderDeadlock ==
    /\ \E w \in Clients : writeMu = w /\ pc[w] = "waitConn"
    /\ Cardinality(InUse) = MaxOpenConns
    /\ \A c \in InUse : pinned[c] /\ pc[c] = "lock"

\* A client inside a call or a pinned callback that the others do not block.
CanGoOn(c) ==
    \/ pc[c] \in {"reading", "writing"}
    \/ pc[c] = "idle" /\ pinned[c]
    \/ pc[c] = "lock" /\ writeMu = None
    \/ pc[c] \in {"waitPin", "waitRead", "waitConn"} /\ Cardinality(InUse) < MaxOpenConns

\* Whatever the size of the pool, the lock order is the only way to hang:
\* unless it strikes, whenever anybody is blocked somebody can go on.
NoOtherDeadlock ==
    (\E c \in Clients : pc[c] # "idle") =>
        LockOrderDeadlock \/ \E c \in Clients : CanGoOn(c)

\* And then nobody is left behind either: every call returns, however many
\* clients compete for the connections.
CallsReturnOrDeadlock ==
    \A c \in Clients : pc[c] # "idle" ~> (pc[c] = "idle" \/ LockOrderDeadlock)
=============================================================================
