--------------------------- MODULE DynamicTables ---------------------------
(***************************************************************************)
(* Dynamic tables, their scheduler, and the ordinary statements and        *)
(* procedures that meet them.                                              *)
(* Source: pkg/query/dynamic_table_processor.go and                        *)
(* dynamic_table_scheduler.go, pkg/metadata/repository.go, and the CREATE, *)
(* DROP and DML paths of pkg/query/executor.go.                            *)
(*                                                                         *)
(* CREATE, REFRESH and DROP DYNAMIC TABLE and a whole pass of the          *)
(* scheduler hold one mutex.  Under it they wait for a slot of the table's *)
(* warehouse.  Every call to the database waits for the only connection,   *)
(* which a CALL keeps until it ends, and every write for the write mutex   *)
(* of the connection manager first.  Ordinary statements take the write    *)
(* mutex only.                                                             *)
(*                                                                         *)
(* One unit of time is the retry interval of 30 s.                         *)
(***************************************************************************)
EXTENDS Integers

CONSTANTS
    Tables,          \* names of one schema
    Clients,
    Scheduler,
    Warehouses,      \* each with one slot, as an X-SMALL warehouse
    WarehouseOf,     \* the WAREHOUSE of each dynamic table
    Lag,             \* its TARGET_LAG
    MaxDefinition,   \* bound: definitions given by CREATE DYNAMIC TABLE
    MaxWait,         \* bound: units the pass's clock reading grows old
    ClientOps,       \* bounds: the statements clients send,
    ProcedureOps,    \* and those in the procedures they call
    None

VARIABLES
    row,        \* _metadata_dynamic_tables, or None
    type,       \* the table_type in _metadata_tables, or "none"
    physical,   \* what the DuckDB table holds: a definition's rows, or a value below
    lastDef,
    mu,         \* DynamicTableProcessor.mu
    writeMu,    \* that of the connection manager
    conn, slot,
    pc, op, at, \* the request of each process, and the table it is for
    got,        \* the row it read
    pinned,     \* it runs inside a CALL
    listed,     \* the rows the scheduler's pass has still to visit
    since       \* the age of the pass's clock reading

tableVars == <<row, type, physical, lastDef>>
lockVars == <<mu, writeMu, conn, slot>>
requestVars == <<op, at, pinned>>
passVars == <<listed, since>>
vars == <<tableVars, lockVars, pc, got, requestVars, passVars>>
-----------------------------------------------------------------------------
Procs == Clients \cup {Scheduler}
Backoff == 1
Definitions == 1 .. MaxDefinition
Absent == 0
OrdinaryRows == -1
Ages == 0 .. Lag + MaxWait
\* tried is the age of the last attempt when it failed, and -1 otherwise.
Rows == [id : Definitions, def : Definitions, last : Ages, tried : -1 .. Backoff + MaxWait]
NoRow == [id |-> 0, def |-> 0]

DynamicOps == {"create", "replace", "refresh", "drop"}
OrdinaryOps == {"table if not exists", "or replace table", "dml", "drop table"}

ASSUME DynamicTablesAssumption ==
    /\ {Lag, MaxDefinition} \subseteq Nat \ {0} /\ MaxWait \in Nat /\ Lag > Backoff
    /\ Scheduler \notin Clients /\ None \notin Procs \cup Rows
    /\ WarehouseOf \in [Tables -> Warehouses]
    /\ ClientOps \cup ProcedureOps \subseteq DynamicOps \cup OrdinaryOps

\* A call of p to the database gets the connection.
Reaches(p) == conn \in {None, p}

\* The scheduler refreshes row r of a pass whose clock reading is now units old.
Due(r, now) ==
    /\ r.last - now >= Lag
    /\ r.tried >= 0 => r.tried - now >= Backoff

Go(p, next) == pc' = [pc EXCEPT ![p] = next]

Free(p) == slot' = [w \in Warehouses |-> IF slot[w] = p THEN None ELSE slot[w]]

\* A request that fails is over; the scheduler has given its slot back before
\* it records the failure.
Failed(p) ==
    \/ p = Scheduler /\ Go(p, "record") /\ Free(p)
    \/ p # Scheduler /\ Go(p, "end") /\ UNCHANGED slot

\* The write mutex comes before the connection, except inside a CALL.  Waiting
\* for it is not interrupted.
LockWrite(p) ==
    /\ pc[p] \in {"exec", "register", "record"}
    /\ writeMu = None
    /\ writeMu' = p
    /\ UNCHANGED <<tableVars, mu, conn, slot, pc, got, requestVars, passVars>>

\* p can run its write.
Writes(p) == writeMu = p /\ Reaches(p)

\* Time passes.
Time ==
    LET older(age, max) == IF age \in 0 .. max - 1 THEN age + 1 ELSE age
    IN  /\ row' = [t \in Tables |-> IF row[t] = None THEN None
                    ELSE [row[t] EXCEPT !.last = older(@, Lag + MaxWait),
                                        !.tried = older(@, Backoff + MaxWait)]]
        /\ since' = IF pc[Scheduler] = "idle" THEN since ELSE older(since, MaxWait)
        /\ UNCHANGED <<type, physical, lastDef, lockVars, pc, got, requestVars, listed>>
-----------------------------------------------------------------------------
\* A dynamic-table statement, alone or as the body of a CALL.

Submit(c, t, o) ==
    /\ pc[c] = "idle"
    /\ op' = [op EXCEPT ![c] = o]
    /\ at' = [at EXCEPT ![c] = t]
    /\ Go(c, "lock")
    /\ UNCHANGED <<tableVars, lockVars, pinned, got, passVars>>

\* CALL is data compute: it has a slot of the session's warehouse first, and
\* the connection second.
Call(c, w, t, o) ==
    /\ pc[c] = "idle" /\ slot[w] = None
    /\ slot' = [slot EXCEPT ![w] = c]
    /\ op' = [op EXCEPT ![c] = o]
    /\ at' = [at EXCEPT ![c] = t]
    /\ Go(c, "connect")
    /\ UNCHANGED <<tableVars, mu, writeMu, conn, pinned, got, passVars>>

WithPinnedConnection(c) ==
    /\ pc[c] = "connect"
    /\ conn = None
    /\ conn' = c
    /\ pinned' = [pinned EXCEPT ![c] = TRUE]
    /\ Go(c, IF op[c] \in DynamicOps THEN "lock" ELSE "check")
    /\ UNCHANGED <<tableVars, mu, writeMu, slot, op, at, got, passVars>>

\* Mutant for Lock: CREATE does not take the mutex.
LockRefreshesOnly(p) ==
    /\ pc[p] = "lock"
    /\ \/ op[p] \in {"create", "replace"} /\ UNCHANGED mu
       \/ op[p] \notin {"create", "replace"} /\ mu = None /\ mu' = p
    /\ Go(p, IF p = Scheduler THEN "list" ELSE "get")
    /\ UNCHANGED <<tableVars, writeMu, conn, slot, got, requestVars, passVars>>

\* Inside a CALL the mutex is tried, not awaited: busy is an error.
Lock(p) ==
    /\ pc[p] = "lock"
    /\ \/ /\ mu = None
          /\ mu' = p
          /\ Go(p, IF p = Scheduler THEN "list" ELSE "get")
       \/ /\ pinned[p] /\ mu # None
          /\ Go(p, "end")
          /\ UNCHANGED mu
    /\ UNCHANGED <<tableVars, writeMu, conn, slot, got, requestVars, passVars>>

\* The lookups before the slot: the row of REFRESH and DROP, or the name that
\* CREATE may use.
Accepted(p) ==
    LET t == at[p] IN
    CASE op[p] = "create"  -> type[t] = "none" /\ lastDef < MaxDefinition
      [] op[p] = "replace" -> type[t] \in {"none", "dynamic"} /\ lastDef < MaxDefinition
      [] OTHER             -> row[t] # None

GetByName(p) ==
    /\ pc[p] = "get" /\ Reaches(p)
    /\ IF Accepted(p)
       THEN /\ got' = [got EXCEPT ![p] = IF op[p] # "refresh" THEN NoRow
                                         ELSE [id |-> row[at[p]].id, def |-> row[at[p]].def]]
            /\ Go(p, IF op[p] = "drop" THEN "exec" ELSE "acquire")
            /\ UNCHANGED slot
       ELSE Failed(p) /\ UNCHANGED got
    /\ UNCHANGED <<tableVars, mu, writeMu, conn, requestVars, passVars>>

Acquire(p) ==
    /\ pc[p] = "acquire"
    /\ slot[WarehouseOf[at[p]]] = None
    /\ slot' = [slot EXCEPT ![WarehouseOf[at[p]]] = p]
    /\ Go(p, "exec")
    /\ UNCHANGED <<tableVars, mu, writeMu, conn, got, requestVars, passVars>>

\* Three transactions on the physical table and the catalog rows.

MaterializeDynamicTable(t) ==
    LET d == lastDef + 1 IN
    /\ d <= MaxDefinition
    /\ lastDef' = d
    /\ physical' = [physical EXCEPT ![t] = d]
    /\ type' = [type EXCEPT ![t] = "dynamic"]
    /\ row' = [row EXCEPT ![t] = [id |-> IF @ = None THEN d ELSE @.id, def |-> d,
                                  last |-> 0, tried |-> -1]]

RefreshDynamicTableAt(t, r, now) ==
    /\ row[t] # None /\ row[t].id = r.id
    /\ physical' = [physical EXCEPT ![t] = r.def]
    /\ row' = [row EXCEPT ![t].last = now, ![t].tried = -1]
    /\ UNCHANGED <<type, lastDef>>

DropDynamicTableAtomic(t) ==
    /\ physical[t] # Absent
    /\ physical' = [physical EXCEPT ![t] = Absent]
    /\ row' = [row EXCEPT ![t] = None]
    /\ type' = [type EXCEPT ![t] = IF @ = "dynamic" THEN "none" ELSE @]
    /\ UNCHANGED lastDef

\* The transaction; it is rolled back when the row to refresh disappeared, or
\* when there is no table to drop.
Exec(p) ==
    LET t == at[p] IN
    /\ pc[p] = "exec" /\ op[p] \in DynamicOps /\ Writes(p)
    /\ writeMu' = None
    /\ \/ /\ \/ /\ op[p] = "refresh"
                /\ RefreshDynamicTableAt(t, got[p], IF p = Scheduler THEN since ELSE 0)
             \/ op[p] = "drop" /\ DropDynamicTableAtomic(t)
             \/ op[p] \in {"create", "replace"} /\ MaterializeDynamicTable(t)
          /\ Go(p, "end")
          /\ UNCHANGED slot
       \/ /\ \/ op[p] = "refresh" /\ (row[t] = None \/ row[t].id # got[p].id)
             \/ op[p] = "drop" /\ physical[t] = Absent
          /\ Failed(p)
          /\ UNCHANGED tableVars
    /\ UNCHANGED <<mu, conn, got, requestVars, passVars>>

\* A privilege, the warehouse or the definition fails, the context ends during
\* a wait (the scheduler's after 30 s), or the write fails and is rolled back.
FailRequest(p) ==
    /\ \/ pc[p] \in {"connect", "get", "acquire", "check"}
       \/ pc[p] \in {"exec", "register"} /\ writeMu = p
    /\ writeMu' = IF writeMu = p THEN None ELSE writeMu
    /\ Failed(p)
    /\ UNCHANGED <<tableVars, mu, conn, got, requestVars, passVars>>

End(c) ==
    /\ pc[c] = "end"
    /\ mu' = IF mu = c THEN None ELSE mu
    /\ conn' = IF conn = c THEN None ELSE conn
    /\ Free(c)
    /\ pinned' = [pinned EXCEPT ![c] = FALSE]
    /\ op' = [op EXCEPT ![c] = "none"]
    /\ at' = [at EXCEPT ![c] = None]
    /\ got' = [got EXCEPT ![c] = NoRow]
    /\ Go(c, "idle")
    /\ UNCHANGED <<tableVars, writeMu, passVars>>
-----------------------------------------------------------------------------
\* Ordinary statements: DML has a slot; then the name is checked, the physical
\* statement runs, and CREATE and DROP change the catalog row.

Ordinary(c, w, t, o) ==
    /\ pc[c] = "idle"
    /\ IF o = "dml" THEN slot[w] = None /\ slot' = [slot EXCEPT ![w] = c]
                    ELSE UNCHANGED slot
    /\ op' = [op EXCEPT ![c] = o]
    /\ at' = [at EXCEPT ![c] = t]
    /\ Go(c, "check")
    /\ UNCHANGED <<tableVars, mu, writeMu, conn, pinned, got, passVars>>

\* CREATE TABLE without OR REPLACE is not among the statements it matches.
RejectOrdinaryMutation(c) ==
    /\ pc[c] = "check" /\ Reaches(c)
    /\ Go(c, IF op[c] # "table if not exists" /\ type[at[c]] = "dynamic" THEN "end" ELSE "exec")
    /\ UNCHANGED <<tableVars, lockVars, got, requestVars, passVars>>

ExecOrdinary(c) ==
    LET t == at[c] IN
    /\ pc[c] = "exec" /\ op[c] \in OrdinaryOps /\ Writes(c)
    /\ writeMu' = None
    /\ IF op[c] \in {"dml", "drop table"} /\ physical[t] = Absent
       THEN Go(c, "end") /\ UNCHANGED physical
       ELSE /\ physical' = [physical EXCEPT ![t] =
                   CASE op[c] = "drop table"                        -> Absent
                     [] op[c] = "table if not exists" /\ @ # Absent -> @
                     [] OTHER                                       -> OrdinaryRows]
            /\ Go(c, IF op[c] = "dml" THEN "end" ELSE "register")
    /\ UNCHANGED <<row, type, lastDef, mu, conn, slot, got, requestVars, passVars>>

\* RegisterTable sets the type of a row that is already there.
Register(c) ==
    /\ pc[c] = "register" /\ Writes(c)
    /\ writeMu' = None
    /\ type' = [type EXCEPT ![at[c]] = IF op[c] = "drop table" THEN "none" ELSE "base"]
    /\ Go(c, "end")
    /\ UNCHANGED <<row, physical, lastDef, mu, conn, slot, got, requestVars, passVars>>
-----------------------------------------------------------------------------
\* The scheduler's pass

Tick ==
    /\ pc[Scheduler] = "idle"
    /\ since' = 0
    /\ Go(Scheduler, "lock")
    /\ UNCHANGED <<tableVars, lockVars, got, requestVars, listed>>

ListDynamicTables ==
    /\ pc[Scheduler] = "list" /\ Reaches(Scheduler)
    /\ listed' = {t \in Tables : row[t] # None /\ Due(row[t], since)}
    /\ Go(Scheduler, "next")
    /\ UNCHANGED <<tableVars, lockVars, got, requestVars, since>>

RefreshDue(t) ==
    /\ pc[Scheduler] = "next"
    /\ t \in listed
    /\ listed' = listed \ {t}
    /\ op' = [op EXCEPT ![Scheduler] = "refresh"]
    /\ at' = [at EXCEPT ![Scheduler] = t]
    /\ Go(Scheduler, "get")
    /\ UNCHANGED <<tableVars, lockVars, pinned, got, since>>

\* The attempt is over, and the pass keeps the mutex.
AttemptEnded ==
    /\ op' = [op EXCEPT ![Scheduler] = "none"]
    /\ at' = [at EXCEPT ![Scheduler] = None]
    /\ got' = [got EXCEPT ![Scheduler] = NoRow]
    /\ UNCHANGED <<type, physical, lastDef, conn, pinned, since>>

\* Mutant for RecordDynamicTableFailure: the first failure ends the pass.
AbortPass ==
    /\ pc[Scheduler] = "record" /\ Writes(Scheduler)
    /\ AttemptEnded
    /\ row' = [row EXCEPT ![at[Scheduler]].tried = since]
    /\ listed' = {} /\ mu' = None /\ writeMu' = None
    /\ Go(Scheduler, "idle")
    /\ UNCHANGED slot

\* When the failure cannot be recorded either, the pass goes on.
RecordDynamicTableFailure ==
    /\ pc[Scheduler] = "record" /\ Writes(Scheduler)
    /\ AttemptEnded
    /\ \/ row' = [row EXCEPT ![at[Scheduler]].tried = since]
       \/ UNCHANGED row
    /\ writeMu' = None
    /\ Go(Scheduler, "next")
    /\ UNCHANGED <<mu, slot, listed>>

\* refreshLocked gives the slot back.
Refreshed ==
    /\ pc[Scheduler] = "end"
    /\ AttemptEnded
    /\ Free(Scheduler)
    /\ Go(Scheduler, "next")
    /\ UNCHANGED <<row, mu, writeMu, listed>>

EndPass ==
    /\ pc[Scheduler] = "next" /\ listed = {}
    /\ mu' = None
    /\ since' = 0
    /\ Go(Scheduler, "idle")
    /\ UNCHANGED <<tableVars, writeMu, conn, slot, got, requestVars, listed>>
-----------------------------------------------------------------------------
Init ==
    /\ row = [t \in Tables |-> None]
    /\ type = [t \in Tables |-> "none"]
    /\ physical = [t \in Tables |-> Absent]
    /\ lastDef = 0
    /\ mu = None /\ writeMu = None /\ conn = None
    /\ slot = [w \in Warehouses |-> None]
    /\ pc = [p \in Procs |-> "idle"]
    /\ op = [p \in Procs |-> "none"]
    /\ at = [p \in Procs |-> None]
    /\ got = [p \in Procs |-> NoRow]
    /\ pinned = [p \in Procs |-> FALSE]
    /\ listed = {}
    /\ since = 0

\* The steps that bring a request under way to its end.
Advance(p) ==
    \/ Lock(p)
    \/ GetByName(p)
    \/ Acquire(p)
    \/ LockWrite(p)
    \/ Exec(p)

ClientStep(c) ==
    \/ Advance(c)
    \/ WithPinnedConnection(c)
    \/ RejectOrdinaryMutation(c)
    \/ ExecOrdinary(c)
    \/ Register(c)
    \/ End(c)

SchedulerStep ==
    \/ Advance(Scheduler)
    \/ FailRequest(Scheduler)
    \/ Tick
    \/ ListDynamicTables
    \/ \E t \in Tables : RefreshDue(t)
    \/ RecordDynamicTableFailure
    \/ Refreshed
    \/ EndPass

Next ==
    \/ Time
    \/ SchedulerStep
    \/ \E c \in Clients :
          \/ ClientStep(c)
          \/ FailRequest(c)
          \/ \E t \in Tables :
                \/ \E o \in ClientOps \cap DynamicOps : Submit(c, t, o)
                \/ \E o \in ProcedureOps, w \in Warehouses : Call(c, w, t, o)
                \/ \E o \in ClientOps \cap OrdinaryOps, w \in Warehouses : Ordinary(c, w, t, o)

Spec == Init /\ [][Next]_vars

\* Clocks go on, and every goroutine runs unless what it waits for is never
\* free.  Strong fairness: a sync.Mutex does not starve a waiter, and the
\* connection and the slots are handed to waiters in the order they came.  A
\* client's context need not end.
FairSpec ==
    /\ Spec
    /\ WF_vars(Time)
    /\ SF_vars(SchedulerStep)
    /\ \A c \in Clients : SF_vars(ClientStep(c))
-----------------------------------------------------------------------------
\* The types of the variables; only the holder of the mutex is between the
\* lookup of a dynamic-table operation and its transaction; who has the write
\* mutex is at a write, and a CALL that runs has the connection; the scheduler
\* keeps the mutex between the refreshes of a pass.
TypeOK ==
    /\ lastDef \in 0 .. MaxDefinition
    /\ \A t \in Tables :
          /\ row[t] \in Rows \cup {None}
          /\ type[t] \in {"none", "base", "dynamic"}
          /\ physical[t] \in OrdinaryRows .. lastDef
    /\ {mu, writeMu, conn} \subseteq Procs \cup {None}
    /\ slot \in [Warehouses -> Procs \cup {None}]
    /\ \A p \in Procs :
          /\ pc[p] \in {"get", "acquire"} => mu = p
          /\ pc[p] = "exec" /\ op[p] \in DynamicOps => mu = p
          /\ writeMu = p => pc[p] \in {"exec", "register", "record"}
          /\ pinned[p] => conn = p
    /\ pc[Scheduler] \in {"list", "next", "record"} => mu = Scheduler
    /\ listed \subseteq Tables /\ since \in 0 .. MaxWait

\* Operations on dynamic tables are serialized (README: "serialized with
\* manual create/replace/drop"): rows materialized in a dynamic table are those
\* of its present definition, whoever read an earlier one and refreshed late.
DefinitionMatches ==
    \A t \in Tables :
        row[t] # None /\ physical[t] \in Definitions => physical[t] = row[t].def

\* p waits for what q has: a mutex, a slot, or the connection.
WaitsFor(p, q) ==
    \/ pc[p] = "lock" /\ ~pinned[p] /\ mu = q
    \/ pc[p] = "acquire" /\ slot[WarehouseOf[at[p]]] = q
    \/ pc[p] \in {"exec", "register", "record"} /\ writeMu = q /\ p # q
    \/ /\ pc[p] \in {"connect", "get", "check", "list"} \/ writeMu = p
       /\ conn = q /\ p # q

\* The scheduler gives up waiting for a slot or the connection after 30 s, in
\* an attempt: not when it lists the tables or records a failure.
GivesUp(p) ==
    p = Scheduler /\ (pc[p] \in {"get", "acquire"} \/ (pc[p] = "exec" /\ writeMu = p))

\* Some wait for each other, or for themselves.
Deadlock ==
    \E S \in SUBSET Procs \ {{}} :
        \A p \in S : ~GivesUp(p) /\ \E q \in S : WaitsFor(p, q)

\* "One unavailable warehouse must not indefinitely block every other dynamic
\* table" (dynamic_table_scheduler.go:107-108): a table that stays due is
\* attempted again and again, whatever attempts fail or have to wait, unless a
\* CALL and those who wait for its connection hang for good.
DueIsAttempted ==
    \A t \in Tables :
        <>[](row[t] # None /\ Due(row[t], 0)) => []<><<RefreshDue(t)>>_vars \/ <>[]Deadlock

\* "Waiting for the refresh mutex there could deadlock a scheduled operation"
\* (dynamic_table_processor.go:276-277): a CALL tries it instead, and so nobody
\* should wait for himself or in a circle.
NoDeadlock == ~Deadlock

\* An ordinary statement leaves the rows of a dynamic table alone
\* (dynamic_table_processor_test.go, RejectsOrdinaryMutations).
OrdinaryLeavesDynamic ==
    [][\A c \in Clients : ExecOrdinary(c) /\ row[at[c]] # None => UNCHANGED physical]_vars
=============================================================================
