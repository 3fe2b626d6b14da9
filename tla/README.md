# Verification of snowflake-emulator

The emulator is a Go server that answers Snowflake's REST API and the gosnowflake
protocol on top of one DuckDB database. Much of its code translates SQL; the part
that is hard to get right is what surrounds the SQL: a queue of statements for each
virtual warehouse, one write mutex over a bounded pool of connections, statements
that are run by one goroutine and canceled by another, sessions, schedulers, and
catalog rows that must agree with memory. This project models that part in TLA+,
checks it with TLC on small instances, and proves the safety of each of its ten modules
with TLAPS for instances of any size.

Paths below are relative to the repository. Line numbers are in `PROJECT.json` ("map").

## 1. Inventory

`cmd/server/main.go` wires the parts: a pool of **one** connection, sessions with a
24 h timeout, a statement manager that forgets statements an hour after they end, an
auto-suspend ticker, a task scheduler and a dynamic-table scheduler that tick every
second, and an HTTP server with 30 s timeouts. Every request is a goroutine.

| Component | State | Operations | Talks to |
|---|---|---|---|
| Warehouse manager `pkg/warehouse` | map of warehouses (lifecycle, settings, Running, Queued, FIFO of waiters) under one mutex; rows in `_metadata_warehouses` | create, resume, suspend, alter, drop, Acquire / Release, auto-suspend, load at start | metadata repository (row writes), executor (leases) |
| Connection manager `pkg/connection` | `writeMu`, a `sql.DB` pool or one pinned connection | Query, Exec, ExecTx, WithConnection | everything that touches the database |
| Statement manager `pkg/query/statement_manager.go` | map of statements (status, result, CompletedOn, cancel function) | create, set status / result / error, cancel, list, cleanup | history, REST handlers |
| Statement history `pkg/metadata/statement_history.go` | rows keyed by handle | record (UPDATE, else INSERT), prune | connection manager |
| REST handlers `server/handlers/rest_api_v2.go` | none of their own | submit (synchronous, asynchronous, USE ROLE), status, cancel, catalog and privilege endpoints | statement manager, executor, sessions |
| Executor `pkg/query/executor.go` | none of its own | classify, authorize, take a lease, translate, run, register in the catalog, advance stream offsets | nearly all others |
| Sessions `pkg/session` | maps by access token and by master token under one mutex; rows | create, validate (touch), renew, close, expire, set role / warehouse / context, load at start | store, identity |
| Streams `stream_processor.go`, `stream_repository.go` | offset of each stream; the row ids of its table | create, read, consume in a DML, show | executor |
| Tasks `task_processor.go`, `task_scheduler.go`, `task_repository.go` | task rows (state, next run), run history | create, resume, suspend, drop, execute, tick | executor, warehouses |
| Dynamic tables `dynamic_table_*.go` | definition rows, materialised tables, a refresh mutex, retry times | create, refresh, drop, tick | executor, warehouses |
| Procedures `procedure_*.go` | frame of the running call | CALL on a pinned connection | executor, connection manager |
| Identity `pkg/identity`, `identity_repository.go` | users, roles, grants of roles | create, alter, drop, grant, revoke, USE ROLE | sessions, authorization |
| Authorization `object_authorization.go`, `*_privilege_repository.go` | privilege rows | grant, revoke, look up through the role graph | executor |
| Metadata repository `pkg/metadata/repository.go`, `catalog_sync.go` | databases, schemas, tables, stages, ... as rows beside the DuckDB objects | create, drop, register, reconcile | executor, handlers |
| Stages and COPY `pkg/stage`, `copy_processor.go` | directories, stage rows | create, drop, put, list, bulk load | metadata repository |
| MERGE, translation, classification, naming, types | none | pure functions on SQL text and syntax trees | executor |
| gosnowflake handler `server/handlers/query.go` | none | run a query through the executor | executor, sessions |
| Console, content data, examples | user interface and test helpers | | |

### What is hard, and what makes each component correct

* **Warehouses.** A waiter sits in a `select` outside the lock while releases,
  resizes, suspensions and its own cancellation race. Slots must be neither lost nor
  given twice, no one may wait beside a free slot, the order must be first come first
  served, a suspension must end, the row must be what memory holds, a restart must
  come back to a consistent state.
* **Connections.** Two resources taken in two orders. Writes must be serialized even
  across pinned connections, connections must come back, calls must return.
* **Statements and history.** Two writers for each handle, and each writes the
  history *after* unlocking. Status must only advance, outcomes shown must be true,
  memory must be reclaimed.
* **Sessions.** Two maps and a table that must agree, some of them written while the
  mutex is held and the database is waited for; heartbeat, renewal, logout, expiry and
  cancellation race. A session must answer to one token, a closed session must stay
  closed and a renewed token dead, across restarts too.
* **Streams.** List, measure, run the DML, advance: four calls on a shared database. No
  row may be returned again after it was consumed, none may be passed over.
* **Tasks, dynamic tables.** A list read early and used late, a run that overlaps with
  a manual one, a run that cannot be recorded, a refresh that waits for a slot and a
  connection under a mutex. What is started must keep running; what is done late must
  not be done to a successor of the same name.
* **Identity and authorization.** Ids are read before the transaction that writes them,
  rows are read, modified and written back, and a check is a row of reads. No dangling
  grant, no cycle of roles, no default role the user lacks, nothing let through on a
  right that had been revoked.
* **Catalog.** A row and a DuckDB object, changed in one transaction by REST and in
  two calls by SQL. What can be named must exist.
* **Stages.** A row and a directory, and files written bit by bit while they are listed,
  read and removed. A purge must not remove what was not loaded, a new stage must be empty.

`PROJECT.json` lists each such hazard at its line, with the property that covers it or
the reason why none does.

## 2. Modules

### Warehouse (`pkg/warehouse/manager.go`, `pkg/metadata/warehouse_repository.go`)

State is that of `Warehouse`/`runtimeWarehouse` and of the row, one function of the
warehouse name per field, plus what a goroutine inside `Acquire` holds: where it is
(`pc`), the warehouse (`target`), the contents of its `ready` channel, and whether its
context is done. Every method runs under `Manager.mu` and is one action; `Acquire` of a
full warehouse is three (`Acquire` up to the select, then `PickUp` or `GiveUp`), and
when both branches of the select are ready either may be taken. `admit`, `persist` and
`releaseLocked` are operators with the name of the helper, part of the actions that
call them. Where the code changes memory and then writes the row, `persist` may fail,
and `unsaved` (a history variable) remembers it; where the row comes first (create,
drop), failure changes nothing and is a stutter. `NewPersistentManager` is a crash and
restart. Time is left out: any idle active warehouse may be due for auto-suspension, so
`AutoSuspendSecs` matters only as zero or not. An error return before any change is a
stutter. `RESUMING` never outlives the critical section that sets it and has no value.

`SlotPool` is the abstract specification: pools of slots, a line, no counters, no
channels, no catalog. `MCWarehouse` gives sizes and capacities (`2^i`, manager.go:459).

### StatementManager (`statement_manager.go`, `statement_history.go`, `rest_api_v2.go`)

One handle has a *runner* (the goroutine of the submission, or the one it starts for an
asynchronous submission) and a *canceler*. `pc` is the runner's place in
`SubmitStatement`/`submitAsync`/`runStatement`. A status change is the locked part of
the method (`setStatus`, `CancelStatement`) and leaves a summary in `writing`; the
UPDATE and the INSERT of `RecordStatement` are later steps, and may fail. The runner
goes on when its own summary is recorded (`Free`), the canceler's write floats. `lost`
(a history variable) names handles for which a write failed. `cleanup` and
`pruneHistory` stand for the passing of an hour and of days: pruning therefore asks
that the statement be gone from memory and have no write under way. SQL is left out: it
succeeds or fails whether or not its context is done.

Not modelled: `DeleteStatement` (only tests call it), `SetExecutionMetadata` and the
other descriptive fields, the catalog endpoints.

### Connection (`pkg/connection/manager.go`, `cmd/server/main.go`)

Clients call `Query`, `Exec`/`ExecTx` and `WithConnection`. A call is the sequence of
its blocking points: waiting for `writeMu`, waiting for a connection, working. An
unpinned write locks and then takes a connection (`ExecTx`, manager.go:85-118); a
pinned one already has the connection and locks. Rows keep their connection until
closed. `Cancel` is `database/sql` giving up the wait when the context is done:
`Background` are the clients that use `context.Background()`, as `Exec`, `QueryRow` and
the metadata repositories do, and cannot be canceled. A nested `WithConnection` reuses
the connection. The pool itself is external, modelled by its documented bound.

### Session (`pkg/session/manager.go`, `store.go`, `server/handlers/session.go`)

A session stands for its master token, which never changes. `access` and `master` are
the two maps, `object` the `Session` both point to, `rows` the table. Methods that only
touch memory are one action. Those that write (`SetContext` for the three setters,
`UpdateLastAccessed`, `CloseSession`, `RenewToken`) keep `Manager.mu` while they wait
for the one connection: their first action does what comes before the write and leaves
the rest in `call`; `Written` or `WriteFailed` finishes them, with the rollback of the
setters and the two ways the logout handlers report a failure. `Free` is the mutex.

Three methods do not hold it. A login puts the session into the maps and then saves
it, but nobody knows its tokens before it returns, so it is one action, and a login that
fails leaves nothing. `ValidateSession` looks the session up, writes the activity time
without the mutex, and looks again: nothing reads that time, so it takes effect at the
second look. `InspectSession` never waits for the database; it authenticates
cancellations (`statement_access.go:54`). `StartQuery` and `EndQuery` occupy the
connection, `RequestCancel` and `Cancel` are the request that frees it. Expiry is
nondeterministic, except that the master token of a session outlives the access
token of its login, being valid four times as long. `issued`, `replaced` and `told` are
history variables: where a token comes from, whether a renewal replaced it, and what the
client has been told of its session. SQL variables of a session are left out.

`SessionRegistry` is the abstract specification: one registry of sessions, tokens and
contexts, with no mutex, no pending write, no clock and no second copy. Its three nested sets
are the entries a restart would read, those that can be renewed and those whose token is
still known. A change of an entry happens in all three at once; a token that was replaced or
deleted is dead and a session that is over is over for good. What it leaves open is
what the code leaves open: a session may go out of service without its entry being
deleted (a logout whose write fails, a master token that expires), and a restart may then
find it again. The mapping reads the entries off the table, the master tokens and the access
tokens; a context that is being saved shows as it was before (`Shown`), for every method that
would read it takes the mutex the setter holds (manager.go:134-155, 186-213).

### Streams (`stream_processor.go`, `stream_repository.go`, `executor.go`, `merge_processor.go`)

One stream name over one source table. `source` is the table with its rowids, which grow
and are not reused; `stream` is the row, an id and an offset. A consuming statement is
`ListStreams` (stream and offset), `FreezeHighWater` (the greatest rowid), `Exec` (the DML
over the rows between) and `AdvanceOffsets` (the UPDATE that only moves the offset
forward), each a call of its own, and two clients interleave in them. CREATE STREAM is
two calls as well: the offset is measured first and the row inserted second.
`Statements` tells a DML from a native MERGE and from the UPDATE and the INSERT a MERGE is
decomposed into when its native attempt fails, at whatever point it does. Ordinary
statements insert and delete source rows and replace the table; every call may fail
(`Fail`), and the process may die between two (`Crash`). `handled`, `settled`, `seen`,
`born` and `decomposed` are history variables: they start afresh when the stream or the
table is replaced, since the promises are about one stream over one table.

### Access (`pkg/identity/service.go`, `identity_repository.go`, `object_privilege_repository.go`, `statement_access.go`)

Administrators run identity statements: `Read` resolves the names to ids (`req`),
`WriteRead` is the transaction that writes by id and `Refused` its rollback. Each record
function is an operator of its name; `UpdateUserConfigurationRecord` writes back the whole
row it read. A session logs in, assumes roles and sends statements; the check of a
statement reads the user, his direct roles, the role hierarchy, and in
`AuthorizeRole` and `AuthorizePrivilege` the hierarchy and the privileges again, while
administrators go on. `was` is a history variable that collects the grants present
at any moment of the part of the check in progress. `BootstrapIdentity` is the restart:
sessions survive it.

One user name, one object with one privilege, custom roles and the system roles PUBLIC and
ACCOUNTADMIN. Two bounds keep the model small: from the login on an identity
statement is one step (`Undivided`), since the session reads rows, never what an
administrator has read, and what a stale write leaves, one or two fresh ones leave
as well; and ALTER USER and GRANT of a privilege name custom roles only.

### DynamicTables (`dynamic_table_processor.go`, `dynamic_table_scheduler.go`)

`row`, `type` and `physical` are the definition row, the table type in the catalog and
what the DuckDB table holds: the rows of a definition (known by number) or those of an ordinary
statement. `mu` is the mutex of the processor, `conn` the only connection, `slot` the one
slot of an X-SMALL warehouse, and `writeMu` the mutex of the connection manager, which every
write takes (`LockWrite`) before the connection, and one in a CALL after it. CREATE,
REFRESH and DROP are lock, lookup, slot and transaction; inside a CALL (`Call`,
`WithPinnedConnection`) the connection is already owned and the mutex is tried, not awaited. A pass of the scheduler (`Tick` to `EndPass`)
keeps the mutex, lists what is due by one reading of the clock, and records a failure
with its time for the retry delay. Ordinary CREATE, DROP and DML check the catalog first
and run afterwards, without the mutex. One unit of time is 30 s; ages are kept up to the
values that decide, and `since` is the age of the clock reading of the pass.

### Tasks (`task_processor.go`, `task_scheduler.go`, `task_repository.go`)

`row` is the task of each name with its id, state and the time since its last run (`age`,
up to `Interval`). ALTER and EXECUTE TASK read the row by name (`GetByName`) and use its id
later; the scheduler lists what is due (`ListTasks`) and runs it from that list, one after
the other, without looking again (`RunListed`, `Run`, `RecordTaskExecution`). CREATE OR
REPLACE gives a new id. A task whose owner role is gone is not run and nothing is recorded
(`orphaned`); the schema may be gone, the record may fail, the process may die. `resumed`,
`ran` and `late` are history variables. What a task's definition does is left out.

### Catalog (`pkg/metadata/repository.go`, `catalog_sync.go`, `view_processor.go`, `executor.go`)

Rows of one database, its schemas and tables, by id and without foreign keys, beside
`storage`, the kind of DuckDB object under each physical name. A physical name is
`S_T`: names are sequences of words, so that two tables may have the same. REST handlers
look up rows and then change row and object in one transaction (`CreateTableTx`,
`DropTableTx`, `DropSchemaTx`, `DropDatabaseTx`); SQL statements run on the object
(`ExecPhysical`), read its columns and then change the row (`RegisterSQLTable`,
`UnregisterSQLTable`). CREATE TABLE IF NOT EXISTS over a view is no error in DuckDB:
it leaves the view and registers it as a table (`KindMatches.cfg`), so what is promised of
a table's row is an object, and of a view's a view (`Behind`). ALTER ... RENAME runs in
DuckDB alone (executor.go:744) and no row follows it (`Rename`). Dropping a database leaves
the rows of its schemas, dropping a schema leaves the objects of its tables. `Crash` may hit
any of it, the start as well, which is `EnsureDefaultNamespace` in its steps. `torn` (a
history variable) holds the physical names of SQL statements cut in half by a failure or
overtaken by another statement on the name, of objects that were renamed, and of deletions
that came after the database had been dropped and created again: there the code gives no
guarantee.

### Stages (`pkg/stage/manager.go`, `stage_processor.go`, `copy_processor.go`)

One stage name: its row, its directory (`disk`, a name to an inode) and the inodes'
`content`, part by part. CREATE inserts the row and then makes the directory; DROP looks
the row up, removes the directory and then the row by id; OR REPLACE is the one after the
other. An upload truncates the file that is there and writes its parts, to an inode
that may have lost its name. COPY lists files, then opens each, inserts its records one by
one, and with PURGE removes it by name; ON_ERROR decides what a failure ends. Listing,
reading and removing a directory are one step each. A *record* is what the loader would
insert, so skipped headers and JSON values that are no objects are none. `purged`, `seen`
and `stray` are history variables; `stray` holds the files of uploads that overlapped a
DROP, or a CREATE that failed.

### Proof modules

`WarehouseProofs`, `SessionProofs`, `StatementManagerProofs`, `StreamsProofs`,
`AccessProofs` and `StagesProofs` extend the module they are about. `SchedulerProofs` is
about the two components with a scheduler: it extends `Tasks` and has `DynamicTables` as
the instance `D`. `DatabaseProofs` is about the two on the way to DuckDB: it extends
`Connection` and has `Catalog` as the instance `K`. An instance has constants and variables
of its own (`dtPc` and `catPc` stand for its `pc`), and what its module assumes of the
constants is a hypothesis of its theorems, which state the invariants of the instance
(`K!RowHasStorage`, `D!DefinitionMatches`). Each part begins with the inductive invariant,
goes on with one lemma per action, and ends with its theorems.

Operators under a comment `Fault:` or `Mutant` are mutated forms of the definition that
follows them; no specification uses them. They document which mistake each property finds.

## 3. Runs

Run one with `tlc -config X.cfg M`; `PROJECT.json` has the module and the cfg of each.

| Run | Instance | Shows |
|---|---|---|
| `warehouse` | 1 warehouse, 3 statements, sizes of 1 and 2 slots, fair | slots are accounted, no one waits beside a free slot; `Warehouse` implements `SlotPool`; every waiter is answered, every suspension completes |
| `statements` | 1 handle, fair | outcomes in the history are true and the last to be written, a cancellation reply is true, memory is reclaimed |
| `pool` | 3 clients, 2 connections, fair | writes are serialized, the lock order is the only deadlock, and unless it strikes every call returns |
| `pool_of_one` | 2 clients, 1 connection, fair | **violated**: two writes wait for each other |
| `sessions` | 2 sessions, 3 tokens, 2 contexts | a logout is final, across restarts; `Session` implements `SessionRegistry` |
| `streams` | 2 clients, 2 rowids, 2 streams and 2 tables under their names | no row is returned again, none is passed over |
| `merge_loses_rows` | 1 client, 1 rowid | **violated**: a decomposed MERGE passes over the rows it should insert |
| `access` | 2 administrators, 2 role names, 2 custom role ids, 2 user ids, 1 session | no dangling grant, granted default role, acyclic roles, nothing let through on a right that was gone |
| `dynamic_tables` | 2 tables, 1 client, the scheduler, 1 slot, fair | rows are those of the present definition, a table that stays due is attempted again and again unless a deadlock stays |
| `tasks` | 2 names, 3 tasks, 1 client, the scheduler, fair | a successor is neither resumed nor run by what was meant for its predecessor, one late run at most, started tasks keep running |
| `catalog` | 2 clients, 2 schema names, 1 table name, 2 databases one after the other | what can be named exists, a start ends with the default namespace |
| `stages` | 2 clients, 2 files of 2 records, 2 uploads, 2 stages one after the other | what a COPY has read is loaded before it purges, nothing purged is loaded again, a new stage is empty |

**Bounds.**

* *Warehouses are independent*: no action but `CheckAutoSuspend` and restart touches two,
  and those treat each alone (except that one failed write ends a tick), so one warehouse
  shows the races; the proofs cover any number. Three statements and capacities 1 and 2
  give a full warehouse with one waiter, a full one with two waiters in order, a resize
  that admits one of two, both, or none, and a resize below the load.
* *Handles are independent*: each action reads and writes one handle (`cleanup` and
  `pruneHistory` take sets, but decide for each alone), so one handle has every
  interleaving of its two writers; at most two summaries are ever under way.
* *Connections*: three clients for two connections let two pinned clients face a holder of
  the mutex, with one of them beyond the reach of cancellation.
* *Sessions* meet only in `Manager.mu` and in the table; two of them with three tokens give
  two logins and a renewal, or one session renewed twice, each with any number of
  restarts, and two contexts tell an old value from a new one.
* *Streams*: a row returned again or passed over needs one row and two statements that
  overlap; the second row tells the statement's window from the whole table, and the
  second stream and table give CREATE OR REPLACE and a replaced source under way. One
  rowid matches MERGE's condition and the other does not.
* *Access*: two custom roles are enough for a cycle by two grants, and two administrators
  for every race of a read with a write; two user ids and two custom role ids
  give a user or a role dropped and created again under its name. `Inherited` is the
  least set closed under the hierarchy, so chains are as long as the ids allow.
* *DynamicTables*: two tables for one slot let one wait for the other. A lag of 2 and a
  retry delay of 1 (60 s and 30 s) are the smallest at which a table may be due
  and its retry not; two definitions let rows of the first outlive it. `MaxWait = 0` keeps the
  clock reading of a pass young. The client sends every statement but DROP TABLE and OR
  REPLACE on an ordinary table (`ClientOps`), and calls procedures that refresh, drop or write
  (`ProcedureOps`): with these one client already meets the scheduler in a deadlock,
  by the slot (a CALL that refreshes) and by the write mutex (a CALL that writes, while
  the scheduler records a failure). A third process for it takes two clients, in
  `LockOrderHangs.cfg`.
* *Tasks*: two names and three ids give a replaced task beside another in the same pass.
  One unit of `Interval` tells due from not due. At most one owner role is dropped.
* *Catalog*: two clients and one table name in two schemas put any two statements on the
  same object, or on objects whose schema or database goes; each has room for one that
  is created again. A request arrives while at most one name is torn, a RENAME while none
  is (`MaxTorn = 1`): of a torn name nothing is promised, and there are two. In `catalog` no
  two tables have the same physical name, see below.
* *Stages*: two parts give a file read half written; two uploads give a file
  overwritten while it is written, read or removed; two rows give a stage dropped and
  created again under a request.

Symmetric values are declared symmetric in the runs without liveness properties.
What grows is capped in the guard of the action that creates it, by constants whose names
begin with `Max`; no state constraint is used.

**Deadlock checking** is off only in the two runs of `Connection`, where the real
program really can stop; `NoOtherDeadlock` says where, in its place.

**Fairness.** `Warehouse`: the goroutine of a waiter takes a ready branch of its
select, and a statement that owns a slot ends; nobody has to cancel, resume or resize.
`StatementManager`: the runner's next step, the pending write and the cleanup ticker
happen; nobody has to cancel. `Connection`: weak fairness for work under way, strong
fairness for waiting, because `sync.Mutex` hands over to a waiter that starved for 1 ms
and `database/sql` serves its connection requests (`Unpin` is strong since the callback
of a pinned section makes a bounded number of calls before it returns). `Session`
(for `CancelAnswered.cfg`), for the same reasons: strong fairness for a write that waits for the connection; a query may
run for as long as it likes, and no client has to go away.
`DynamicTables`: time goes on, the scheduler and the clients' requests that were
submitted go on, strongly, because the mutex, the connection and the slots are handed to
waiters as above; nobody has to submit anything, and a client's context need not end.
What is never free cannot be had by fairness either, so a deadlock that stays is an exception
stated in `DueIsAttempted` (`Deadlock`: some processes that each wait for another of
them and do not give up).
`Tasks`: time and the scheduler go on; clients need not, and a process that keeps dying
is an exception stated in `StartedTasksRun`. `Streams`, `Access`, `Catalog` and `Stages`
promise no progress beyond the end of a request, and their runs check safety.

**Mutants.** Each property of a passing run is shown to fail for a plausible mistake in
one mapped definition; the pairs are in `PROJECT.json`.

## 4. Findings

Two are runs that TLC finds violated:

1. *The pool of one deadlocks* (`pool_of_one`). A CALL that writes owns the only
   connection and waits for `writeMu`; another write owns `writeMu` and waits for a
   connection. The comment at cmd/server/main.go:52-54 says the cap costs nothing. When
   the second write is under a request context it gives up after the client
   disconnects; when it runs under `context.Background()` (warehouse rows, statement
   history) it never does.
2. *A decomposed MERGE loses rows of its stream* (`merge_loses_rows`). When the native
   attempt fails, MERGE becomes an UPDATE and an INSERT; each rewrites the reference to the
   stream and advances its offset. The UPDATE consumes the stream, the INSERT finds it
   empty, and the MERGE succeeds. stream_processor.go:120-122 says the window is frozen so
   that a statement advances "to the exact set of rows it consumed".

The following cfgs each check one property that the code does not have; TLC gives a
counterexample for every one. They are kept to show where a passing property has its
exception, and to be turned into passing runs when the code changes.

| cfg | Module | What the counterexample shows |
|---|---|---|
| `SettledRowIsFinal` | `StatementManager` | A summary is recorded after the lock is released (statement_manager.go:229-234, 336-343): the runner's `RUNNING` may land after the canceler's `CANCELED`, or win the race to INSERT, whose loser fails on the primary key. Such a row has no completion time and is never pruned. |
| `SuccessReplyIsTrue` | `StatementManager` | `SetResult` refuses and returns false; rest_api_v2.go:304 and 312 do not look, against statement_manager.go:212-214: a canceled statement is answered as a success. |
| `CanceledIsInterrupted` | `StatementManager` | Between `CreateStatementForUser` (rest_api_v2.go:134) and `SetCancelFunc` (165) there is no function to call; the statement shows as canceled and its work runs. |
| `ClosedStaysClosed` | `Session` | The DELETE handler takes every error for a session that is already closed (session.go:344-345), but the only error there says that the row is still in the table: a restart revives it. `LogoutIsFinal` shows that a logout whose row was deleted is final. |
| `CancelAnswered` | `Session` | manager.go:185-187 says never to hold the session mutex while waiting on DuckDB. A heartbeat, logout, renewal or setter does (148, 165, 254, 284, 344, 377), and then `InspectSession` waits until the query ends, with the cancellation of that query. |
| `UnsetFieldsUnchanged` | `Access` | service.go:126 says that fields an ALTER USER does not name stay. It writes back the row it read: a SET of the password undoes a concurrent DISABLED = TRUE. |
| `NestedRefreshHangs` | `MCDynamicTables` | A CALL on the table's own warehouse holds its one slot; the REFRESH in it takes the mutex and waits for that slot, which only its own end can release. While the caller's context does not end, no other table is refreshed. |
| `LockOrderHangs` | `MCDynamicTables` | A CALL owns the connection and, with a DROP DYNAMIC TABLE, the refresh mutex; it waits for `writeMu`, whose owner waits for the connection. The mutex is tried to avoid this (dynamic_table_processor.go:276-277), the write mutex is not; a scheduler that comes now waits for the refresh mutex without a limit. |
| `OrdinaryLeavesDynamic` | `MCDynamicTables` | The check does not match a plain CREATE TABLE (dynamic_table_processor.go:21): with IF NOT EXISTS it leaves the rows but registers the table as an ordinary one, and the next statement may replace them. |
| `NewSchemaIsEmpty` | `MCCatalog` | repository.go:844 says DropSchema deletes all tables of the schema; it deletes their rows. A schema created again under the name finds the old objects behind its new tables. |
| `KindMatches` | `MCCatalog` | CREATE TABLE IF NOT EXISTS over a view is a no-op in DuckDB, in REST's transaction as in SQL; the row says BASE TABLE (repository.go:932-940, catalog_sync.go:182). |
| `CollidingNames` | `MCCatalog` | Table `T_T` of schema `PUBLIC` and table `T` of `PUBLIC_T` are one DuckDB object: dropping one leaves the other a row without object. |
| `OnlyLoadedIsPurged` | `Stages` | PURGE removes the file by name (copy_processor.go:287): what an upload has written to it after the COPY read it is removed without having been loaded. |
| `OnlyOwnFiles` | `Stages` | An upload that overlaps a failing CREATE, or a DROP, leaves its file in the directory, and the next stage of the name starts with it. |

## 5. Proofs

Run `tlapm WarehouseProofs.tla`, and likewise for the other seven. Each inductive invariant
has been checked by TLC on the instance of its run as well.

**Warehouse**, for every set of warehouses, finite set of statements, set of sizes and
capacity function. The invariants are not inductive one by one: that a release leaves no
one waiting beside a free slot needs `Running` to be the number of slots owned; that in
turn needs the queue to hold exactly the unanswered waiters, or an admission would count
a statement twice; and that a suspended warehouse runs nothing is what makes a resume
safe. `WInv` is their conjunction (types, queue, accounting, work conservation,
lifecycle, catalog). The proof has one lemma per action, each with one step per conjunct
the action can disturb; the shared part is a group of lemmas about `admit`: the
admitted are a prefix of the queue, there are `Admissible` many of them, they were no
holders before, so the holders grow by exactly that number. `WarehouseInvariant` is
`Spec => []WInv`; the invariants of the run `warehouse` are its corollaries, and
`WarehouseNeverOverAdmits` proves the action property from it.

`WarehouseImplementsSlotPool` is the refinement. The mapping takes the queue to the line
and the owners of slots to the holders, so every action that can admit somebody
must be shown to be a `Settle` of the abstract pool with the right arguments: `admit`
lets in the first `Fits` of the line (the lemmas about `admit` again, now as an equation),
a release, a resize and a resume are `Leave`, `Resize` and `Open`, an acquisition is a
`Join` whether it queues or not, giving up is `Withdraw` (or `Leave`, when the slot had
come first), a restart is `Reset`. A cancellation and the receipt of an answer change
nothing the pool can see.

**Connection**, for every pool size and finite set of clients. `CInv` is the accounting,
the serialization, the fact that a pinned client never waits for a connection
(`PinnedNeverWaits`, without which `LockOrderDeadlock` could not be told from other
hangs), and that no more connections are in use than exist. `HangIsLockOrder` then is an
argument without steps: if nobody can go on, whoever waits for the mutex finds it held;
its holder, who is not writing, waits for a connection; so all are in use, by clients who
can only be pinned and wait for the mutex.

**Session**, for any sets of sessions, tokens and contexts. What the invariants need
from each other and from `SInv`: a new token is nowhere yet (`FreshTokens`,
`FreshSessions`), or a login could revive a closed session; every session that can be
used has its row under its token (`RowsKept`), which is why a token names one session at
most (`OneSessionEach`) and deleting one row closes the right one; and what a method
that waits for the database may rely on when the answer comes: the old context is still
in the row, so that a rollback restores agreement (`SetPending`), the new token is
still unused (`RenewPending`), the session being closed is out of memory
(`ClosePending`). These hold because the method keeps the mutex. The proof has one lemma
per method and answer; `SameView` covers the steps that change none of it.

`SessionImplementsRegistry` is its refinement. `View` first turns the three sets, which are
images of the table and of the maps, into filters on entries, in this state and the next;
`Nested` shows that each lies in the one before it, which for a context that is being saved
is the fact that the row still has its old value. Then every action is one step of the
registry or none: a setter and a renewal show when their write is answered and not when they
begin (`SetContextStutters`, `SavedIsSetContext`, `RenewStutters`, `ReplacedIsRenew`), a
write that fails shows nothing but a token drawn for nothing (`WriteFailedIsWaste`), a
logout is `Retire` when it takes the mutex and `Delete` when its write is answered
(`CloseIsRetire`, `DeletedIsDelete`). `Delete` must name the entry of the very session that
was retired, so `ClosePending` says that the row under the token is still that session's,
and its owner has not been told before that it is closed.

**StatementManager**, for any set of handles. The invariants about the history say nothing
of the summaries on their way to it, which arrive in any order. The runner waits for
its own summary before it makes the next, so until the statement is canceled there is one
at most and it shows the status in memory (`OneSummary`); the summaries that complete a
row always agree with memory, for a terminal status does not change (`SummariesTrue`);
the runner that has not reported finds no outcome but a cancellation (`RunnerDecides`); and
an outcome that was recorded, failed or is under way is accounted for
(`OutcomeRecorded`). `MInv` is their conjunction with the run's invariants.
These agree on memory, which forgets a statement while summaries of it may still be under
way. `OutcomeNotRevised` holds beyond that: completed summaries and the completed row agree with
each other (`OneOutcome`), because they did so when the statement was last in memory and
nothing new is recorded of one that is not (`NothingNewIsRecorded`).

**Streams**, for any clients, rows and bounds. A consumer reads between the offset it has
listed and the mark it has frozen. Whatever a statement that succeeded has read lies behind
the offset from then on (`SettledBehind`), which gives `NotReturnedAgain`; a mark is below
the next rowid, so no insert falls into a window that was read (`WindowsClosed`), and on the
table the stream was created on only the offset itself runs ahead of a snapshot
(`NoRowSkipped`). The greatest rowid is what the model takes with `Max`; that it is in the
table and greatest rests on the well-foundedness of `<` on the natural numbers.

**Tasks**, for any names, clients, interval and number of ids. A process goes on with the
id of a row it has read long ago. Ids are given once (`IdsOnce`), and an id that some
process holds is not the id of a row of another name (`RefsGiven`): so what is done late
finds its own row or none, which is `OwnIncarnation`. For `AtMostOneLateRun` the rows a
pass has still to run are distinct and were not run late, and neither was a started
one, for RESUME begins a new count (`OnceListed`).

**DynamicTables**, for any tables, clients, warehouses, lags and retry delays. A refresh
reads its row, waits for a slot, and writes what the query it has read returns: nothing in the
statement says that the row is still the same. It is, because every operation on
a dynamic table is between taking and releasing the mutex (`Operates`), so that the row
it has read stays (`Read`), from the lookup through the waits for the slot and the write
mutex to the transaction; a pass keeps the mutex for all the rows it has listed (`PassHolds`).
Ordinary statements do not take the mutex, but write neither the rows of a definition nor the
row that holds it. `DInv` is the conjunction of this with `DefinitionMatches`; that the
write mutex and the slots have owners is apart from it (`LocksHeld`).

**Catalog**, for any clients, bounds and names; `RowHasStorage` for names of which no two
are joined to one physical name (`NamesDiffer`: `CollidingNames.cfg` shows the need). A request
uses ids it has looked up in calls of their own, when the rows may be gone. Ids are given
once, and a row never changes its names, so an id that is still there is that of the
row that was found (`Knows`); an insert may miss its database, and then no one can name
it. A CREATE between its object and its row finds the object as it has made it or left
it, unless it was overtaken (`Half`), and of two statements on one object the second has
overtaken the first (`Apart`): so the row it writes is about the object. A RENAME takes
a name that had no object, which no row was about. A deletion that comes after the
database was dropped and created again removes the old row but the new object, which is
why `torn` has that name as well. `OthersKnow` and `OthersHalf` prove once for all
requests what a client's step leaves true of the others. That a start ends with the
default schema (`DefaultNamespace`) needs of this only that a database is there after
its first step (`Starts`).

**Access**, for any administrators and names and any bounds on ids. The rows keep their
invariants under every transaction whatever was read before it: of a request `RowsInv`
needs only that some statement makes it, because each transaction checks by id again what it
relies on. That the hierarchy has no cycle is a lemma about the closure: an edge from
`parent` to `role` closes one only if `parent` is inherited from `role` already, which is
what the transaction excludes. The check of a statement is a row of reads; `ChecksSeen`
says at each of them that what the statement carries on follows from links that were
there while it read, and that more links never shrink a closure.

**Stages**, for any clients, file names and bounds. What COPY and PURGE promise is about
names, but an upload writes to an inode, whose name may be gone. An inode has one name, an
upload one inode and one writer (`OneHome`), so a record that is in no file and is
not about to be written to one (`OnDisk`) never is again: that is `PurgedGone`,
and what gives `NotLoadedAgain`. A COPY at a file has every record it has read either in
the table or still to insert, and none of them is in another file (`Copies`): hence
`PurgedWasLoaded`, and that the purge by name removes the last of it. `DropEmpties` says what
the directory may hold while there is no row, or while one is about to be deleted; it is
the whole of `NewStageIsEmpty`. `NothingNew` and `OthersHold` prove once for
all steps what a client's step leaves true of the others.

Assumptions are those named in the modules: positive capacities and pool size, finite
sets of actors, and `None` distinct from real values.

**Proved, and not repeated in a run.** `QueueIsWaiters`, `LifecycleMatchesLoad`,
`CatalogCurrent` and `NeverOverAdmits` of `Warehouse`, `ConnectionAccounting` of
`Connection`, `OutcomeNotRevised` of `StatementManager`, and `OneTokenEach`,
`ReplacedIsDead`, `RowsFollowMemory` and `RenewableUntilLogout` of `Session` hold for every
instance by theorem, so no run spends time on them.

**Model-checked only.** Liveness: fairness and ENABLED are out of the prover's reach. Every
invariant, every action property and both refinements that the runs check are theorems as well.
No module uses a RECURSIVE operator;
`Inherited` of `Access` is defined as a least closed set, about which one can reason
without induction.

## 6. Not modelled

* *Text to text*: SQL translation, classification, type mapping, the parsing of MERGE,
  COPY and CREATE statements, the format of answers. Pure functions, best tested.
* *The procedure language*: an interpreter without shared state. Its interactions
  are `WithConnection` in `Connection` and CALL in `DynamicTables`. A CALL with warehouse
  statements in it (executor.go:142) needs `Warehouse` and `Connection` in one module.
* *BEGIN, COMMIT and ROLLBACK* (executor.go:842): they go to the one shared connection, and
  what they do to the statements of other sessions is decided by DuckDB.
* *DROP DATABASE or SCHEMA with streams and tasks in it*: `Streams` and `Tasks` have no
  containers; a task finds its schema gone at any time (`Unresolved`).
* *ALTER WAREHOUSE as a read and a write* (warehouse_processor.go:57): `Warehouse` takes
  the settings as given.
* *Restarts of the dynamic-table scheduler*: it keeps nothing in memory between passes.
* *File formats, functions, column definitions*: further catalog rows, written in the same
  two ways as tables and views.
* *Content data, console, examples*: user interface and test helpers.
