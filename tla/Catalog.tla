------------------------------ MODULE Catalog ------------------------------
(***************************************************************************)
(* The catalog of databases, schemas, tables and views, and the DuckDB     *)
(* objects behind it.                                                      *)
(* Source: pkg/metadata/repository.go, pkg/query/catalog_sync.go and       *)
(* view_processor.go, executeCreateTable and executeDropTable of           *)
(* pkg/query/executor.go, and the handlers of server/handlers/             *)
(* rest_api_v2.go.                                                         *)
(*                                                                         *)
(* A database is a DuckDB schema; table T of schema S is the object S_T in *)
(* it, and a schema is nothing but its row.  The REST handlers change      *)
(* object and row in one transaction.  SQL statements change the object    *)
(* first and the row afterwards, in calls of their own.  Rows refer to     *)
(* each other by id, without foreign keys.                                 *)
(*                                                                         *)
(* Names are sequences of words, so that two tables may have one physical  *)
(* name.  One database is modelled, the default one.                       *)
(***************************************************************************)
EXTENDS Integers, Sequences, FiniteSets

CONSTANTS
    Clients,
    Schemas,     \* names; with DefaultSchema among them
    DefaultSchema,
    Tables,      \* names
    MaxDatabase, \* bounds: rows created
    MaxSchema,
    MaxTable,
    MaxTorn      \* torn names while requests arrive

VARIABLES
    database,  \* the id of the row of _metadata_databases, or 0
    schemas,   \* rows [id, database, name]
    tables,    \* rows [id, schema, name, kind]
    storage,   \* the kind of the DuckDB object under each physical name
    last,      \* ids given so far
    server,    \* "down", the steps of the start, or "up"
    pc, req,   \* the request of each client
    torn       \* history: physical names left behind by a statement cut in half,
               \* and those that an object was renamed from

dbVars == <<database, schemas, tables, storage, last>>
clientVars == <<pc, req>>
vars == <<dbVars, server, clientVars, torn>>
-----------------------------------------------------------------------------
Kinds == {"table", "view"}
PhysicalName(s, t) == s \o t
PhysicalNames == {PhysicalName(s, t) : s \in Schemas, t \in Tables}

DatabaseOps == {"create database", "drop database"}
SchemaOps == {"create schema", "drop schema"}
SQLOps == {"create", "drop"}
RESTOps == {"post table", "delete table"}
Requests == [op : DatabaseOps \cup SchemaOps \cup SQLOps \cup RESTOps, schema : Schemas,
             table : Tables, kind : Kinds, ref : Nat]
NoRequest == [op |-> "none", schema |-> DefaultSchema, table |-> <<>>, kind |-> "table", ref |-> 0]

ASSUME CatalogAssumption ==
    /\ {MaxDatabase, MaxSchema, MaxTable} \subseteq Nat \ {0} /\ MaxTorn \in Nat
    /\ DefaultSchema \in Schemas

\* GetSchemaByName and GetTableByName, as the set of the rows found.
SchemaRows(s) == {r \in schemas : r.database = database /\ r.name = s}
TableRows(s, t) == {r \in tables : r.name = t /\ \E q \in SchemaRows(s) : q.id = r.schema}

Physical(c) == PhysicalName(req[c].schema, req[c].table)

\* c has run its DuckDB statement and not yet brought the catalog up to date.
HalfDone(c) == pc[c] \in {"describe", "register", "unregister"}
Busy(p) == \E d \in Clients : HalfDone(d) /\ Physical(d) = p
Overlapped(c, p) == \E d \in Clients \ {c} : HalfDone(d) /\ Physical(d) = p

\* The object or the row of p changes: statements on p that are half done are
\* overtaken.
Touch(c, p) == torn' = IF Overlapped(c, p) THEN torn \cup {p} ELSE torn

\* The table c has looked up is no longer of the database: its row was left
\* behind when the database was dropped.
Outlived(c) ==
    \E r \in tables, s \in schemas :
        r.id = req[c].ref /\ s.id = r.schema /\ s.database # database

Go(c, next) == pc' = [pc EXCEPT ![c] = next]

End(c) ==
    /\ Go(c, "idle")
    /\ req' = [req EXCEPT ![c] = NoRequest]
-----------------------------------------------------------------------------
\* The transactions and statements on the catalog

\* One transaction; the PUBLIC schema is inserted after it.
InsertDatabase ==
    /\ database = 0 /\ last.database < MaxDatabase
    /\ database' = last.database + 1
    /\ last' = [last EXCEPT !.database = @ + 1]
    /\ UNCHANGED <<schemas, tables, storage>>

\* UNIQUE(database_id, name); nothing asks whether the database is still there.
InsertSchema(db, s) ==
    /\ last.schema < MaxSchema
    /\ ~\E r \in schemas : r.database = db /\ r.name = s
    /\ schemas' = schemas \cup {[id |-> last.schema + 1, database |-> db, name |-> s]}
    /\ last' = [last EXCEPT !.schema = @ + 1]
    /\ UNCHANGED <<database, tables, storage>>

\* Mutant for DropDatabaseTx: DuckDB's schema is left.
DropDatabaseRow(db) ==
    /\ database = db
    /\ database' = 0
    /\ UNCHANGED <<schemas, tables, storage, last>>

\* DROP SCHEMA ... CASCADE in DuckDB and the database's row; the rows of its
\* schemas and tables stay.
DropDatabaseTx(db) ==
    /\ database = db
    /\ database' = 0
    /\ storage' = [p \in PhysicalNames |-> "none"]
    /\ UNCHANGED <<schemas, tables, last>>

\* The rows of the schema and its tables; their objects stay.
DropSchemaTx(s) ==
    /\ \E r \in schemas : r.id = s /\ schemas' = schemas \ {r}
    /\ tables' = {r \in tables : r.schema # s}
    /\ UNCHANGED <<database, storage, last>>

\* CREATE TABLE IF NOT EXISTS, which leaves an object of either kind alone, and
\* the new row; a second row is refused.
CreateTableTx(s, t, p) ==
    /\ database # 0
    /\ last.table < MaxTable
    /\ ~\E r \in tables : r.schema = s /\ r.name = t
    /\ storage' = [storage EXCEPT ![p] = IF @ = "none" THEN "table" ELSE @]
    /\ tables' = tables \cup {[id |-> last.table + 1, schema |-> s, name |-> t, kind |-> "table"]}
    /\ last' = [last EXCEPT !.table = @ + 1]
    /\ UNCHANGED <<database, schemas>>

\* Mutant for DropTableTx: the row that was not there is no error.
DropTableUnchecked(id, p) ==
    /\ storage[p] # "view"
    /\ storage' = [storage EXCEPT ![p] = "none"]
    /\ tables' = {r \in tables : r.id # id}
    /\ UNCHANGED <<database, schemas, last>>

\* DROP TABLE IF EXISTS by name and the row by id; without the row the
\* transaction is rolled back.
DropTableTx(id, p) ==
    /\ storage[p] # "view"
    /\ storage' = [storage EXCEPT ![p] = "none"]
    /\ \E r \in tables : r.id = id /\ tables' = tables \ {r}
    /\ UNCHANGED <<database, schemas, last>>

\* An upsert: a row of that name keeps its id.
RegisterTable(s, t, k) ==
    LET old == {r \in tables : r.schema = s /\ r.name = t}
    IN  /\ IF old # {}
           THEN /\ tables' = (tables \ old) \cup {[r EXCEPT !.kind = k] : r \in old}
                /\ UNCHANGED last
           ELSE /\ last.table < MaxTable
                /\ tables' = tables \cup {[id |-> last.table + 1, schema |-> s, name |-> t, kind |-> k]}
                /\ last' = [last EXCEPT !.table = @ + 1]
        /\ UNCHANGED <<database, schemas, storage>>

DeleteTableMetadata(s, t) ==
    /\ tables' = tables \ TableRows(s, t)
    /\ UNCHANGED <<database, schemas, storage, last>>
-----------------------------------------------------------------------------
\* Requests

\* The rows a request asks for by name, and, by id, those they belong to.
Found(q) ==
    CASE q.op = "create database"                    -> IF database = 0 THEN {0} ELSE {}
      [] q.op \in {"drop database", "create schema"} -> {database} \ {0}
      [] q.op \in {"drop schema", "post table"}      -> {r.id : r \in SchemaRows(q.schema)}
      [] q.op = "delete table" ->
            {r.id : r \in {x \in TableRows(q.schema, q.table) : x.kind = "table"}}
      [] OTHER -> {0 : r \in SchemaRows(q.schema)}

\* A request arrives and looks its rows up; if they are not there it ends.
Lookup(c, o, s, t, k) ==
    LET q == [op |-> o, schema |-> s, table |-> t, kind |-> k, ref |-> 0] IN
    /\ server = "up" /\ pc[c] = "idle" /\ Cardinality(torn) <= MaxTorn
    /\ \E id \in Found(q) : req' = [req EXCEPT ![c] = [q EXCEPT !.ref = id]]
    /\ Go(c, "exec")
    /\ UNCHANGED <<dbVars, server, torn>>

CreateDatabase(c) ==
    /\ pc[c] = "exec" /\ req[c].op = "create database"
    /\ InsertDatabase
    /\ req' = [req EXCEPT ![c].ref = database', ![c].schema = DefaultSchema]
    /\ Go(c, "public")
    /\ UNCHANGED <<server, torn>>

CreateSchema(c) ==
    /\ pc[c] = "public" \/ (pc[c] = "exec" /\ req[c].op = "create schema")
    /\ InsertSchema(req[c].ref, req[c].schema)
    /\ End(c)
    /\ UNCHANGED <<server, torn>>

DropDatabase(c) ==
    /\ pc[c] = "exec" /\ req[c].op = "drop database"
    /\ DropDatabaseTx(req[c].ref)
    /\ torn' = torn \cup {p \in PhysicalNames : Overlapped(c, p)}
    /\ End(c)
    /\ UNCHANGED server

DropSchema(c) ==
    /\ pc[c] = "exec" /\ req[c].op = "drop schema"
    /\ DropSchemaTx(req[c].ref)
    /\ torn' = torn \cup {p \in PhysicalNames : Overlapped(c, p)}
    /\ End(c)
    /\ UNCHANGED server

CreateTable(c) ==
    /\ pc[c] = "exec" /\ req[c].op = "post table"
    /\ CreateTableTx(req[c].ref, req[c].table, Physical(c))
    /\ Touch(c, Physical(c))
    /\ End(c)
    /\ UNCHANGED server

DropTable(c) ==
    /\ pc[c] = "exec" /\ req[c].op = "delete table"
    /\ DropTableTx(req[c].ref, Physical(c))
    /\ IF Outlived(c) THEN torn' = torn \cup {Physical(c)} ELSE Touch(c, Physical(c))
    /\ End(c)
    /\ UNCHANGED server

\* The DuckDB half of CREATE [OR REPLACE] and DROP [IF EXISTS], which refuse an
\* object of the other kind.  CREATE TABLE IF NOT EXISTS leaves a view alone,
\* and goes on.
ExecPhysical(c) ==
    LET p == Physical(c) IN
    /\ pc[c] = "exec" /\ req[c].op \in SQLOps
    /\ database # 0
    /\ \/ /\ storage[p] \in {"none", req[c].kind}
          /\ storage' = [storage EXCEPT ![p] = IF req[c].op = "create" THEN req[c].kind ELSE "none"]
       \/ /\ req[c].op = "create" /\ req[c].kind = "table" /\ storage[p] = "view"
          /\ UNCHANGED storage
    /\ Touch(c, p)
    /\ Go(c, IF req[c].op = "create" THEN "describe" ELSE "unregister")
    /\ UNCHANGED <<database, schemas, tables, last, server, req>>

\* The names are resolved again, and the object's columns read.
DescribePhysicalTable(c) ==
    /\ pc[c] = "describe"
    /\ storage[Physical(c)] # "none"
    /\ \E r \in SchemaRows(req[c].schema) : req' = [req EXCEPT ![c].ref = r.id]
    /\ Go(c, "register")
    /\ UNCHANGED <<dbVars, server, torn>>

RegisterSQLTable(c) ==
    /\ pc[c] = "register"
    /\ RegisterTable(req[c].ref, req[c].table, req[c].kind)
    /\ Touch(c, Physical(c))
    /\ End(c)
    /\ UNCHANGED server

UnregisterSQLTable(c) ==
    /\ pc[c] = "unregister"
    /\ SchemaRows(req[c].schema) # {}
    /\ DeleteTableMetadata(req[c].schema, req[c].table)
    /\ Touch(c, Physical(c))
    /\ End(c)
    /\ UNCHANGED server

\* Any call fails, or finds nothing, or is left out for a name that was given in
\* its physical form; what earlier calls did stays.
Fail(c) ==
    /\ pc[c] # "idle"
    /\ torn' = IF HalfDone(c) THEN torn \cup {Physical(c)} ELSE torn
    /\ End(c)
    /\ UNCHANGED <<dbVars, server>>

\* ALTER ... RENAME TO of object p, which is passed on to DuckDB: no row follows
\* it, and what was looked up for it decides only whether it runs.  The new name
\* is taken as it is, and is another physical name only if given in that form.
Rename(p) ==
    /\ server = "up" /\ storage[p] # "none" /\ Cardinality(torn) < MaxTorn
    /\ \/ /\ storage' = [storage EXCEPT ![p] = "none"]
          /\ torn' = torn \cup {p}
       \/ \E q \in PhysicalNames :
             /\ storage[q] = "none"
             /\ storage' = [storage EXCEPT ![p] = "none", ![q] = storage[p]]
             /\ torn' = torn \cup {p} \cup {n \in {q} : Busy(n)}
    /\ UNCHANGED <<database, schemas, tables, last, server, clientVars>>
-----------------------------------------------------------------------------
\* The process dies, in the middle of its start too, and starts again:
\* EnsureDefaultNamespace.

Crash ==
    /\ server' = "down"
    /\ torn' = torn \cup {Physical(c) : c \in {d \in Clients : HalfDone(d)}}
    /\ pc' = [c \in Clients |-> "idle"]
    /\ req' = [c \in Clients |-> NoRequest]
    /\ UNCHANGED dbVars

EnsureDatabase ==
    /\ server = "down"
    /\ \/ database # 0 /\ server' = "schema" /\ UNCHANGED dbVars
       \/ InsertDatabase /\ server' = "public"
    /\ UNCHANGED <<clientVars, torn>>

CreatePublic ==
    /\ server = "public"
    /\ InsertSchema(database, DefaultSchema)
    /\ server' = "schema"
    /\ UNCHANGED <<clientVars, torn>>

\* Mutant for EnsureSchema: a database that is there has its schema.
TrustDatabase ==
    /\ server = "schema"
    /\ server' = "up"
    /\ UNCHANGED <<dbVars, clientVars, torn>>

EnsureSchema ==
    /\ server = "schema"
    /\ \/ SchemaRows(DefaultSchema) # {} /\ UNCHANGED dbVars
       \/ InsertSchema(database, DefaultSchema)
    /\ server' = "up"
    /\ UNCHANGED <<clientVars, torn>>
-----------------------------------------------------------------------------
Init ==
    /\ database = 0
    /\ schemas = {} /\ tables = {}
    /\ storage = [p \in PhysicalNames |-> "none"]
    /\ last = [database |-> 0, schema |-> 0, table |-> 0]
    /\ server = "down"
    /\ pc = [c \in Clients |-> "idle"]
    /\ req = [c \in Clients |-> NoRequest]
    /\ torn = {}

Request(c) ==
    \/ \E o \in DatabaseOps : Lookup(c, o, DefaultSchema, <<>>, "table")
    \/ \E o \in SchemaOps, s \in Schemas : Lookup(c, o, s, <<>>, "table")
    \/ \E o \in RESTOps, s \in Schemas, t \in Tables : Lookup(c, o, s, t, "table")
    \/ \E o \in SQLOps, s \in Schemas, t \in Tables, k \in Kinds : Lookup(c, o, s, t, k)

Next ==
    \/ Crash
    \/ EnsureDatabase
    \/ CreatePublic
    \/ EnsureSchema
    \/ \E p \in PhysicalNames : Rename(p)
    \/ \E c \in Clients :
          \/ Request(c)
          \/ CreateDatabase(c)
          \/ CreateSchema(c)
          \/ DropDatabase(c)
          \/ DropSchema(c)
          \/ CreateTable(c)
          \/ DropTable(c)
          \/ ExecPhysical(c)
          \/ DescribePhysicalTable(c)
          \/ RegisterSQLTable(c)
          \/ UnregisterSQLTable(c)
          \/ Fail(c)

Spec == Init /\ [][Next]_vars
-----------------------------------------------------------------------------
\* The types of the variables; ids are given once, a schema has one row for a
\* table name, and without a database DuckDB holds nothing.
TypeOK ==
    /\ database \in 0 .. last.database
    /\ \A r \in schemas : r.id \in 1 .. last.schema /\ r.database \in 1 .. last.database
    /\ \A r \in tables : r.id \in 1 .. last.table /\ r.schema \in 1 .. last.schema /\ r.kind \in Kinds
    /\ \A r, q \in schemas : r # q => r.id # q.id /\ <<r.database, r.name>> # <<q.database, q.name>>
    /\ \A r, q \in tables : r # q => r.id # q.id /\ <<r.schema, r.name>> # <<q.schema, q.name>>
    /\ storage \in [PhysicalNames -> Kinds \cup {"none"}]
    /\ database = 0 => \A p \in PhysicalNames : storage[p] = "none"
    /\ \A c \in Clients : (req[c] = NoRequest) <=> (pc[c] = "idle")
    /\ torn \subseteq PhysicalNames

\* The object is one that a row of this kind may be about.  A table's row may be
\* about a view, which CREATE TABLE IF NOT EXISTS leaves alone and registers.
Behind(object, kind) == object # "none" /\ (kind = "view" => object = "view")

\* A table or view that can be named has its object, and a view's is a view:
\* whatever REST requests and SQL statements on it, its schema and its database
\* interleave, except where a SQL statement was cut in half by a failure or
\* another request, the object was renamed, or a deletion came late: after its
\* database had been dropped and created again.
RowHasStorage ==
    \A s \in Schemas, t \in Tables : \A r \in TableRows(s, t) :
        LET p == PhysicalName(s, t)
        IN  p \notin torn /\ ~Busy(p) => Behind(storage[p], r.kind)

\* The same with the object of the row's kind.
KindMatches ==
    \A s \in Schemas, t \in Tables : \A r \in TableRows(s, t) :
        LET p == PhysicalName(s, t)
        IN  p \notin torn /\ ~Busy(p) => storage[p] = r.kind

\* "A fresh emulator must actually contain" the namespace of the quickstart
\* (repository.go:224): a start ends with it, even after a crash in the middle
\* of creating it.
DefaultNamespace ==
    [][server # "up" /\ server' = "up" => (database # 0 /\ SchemaRows(DefaultSchema) # {})']_vars

\* "DropSchema deletes a schema and all its tables" (repository.go:844): no
\* object of it is there when a schema of that name is created again.
NewSchemaIsEmpty ==
    [][\A c \in Clients : CreateSchema(c) =>
          \A t \in Tables : storage[PhysicalName(req[c].schema, t)] = "none"]_vars
=============================================================================
