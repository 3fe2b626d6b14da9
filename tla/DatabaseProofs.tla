--------------------------- MODULE DatabaseProofs ---------------------------
(***************************************************************************)
(* The safety of the connection manager for every pool size and every set  *)
(* of clients: no connection is leaked or held twice, writes are           *)
(* serialized, and the lock order is the only way to hang.  Where the      *)
(* clients are, what they hold and who has the mutex determine each other  *)
(* (Shape); that and the bound of the pool are inductive.                  *)
(*                                                                         *)
(* Then the safety of the catalog behind it, for any names: rows and       *)
(* objects agree wherever no statement was cut in half.  The catalog is an *)
(* instance, for it has a control state of its own.                        *)
(***************************************************************************)
EXTENDS Connection, FiniteSetTheorems, TLAPS

\* A pinned client never waits for a connection: its calls use its own.
PinnedNeverWaits ==
    \A c \in Clients : pinned[c] => pc[c] \in {"idle", "reading", "lock", "writing"}

\* database/sql never opens more than MaxOpenConns connections.
PoolBounded == Cardinality(InUse) <= MaxOpenConns

Shape == TypeOK /\ ConnectionAccounting /\ WritesSerialized /\ PinnedNeverWaits

CInv == Shape /\ PoolBounded
-----------------------------------------------------------------------------
\* The initial state has the shape: nobody is in a call and nothing is held.
LEMMA InitShape == Init => Shape
  BY ClientsAssumption DEF Init, Shape, TypeOK, ConnectionAccounting, WritesSerialized,
                           PinnedNeverWaits, PCs

\* Every operation keeps the shape: it moves one client and takes or returns
\* exactly what its new place requires.
LEMMA NextShape == Shape /\ [Next]_vars => Shape'
<1> SUFFICES ASSUME Shape, [Next]_vars
             PROVE  Shape'
  OBVIOUS
<1> USE ClientsAssumption
<1>1. CASE UNCHANGED vars
  BY <1>1 DEF Shape, TypeOK, ConnectionAccounting, WritesSerialized, PinnedNeverWaits, vars
<1>2. ASSUME NEW c \in Clients,
             \/ WithConnection(c) \/ Pin(c) \/ Unpin(c) \/ Query(c) \/ Read(c)
             \/ CloseRows(c) \/ Exec(c) \/ Lock(c) \/ Write(c) \/ Finish(c) \/ Cancel(c)
      PROVE  Shape'
  <2>1. CASE WithConnection(c)
    BY <2>1 DEF Shape, TypeOK, ConnectionAccounting, WritesSerialized, PinnedNeverWaits,
            PCs, Goto, WithConnection
  <2>2. CASE Pin(c)
    BY <2>2 DEF Shape, TypeOK, ConnectionAccounting, WritesSerialized, PinnedNeverWaits,
            PCs, Goto, Pin, checkout
  <2>3. CASE Unpin(c)
    BY <2>3 DEF Shape, TypeOK, ConnectionAccounting, WritesSerialized, PinnedNeverWaits,
            PCs, Goto, Unpin
  <2>4. CASE Query(c)
    BY <2>4 DEF Shape, TypeOK, ConnectionAccounting, WritesSerialized, PinnedNeverWaits,
            PCs, Goto, Query
  <2>5. CASE Read(c)
    BY <2>5 DEF Shape, TypeOK, ConnectionAccounting, WritesSerialized, PinnedNeverWaits,
            PCs, Goto, Read, checkout
  <2>6. CASE CloseRows(c)
    BY <2>6 DEF Shape, TypeOK, ConnectionAccounting, WritesSerialized, PinnedNeverWaits,
            PCs, Goto, CloseRows, giveBack
  <2>7. CASE Exec(c)
    BY <2>7 DEF Shape, TypeOK, ConnectionAccounting, WritesSerialized, PinnedNeverWaits,
            PCs, Goto, Exec
  <2>8. CASE Lock(c)
    BY <2>8 DEF Shape, TypeOK, ConnectionAccounting, WritesSerialized, PinnedNeverWaits,
            PCs, Goto, Lock
  <2>9. CASE Write(c)
    BY <2>9 DEF Shape, TypeOK, ConnectionAccounting, WritesSerialized, PinnedNeverWaits,
            PCs, Goto, Write, checkout
  <2>10. CASE Finish(c)
    BY <2>10 DEF Shape, TypeOK, ConnectionAccounting, WritesSerialized, PinnedNeverWaits,
            PCs, Goto, Finish, giveBack
  <2>11. CASE Cancel(c)
    BY <2>11 DEF Shape, TypeOK, ConnectionAccounting, WritesSerialized, PinnedNeverWaits,
            PCs, Goto, Cancel
  <2> QED
    BY <1>2, <2>1, <2>2, <2>3, <2>4, <2>5, <2>6, <2>7, <2>8, <2>9, <2>10, <2>11
<1> QED
  BY <1>1, <1>2 DEF Next

\* The connections in use are finitely many, and fewer clients use fewer.
LEMMA InUseFinite ==
    /\ IsFiniteSet(InUse)
    /\ Cardinality(InUse) \in Nat
    /\ \A S \in SUBSET InUse : Cardinality(S) \in Nat /\ Cardinality(S) <= Cardinality(InUse)
<1>1. InUse \subseteq Clients
  BY DEF InUse
<1>2. IsFiniteSet(InUse)
  BY <1>1, ClientsAssumption, FS_Subset
<1> QED
  BY <1>2, FS_CardinalityType, FS_Subset

\* A step checks out at most one connection, and only below the bound.
LEMMA NextInUse ==
    ASSUME Shape, [Next]_vars
    PROVE  \/ InUse' \subseteq InUse
           \/ Cardinality(InUse) < MaxOpenConns /\ \E c \in Clients : InUse' \subseteq InUse \cup {c}
<1>1. CASE UNCHANGED vars
  BY <1>1 DEF vars, InUse
<1>2. ASSUME NEW c \in Clients, WithConnection(c) \/ Query(c) \/ Exec(c) \/ Lock(c) \/ Cancel(c)
      PROVE  InUse' \subseteq InUse
  <2>1. held' = held
    BY <1>2 DEF WithConnection, Query, Exec, Lock, Cancel
  <2> QED
    BY <2>1 DEF InUse
<1>3. ASSUME NEW c \in Clients, Unpin(c) \/ CloseRows(c) \/ Finish(c)
      PROVE  InUse' \subseteq InUse
  <2>1. held' = [held EXCEPT ![c] = held[c]] \/ held' = [held EXCEPT ![c] = held[c] - 1]
    BY <1>3 DEF Unpin, CloseRows, Finish, giveBack
  <2>2. \A d \in Clients : held[d] \in 0..1
    BY DEF Shape, TypeOK
  <2>3. \A d \in Clients : held'[d] > 0 => held[d] > 0
    BY <2>1, <2>2 DEF Shape, TypeOK
  <2> QED
    BY <2>3 DEF InUse
<1>4. ASSUME NEW c \in Clients, Pin(c) \/ Read(c) \/ Write(c)
      PROVE  Cardinality(InUse) < MaxOpenConns /\ InUse' \subseteq InUse \cup {c}
  <2>1. checkout(c)
    BY <1>4 DEF Pin, Read, Write
  <2>2. \A d \in Clients : d # c => held'[d] = held[d]
    BY <2>1 DEF checkout, Shape, TypeOK
  <2> QED
    BY <2>1, <2>2 DEF checkout, InUse
<1> QED
  BY <1>1, <1>2, <1>3, <1>4 DEF Next

\* So the bound on open connections is inductive.
LEMMA NextPoolBounded == Shape /\ PoolBounded /\ [Next]_vars => PoolBounded'
<1> SUFFICES ASSUME Shape, PoolBounded, [Next]_vars
             PROVE  Cardinality(InUse') <= MaxOpenConns
  BY DEF PoolBounded
<1>1. CASE InUse' \subseteq InUse
  BY <1>1, InUseFinite, PoolAssumption DEF PoolBounded
<1>2. ASSUME NEW c \in Clients,
             Cardinality(InUse) < MaxOpenConns, InUse' \subseteq InUse \cup {c}
      PROVE  Cardinality(InUse') <= MaxOpenConns
  <2>1. IsFiniteSet(InUse \cup {c}) /\ Cardinality(InUse \cup {c}) \in Nat
    BY InUseFinite, FS_AddElement, FS_CardinalityType
  <2>2. Cardinality(InUse \cup {c}) <= Cardinality(InUse) + 1
    BY InUseFinite, FS_AddElement
  <2>3. Cardinality(InUse') \in Nat /\ Cardinality(InUse') <= Cardinality(InUse \cup {c})
    BY <1>2, <2>1, FS_Subset, FS_CardinalityType
  <2> QED
    BY <1>2, <2>1, <2>2, <2>3, InUseFinite, PoolAssumption
<1> QED
  BY <1>1, <1>2, NextInUse

\* The inductive invariant of the connection manager.
THEOREM ConnectionInvariant == Spec => []CInv
<1>1. Init => CInv
  <2> SUFFICES ASSUME Init
               PROVE  PoolBounded
    BY InitShape DEF CInv
  <2>1. InUse = {}
    BY DEF Init, InUse
  <2> QED
    BY <2>1, FS_EmptySet, PoolAssumption DEF PoolBounded
<1>2. CInv /\ [Next]_vars => CInv'
  BY NextShape, NextPoolBounded DEF CInv
<1> QED
  BY <1>1, <1>2, PTL DEF Spec

\* The types of the manager (manager.go:17-26); a nested WithConnection never
\* takes a second connection (manager.go:62-71).
THEOREM ConnectionTypeOK == Spec => []TypeOK
<1>1. CInv => TypeOK
  BY DEF CInv, Shape
<1> QED
  BY <1>1, ConnectionInvariant, PTL

\* No call leaks its connection or holds two (manager.go:61-81, 86-118).
THEOREM ConnectionsAccounted == Spec => []ConnectionAccounting
<1>1. CInv => ConnectionAccounting
  BY DEF CInv, Shape
<1> QED
  BY <1>1, ConnectionInvariant, PTL

\* Writes are serialized across the pool and pinned connections, and the mutex
\* is held exactly during one (manager.go:13-16, 52-56, 86-88).
THEOREM ConnectionWritesSerialized == Spec => []WritesSerialized
<1>1. CInv => WritesSerialized
  BY DEF CInv, Shape
<1> QED
  BY <1>1, ConnectionInvariant, PTL

\* In the invariant, if somebody is in a call and nobody can go on, the mutex
\* is held by a write waiting for a connection, and pinned clients waiting for
\* the mutex hold all the connections.
LEMMA HangIsLockOrder == CInv => NoOtherDeadlock
<1> SUFFICES ASSUME CInv,
                    NEW b \in Clients, pc[b] # "idle",
                    ~ \E c \in Clients : CanGoOn(c)
             PROVE  LockOrderDeadlock
  BY DEF NoOtherDeadlock
<1>1. TypeOK /\ ConnectionAccounting /\ WritesSerialized /\ PinnedNeverWaits
  BY DEF CInv, Shape
<1>2. \A c \in Clients : ~CanGoOn(c)
  OBVIOUS
<1>3. \A c \in InUse : pinned[c] /\ pc[c] = "lock"
  <2> SUFFICES ASSUME NEW c \in Clients, held[c] > 0
               PROVE  pinned[c] /\ pc[c] = "lock"
    BY DEF InUse
  <2>1. pinned[c] \/ pc[c] \in {"reading", "writing"}
    BY <1>1 DEF ConnectionAccounting
  <2>2. pinned[c]
    BY <2>1, <1>2 DEF CanGoOn
  <2> QED
    BY <2>2, <1>1, <1>2 DEF PinnedNeverWaits, CanGoOn
<1>4. \A c \in Clients : pc[c] = "lock" => writeMu # None
  BY <1>2 DEF CanGoOn
<1>5. \A c \in Clients :
        pc[c] \in {"waitPin", "waitRead", "waitConn"} => Cardinality(InUse) = MaxOpenConns
  BY <1>2, InUseFinite, PoolAssumption DEF CanGoOn, CInv, PoolBounded
<1>6. writeMu # None
  <2> SUFFICES ASSUME pc[b] # "lock"
               PROVE  writeMu # None
    BY <1>4
  <2>1. pc[b] \in {"waitPin", "waitRead", "waitConn"}
    BY <1>1, <1>2 DEF TypeOK, PCs, CanGoOn
  <2>2. InUse # {}
    BY <2>1, <1>5, PoolAssumption, FS_EmptySet
  <2> QED
    BY <2>2, <1>3, <1>4 DEF InUse
<1>7. PICK w \in Clients : writeMu = w
  BY <1>1, <1>6 DEF TypeOK
<1>8. pc[w] = "waitConn"
  BY <1>1, <1>2, <1>7 DEF WritesSerialized, CanGoOn
<1> QED
  BY <1>3, <1>5, <1>7, <1>8 DEF LockOrderDeadlock

\* The lock order of manager.go:53-55 against 73-80 is the only way to hang,
\* for a pool of any size and any number of clients.
THEOREM ConnectionNoOtherDeadlock == Spec => []NoOtherDeadlock
BY HangIsLockOrder, ConnectionInvariant, PTL
-----------------------------------------------------------------------------
(***************************************************************************)
(* The catalog.  What is assumed of its constants is a hypothesis of its   *)
(* theorems.                                                               *)
(*                                                                         *)
(* A request works with ids it has looked up.  Ids are given once and rows *)
(* keep their names, so an id that is still there is that of the row that  *)
(* was found (Knows).  A SQL statement between its object and its row      *)
(* finds the object as it has left it, or is torn (Half, Apart).           *)
(***************************************************************************)
CONSTANTS Schemas, DefaultSchema, Tables, MaxDatabase, MaxSchema, MaxTable, MaxTorn

VARIABLES database, schemas, tables, storage, last, server, catPc, req, torn

K == INSTANCE Catalog WITH pc <- catPc

Places == {"idle", "exec", "public", "describe", "register", "unregister"}
AllOps == K!DatabaseOps \cup K!SchemaOps \cup K!SQLOps \cup K!RESTOps
AnyTable == Tables \cup {<<>>}
RequestRec == [op : AllOps, schema : Schemas, table : AnyTable, kind : K!Kinds, ref : Nat]
SchemaRec == [id : Nat, database : Nat, name : Schemas]
TableRec == [id : Nat, schema : Nat, name : Tables, kind : K!Kinds]

\* Two names of tables never give one name of an object: what CollidingNames
\* shows to be needed.
NamesDiffer ==
    \A s, u \in Schemas : \A t, v \in Tables :
        K!PhysicalName(s, t) = K!PhysicalName(u, v) => s = u /\ t = v

\* The rows, their ids and the objects.
DataType ==
    /\ last \in [database : Nat, schema : Nat, table : Nat]
    /\ database \in 0 .. last.database
    /\ schemas \subseteq SchemaRec /\ tables \subseteq TableRec
    /\ \A r \in schemas : r.id \in 1 .. last.schema /\ r.database \in 1 .. last.database
    /\ \A r \in tables : r.id \in 1 .. last.table /\ r.schema \in 1 .. last.schema
    /\ \A r \in schemas : \A q \in schemas :
          r.id = q.id \/ (r.database = q.database /\ r.name = q.name) => r = q
    /\ \A r \in tables : \A q \in tables :
          r.id = q.id \/ (r.schema = q.schema /\ r.name = q.name) => r = q
    /\ storage \in [K!PhysicalNames -> K!Kinds \cup {"none"}]
    /\ database = 0 => \A p \in K!PhysicalNames : storage[p] = "none"

\* A start ends before the first request, and has a database after its first step.
Starts ==
    /\ server \in {"down", "public", "schema", "up"}
    /\ server # "up" => \A c \in Clients : catPc[c] = "idle"
    /\ server \in {"public", "schema"} => database # 0

\* The id n is, or was, that of a schema s.
SchemaIs(n, s) == n \in 1 .. last.schema /\ \A r \in schemas : r.id = n => r.name = s

\* The id n is, or was, that of a table t of a schema s.
TableIs(n, s, t) ==
    /\ n \in 1 .. last.table
    /\ \A r \in tables : r.id = n => r.name = t /\ \E q \in schemas : q.id = r.schema /\ q.name = s

\* The request of c and what it says of the ids it has looked up.
Knows(c) ==
    /\ catPc[c] \in Places /\ req[c] \in RequestRec \cup {K!NoRequest}
    /\ req[c] = K!NoRequest <=> catPc[c] = "idle"
    /\ req[c].op \in K!SQLOps \cup K!RESTOps => req[c].table \in Tables
    /\ catPc[c] = "public" => req[c].op = "create database"
    /\ catPc[c] \in {"describe", "register"} => req[c].op = "create"
    /\ catPc[c] = "unregister" => req[c].op = "drop"
    /\ catPc[c] = "public" \/ req[c].op = "create schema" => req[c].ref \in 1 .. last.database
    /\ catPc[c] = "register" \/ req[c].op = "post table" => SchemaIs(req[c].ref, req[c].schema)
    /\ req[c].op = "delete table" => TableIs(req[c].ref, req[c].schema, req[c].table)

\* A statement half done, and not overtaken, finds the object it has left; and
\* the schema it has looked up again.
Half(c) ==
    K!HalfDone(c) /\ K!Physical(c) \notin torn =>
        /\ req[c].op = "create" => K!Behind(storage[K!Physical(c)], req[c].kind)
        /\ catPc[c] = "register" => \E q \in K!SchemaRows(req[c].schema) : q.id = req[c].ref

\* Two statements half done on one object have overtaken each other.
Apart ==
    \A c \in Clients : \A d \in Clients \ {c} :
        K!HalfDone(c) /\ K!HalfDone(d) /\ K!Physical(c) = K!Physical(d) => K!Physical(c) \in torn

\* The inductive invariant.
KInv ==
    /\ K!CatalogAssumption
    /\ DataType /\ Starts /\ torn \subseteq K!PhysicalNames
    /\ catPc \in [Clients -> Places] /\ req \in [Clients -> RequestRec \cup {K!NoRequest}]
    /\ \A c \in Clients : Knows(c) /\ Half(c)
    /\ Apart /\ (NamesDiffer => K!RowHasStorage)

\* What is assumed of the default schema.
LEMMA DefaultNamed ==
    ASSUME KInv
    PROVE  DefaultSchema \in Schemas
  BY DEF KInv, K!CatalogAssumption
-----------------------------------------------------------------------------
(***************************************************************************)
(* The transactions: ids are given once, and rows keep their names.        *)
(***************************************************************************)

\* What every transaction does to ids and rows.
DataStep ==
    /\ last'.database >= last.database /\ last'.schema >= last.schema /\ last'.table >= last.table
    /\ \A r \in schemas' : r \in schemas \/ r.id = last.schema + 1
    /\ \A r \in tables' : \/ \E x \in tables : x.id = r.id /\ x.name = r.name /\ x.schema = r.schema
                          \/ r.id = last.table + 1
    /\ \A q \in schemas : q \in schemas' \/ \A r \in tables' : r.schema # q.id

\* The three counters.
Counts == [database : Nat, schema : Nat, table : Nat]

LEMMA Counters ==
    ASSUME DataType
    PROVE  /\ last.database \in Nat /\ last.schema \in Nat /\ last.table \in Nat
           /\ \A n \in Nat : /\ [last EXCEPT !.database = n].database = n
                             /\ [last EXCEPT !.database = n].schema = last.schema
                             /\ [last EXCEPT !.database = n].table = last.table
                             /\ [last EXCEPT !.schema = n].database = last.database
                             /\ [last EXCEPT !.schema = n].schema = n
                             /\ [last EXCEPT !.schema = n].table = last.table
                             /\ [last EXCEPT !.table = n].database = last.database
                             /\ [last EXCEPT !.table = n].schema = last.schema
                             /\ [last EXCEPT !.table = n].table = n
                             /\ [last EXCEPT !.database = n] \in Counts
                             /\ [last EXCEPT !.schema = n] \in Counts
                             /\ [last EXCEPT !.table = n] \in Counts
  BY DEF DataType, Counts

\* A database that is there has an id that was given.
LEMMA NotZero == \A n \in Nat : \A d \in 0 .. n : d # 0 => d \in 1 .. n
  OBVIOUS

\* Who changes no row keeps the types.
LEMMA DataStays ==
    ASSUME DataType, UNCHANGED K!dbVars
    PROVE  DataType' /\ DataStep
<1>1. UNCHANGED <<database, schemas, tables, storage, last>>
  BY DEF K!dbVars
<1>2. last.database \in Nat /\ last.schema \in Nat /\ last.table \in Nat
  BY Counters
<1> QED
  BY <1>1, <1>2 DEF DataType, DataStep

\* The new database has no schema and no table yet.
LEMMA InsertDatabaseOK ==
    ASSUME DataType, K!InsertDatabase
    PROVE  /\ DataType' /\ DataStep /\ database' # 0 /\ database' = last'.database
           /\ \A s, t : K!TableRows(s, t)' = {}
<1>1. PICK n : n = last.database + 1
  OBVIOUS
<1>2. /\ database = 0 /\ database' = n /\ last' = [last EXCEPT !.database = n]
      /\ UNCHANGED <<schemas, tables, storage>>
  BY <1>1 DEF K!InsertDatabase
<1>3. /\ last.database \in Nat /\ last.schema \in Nat /\ last.table \in Nat
      /\ n \in Nat /\ n > last.database
  BY <1>1, Counters
<1>4. /\ last'.database = n /\ last'.schema = last.schema /\ last'.table = last.table
      /\ last' \in Counts
  BY <1>2, <1>3, Counters
<1>5. \A r \in schemas' : r.database \in 1 .. last'.database /\ r.database # database'
  BY <1>2, <1>3, <1>4 DEF DataType
<1>6. DataType'
  <2>1. database' \in 0 .. last'.database /\ database' # 0
    BY <1>1, <1>2, <1>3, <1>4
  <2> QED
    BY <1>2, <1>4, <1>5, <2>1 DEF DataType
<1>7. DataStep
  BY <1>2, <1>3, <1>4 DEF DataStep
<1>8. ASSUME NEW s, NEW t PROVE K!TableRows(s, t)' = {}
  BY <1>5 DEF K!TableRows, K!SchemaRows
<1> QED
  BY <1>1, <1>2, <1>3, <1>4, <1>6, <1>7, <1>8

\* The new schema has no table yet.
LEMMA InsertSchemaOK ==
    ASSUME DataType, NEW db \in 1 .. last.database, NEW s \in Schemas, K!InsertSchema(db, s)
    PROVE  /\ DataType' /\ DataStep /\ schemas \subseteq schemas'
           /\ UNCHANGED <<database, tables, storage>>
           /\ \A u, t : K!TableRows(u, t)' \subseteq K!TableRows(u, t)
<1>1. PICK n : n = last.schema + 1
  OBVIOUS
<1>2. PICK x : x = [id |-> n, database |-> db, name |-> s]
  OBVIOUS
<1>3. /\ ~\E r \in schemas : r.database = db /\ r.name = s
      /\ schemas' = schemas \cup {x} /\ last' = [last EXCEPT !.schema = n]
      /\ UNCHANGED <<database, tables, storage>>
  BY <1>1, <1>2 DEF K!InsertSchema
<1>4. /\ last.database \in Nat /\ last.schema \in Nat /\ last.table \in Nat
      /\ n \in Nat /\ n > last.schema
  BY <1>1, Counters
<1>5. /\ last'.database = last.database /\ last'.schema = n /\ last'.table = last.table
      /\ last' \in Counts
  BY <1>3, <1>4, Counters
<1>6. x \in SchemaRec /\ x.id = n /\ x.database = db /\ x.name = s
  BY <1>2, <1>4 DEF SchemaRec
<1>7. DataType'
  <2>1. schemas' \subseteq SchemaRec /\ tables' \subseteq TableRec
    BY <1>3, <1>6 DEF DataType
  <2>2. \A r \in schemas' : r.id \in 1 .. last'.schema /\ r.database \in 1 .. last'.database
    BY <1>1, <1>3, <1>4, <1>5, <1>6 DEF DataType
  <2>3. \A r \in tables' : r.id \in 1 .. last'.table /\ r.schema \in 1 .. last'.schema
    BY <1>1, <1>3, <1>4, <1>5 DEF DataType
  <2>4. \A r \in schemas : r.id # n
    BY <1>4 DEF DataType
  <2>5. \A r \in schemas' : \A q \in schemas' :
           r.id = q.id \/ (r.database = q.database /\ r.name = q.name) => r = q
    BY <1>3, <1>6, <2>4 DEF DataType
  <2> QED
    BY <1>3, <1>5, <2>1, <2>2, <2>3, <2>5 DEF DataType, Counts
<1>8. DataStep
  BY <1>1, <1>3, <1>4, <1>5, <1>6 DEF DataStep
<1>9. ASSUME NEW u, NEW t PROVE K!TableRows(u, t)' \subseteq K!TableRows(u, t)
  <2>1. \A r \in tables : r.schema # n
    BY <1>4 DEF DataType
  <2> QED
    BY <1>3, <1>6, <2>1 DEF K!TableRows, K!SchemaRows
<1> QED
  BY <1>3, <1>7, <1>8, <1>9

\* Without a database no table can be named.
LEMMA DropDatabaseTxOK ==
    ASSUME DataType, NEW db, K!DropDatabaseTx(db)
    PROVE  DataType' /\ DataStep /\ \A s, t : K!TableRows(s, t)' = {}
<1>1. /\ database' = 0 /\ storage' = [p \in K!PhysicalNames |-> "none"]
      /\ UNCHANGED <<schemas, tables, last>>
  BY DEF K!DropDatabaseTx
<1>2. last.database \in Nat /\ last.schema \in Nat /\ last.table \in Nat
  BY Counters
<1>3. DataType'
  BY <1>1, <1>2 DEF DataType
<1>4. DataStep
  BY <1>1, <1>2 DEF DataStep
<1>5. ASSUME NEW s, NEW t PROVE K!TableRows(s, t)' = {}
  <2>1. \A r \in schemas' : r.database # database'
    BY <1>1, <1>2 DEF DataType
  <2> QED
    BY <2>1 DEF K!TableRows, K!SchemaRows
<1> QED
  BY <1>3, <1>4, <1>5

\* Rows go, and none that stays names a schema that went.
LEMMA DropSchemaTxOK ==
    ASSUME DataType, NEW n, K!DropSchemaTx(n)
    PROVE  /\ DataType' /\ DataStep /\ UNCHANGED <<database, storage>>
           /\ \A s, t : K!TableRows(s, t)' \subseteq K!TableRows(s, t)
<1>1. PICK q \in schemas : q.id = n /\ schemas' = schemas \ {q}
  BY DEF K!DropSchemaTx
<1>2. tables' = {r \in tables : r.schema # n} /\ UNCHANGED <<database, storage, last>>
  BY DEF K!DropSchemaTx
<1>3. last.database \in Nat /\ last.schema \in Nat /\ last.table \in Nat
  BY Counters
<1>4. DataType'
  BY <1>1, <1>2 DEF DataType
<1>5. DataStep
  BY <1>1, <1>2, <1>3 DEF DataStep
<1>6. ASSUME NEW s, NEW t PROVE K!TableRows(s, t)' \subseteq K!TableRows(s, t)
  BY <1>1, <1>2 DEF K!TableRows, K!SchemaRows
<1> QED
  BY <1>2, <1>4, <1>5, <1>6

\* The new row is of table t of schema s, if that schema is still there.
LEMMA CreateTableTxOK ==
    ASSUME DataType, NEW s \in Schemas, NEW t \in Tables, NEW n, SchemaIs(n, s),
           NEW p \in K!PhysicalNames, K!CreateTableTx(n, t, p)
    PROVE  /\ DataType' /\ DataStep /\ UNCHANGED <<database, schemas>>
           /\ storage'[p] = IF storage[p] = "none" THEN "table" ELSE storage[p]
           /\ \A o \in K!PhysicalNames \ {p} : storage'[o] = storage[o]
           /\ \A u, v : u # s \/ v # t => K!TableRows(u, v)' \subseteq K!TableRows(u, v)
           /\ \A r \in K!TableRows(s, t)' : r \in K!TableRows(s, t) \/ r.kind = "table"
<1>1. PICK i : i = last.table + 1
  OBVIOUS
<1>2. PICK x : x = [id |-> i, schema |-> n, name |-> t, kind |-> "table"]
  OBVIOUS
<1>3. /\ database # 0
      /\ ~\E r \in tables : r.schema = n /\ r.name = t
      /\ storage' = [storage EXCEPT ![p] = IF @ = "none" THEN "table" ELSE @]
      /\ tables' = tables \cup {x} /\ last' = [last EXCEPT !.table = i]
      /\ UNCHANGED <<database, schemas>>
  BY <1>1, <1>2 DEF K!CreateTableTx
<1>4. /\ last.database \in Nat /\ last.schema \in Nat /\ last.table \in Nat
      /\ i \in Nat /\ i > last.table
  BY <1>1, Counters
<1>5. /\ last'.database = last.database /\ last'.schema = last.schema /\ last'.table = i
      /\ last' \in Counts
  BY <1>3, <1>4, Counters
<1>6. n \in 1 .. last.schema /\ n \in Nat /\ \A r \in schemas : r.id = n => r.name = s
  BY <1>4 DEF SchemaIs
<1>7. x \in TableRec /\ x.id = i /\ x.schema = n /\ x.name = t /\ x.kind = "table"
  BY <1>2, <1>4, <1>6 DEF TableRec, K!Kinds
<1>8. /\ storage' \in [K!PhysicalNames -> K!Kinds \cup {"none"}]
      /\ storage'[p] = IF storage[p] = "none" THEN "table" ELSE storage[p]
      /\ \A o \in K!PhysicalNames \ {p} : storage'[o] = storage[o]
  BY <1>3 DEF DataType, K!Kinds
<1>9. DataType'
  <2>1. tables' \subseteq TableRec
    BY <1>3, <1>7 DEF DataType
  <2>2. \A r \in tables' : r.id \in 1 .. last'.table /\ r.schema \in 1 .. last'.schema
    BY <1>1, <1>3, <1>4, <1>5, <1>6, <1>7 DEF DataType
  <2>3. \A r \in tables : r.id # i
    BY <1>4 DEF DataType
  <2>4. \A r \in tables' : \A q \in tables' :
           r.id = q.id \/ (r.schema = q.schema /\ r.name = q.name) => r = q
    BY <1>3, <1>7, <2>3 DEF DataType
  <2> QED
    BY <1>3, <1>5, <1>8, <2>1, <2>2, <2>4 DEF DataType, Counts
<1>10. DataStep
  BY <1>1, <1>3, <1>4, <1>5, <1>7 DEF DataStep
<1>11. \A u, v : \A r \in K!TableRows(u, v)' : r \in K!TableRows(u, v) \/ (r = x /\ u = s /\ v = t)
  BY <1>3, <1>6, <1>7 DEF K!TableRows, K!SchemaRows
<1> QED
  BY <1>3, <1>7, <1>8, <1>9, <1>10, <1>11

\* One row goes, and one object.
LEMMA DropTableTxOK ==
    ASSUME DataType, NEW n, NEW p \in K!PhysicalNames, K!DropTableTx(n, p)
    PROVE  /\ DataType' /\ DataStep /\ UNCHANGED <<database, schemas>>
           /\ storage'[p] = "none" /\ \A o \in K!PhysicalNames \ {p} : storage'[o] = storage[o]
           /\ \E r \in tables : r.id = n /\ tables' = tables \ {r}
           /\ \A u, v : K!TableRows(u, v)' \subseteq K!TableRows(u, v)
<1>1. PICK x \in tables : x.id = n /\ tables' = tables \ {x}
  BY DEF K!DropTableTx
<1>2. storage' = [storage EXCEPT ![p] = "none"] /\ UNCHANGED <<database, schemas, last>>
  BY DEF K!DropTableTx
<1>3. last.database \in Nat /\ last.schema \in Nat /\ last.table \in Nat
  BY Counters
<1>4. DataType'
  BY <1>1, <1>2 DEF DataType
<1>5. DataStep
  BY <1>1, <1>2, <1>3 DEF DataStep
<1>6. ASSUME NEW u, NEW v PROVE K!TableRows(u, v)' \subseteq K!TableRows(u, v)
  BY <1>1, <1>2 DEF K!TableRows, K!SchemaRows
<1> QED
  BY <1>1, <1>2, <1>4, <1>5, <1>6 DEF DataType

\* An upsert changes rows of table t of schema s only, if that schema is there.
LEMMA RegisterTableOK ==
    ASSUME DataType, NEW s \in Schemas, NEW t \in Tables, NEW n, SchemaIs(n, s), NEW k \in K!Kinds,
           K!RegisterTable(n, t, k)
    PROVE  /\ DataType' /\ DataStep /\ UNCHANGED <<database, schemas, storage>>
           /\ \A u, v : u # s \/ v # t => K!TableRows(u, v)' \subseteq K!TableRows(u, v)
           /\ \A r \in tables' : r.schema = n /\ r.name = t => r.kind = k
<1>1. PICK old : old = {r \in tables : r.schema = n /\ r.name = t}
  OBVIOUS
<1>2. UNCHANGED <<database, schemas, storage>>
  BY DEF K!RegisterTable
<1>3. last.database \in Nat /\ last.schema \in Nat /\ last.table \in Nat
  BY Counters
<1>4. n \in 1 .. last.schema /\ n \in Nat /\ \A r \in schemas : r.id = n => r.name = s
  BY <1>3 DEF SchemaIs
<1>5. CASE old # {}
  <2>1. tables' = (tables \ old) \cup {[r EXCEPT !.kind = k] : r \in old} /\ UNCHANGED last
    BY <1>1, <1>5 DEF K!RegisterTable
  <2>2. PICK x \in tables : x.schema = n /\ x.name = t
    BY <1>1, <1>5
  <2>3. old = {x}
    BY <1>1, <2>2 DEF DataType
  <2>4. PICK y : y = [x EXCEPT !.kind = k]
    OBVIOUS
  <2>5. x \in TableRec
    BY DEF DataType
  <2>6. y \in TableRec /\ y.id = x.id /\ y.schema = n /\ y.name = t /\ y.kind = k
    BY <2>2, <2>4, <2>5 DEF TableRec
  <2>7. tables' = (tables \ {x}) \cup {y}
    BY <2>1, <2>3, <2>4
  <2>8. DataType'
    <3>1. tables' \subseteq TableRec
      BY <2>6, <2>7 DEF DataType
    <3>2. \A r \in tables' : r.id \in 1 .. last'.table /\ r.schema \in 1 .. last'.schema
      BY <2>1, <2>2, <2>6, <2>7 DEF DataType
    <3>3. \A r \in tables' : \A q \in tables' :
             r.id = q.id \/ (r.schema = q.schema /\ r.name = q.name) => r = q
      BY <2>2, <2>6, <2>7 DEF DataType
    <3> QED
      BY <1>2, <2>1, <3>1, <3>2, <3>3 DEF DataType
  <2>9. DataStep
    BY <1>2, <1>3, <2>1, <2>2, <2>6, <2>7 DEF DataStep
  <2>10. \A u, v : u # s \/ v # t => K!TableRows(u, v)' \subseteq K!TableRows(u, v)
    BY <1>2, <1>4, <2>6, <2>7 DEF K!TableRows, K!SchemaRows
  <2>11. \A r \in tables' : r.schema = n /\ r.name = t => r.kind = k
    BY <2>2, <2>6, <2>7 DEF DataType
  <2> QED
    BY <1>2, <2>8, <2>9, <2>10, <2>11
<1>6. CASE old = {}
  <2>1. PICK i : i = last.table + 1
    OBVIOUS
  <2>2. PICK x : x = [id |-> i, schema |-> n, name |-> t, kind |-> k]
    OBVIOUS
  <2>3. tables' = tables \cup {x} /\ last' = [last EXCEPT !.table = i]
    BY <1>1, <1>6, <2>1, <2>2 DEF K!RegisterTable
  <2>4. i \in Nat /\ i > last.table /\ \A r \in tables : ~(r.schema = n /\ r.name = t)
    BY <1>1, <1>3, <1>6, <2>1
  <2>5. /\ last'.database = last.database /\ last'.schema = last.schema /\ last'.table = i
        /\ last' \in Counts
    BY <2>3, <2>4, Counters
  <2>6. x \in TableRec /\ x.id = i /\ x.schema = n /\ x.name = t /\ x.kind = k
    BY <1>4, <2>2, <2>4 DEF TableRec
  <2>7. DataType'
    <3>1. tables' \subseteq TableRec
      BY <2>3, <2>6 DEF DataType
    <3>2. \A r \in tables' : r.id \in 1 .. last'.table /\ r.schema \in 1 .. last'.schema
      BY <1>3, <1>4, <2>1, <2>3, <2>5, <2>6 DEF DataType
    <3>3. \A r \in tables : r.id # i
      BY <1>3, <2>4 DEF DataType
    <3>4. \A r \in tables' : \A q \in tables' :
             r.id = q.id \/ (r.schema = q.schema /\ r.name = q.name) => r = q
      BY <2>3, <2>4, <2>6, <3>3 DEF DataType
    <3> QED
      BY <1>2, <2>5, <3>1, <3>2, <3>4 DEF DataType, Counts
  <2>8. DataStep
    BY <1>2, <1>3, <2>1, <2>3, <2>4, <2>5, <2>6 DEF DataStep
  <2>9. \A u, v : u # s \/ v # t => K!TableRows(u, v)' \subseteq K!TableRows(u, v)
    BY <1>2, <1>4, <2>3, <2>6 DEF K!TableRows, K!SchemaRows
  <2>10. \A r \in tables' : r.schema = n /\ r.name = t => r.kind = k
    BY <2>3, <2>4, <2>6
  <2> QED
    BY <1>2, <2>7, <2>8, <2>9, <2>10
<1> QED
  BY <1>5, <1>6

\* The rows of a name go.
LEMMA DeleteTableMetadataOK ==
    ASSUME DataType, NEW s, NEW t, K!DeleteTableMetadata(s, t)
    PROVE  /\ DataType' /\ DataStep /\ UNCHANGED <<database, schemas, storage>>
           /\ K!TableRows(s, t)' = {}
           /\ \A u, v : K!TableRows(u, v)' \subseteq K!TableRows(u, v)
<1>1. tables' = tables \ K!TableRows(s, t) /\ UNCHANGED <<database, schemas, storage, last>>
  BY DEF K!DeleteTableMetadata
<1>2. last.database \in Nat /\ last.schema \in Nat /\ last.table \in Nat
  BY Counters
<1>3. DataType'
  BY <1>1 DEF DataType
<1>4. DataStep
  BY <1>1, <1>2 DEF DataStep
<1>5. \A u, v : K!TableRows(u, v)' \subseteq K!TableRows(u, v)
  BY <1>1 DEF K!TableRows, K!SchemaRows
<1>6. K!TableRows(s, t)' = {}
  BY <1>1 DEF K!TableRows, K!SchemaRows
<1> QED
  BY <1>1, <1>3, <1>4, <1>5, <1>6
-----------------------------------------------------------------------------
(***************************************************************************)
(* The requests: what the others know and have half done.                  *)
(***************************************************************************)

\* The object of a request on a table.
LEMMA PhysicalOK ==
    ASSUME KInv, NEW c \in Clients, req[c].op \in K!SQLOps \cup K!RESTOps
    PROVE  /\ req[c].schema \in Schemas /\ req[c].table \in Tables /\ req[c].kind \in K!Kinds
           /\ K!Physical(c) = K!PhysicalName(req[c].schema, req[c].table)
           /\ K!Physical(c) \in K!PhysicalNames
<1>1. Knows(c)
  BY DEF KInv
<1>2. req[c] # K!NoRequest
  <2>1. K!NoRequest.op = "none"
    BY DEF K!NoRequest
  <2> QED
    BY <2>1 DEF K!SQLOps, K!RESTOps
<1>3. req[c] \in RequestRec /\ req[c].table \in Tables
  BY <1>1, <1>2 DEF Knows
<1> QED
  BY <1>3 DEF RequestRec, K!Physical, K!PhysicalNames

\* Half done are statements of SQL.
LEMMA HalfDoneIsSQL ==
    ASSUME KInv, NEW c \in Clients, K!HalfDone(c)
    PROVE  req[c].op \in K!SQLOps /\ K!Physical(c) \in K!PhysicalNames
<1>1. req[c].op \in K!SQLOps
  BY DEF KInv, Knows, K!HalfDone, K!SQLOps
<1> QED
  BY <1>1, PhysicalOK

\* A client keeps what it knows when others change the rows: no id is given
\* again, and a schema goes with its tables.
LEMMA OthersKnow ==
    ASSUME DataType, DataType', DataStep, NEW d \in Clients, Knows(d),
           catPc'[d] = catPc[d], req'[d] = req[d]
    PROVE  Knows(d)'
<1>1. /\ last.database \in Nat /\ last.schema \in Nat /\ last.table \in Nat
      /\ last'.database \in Nat /\ last'.schema \in Nat /\ last'.table \in Nat
  BY DEF DataType
<1>2. ASSUME NEW n, NEW s, SchemaIs(n, s) PROVE SchemaIs(n, s)'
  <2>1. n \in 1 .. last'.schema
    BY <1>1, <1>2 DEF DataStep, SchemaIs
  <2>2. \A r \in schemas' : r.id = n => r.name = s
    <3>1. n # last.schema + 1
      BY <1>1, <1>2 DEF SchemaIs
    <3> QED
      BY <1>2, <3>1 DEF DataStep, SchemaIs
  <2> QED
    BY <2>1, <2>2 DEF SchemaIs
<1>3. ASSUME NEW n, NEW s, NEW t, TableIs(n, s, t) PROVE TableIs(n, s, t)'
  <2>1. n \in 1 .. last'.table
    BY <1>1, <1>3 DEF DataStep, TableIs
  <2>2. ASSUME NEW r \in tables', r.id = n
        PROVE  r.name = t /\ \E q \in schemas' : q.id = r.schema /\ q.name = s
    <3>1. n # last.table + 1
      BY <1>1, <1>3 DEF TableIs
    <3>2. PICK x \in tables : x.id = n /\ x.name = r.name /\ x.schema = r.schema
      BY <2>2, <3>1 DEF DataStep
    <3>3. x.name = t /\ \E q \in schemas : q.id = x.schema /\ q.name = s
      BY <1>3, <3>2 DEF TableIs
    <3>4. PICK q \in schemas : q.id = x.schema /\ q.name = s
      BY <3>3
    <3>5. q \in schemas'
      BY <3>2, <3>4 DEF DataStep
    <3> QED
      BY <3>2, <3>3, <3>4, <3>5
  <2> QED
    BY <2>1, <2>2 DEF TableIs
<1>4. \A n \in 1 .. last.database : n \in 1 .. last'.database
  BY <1>1 DEF DataStep
<1>5. catPc[d] = "register" \/ req[d].op = "post table" => SchemaIs(req[d].ref, req[d].schema)'
  <2>1. catPc[d] = "register" \/ req[d].op = "post table" => SchemaIs(req[d].ref, req[d].schema)
    BY DEF Knows
  <2> QED
    BY <1>2, <2>1
<1>6. req[d].op = "delete table" => TableIs(req[d].ref, req[d].schema, req[d].table)'
  <2>1. req[d].op = "delete table" => TableIs(req[d].ref, req[d].schema, req[d].table)
    BY DEF Knows
  <2> QED
    BY <1>3, <2>1
<1> QED
  BY <1>4, <1>5, <1>6 DEF Knows

\* A statement half done is left alone, or overtaken.
LeftAlone(d) ==
    K!HalfDone(d) /\ K!Physical(d) \notin torn' =>
        /\ storage'[K!Physical(d)] = storage[K!Physical(d)]
        /\ catPc[d] = "register" => database' = database /\ schemas \subseteq schemas'

\* So what it has half done stays true,
LEMMA OthersHalf ==
    ASSUME NEW d \in Clients, Half(d), catPc'[d] = catPc[d], req'[d] = req[d],
           torn \subseteq torn', LeftAlone(d)
    PROVE  Half(d)'
<1>1. K!Physical(d)' = K!Physical(d) /\ K!HalfDone(d)' = K!HalfDone(d)
  BY DEF K!Physical, K!HalfDone
<1> QED
  BY <1>1 DEF Half, LeftAlone, K!SchemaRows, K!Behind

\* and two that meet on an object stay torn.
LEMMA OthersApart ==
    ASSUME Apart, NEW c \in Clients, torn \subseteq torn',
           \A d \in Clients \ {c} : catPc'[d] = catPc[d] /\ req'[d] = req[d],
           K!HalfDone(c)' => K!HalfDone(c) /\ K!Physical(c)' = K!Physical(c)
    PROVE  Apart'
<1>1. \A d \in Clients \ {c} : K!Physical(d)' = K!Physical(d) /\ K!HalfDone(d)' = K!HalfDone(d)
  BY DEF K!Physical, K!HalfDone
<1>2. ASSUME NEW a \in Clients, NEW b \in Clients \ {a},
             K!HalfDone(a)', K!HalfDone(b)', K!Physical(a)' = K!Physical(b)'
      PROVE  K!Physical(a)' \in torn'
  <2>1. /\ K!HalfDone(a) /\ K!Physical(a)' = K!Physical(a)
        /\ K!HalfDone(b) /\ K!Physical(b)' = K!Physical(b)
    BY <1>1, <1>2
  <2> QED
    BY <1>2, <2>1 DEF Apart
<1> QED
  BY <1>2 DEF Apart

\* The step of a request, all together.
LEMMA RequestStep ==
    ASSUME KInv, NEW c \in Clients, DataType', DataStep, Starts', torn \subseteq torn',
           torn' \subseteq K!PhysicalNames, catPc' \in [Clients -> Places],
           req' \in [Clients -> RequestRec \cup {K!NoRequest}],
           \A d \in Clients \ {c} : catPc'[d] = catPc[d] /\ req'[d] = req[d] /\ LeftAlone(d),
           Knows(c)', Half(c)', Apart', NamesDiffer => K!RowHasStorage'
    PROVE  KInv'
<1>1. ASSUME NEW d \in Clients \ {c} PROVE Knows(d)' /\ Half(d)'
  <2>1. Knows(d) /\ Half(d) /\ DataType
    BY DEF KInv
  <2> QED
    BY <2>1, OthersKnow, OthersHalf
<1> QED
  BY <1>1 DEF KInv

\* The end of a request.
LEMMA RequestEnds ==
    ASSUME KInv, NEW c \in Clients, catPc[c] # "idle", K!End(c), UNCHANGED server,
           DataType', DataStep,
           torn \subseteq torn', torn' \subseteq K!PhysicalNames,
           \A d \in Clients \ {c} : LeftAlone(d), NamesDiffer => K!RowHasStorage'
    PROVE  KInv'
<1>1. catPc' = [catPc EXCEPT ![c] = "idle"] /\ req' = [req EXCEPT ![c] = K!NoRequest]
  BY DEF K!End, K!Go
<1>2. catPc' \in [Clients -> Places] /\ req' \in [Clients -> RequestRec \cup {K!NoRequest}]
  BY <1>1 DEF KInv, Places
<1>3. /\ catPc'[c] = "idle" /\ req'[c] = K!NoRequest
      /\ \A d \in Clients \ {c} : catPc'[d] = catPc[d] /\ req'[d] = req[d]
  BY <1>1 DEF KInv
<1>4. Starts'
  BY DEF KInv, Starts
<1>5. ~K!HalfDone(c)'
  BY <1>3 DEF K!HalfDone
<1>6. Half(c)' /\ Apart'
  BY <1>3, <1>5, OthersApart DEF Half, KInv
<1>7. Knows(c)'
  <2>1. req'[c].op = "none"
    BY <1>3 DEF K!NoRequest
  <2> QED
    BY <1>3, <2>1 DEF Knows, Places, K!SQLOps, K!RESTOps
<1> QED
  BY <1>2, <1>3, <1>4, <1>6, <1>7, RequestStep

\* Rows that can still be named have their object, if it is as it was, or
\* as the step has left it.
LEMMA RowsKeepStorage ==
    ASSUME NamesDiffer, KInv, NEW c \in Clients, torn \subseteq torn',
           \A d \in Clients \ {c} : catPc'[d] = catPc[d] /\ req'[d] = req[d],
           \A s \in Schemas, t \in Tables : \A r \in K!TableRows(s, t)' :
               LET p == K!PhysicalName(s, t)
               IN  p \notin torn' /\ (\A d \in Clients : ~(K!HalfDone(d)' /\ K!Physical(d)' = p)) =>
                       \/ K!Behind(storage'[p], r.kind)
                       \/ /\ r \in K!TableRows(s, t) /\ storage'[p] = storage[p]
                          /\ ~(K!HalfDone(c) /\ K!Physical(c) = p)
    PROVE  K!RowHasStorage'
<1>1. \A d \in Clients \ {c} : K!Physical(d)' = K!Physical(d) /\ K!HalfDone(d)' = K!HalfDone(d)
  BY DEF K!Physical, K!HalfDone
<1>2. ASSUME NEW s \in Schemas, NEW t \in Tables, NEW r \in K!TableRows(s, t)', NEW p,
             p = K!PhysicalName(s, t), p \notin torn',
             \A d \in Clients : ~(K!HalfDone(d)' /\ K!Physical(d)' = p)
      PROVE  K!Behind(storage'[p], r.kind)
  <2>1. CASE /\ r \in K!TableRows(s, t) /\ storage'[p] = storage[p]
             /\ ~(K!HalfDone(c) /\ K!Physical(c) = p)
    <3>1. \A d \in Clients : ~(K!HalfDone(d) /\ K!Physical(d) = p)
      BY <1>1, <1>2, <2>1
    <3>2. p \notin torn /\ K!RowHasStorage
      BY <1>2 DEF KInv
    <3> QED
      BY <1>2, <2>1, <3>1, <3>2 DEF K!RowHasStorage, K!Busy
  <2> QED
    BY <1>2, <2>1
<1> QED
  BY <1>2 DEF K!RowHasStorage, K!Busy, K!Behind

\* A request that arrives knows what it has looked up.
LEMMA LookupOK ==
    ASSUME KInv, NEW c \in Clients, NEW o \in AllOps, NEW s \in Schemas,
           NEW t \in AnyTable, NEW k \in K!Kinds, o \in K!SQLOps \cup K!RESTOps => t \in Tables,
           K!Lookup(c, o, s, t, k)
    PROVE  KInv'
<1>1. PICK q : q = [op |-> o, schema |-> s, table |-> t, kind |-> k, ref |-> 0]
  OBVIOUS
<1>2. PICK id \in K!Found(q) : req' = [req EXCEPT ![c] = [q EXCEPT !.ref = id]]
  BY <1>1 DEF K!Lookup
<1>3. /\ server = "up" /\ catPc[c] = "idle" /\ catPc' = [catPc EXCEPT ![c] = "exec"]
      /\ UNCHANGED K!dbVars /\ UNCHANGED <<server, torn>>
  BY DEF K!Lookup, K!Go
<1>4. q.op = o /\ q.schema = s /\ q.table = t
  BY <1>1
<1>5. last.database \in Nat /\ last.schema \in Nat /\ last.table \in Nat /\ DataType
  BY Counters DEF KInv
<1>6. o \in {"drop database", "create schema"} => id \in 1 .. last.database
  <2> SUFFICES ASSUME o \in {"drop database", "create schema"} PROVE id \in 1 .. last.database
    OBVIOUS
  <2>1. K!Found(q) = {database} \ {0}
    BY <1>4 DEF K!Found
  <2>2. id = database /\ id # 0
    BY <1>2, <2>1
  <2>3. database \in 0 .. last.database
    BY <1>5 DEF DataType
  <2> QED
    BY <1>5, <2>2, <2>3, NotZero
<1>7. o \in {"drop schema", "post table"} => SchemaIs(id, s)
  <2> SUFFICES ASSUME o \in {"drop schema", "post table"} PROVE SchemaIs(id, s)
    OBVIOUS
  <2>1. PICK r \in K!SchemaRows(s) : r.id = id
    BY <1>2, <1>4 DEF K!Found
  <2> QED
    BY <1>5, <2>1 DEF SchemaIs, K!SchemaRows, DataType
<1>8. o = "delete table" => TableIs(id, s, t)
  <2> SUFFICES ASSUME o = "delete table" PROVE TableIs(id, s, t)
    OBVIOUS
  <2>1. PICK r \in K!TableRows(s, t) : r.id = id
    BY <1>2, <1>4 DEF K!Found
  <2>2. r \in tables /\ r.name = t /\ \E x \in schemas : x.id = r.schema /\ x.name = s
    BY <2>1 DEF K!TableRows, K!SchemaRows
  <2> QED
    BY <1>5, <2>1, <2>2 DEF TableIs, DataType
<1>9. id \in Nat
  <2>0. last.database \in Nat /\ last.schema \in Nat /\ last.table \in Nat
    BY <1>5
  <2>1. SchemaIs(id, s) => id \in Nat
    BY <2>0 DEF SchemaIs
  <2>2. TableIs(id, s, t) => id \in Nat
    BY <2>0 DEF TableIs
  <2>3. id \in 1 .. last.database => id \in Nat
    BY <2>0
  <2>4. ASSUME o = "create database" \/ o \in K!SQLOps PROVE id \in Nat
    <3>1. CASE o = "create database"
      <4>1. K!Found(q) = IF database = 0 THEN {0} ELSE {}
        BY <1>4, <3>1 DEF K!Found
      <4> QED
        BY <1>2, <4>1
    <3>2. CASE o \in K!SQLOps
      <4>1. K!Found(q) = {0 : r \in K!SchemaRows(q.schema)}
        BY <1>4, <3>2 DEF K!Found, K!SQLOps
      <4> QED
        BY <1>2, <4>1
    <3> QED
      BY <2>4, <3>1, <3>2
  <2> QED
    BY <1>6, <1>7, <1>8, <2>1, <2>2, <2>3, <2>4 DEF AllOps, K!DatabaseOps, K!SchemaOps, K!RESTOps
<1>10. PICK x : x = [q EXCEPT !.ref = id]
  OBVIOUS
<1>11. x \in RequestRec /\ x.op = o /\ x.schema = s /\ x.table = t /\ x.ref = id
  BY <1>1, <1>9, <1>10 DEF RequestRec
<1>12. x # K!NoRequest
  <2>1. K!NoRequest.op = "none"
    BY DEF K!NoRequest
  <2> QED
    BY <1>11, <2>1 DEF AllOps, K!DatabaseOps, K!SchemaOps, K!SQLOps, K!RESTOps
<1>13. /\ catPc' \in [Clients -> Places] /\ req' \in [Clients -> RequestRec \cup {K!NoRequest}]
       /\ catPc'[c] = "exec" /\ req'[c] = x
       /\ \A d \in Clients \ {c} : catPc'[d] = catPc[d] /\ req'[d] = req[d]
  BY <1>2, <1>3, <1>10, <1>11 DEF KInv, Places
<1>14. DataType' /\ DataStep
  BY <1>3, <1>5, DataStays
<1>15. Starts'
  BY <1>3 DEF Starts
<1>16. ~K!HalfDone(c) /\ ~K!HalfDone(c)'
  BY <1>3, <1>13 DEF K!HalfDone
<1>17. Half(c)' /\ Apart'
  BY <1>3, <1>13, <1>16, OthersApart DEF Half, KInv
<1>18. Knows(c)'
  <2>1. UNCHANGED <<database, schemas, tables, last>>
    BY <1>3 DEF K!dbVars
  <2>2. o = "create schema" => id \in 1 .. last'.database
    BY <1>6, <2>1
  <2>3. o = "post table" => SchemaIs(id, s)'
    BY <1>7, <2>1 DEF SchemaIs
  <2>4. o = "delete table" => TableIs(id, s, t)'
    BY <1>8, <2>1 DEF TableIs
  <2> QED
    BY <1>11, <1>12, <1>13, <2>2, <2>3, <2>4 DEF Knows, Places
<1>19. \A d \in Clients \ {c} : LeftAlone(d)
  BY <1>3 DEF LeftAlone, K!dbVars
<1>20. NamesDiffer => K!RowHasStorage'
  <2> SUFFICES ASSUME NamesDiffer PROVE K!RowHasStorage'
    OBVIOUS
  <2>1. \A s1, t1 : K!TableRows(s1, t1)' = K!TableRows(s1, t1)
    BY <1>3 DEF K!TableRows, K!SchemaRows, K!dbVars
  <2>2. storage' = storage
    BY <1>3 DEF K!dbVars
  <2> QED
    BY <1>3, <1>13, <1>16, <2>1, <2>2, RowsKeepStorage
<1> QED
  BY <1>3, <1>13, <1>14, <1>15, <1>17, <1>18, <1>19, <1>20, RequestStep DEF KInv
-----------------------------------------------------------------------------
(***************************************************************************)
(* The rows of databases and schemas.                                      *)
(***************************************************************************)

\* A database begins without schemas; its PUBLIC follows.
LEMMA CreateDatabaseOK ==
    ASSUME KInv, NEW c \in Clients, K!CreateDatabase(c)
    PROVE  KInv'
<1>1. PICK n : n = database'
  OBVIOUS
<1>2. /\ catPc[c] = "exec" /\ req[c].op = "create database" /\ K!InsertDatabase
      /\ req' = [req EXCEPT ![c].ref = n, ![c].schema = DefaultSchema]
      /\ catPc' = [catPc EXCEPT ![c] = "public"] /\ UNCHANGED <<server, torn>>
  BY <1>1 DEF K!CreateDatabase, K!Go
<1>3. /\ DataType' /\ DataStep /\ database' # 0 /\ database' = last'.database
      /\ \A s, t : K!TableRows(s, t)' = {}
  BY <1>2, InsertDatabaseOK DEF KInv
<1>4. n \in 1 .. last'.database /\ n \in Nat
  <2>1. last'.database \in Nat
    BY <1>3 DEF DataType
  <2> QED
    BY <1>1, <1>3, <2>1
<1>5. PICK x : x = [req[c] EXCEPT !.ref = n, !.schema = DefaultSchema]
  OBVIOUS
<1>6. req[c] \in RequestRec
  <2>1. req[c] # K!NoRequest
    BY <1>2 DEF KInv, Knows
  <2> QED
    BY <2>1 DEF KInv
<1>7. x \in RequestRec /\ x.op = "create database" /\ x.ref = n
  BY <1>2, <1>4, <1>5, <1>6, DefaultNamed DEF RequestRec
<1>8. /\ catPc' \in [Clients -> Places] /\ req' \in [Clients -> RequestRec \cup {K!NoRequest}]
      /\ catPc'[c] = "public" /\ req'[c] = x
      /\ \A d \in Clients \ {c} : catPc'[d] = catPc[d] /\ req'[d] = req[d]
  <2>1. req' = [req EXCEPT ![c] = x]
    BY <1>2, <1>5 DEF KInv
  <2> QED
    BY <1>2, <1>7, <2>1 DEF KInv, Places
<1>9. Starts'
  BY <1>2 DEF KInv, Starts
<1>10. ~K!HalfDone(c) /\ ~K!HalfDone(c)'
  BY <1>2, <1>8 DEF K!HalfDone
<1>11. Half(c)' /\ Apart'
  BY <1>2, <1>8, <1>10, OthersApart DEF Half, KInv
<1>12. Knows(c)'
  <2>1. x # K!NoRequest
    <3>1. K!NoRequest.op = "none"
      BY DEF K!NoRequest
    <3> QED
      BY <1>7, <3>1
  <2> QED
    BY <1>4, <1>7, <1>8, <2>1 DEF Knows, Places, K!SQLOps, K!RESTOps
<1>13. ASSUME NEW d \in Clients \ {c} PROVE LeftAlone(d)
  <2>1. storage' = storage /\ database = 0 /\ torn' = torn
    BY <1>2 DEF K!InsertDatabase
  <2>2. ~(catPc[d] = "register" /\ K!HalfDone(d) /\ K!Physical(d) \notin torn)
    <3> SUFFICES ASSUME catPc[d] = "register", K!HalfDone(d), K!Physical(d) \notin torn PROVE FALSE
      OBVIOUS
    <3>1. PICK q \in schemas : q.database = 0
      BY <2>1 DEF KInv, Half, K!SchemaRows
    <3>2. last.database \in Nat /\ q.database \in 1 .. last.database
      BY DEF KInv, DataType
    <3> QED
      BY <3>1, <3>2
  <2> QED
    BY <2>1, <2>2 DEF LeftAlone
<1>14. NamesDiffer => K!RowHasStorage'
  BY <1>3 DEF K!RowHasStorage
<1> QED
  BY <1>2, <1>3, <1>8, <1>9, <1>11, <1>12, <1>13, <1>14, RequestStep DEF KInv

\* A schema that CREATE DATABASE or CREATE SCHEMA inserts, though the database
\* it was meant for may be gone.
LEMMA CreateSchemaOK ==
    ASSUME KInv, NEW c \in Clients, K!CreateSchema(c)
    PROVE  KInv'
<1>1. /\ catPc[c] = "public" \/ (catPc[c] = "exec" /\ req[c].op = "create schema")
      /\ K!InsertSchema(req[c].ref, req[c].schema) /\ K!End(c) /\ UNCHANGED <<server, torn>>
  BY DEF K!CreateSchema
<1>2. Knows(c) /\ DataType /\ torn \subseteq K!PhysicalNames
  BY DEF KInv
<1>3. req[c] \in RequestRec /\ req[c].ref \in 1 .. last.database
  BY <1>1, <1>2 DEF Knows
<1>4. req[c].schema \in Schemas
  BY <1>3 DEF RequestRec
<1>5. /\ DataType' /\ DataStep /\ schemas \subseteq schemas'
      /\ UNCHANGED <<database, tables, storage>>
      /\ \A u, t : K!TableRows(u, t)' \subseteq K!TableRows(u, t)
  BY <1>1, <1>2, <1>3, <1>4, InsertSchemaOK
<1>6. ~K!HalfDone(c)
  BY <1>1 DEF K!HalfDone
<1>7. \A d \in Clients \ {c} : LeftAlone(d)
  BY <1>1, <1>5 DEF LeftAlone
<1>8. \A d \in Clients \ {c} : catPc'[d] = catPc[d] /\ req'[d] = req[d]
  BY <1>1 DEF K!End, K!Go, KInv
<1>9. NamesDiffer => K!RowHasStorage'
  BY <1>1, <1>5, <1>6, <1>8, RowsKeepStorage
<1> QED
  BY <1>1, <1>2, <1>5, <1>7, <1>9, RequestEnds

\* Whoever has half done something when the database or a schema goes is
\* overtaken.
LEMMA AllOvertaken ==
    ASSUME KInv, NEW c \in Clients, torn' = torn \cup {p \in K!PhysicalNames : K!Overlapped(c, p)}
    PROVE  /\ torn \subseteq torn' /\ torn' \subseteq K!PhysicalNames
           /\ \A d \in Clients \ {c} : LeftAlone(d)
<1>1. ASSUME NEW d \in Clients \ {c}, K!HalfDone(d) PROVE K!Physical(d) \in torn'
  <2>1. K!Physical(d) \in K!PhysicalNames
    BY <1>1, HalfDoneIsSQL
  <2> QED
    BY <1>1, <2>1 DEF K!Overlapped
<1> QED
  BY <1>1 DEF LeftAlone, KInv

\* Without a database there is no row to name.
LEMMA DropDatabaseOK ==
    ASSUME KInv, NEW c \in Clients, K!DropDatabase(c)
    PROVE  KInv'
<1>1. /\ catPc[c] = "exec" /\ K!DropDatabaseTx(req[c].ref) /\ K!End(c) /\ UNCHANGED server
      /\ torn' = torn \cup {p \in K!PhysicalNames : K!Overlapped(c, p)}
  BY DEF K!DropDatabase
<1>2. DataType' /\ DataStep /\ \A s, t : K!TableRows(s, t)' = {}
  BY <1>1, DropDatabaseTxOK DEF KInv
<1>3. NamesDiffer => K!RowHasStorage'
  BY <1>2 DEF K!RowHasStorage
<1> QED
  BY <1>1, <1>2, <1>3, AllOvertaken, RequestEnds

\* The rows that go take their names along.
LEMMA DropSchemaOK ==
    ASSUME KInv, NEW c \in Clients, K!DropSchema(c)
    PROVE  KInv'
<1>1. /\ catPc[c] = "exec" /\ K!DropSchemaTx(req[c].ref) /\ K!End(c) /\ UNCHANGED server
      /\ torn' = torn \cup {p \in K!PhysicalNames : K!Overlapped(c, p)}
  BY DEF K!DropSchema
<1>2. /\ DataType' /\ DataStep /\ UNCHANGED <<database, storage>>
      /\ \A s, t : K!TableRows(s, t)' \subseteq K!TableRows(s, t)
  BY <1>1, DropSchemaTxOK DEF KInv
<1>3. ~K!HalfDone(c)
  BY <1>1 DEF K!HalfDone
<1>4. \A d \in Clients \ {c} : catPc'[d] = catPc[d] /\ req'[d] = req[d]
  BY <1>1 DEF K!End, K!Go, KInv
<1>5. NamesDiffer => K!RowHasStorage'
  BY <1>1, <1>2, <1>3, <1>4, AllOvertaken, RowsKeepStorage
<1> QED
  BY <1>1, <1>2, <1>5, AllOvertaken, RequestEnds
-----------------------------------------------------------------------------
(***************************************************************************)
(* The objects and rows of tables.                                         *)
(***************************************************************************)

\* Who has half done something on p is overtaken by whoever touches it.
LEMMA TouchOvertakes ==
    ASSUME KInv, NEW c \in Clients, NEW p \in K!PhysicalNames,
           K!Touch(c, p) \/ torn' = torn \cup {p}
    PROVE  /\ torn \subseteq torn' /\ torn' \subseteq K!PhysicalNames
           /\ \A d \in Clients \ {c} : K!HalfDone(d) /\ K!Physical(d) = p => p \in torn'
  BY DEF KInv, K!Touch, K!Overlapped

\* One transaction inserts the row and makes the object, if there is none.
LEMMA CreateTableOK ==
    ASSUME KInv, NEW c \in Clients, K!CreateTable(c)
    PROVE  KInv'
<1>1. PICK p, s, t, n : p = K!Physical(c) /\ s = req[c].schema /\ t = req[c].table /\ n = req[c].ref
  OBVIOUS
<1>2. /\ catPc[c] = "exec" /\ req[c].op = "post table" /\ K!CreateTableTx(n, t, p) /\ K!Touch(c, p)
      /\ K!End(c) /\ UNCHANGED server
  BY <1>1 DEF K!CreateTable
<1>3. DataType /\ SchemaIs(n, s)
  BY <1>1, <1>2 DEF KInv, Knows
<1>4. s \in Schemas /\ t \in Tables /\ p = K!PhysicalName(s, t) /\ p \in K!PhysicalNames
  BY <1>1, <1>2, PhysicalOK DEF K!RESTOps
<1>5. /\ DataType' /\ DataStep /\ UNCHANGED <<database, schemas>>
      /\ storage'[p] = IF storage[p] = "none" THEN "table" ELSE storage[p]
      /\ \A o \in K!PhysicalNames \ {p} : storage'[o] = storage[o]
      /\ \A u, v : u # s \/ v # t => K!TableRows(u, v)' \subseteq K!TableRows(u, v)
      /\ \A r \in K!TableRows(s, t)' : r \in K!TableRows(s, t) \/ r.kind = "table"
  <2>1. SchemaIs(n, s) /\ K!CreateTableTx(n, t, p)
    BY <1>2, <1>3
  <2>2. DataType /\ s \in Schemas /\ t \in Tables /\ p \in K!PhysicalNames
    BY <1>3, <1>4
  <2> QED
    BY <2>1, <2>2, CreateTableTxOK
<1>6. /\ torn \subseteq torn' /\ torn' \subseteq K!PhysicalNames
      /\ \A d \in Clients \ {c} : K!HalfDone(d) /\ K!Physical(d) = p => p \in torn'
  BY <1>2, <1>4, TouchOvertakes
<1>7. ~K!HalfDone(c)
  BY <1>2 DEF K!HalfDone
<1>8. \A d \in Clients \ {c} : catPc'[d] = catPc[d] /\ req'[d] = req[d]
  BY <1>2 DEF K!End, K!Go, KInv
<1>9. \A d \in Clients \ {c} : LeftAlone(d)
  BY <1>5, <1>6, HalfDoneIsSQL DEF LeftAlone
<1>10. NamesDiffer => K!RowHasStorage'
  <2> SUFFICES ASSUME NamesDiffer PROVE K!RowHasStorage'
    OBVIOUS
  <2>1. ASSUME NEW u \in Schemas, NEW v \in Tables, NEW r \in K!TableRows(u, v)',
               K!PhysicalName(u, v) \notin torn'
        PROVE  \/ K!Behind(storage'[K!PhysicalName(u, v)], r.kind)
               \/ /\ r \in K!TableRows(u, v)
                  /\ storage'[K!PhysicalName(u, v)] = storage[K!PhysicalName(u, v)]
    <3>1. CASE u = s /\ v = t
      <4>1. CASE r.kind = "table"
        <5>1. storage'[p] # "none"
          BY <1>5
        <5> QED
          BY <1>4, <3>1, <4>1, <5>1 DEF K!Behind
      <4>2. CASE r \in K!TableRows(s, t)
        <5>1. p \notin torn
          BY <1>4, <1>6, <2>1, <3>1
        <5>2. \A d \in Clients : ~(K!HalfDone(d) /\ K!Physical(d) = p)
          BY <1>4, <1>6, <1>7, <2>1, <3>1
        <5>3. K!Behind(storage[p], r.kind)
          BY <1>4, <4>2, <5>1, <5>2 DEF KInv, K!RowHasStorage, K!Busy
        <5>4. storage'[p] = storage[p]
          BY <1>5, <5>3 DEF K!Behind
        <5> QED
          BY <1>4, <3>1, <4>2, <5>4
      <4> QED
        BY <1>5, <2>1, <3>1, <4>1, <4>2
    <3>2. CASE ~(u = s /\ v = t)
      <4>1. K!PhysicalName(u, v) # p /\ K!PhysicalName(u, v) \in K!PhysicalNames
        BY <1>4, <3>2 DEF NamesDiffer, K!PhysicalNames
      <4> QED
        BY <1>5, <2>1, <3>2, <4>1
    <3> QED
      BY <3>1, <3>2
  <2> QED
    BY <1>6, <1>7, <1>8, <2>1, RowsKeepStorage
<1> QED
  BY <1>2, <1>5, <1>6, <1>9, <1>10, RequestEnds

\* A deletion that finds its row removes the row of its object; one that comes
\* late leaves it torn.
LEMMA DropTableOK ==
    ASSUME KInv, NEW c \in Clients, K!DropTable(c)
    PROVE  KInv'
<1>1. PICK p, s, t, n : p = K!Physical(c) /\ s = req[c].schema /\ t = req[c].table /\ n = req[c].ref
  OBVIOUS
<1>2. /\ catPc[c] = "exec" /\ req[c].op = "delete table" /\ K!DropTableTx(n, p)
      /\ IF K!Outlived(c) THEN torn' = torn \cup {p} ELSE K!Touch(c, p)
      /\ K!End(c) /\ UNCHANGED server
  BY <1>1 DEF K!DropTable
<1>3. DataType /\ TableIs(n, s, t)
  BY <1>1, <1>2 DEF KInv, Knows
<1>4. s \in Schemas /\ t \in Tables /\ p = K!PhysicalName(s, t) /\ p \in K!PhysicalNames
  BY <1>1, <1>2, PhysicalOK DEF K!RESTOps
<1>5. /\ DataType' /\ DataStep /\ UNCHANGED <<database, schemas>>
      /\ storage'[p] = "none" /\ \A o \in K!PhysicalNames \ {p} : storage'[o] = storage[o]
      /\ \A u, v : K!TableRows(u, v)' \subseteq K!TableRows(u, v)
  BY <1>2, <1>3, <1>4, DropTableTxOK
<1>6. PICK x \in tables : x.id = n /\ tables' = tables \ {x}
  BY <1>2 DEF K!DropTableTx
<1>7. /\ torn \subseteq torn' /\ torn' \subseteq K!PhysicalNames
      /\ \A d \in Clients \ {c} : K!HalfDone(d) /\ K!Physical(d) = p => p \in torn'
  BY <1>2, <1>4, TouchOvertakes
<1>8. ~K!HalfDone(c)
  BY <1>2 DEF K!HalfDone
<1>9. \A d \in Clients \ {c} : catPc'[d] = catPc[d] /\ req'[d] = req[d]
  BY <1>2 DEF K!End, K!Go, KInv
<1>10. \A d \in Clients \ {c} : LeftAlone(d)
  BY <1>5, <1>7, HalfDoneIsSQL DEF LeftAlone
<1>11. p \notin torn' => K!TableRows(s, t)' = {}
  <2> SUFFICES ASSUME p \notin torn' PROVE K!TableRows(s, t)' = {}
    OBVIOUS
  <2>1. ~K!Outlived(c)
    BY <1>2
  <2>2. PICK q \in schemas : q.id = x.schema /\ q.name = s
    BY <1>3, <1>6 DEF TableIs
  <2>3. x.name = t
    BY <1>3, <1>6 DEF TableIs
  <2>4. q.database = database
    BY <1>1, <1>6, <2>1, <2>2 DEF K!Outlived
  <2>5. ASSUME NEW r \in K!TableRows(s, t)' PROVE FALSE
    <3>1. r \in K!TableRows(s, t) /\ r \in tables'
      BY <1>5, <2>5 DEF K!TableRows
    <3>2. PICK y \in schemas : y.database = database /\ y.name = s /\ y.id = r.schema
      BY <3>1 DEF K!TableRows, K!SchemaRows
    <3>3. y = q
      BY <1>3, <2>2, <2>4, <3>2 DEF DataType
    <3>4. r \in tables /\ r.schema = x.schema /\ r.name = x.name
      BY <2>2, <2>3, <3>1, <3>2, <3>3 DEF K!TableRows
    <3>5. r = x
      BY <1>3, <3>4 DEF DataType
    <3> QED
      BY <1>6, <3>1, <3>5
  <2> QED
    BY <2>5
<1>12. NamesDiffer => K!RowHasStorage'
  <2> SUFFICES ASSUME NamesDiffer PROVE K!RowHasStorage'
    OBVIOUS
  <2>1. ASSUME NEW u \in Schemas, NEW v \in Tables, NEW r \in K!TableRows(u, v)',
               K!PhysicalName(u, v) \notin torn'
        PROVE  /\ r \in K!TableRows(u, v)
               /\ storage'[K!PhysicalName(u, v)] = storage[K!PhysicalName(u, v)]
    <3>1. ~(u = s /\ v = t)
      BY <1>4, <1>11, <2>1
    <3>2. K!PhysicalName(u, v) # p /\ K!PhysicalName(u, v) \in K!PhysicalNames
      BY <1>4, <3>1 DEF NamesDiffer, K!PhysicalNames
    <3> QED
      BY <1>5, <2>1, <3>2
  <2> QED
    BY <1>7, <1>8, <1>9, <2>1, RowsKeepStorage
<1> QED
  BY <1>2, <1>5, <1>7, <1>10, <1>12, RequestEnds

\* The DuckDB half of a statement; the row follows.
LEMMA ExecPhysicalOK ==
    ASSUME KInv, NEW c \in Clients, K!ExecPhysical(c)
    PROVE  KInv'
<1>1. PICK p : p = K!Physical(c)
  OBVIOUS
<1>2. /\ catPc[c] = "exec" /\ req[c].op \in K!SQLOps /\ database # 0 /\ K!Touch(c, p)
      /\ catPc' = [catPc EXCEPT ![c] = IF req[c].op = "create" THEN "describe" ELSE "unregister"]
      /\ UNCHANGED <<database, schemas, tables, last, server, req>>
  BY <1>1 DEF K!ExecPhysical, K!Go
<1>3. p \in K!PhysicalNames /\ req[c].kind \in K!Kinds
  BY <1>1, <1>2, PhysicalOK
<1>4. /\ storage' \in [K!PhysicalNames -> K!Kinds \cup {"none"}]
      /\ req[c].op = "create" => K!Behind(storage'[p], req[c].kind)
      /\ \A o \in K!PhysicalNames \ {p} : storage'[o] = storage[o]
  <2>1. storage \in [K!PhysicalNames -> K!Kinds \cup {"none"}]
    BY DEF KInv, DataType
  <2>2. CASE storage' = [storage EXCEPT ![p] = IF req[c].op = "create" THEN req[c].kind ELSE "none"]
    BY <1>3, <2>1, <2>2 DEF K!Behind, K!Kinds
  <2>3. CASE req[c].kind = "table" /\ storage[p] = "view" /\ UNCHANGED storage
    BY <2>1, <2>3 DEF K!Behind
  <2> QED
    BY <1>1, <2>2, <2>3 DEF K!ExecPhysical
<1>5. /\ torn \subseteq torn' /\ torn' \subseteq K!PhysicalNames
      /\ \A d \in Clients \ {c} : K!HalfDone(d) /\ K!Physical(d) = p => p \in torn'
  BY <1>2, <1>3, TouchOvertakes
<1>6. DataType'
  BY <1>2, <1>4 DEF KInv, DataType
<1>7. DataStep
  <2>1. DataType
    BY DEF KInv
  <2> QED
    BY <1>2, <2>1, Counters DEF DataStep
<1>8. /\ catPc' \in [Clients -> Places] /\ catPc'[c] \in {"describe", "unregister"}
      /\ catPc'[c] = IF req[c].op = "create" THEN "describe" ELSE "unregister"
      /\ \A d \in Clients \ {c} : catPc'[d] = catPc[d] /\ req'[d] = req[d]
  BY <1>2 DEF KInv, Places
<1>9. Starts'
  BY <1>2 DEF KInv, Starts
<1>10. ~K!HalfDone(c) /\ K!HalfDone(c)' /\ K!Physical(c)' = p
  BY <1>1, <1>2, <1>8 DEF K!HalfDone, K!Physical
<1>11. Knows(c)'
  <2>1. Knows(c)
    BY DEF KInv
  <2>2. req[c].op \notin {"create schema", "post table", "delete table"}
    BY <1>2 DEF K!SQLOps
  <2> QED
    BY <1>2, <1>8, <2>1, <2>2 DEF Knows, Places, K!SQLOps
<1>12. Half(c)'
  <2>1. req'[c] = req[c] /\ catPc'[c] # "register"
    BY <1>2, <1>8
  <2> QED
    BY <1>4, <1>10, <2>1 DEF Half, K!Behind
<1>13. \A d \in Clients \ {c} : LeftAlone(d)
  BY <1>2, <1>4, <1>5, HalfDoneIsSQL DEF LeftAlone
<1>14. Apart'
  <2>1. \A d \in Clients \ {c} : K!Physical(d)' = K!Physical(d) /\ K!HalfDone(d)' = K!HalfDone(d)
    BY <1>8 DEF K!Physical, K!HalfDone
  <2>2. ASSUME NEW a \in Clients, NEW b \in Clients \ {a},
               K!HalfDone(a)', K!HalfDone(b)', K!Physical(a)' = K!Physical(b)'
        PROVE  K!Physical(a)' \in torn'
    <3>1. CASE a = c
      BY <1>5, <1>10, <2>1, <2>2, <3>1
    <3>2. CASE b = c
      BY <1>5, <1>10, <2>1, <2>2, <3>2
    <3>3. CASE a # c /\ b # c
      BY <1>5, <2>1, <2>2, <3>3 DEF KInv, Apart
    <3> QED
      BY <3>1, <3>2, <3>3
  <2> QED
    BY <2>2 DEF Apart
<1>15. NamesDiffer => K!RowHasStorage'
  <2> SUFFICES ASSUME NamesDiffer PROVE K!RowHasStorage'
    OBVIOUS
  <2>1. \A u, v : K!TableRows(u, v)' = K!TableRows(u, v)
    BY <1>2 DEF K!TableRows, K!SchemaRows
  <2>2. ASSUME NEW u \in Schemas, NEW v \in Tables,
               \A d \in Clients : ~(K!HalfDone(d)' /\ K!Physical(d)' = K!PhysicalName(u, v))
        PROVE  storage'[K!PhysicalName(u, v)] = storage[K!PhysicalName(u, v)]
    <3>1. K!PhysicalName(u, v) # p
      BY <1>10, <2>2
    <3>2. K!PhysicalName(u, v) \in K!PhysicalNames
      BY DEF K!PhysicalNames
    <3> QED
      BY <1>4, <3>1, <3>2
  <2> QED
    BY <1>5, <1>8, <1>10, <2>1, <2>2, RowsKeepStorage
<1> QED
  BY <1>2, <1>5, <1>6, <1>7, <1>8, <1>9, <1>11, <1>12, <1>13, <1>14, <1>15, RequestStep DEF KInv

\* The object is found, and the schema's id is read again.
LEMMA DescribePhysicalTableOK ==
    ASSUME KInv, NEW c \in Clients, K!DescribePhysicalTable(c)
    PROVE  KInv'
<1>1. PICK y \in K!SchemaRows(req[c].schema) : req' = [req EXCEPT ![c].ref = y.id]
  BY DEF K!DescribePhysicalTable
<1>2. /\ catPc[c] = "describe" /\ catPc' = [catPc EXCEPT ![c] = "register"]
      /\ UNCHANGED K!dbVars /\ UNCHANGED <<server, torn>>
  BY DEF K!DescribePhysicalTable, K!Go
<1>3. K!HalfDone(c) /\ Knows(c) /\ Half(c) /\ DataType
  BY <1>2 DEF K!HalfDone, KInv
<1>4. /\ y \in schemas /\ y.id \in Nat /\ y.name = req[c].schema /\ y.database = database
      /\ y.id \in 1 .. last.schema
  BY <1>3 DEF K!SchemaRows, DataType, SchemaRec
<1>5. PICK x : x = [req[c] EXCEPT !.ref = y.id]
  OBVIOUS
<1>6. req[c] \in RequestRec /\ req[c].op = "create" /\ req[c].table \in Tables
  <2>1. req[c] # K!NoRequest
    BY <1>2, <1>3 DEF Knows
  <2> QED
    BY <1>2, <1>3, <2>1 DEF Knows, KInv, K!SQLOps
<1>7. /\ x \in RequestRec /\ x.op = "create" /\ x.ref = y.id
      /\ x.schema = req[c].schema /\ x.table = req[c].table /\ x.kind = req[c].kind
  BY <1>4, <1>5, <1>6 DEF RequestRec
<1>8. /\ catPc' \in [Clients -> Places] /\ req' \in [Clients -> RequestRec \cup {K!NoRequest}]
      /\ catPc'[c] = "register" /\ req'[c] = x
      /\ \A d \in Clients \ {c} : catPc'[d] = catPc[d] /\ req'[d] = req[d]
  <2>1. req' = [req EXCEPT ![c] = x]
    BY <1>1, <1>5 DEF KInv
  <2> QED
    BY <1>2, <1>7, <2>1 DEF KInv, Places
<1>9. UNCHANGED <<database, schemas, tables, storage, last>>
  BY <1>2 DEF K!dbVars
<1>10. DataType' /\ DataStep
  BY <1>2, <1>3, DataStays
<1>11. Starts'
  BY <1>2 DEF KInv, Starts
<1>12. K!HalfDone(c)' /\ K!Physical(c)' = K!Physical(c)
  BY <1>7, <1>8 DEF K!HalfDone, K!Physical
<1>13. Apart'
  BY <1>2, <1>3, <1>8, <1>12, OthersApart DEF KInv
<1>14. Knows(c)'
  <2>1. x # K!NoRequest
    <3>1. K!NoRequest.op = "none"
      BY DEF K!NoRequest
    <3> QED
      BY <1>7, <3>1
  <2>2. \A r \in schemas : r.id = y.id => r = y
    BY <1>3, <1>4 DEF DataType
  <2>3. SchemaIs(x.ref, x.schema)'
    BY <1>4, <1>7, <1>9, <2>2 DEF SchemaIs
  <2> QED
    BY <1>6, <1>7, <1>8, <2>1, <2>3 DEF Knows, Places
<1>15. Half(c)'
  <2>1. \E q \in K!SchemaRows(x.schema)' : q.id = x.ref
    BY <1>4, <1>7, <1>9 DEF K!SchemaRows
  <2>2. K!Physical(c) \notin torn => K!Behind(storage[K!Physical(c)], req[c].kind)
    BY <1>3, <1>6 DEF Half
  <2> QED
    BY <1>2, <1>7, <1>8, <1>9, <1>12, <2>1, <2>2 DEF Half, K!Behind
<1>16. \A d \in Clients \ {c} : LeftAlone(d)
  BY <1>9 DEF LeftAlone
<1>17. NamesDiffer => K!RowHasStorage'
  <2> SUFFICES ASSUME NamesDiffer PROVE K!RowHasStorage'
    OBVIOUS
  <2>1. \A u, v : K!TableRows(u, v)' = K!TableRows(u, v)
    BY <1>9 DEF K!TableRows, K!SchemaRows
  <2> QED
    BY <1>2, <1>8, <1>9, <1>12, <2>1, RowsKeepStorage
<1> QED
  BY <1>2, <1>8, <1>10, <1>11, <1>13, <1>14, <1>15, <1>16, <1>17, RequestStep DEF KInv

\* The row a CREATE writes is about the object it has made or left alone.
LEMMA RegisterSQLTableOK ==
    ASSUME KInv, NEW c \in Clients, K!RegisterSQLTable(c)
    PROVE  KInv'
<1>1. PICK p, s, t, n, k :
         /\ p = K!Physical(c) /\ s = req[c].schema /\ t = req[c].table /\ n = req[c].ref
         /\ k = req[c].kind
  OBVIOUS
<1>2. /\ catPc[c] = "register" /\ K!RegisterTable(n, t, k) /\ K!Touch(c, p)
      /\ K!End(c) /\ UNCHANGED server
  BY <1>1 DEF K!RegisterSQLTable
<1>3. K!HalfDone(c) /\ Knows(c) /\ Half(c) /\ DataType /\ SchemaIs(n, s)
  BY <1>1, <1>2 DEF K!HalfDone, KInv, Knows
<1>4. req[c].op = "create" /\ req[c].op \in K!SQLOps
  BY <1>2, <1>3 DEF Knows, K!SQLOps
<1>5. /\ s \in Schemas /\ t \in Tables /\ k \in K!Kinds /\ p = K!PhysicalName(s, t)
      /\ p \in K!PhysicalNames
  BY <1>1, <1>4, PhysicalOK
<1>6. /\ DataType' /\ DataStep /\ UNCHANGED <<database, schemas, storage>>
      /\ \A u, v : u # s \/ v # t => K!TableRows(u, v)' \subseteq K!TableRows(u, v)
      /\ \A r \in tables' : r.schema = n /\ r.name = t => r.kind = k
  <2>1. K!RegisterTable(n, t, k)
    BY <1>2
  <2>2. SchemaIs(n, s) /\ DataType
    BY <1>3
  <2>3. s \in Schemas /\ t \in Tables /\ k \in K!Kinds
    BY <1>5
  <2> QED
    BY <2>1, <2>2, <2>3, RegisterTableOK
<1>7. /\ torn \subseteq torn' /\ torn' \subseteq K!PhysicalNames
      /\ \A d \in Clients \ {c} : K!HalfDone(d) /\ K!Physical(d) = p => p \in torn'
  BY <1>2, <1>5, TouchOvertakes
<1>8. \A d \in Clients \ {c} : catPc'[d] = catPc[d] /\ req'[d] = req[d]
  BY <1>2 DEF K!End, K!Go, KInv
<1>9. \A d \in Clients \ {c} : LeftAlone(d)
  BY <1>6 DEF LeftAlone
<1>10. NamesDiffer => K!RowHasStorage'
  <2> SUFFICES ASSUME NamesDiffer PROVE K!RowHasStorage'
    OBVIOUS
  <2>1. ASSUME NEW u \in Schemas, NEW v \in Tables, NEW r \in K!TableRows(u, v)',
               K!PhysicalName(u, v) \notin torn'
        PROVE  \/ K!Behind(storage'[K!PhysicalName(u, v)], r.kind)
               \/ /\ r \in K!TableRows(u, v)
                  /\ storage'[K!PhysicalName(u, v)] = storage[K!PhysicalName(u, v)]
                  /\ K!Physical(c) # K!PhysicalName(u, v)
    <3>1. CASE u = s /\ v = t
      <4>1. p \notin torn
        BY <1>5, <1>7, <2>1, <3>1
      <4>2. K!Behind(storage[p], k) /\ \E q \in K!SchemaRows(s) : q.id = n
        BY <1>1, <1>2, <1>3, <1>4, <4>1 DEF Half
      <4>3. PICK q \in schemas : q.id = n /\ q.database = database /\ q.name = s
        BY <4>2 DEF K!SchemaRows
      <4>4. r \in tables' /\ r.name = t
        BY <2>1, <3>1 DEF K!TableRows
      <4>5. PICK z \in schemas : z.database = database /\ z.name = s /\ z.id = r.schema
        BY <1>6, <2>1, <3>1 DEF K!TableRows, K!SchemaRows
      <4>6. z = q
        BY <1>3, <4>3, <4>5 DEF DataType
      <4>7. r.kind = k
        BY <1>6, <4>3, <4>4, <4>5, <4>6
      <4> QED
        BY <1>5, <1>6, <3>1, <4>2, <4>7
    <3>2. CASE ~(u = s /\ v = t)
      <4>1. K!PhysicalName(u, v) # p
        BY <1>5, <3>2 DEF NamesDiffer
      <4> QED
        BY <1>1, <1>6, <2>1, <3>2, <4>1
    <3> QED
      BY <3>1, <3>2
  <2> QED
    BY <1>7, <1>8, <2>1, RowsKeepStorage
<1> QED
  BY <1>2, <1>6, <1>7, <1>8, <1>9, <1>10, RequestEnds

\* After a DROP the name has no row.
LEMMA UnregisterSQLTableOK ==
    ASSUME KInv, NEW c \in Clients, K!UnregisterSQLTable(c)
    PROVE  KInv'
<1>1. PICK p, s, t : p = K!Physical(c) /\ s = req[c].schema /\ t = req[c].table
  OBVIOUS
<1>2. /\ catPc[c] = "unregister" /\ K!DeleteTableMetadata(s, t) /\ K!Touch(c, p)
      /\ K!End(c) /\ UNCHANGED server
  BY <1>1 DEF K!UnregisterSQLTable
<1>3. K!HalfDone(c) /\ DataType
  BY <1>2 DEF K!HalfDone, KInv
<1>4. s \in Schemas /\ t \in Tables /\ p = K!PhysicalName(s, t) /\ p \in K!PhysicalNames
  <2>1. req[c].op \in K!SQLOps
    BY <1>3, HalfDoneIsSQL
  <2> QED
    BY <1>1, <2>1, PhysicalOK
<1>5. /\ DataType' /\ DataStep /\ UNCHANGED <<database, schemas, storage>>
      /\ K!TableRows(s, t)' = {} /\ \A u, v : K!TableRows(u, v)' \subseteq K!TableRows(u, v)
  BY <1>2, <1>3, DeleteTableMetadataOK
<1>6. /\ torn \subseteq torn' /\ torn' \subseteq K!PhysicalNames
      /\ \A d \in Clients \ {c} : K!HalfDone(d) /\ K!Physical(d) = p => p \in torn'
  BY <1>2, <1>4, TouchOvertakes
<1>7. \A d \in Clients \ {c} : catPc'[d] = catPc[d] /\ req'[d] = req[d]
  BY <1>2 DEF K!End, K!Go, KInv
<1>8. \A d \in Clients \ {c} : LeftAlone(d)
  BY <1>5 DEF LeftAlone
<1>9. NamesDiffer => K!RowHasStorage'
  <2> SUFFICES ASSUME NamesDiffer PROVE K!RowHasStorage'
    OBVIOUS
  <2>1. ASSUME NEW u \in Schemas, NEW v \in Tables, NEW r \in K!TableRows(u, v)'
        PROVE  /\ r \in K!TableRows(u, v)
               /\ storage'[K!PhysicalName(u, v)] = storage[K!PhysicalName(u, v)]
               /\ K!Physical(c) # K!PhysicalName(u, v)
    <3>1. ~(u = s /\ v = t)
      BY <1>5, <2>1
    <3>2. K!PhysicalName(u, v) # p
      BY <1>4, <3>1 DEF NamesDiffer
    <3> QED
      BY <1>1, <1>5, <2>1, <3>2
  <2> QED
    BY <1>6, <1>7, <2>1, RowsKeepStorage
<1> QED
  BY <1>2, <1>5, <1>6, <1>8, <1>9, RequestEnds

\* A failure leaves what was half done torn.
LEMMA FailOK ==
    ASSUME KInv, NEW c \in Clients, K!Fail(c)
    PROVE  KInv'
<1>1. /\ catPc[c] # "idle" /\ K!End(c) /\ UNCHANGED server /\ UNCHANGED K!dbVars
      /\ torn' = IF K!HalfDone(c) THEN torn \cup {K!Physical(c)} ELSE torn
  BY DEF K!Fail
<1>2. UNCHANGED <<database, schemas, tables, storage, last>>
  BY <1>1 DEF K!dbVars
<1>3. DataType' /\ DataStep
  BY <1>1, DataStays DEF KInv
<1>4. torn \subseteq torn' /\ torn' \subseteq K!PhysicalNames
  BY <1>1, HalfDoneIsSQL DEF KInv
<1>5. \A d \in Clients \ {c} : LeftAlone(d)
  BY <1>2 DEF LeftAlone
<1>6. \A d \in Clients \ {c} : catPc'[d] = catPc[d] /\ req'[d] = req[d]
  BY <1>1 DEF K!End, K!Go, KInv
<1>7. NamesDiffer => K!RowHasStorage'
  <2> SUFFICES ASSUME NamesDiffer PROVE K!RowHasStorage'
    OBVIOUS
  <2>1. \A u, v : K!TableRows(u, v)' = K!TableRows(u, v)
    BY <1>2 DEF K!TableRows, K!SchemaRows
  <2>2. \A o : o \notin torn' => ~(K!HalfDone(c) /\ K!Physical(c) = o)
    BY <1>1
  <2> QED
    BY <1>2, <1>4, <1>6, <2>1, <2>2, RowsKeepStorage
<1> QED
  BY <1>1, <1>3, <1>4, <1>5, <1>7, RequestEnds

\* A renamed object leaves its name torn; no row that can be named was about
\* the name it takes, which had no object.
LEMMA RenameOK ==
    ASSUME KInv, NEW p \in K!PhysicalNames, K!Rename(p)
    PROVE  KInv'
<1>1. /\ server = "up" /\ storage[p] # "none"
      /\ UNCHANGED <<database, schemas, tables, last, server, catPc, req>>
  BY DEF K!Rename, K!clientVars
<1>2. DataType
  BY DEF KInv
<1>3. /\ torn \cup {p} \subseteq torn' /\ torn' \subseteq K!PhysicalNames
      /\ storage' \in [K!PhysicalNames -> K!Kinds \cup {"none"}]
      /\ \A o \in K!PhysicalNames \ torn' :
            storage'[o] = storage[o] \/ (storage[o] = "none" /\ ~K!Busy(o))
  <2>1. /\ torn \subseteq K!PhysicalNames
        /\ storage \in [K!PhysicalNames -> K!Kinds \cup {"none"}]
    BY <1>2 DEF KInv, DataType
  <2>2. CASE storage' = [storage EXCEPT ![p] = "none"] /\ torn' = torn \cup {p}
    BY <2>1, <2>2
  <2>3. CASE \E q \in K!PhysicalNames :
               /\ storage[q] = "none"
               /\ storage' = [storage EXCEPT ![p] = "none", ![q] = storage[p]]
               /\ torn' = torn \cup {p} \cup {n \in {q} : K!Busy(n)}
    <3>1. PICK q \in K!PhysicalNames :
             /\ storage[q] = "none"
             /\ storage' = [storage EXCEPT ![p] = "none", ![q] = storage[p]]
             /\ torn' = torn \cup {p} \cup {n \in {q} : K!Busy(n)}
      BY <2>3
    <3>2. torn' \subseteq K!PhysicalNames /\ torn \cup {p} \subseteq torn'
      BY <2>1, <3>1
    <3>3. /\ storage' \in [K!PhysicalNames -> K!Kinds \cup {"none"}]
          /\ \A o \in K!PhysicalNames \ {p, q} : storage'[o] = storage[o]
      BY <2>1, <3>1
    <3>4. q \notin torn' => ~K!Busy(q)
      BY <3>1
    <3> QED
      BY <3>1, <3>2, <3>3, <3>4
  <2> QED
    BY <2>2, <2>3 DEF K!Rename
<1>4. DataType' /\ DataStep
  <2>1. database # 0
    BY <1>1, <1>2 DEF DataType
  <2>2. last.database \in Nat /\ last.schema \in Nat /\ last.table \in Nat
    BY <1>2, Counters
  <2> QED
    BY <1>1, <1>2, <1>3, <2>1, <2>2 DEF DataType, DataStep
<1>5. Starts'
  BY <1>1 DEF KInv, Starts
<1>6. ASSUME NEW d \in Clients PROVE Knows(d)' /\ Half(d)'
  <2>1. Knows(d) /\ Half(d)
    BY DEF KInv
  <2>2. ASSUME K!HalfDone(d), K!Physical(d) \notin torn'
        PROVE  storage'[K!Physical(d)] = storage[K!Physical(d)]
    <3>1. K!Physical(d) \in K!PhysicalNames
      BY <2>2, HalfDoneIsSQL
    <3>2. K!Busy(K!Physical(d))
      BY <2>2 DEF K!Busy
    <3> QED
      BY <1>3, <2>2, <3>1, <3>2
  <2>3. LeftAlone(d)
    BY <1>1, <2>2 DEF LeftAlone
  <2> QED
    BY <1>1, <1>2, <1>3, <1>4, <2>1, <2>3, OthersKnow, OthersHalf
<1>7. Apart'
  BY <1>1, <1>3 DEF KInv, Apart, K!HalfDone, K!Physical
<1>8. NamesDiffer => K!RowHasStorage'
  <2> SUFFICES ASSUME NamesDiffer PROVE K!RowHasStorage'
    OBVIOUS
  <2>1. /\ \A u, v : K!TableRows(u, v)' = K!TableRows(u, v)
        /\ \A o : K!Busy(o)' = K!Busy(o)
    BY <1>1 DEF K!TableRows, K!SchemaRows, K!Busy, K!HalfDone, K!Physical
  <2>2. ASSUME NEW s \in Schemas, NEW t \in Tables, NEW r \in K!TableRows(s, t), NEW o,
               o = K!PhysicalName(s, t), o \notin torn', ~K!Busy(o)
        PROVE  K!Behind(storage'[o], r.kind)
    <3>1. o \in K!PhysicalNames
      BY <2>2 DEF K!PhysicalNames
    <3>2. K!Behind(storage[o], r.kind)
      BY <1>3, <2>2 DEF KInv, K!RowHasStorage
    <3>3. storage'[o] = storage[o]
      BY <1>3, <2>2, <3>1, <3>2 DEF K!Behind
    <3> QED
      BY <3>2, <3>3
  <2> QED
    BY <2>1, <2>2 DEF K!RowHasStorage, K!Behind
<1> QED
  BY <1>1, <1>3, <1>4, <1>5, <1>6, <1>7, <1>8 DEF KInv
-----------------------------------------------------------------------------
(***************************************************************************)
(* Crashes and starts, and the theorems.                                   *)
(***************************************************************************)

\* A crash leaves everything half done torn, and no request.
LEMMA CrashOK ==
    ASSUME KInv, K!Crash
    PROVE  KInv'
<1>1. /\ server' = "down"
      /\ torn' = torn \cup {K!Physical(d) : d \in {e \in Clients : K!HalfDone(e)}}
      /\ catPc' = [d \in Clients |-> "idle"] /\ req' = [d \in Clients |-> K!NoRequest]
      /\ UNCHANGED K!dbVars
  BY DEF K!Crash
<1>2. UNCHANGED <<database, schemas, tables, storage, last>>
  BY <1>1 DEF K!dbVars
<1>3. DataType'
  BY <1>1, DataStays DEF KInv
<1>4. torn \subseteq torn' /\ torn' \subseteq K!PhysicalNames
  BY <1>1, HalfDoneIsSQL DEF KInv
<1>5. /\ Starts' /\ catPc' \in [Clients -> Places]
      /\ req' \in [Clients -> RequestRec \cup {K!NoRequest}]
  BY <1>1 DEF Starts, Places
<1>6. \A d \in Clients : catPc'[d] = "idle" /\ req'[d] = K!NoRequest /\ ~K!HalfDone(d)'
  BY <1>1 DEF K!HalfDone
<1>7. ASSUME NEW d \in Clients PROVE Knows(d)' /\ Half(d)'
  <2>1. K!NoRequest.op = "none"
    BY DEF K!NoRequest
  <2> QED
    BY <1>6, <2>1 DEF Knows, Half, Places, K!SQLOps, K!RESTOps
<1>8. Apart'
  BY <1>6 DEF Apart
<1>9. NamesDiffer => K!RowHasStorage'
  <2> SUFFICES ASSUME NamesDiffer PROVE K!RowHasStorage'
    OBVIOUS
  <2>1. \A u, v : K!TableRows(u, v)' = K!TableRows(u, v)
    BY <1>2 DEF K!TableRows, K!SchemaRows
  <2>2. \A d \in Clients : K!HalfDone(d) => K!Physical(d) \in torn'
    BY <1>1
  <2>3. K!RowHasStorage
    BY DEF KInv
  <2>4. ASSUME NEW s \in Schemas, NEW t \in Tables, NEW r \in K!TableRows(s, t),
               K!PhysicalName(s, t) \notin torn'
        PROVE  K!Behind(storage[K!PhysicalName(s, t)], r.kind)
    <3>1. \A d \in Clients : ~(K!HalfDone(d) /\ K!Physical(d) = K!PhysicalName(s, t))
      BY <2>2, <2>4
    <3> QED
      BY <1>4, <2>3, <2>4, <3>1 DEF K!RowHasStorage, K!Busy
  <2> QED
    BY <1>2, <2>1, <2>4 DEF K!RowHasStorage, K!Behind
<1> QED
  BY <1>3, <1>4, <1>5, <1>7, <1>8, <1>9 DEF KInv

\* A step of the start; there is no request yet.
LEMMA StartStep ==
    ASSUME KInv, server # "up", DataType', DataStep, UNCHANGED <<K!clientVars, torn>>,
           server' \in {"public", "schema", "up"}, database' # 0,
           \/ \A s, t : K!TableRows(s, t)' = {}
           \/ storage' = storage /\ \A s, t : K!TableRows(s, t)' \subseteq K!TableRows(s, t)
    PROVE  KInv'
<1>1. UNCHANGED <<catPc, req, torn>>
  BY DEF K!clientVars
<1>2. \A d \in Clients : catPc[d] = "idle" /\ ~K!HalfDone(d) /\ ~K!HalfDone(d)'
  BY <1>1 DEF KInv, Starts, K!HalfDone
<1>3. ASSUME NEW d \in Clients PROVE Knows(d)' /\ Half(d)'
  <2>1. Knows(d) /\ DataType
    BY DEF KInv
  <2> QED
    BY <1>1, <1>2, <2>1, OthersKnow DEF Half
<1>4. Starts' /\ Apart'
  BY <1>1, <1>2 DEF Starts, Apart
<1>5. NamesDiffer => K!RowHasStorage'
  <2> SUFFICES ASSUME NamesDiffer PROVE K!RowHasStorage'
    OBVIOUS
  <2>1. ASSUME NEW s \in Schemas, NEW t \in Tables, NEW r \in K!TableRows(s, t)',
               K!PhysicalName(s, t) \notin torn
        PROVE  K!Behind(storage'[K!PhysicalName(s, t)], r.kind)
    <3>1. r \in K!TableRows(s, t) /\ storage' = storage
      BY <2>1
    <3> QED
      BY <1>2, <2>1, <3>1 DEF KInv, K!RowHasStorage, K!Busy
  <2> QED
    BY <1>1, <2>1 DEF K!RowHasStorage, K!Behind
<1> QED
  BY <1>1, <1>3, <1>4, <1>5 DEF KInv

\* EnsureDefaultNamespace, step by step.
LEMMA StartOK ==
    ASSUME KInv, K!EnsureDatabase \/ K!CreatePublic \/ K!EnsureSchema
    PROVE  KInv'
<1>0. DataType
  BY DEF KInv
<1>1. ASSUME UNCHANGED K!dbVars
      PROVE  /\ DataType' /\ DataStep /\ database' = database /\ storage' = storage
             /\ \A s, t : K!TableRows(s, t)' \subseteq K!TableRows(s, t)
  BY <1>0, <1>1, DataStays DEF K!TableRows, K!SchemaRows, K!dbVars
<1>2. ASSUME server \in {"public", "schema"}, K!InsertSchema(database, DefaultSchema)
      PROVE  /\ DataType' /\ DataStep /\ database' = database /\ storage' = storage
             /\ \A s, t : K!TableRows(s, t)' \subseteq K!TableRows(s, t)
  <2>1. database \in 1 .. last.database
    BY <1>0, <1>2, Counters, NotZero DEF KInv, Starts, DataType
  <2> QED
    BY <1>0, <1>2, <2>1, InsertSchemaOK, DefaultNamed
<1>3. CASE K!EnsureDatabase
  <2>1. server = "down" /\ UNCHANGED <<K!clientVars, torn>>
    BY <1>3 DEF K!EnsureDatabase
  <2>2. CASE database # 0 /\ server' = "schema" /\ UNCHANGED K!dbVars
    BY <1>1, <2>1, <2>2, StartStep
  <2>3. CASE K!InsertDatabase /\ server' = "public"
    <3>1. DataType' /\ DataStep /\ database' # 0 /\ \A s, t : K!TableRows(s, t)' = {}
      BY <1>0, <2>3, InsertDatabaseOK
    <3> QED
      BY <2>1, <2>3, <3>1, StartStep
  <2> QED
    BY <1>3, <2>2, <2>3 DEF K!EnsureDatabase
<1>4. CASE K!CreatePublic
  <2>1. /\ server = "public" /\ server' = "schema" /\ UNCHANGED <<K!clientVars, torn>>
        /\ K!InsertSchema(database, DefaultSchema) /\ database # 0
    BY <1>4 DEF K!CreatePublic, KInv, Starts
  <2> QED
    BY <1>2, <2>1, StartStep
<1>5. CASE K!EnsureSchema
  <2>1. /\ server = "schema" /\ server' = "up" /\ UNCHANGED <<K!clientVars, torn>> /\ database # 0
        /\ UNCHANGED K!dbVars \/ K!InsertSchema(database, DefaultSchema)
    BY <1>5 DEF K!EnsureSchema, KInv, Starts
  <2> QED
    BY <1>1, <1>2, <2>1, StartStep
<1> QED
  BY <1>3, <1>4, <1>5

\* Each kind of request asks for names of its own.
LEMMA RequestOK ==
    ASSUME KInv, NEW c \in Clients, K!Request(c)
    PROVE  KInv'
<1>1. /\ <<>> \in AnyTable /\ Tables \subseteq AnyTable /\ "table" \in K!Kinds
      /\ DefaultSchema \in Schemas
  BY DefaultNamed DEF AnyTable, K!Kinds
<1>2. /\ \A o \in K!DatabaseOps \cup K!SchemaOps : o \in AllOps /\ o \notin K!SQLOps \cup K!RESTOps
      /\ \A o \in K!SQLOps \cup K!RESTOps : o \in AllOps
  BY DEF AllOps, K!DatabaseOps, K!SchemaOps, K!SQLOps, K!RESTOps
<1>3. CASE \E o \in K!DatabaseOps : K!Lookup(c, o, DefaultSchema, <<>>, "table")
  BY <1>1, <1>2, <1>3, LookupOK
<1>4. CASE \E o \in K!SchemaOps, s \in Schemas : K!Lookup(c, o, s, <<>>, "table")
  BY <1>1, <1>2, <1>4, LookupOK
<1>5. CASE \E o \in K!RESTOps, s \in Schemas, t \in Tables : K!Lookup(c, o, s, t, "table")
  BY <1>1, <1>2, <1>5, LookupOK
<1>6. CASE \E o \in K!SQLOps, s \in Schemas, t \in Tables, k \in K!Kinds : K!Lookup(c, o, s, t, k)
  BY <1>1, <1>2, <1>6, LookupOK
<1> QED
  BY <1>3, <1>4, <1>5, <1>6 DEF K!Request

\* An empty catalog.
LEMMA InitOK ==
    ASSUME K!CatalogAssumption, K!Init
    PROVE  KInv
<1>1. DataType
  BY DEF K!Init, DataType, K!PhysicalNames
<1>2. Starts /\ torn \subseteq K!PhysicalNames
  BY DEF K!Init, Starts
<1>3. catPc \in [Clients -> Places] /\ req \in [Clients -> RequestRec \cup {K!NoRequest}]
  BY DEF K!Init, Places
<1>4. \A d \in Clients : catPc[d] = "idle" /\ req[d] = K!NoRequest /\ ~K!HalfDone(d)
  BY DEF K!Init, K!HalfDone
<1>5. ASSUME NEW d \in Clients PROVE Knows(d) /\ Half(d)
  <2>1. K!NoRequest.op = "none"
    BY DEF K!NoRequest
  <2> QED
    BY <1>4, <2>1 DEF Knows, Half, Places, K!SQLOps, K!RESTOps
<1>6. Apart
  BY <1>4 DEF Apart
<1>7. NamesDiffer => K!RowHasStorage
  BY DEF K!Init, K!RowHasStorage, K!TableRows
<1> QED
  BY <1>1, <1>2, <1>3, <1>5, <1>6, <1>7 DEF KInv

\* Nothing changes.
LEMMA StutterOK ==
    ASSUME KInv, UNCHANGED K!vars
    PROVE  KInv'
<1>1. UNCHANGED <<database, schemas, tables, storage, last, server, catPc, req, torn>>
  BY DEF K!vars, K!dbVars, K!clientVars
<1>2. DataType' /\ Starts'
  BY <1>1 DEF KInv, DataType, Starts
<1>3. ASSUME NEW d \in Clients PROVE Knows(d)' /\ Half(d)'
  <2>1. DataStep /\ DataType /\ Knows(d) /\ Half(d)
    BY <1>1, DataStays DEF KInv, K!dbVars
  <2>2. LeftAlone(d)
    BY <1>1 DEF LeftAlone
  <2> QED
    BY <1>1, <1>2, <2>1, <2>2, OthersKnow, OthersHalf
<1>4. Apart'
  BY <1>1 DEF KInv, Apart, K!HalfDone, K!Physical
<1>5. NamesDiffer => K!RowHasStorage'
  <2>1. \A u, v : K!TableRows(u, v)' = K!TableRows(u, v)
    BY <1>1 DEF K!TableRows, K!SchemaRows
  <2> QED
    BY <1>1, <2>1 DEF KInv, K!RowHasStorage, K!Busy, K!Behind, K!HalfDone, K!Physical
<1> QED
  BY <1>1, <1>2, <1>3, <1>4, <1>5 DEF KInv

\* Every step keeps the invariant.
LEMMA NextOK ==
    ASSUME KInv, [K!Next]_(K!vars)
    PROVE  KInv'
<1>1. CASE K!Crash
  BY <1>1, CrashOK
<1>2. CASE K!EnsureDatabase \/ K!CreatePublic \/ K!EnsureSchema
  BY <1>2, StartOK
<1>3. ASSUME NEW c \in Clients,
             \/ K!Request(c) \/ K!CreateDatabase(c) \/ K!CreateSchema(c) \/ K!DropDatabase(c)
             \/ K!DropSchema(c) \/ K!CreateTable(c) \/ K!DropTable(c) \/ K!ExecPhysical(c)
             \/ K!DescribePhysicalTable(c) \/ K!RegisterSQLTable(c) \/ K!UnregisterSQLTable(c)
             \/ K!Fail(c)
      PROVE  KInv'
  BY <1>3, RequestOK, CreateDatabaseOK, CreateSchemaOK, DropDatabaseOK, DropSchemaOK,
     CreateTableOK, DropTableOK, ExecPhysicalOK, DescribePhysicalTableOK, RegisterSQLTableOK,
     UnregisterSQLTableOK, FailOK
<1>4. ASSUME NEW p \in K!PhysicalNames, K!Rename(p) PROVE KInv'
  BY <1>4, RenameOK
<1>5. CASE UNCHANGED K!vars
  BY <1>5, StutterOK
<1> QED
  BY <1>1, <1>2, <1>3, <1>4, <1>5 DEF K!Next

\* The inductive invariant of the catalog.
THEOREM CatalogInvariant ==
    ASSUME K!CatalogAssumption
    PROVE  K!Spec => []KInv
<1>1. K!Init => KInv
  BY InitOK
<1>2. KInv /\ [K!Next]_(K!vars) => KInv'
  BY NextOK
<1> QED
  BY <1>1, <1>2, PTL DEF K!Spec

\* Rows have one id and one name each, whatever requests, statements and crashes
\* interleave (repository.go:255, 264, 276), and DuckDB holds nothing without a
\* database (650).
THEOREM CatalogTypeOK ==
    ASSUME K!CatalogAssumption
    PROVE  K!Spec => []K!TypeOK
<1>1. KInv => K!TypeOK
  <2> SUFFICES ASSUME KInv PROVE K!TypeOK
    OBVIOUS
  <2>1. DataType /\ torn \subseteq K!PhysicalNames
    BY DEF KInv
  <2>2. \A r \in schemas : \A q \in schemas :
           r # q => r.id # q.id /\ <<r.database, r.name>> # <<q.database, q.name>>
    BY <2>1 DEF DataType
  <2>3. \A r \in tables : \A q \in tables :
           r # q => r.id # q.id /\ <<r.schema, r.name>> # <<q.schema, q.name>>
    BY <2>1 DEF DataType
  <2>4. \A r \in tables : r.kind \in K!Kinds
    BY <2>1 DEF DataType, TableRec
  <2>5. \A c \in Clients : (req[c] = K!NoRequest) <=> (catPc[c] = "idle")
    BY DEF KInv, Knows
  <2> QED
    BY <2>1, <2>2, <2>3, <2>4, <2>5 DEF K!TypeOK, DataType
<1> QED
  BY <1>1, CatalogInvariant, PTL

\* A table or view that can be named has its object, and a view's is a view,
\* unless a statement on it was cut in half or overtaken, the object was renamed,
\* or a deletion outlived its database (repository.go:930-953, 1155;
\* catalog_sync.go:143, 186; executor.go:744, 788).  A table's object may be a
\* view that CREATE TABLE IF NOT EXISTS has left alone.  For any names of which
\* no two are joined to one physical name (930).
THEOREM CatalogRowHasStorage ==
    ASSUME K!CatalogAssumption, NamesDiffer
    PROVE  K!Spec => []K!RowHasStorage
<1>1. KInv => K!RowHasStorage
  BY DEF KInv
<1> QED
  BY <1>1, CatalogInvariant, PTL

\* Only the last step of a start brings the server up.
LEMMA ComesUp ==
    ASSUME [K!Next]_(K!vars), server # "up", server' = "up"
    PROVE  K!EnsureSchema
<1>1. CASE UNCHANGED K!vars
  BY <1>1 DEF K!vars
<1>2. ASSUME NEW c \in Clients, K!Request(c) PROVE UNCHANGED server
  BY <1>2 DEF K!Request, K!Lookup
<1>3. ASSUME NEW c \in Clients,
             \/ K!CreateDatabase(c) \/ K!CreateSchema(c) \/ K!DropDatabase(c) \/ K!DropSchema(c)
             \/ K!CreateTable(c) \/ K!DropTable(c)
      PROVE  UNCHANGED server
  BY <1>3 DEF K!CreateDatabase, K!CreateSchema, K!DropDatabase, K!DropSchema,
              K!CreateTable, K!DropTable
<1>4. ASSUME NEW c \in Clients,
             \/ K!ExecPhysical(c) \/ K!DescribePhysicalTable(c) \/ K!RegisterSQLTable(c)
             \/ K!UnregisterSQLTable(c) \/ K!Fail(c)
      PROVE  UNCHANGED server
  BY <1>4 DEF K!ExecPhysical, K!DescribePhysicalTable, K!RegisterSQLTable,
              K!UnregisterSQLTable, K!Fail
<1>5. /\ ~K!Crash /\ ~K!EnsureDatabase /\ ~K!CreatePublic
      /\ ~\E p \in K!PhysicalNames : K!Rename(p)
  BY DEF K!Crash, K!EnsureDatabase, K!CreatePublic, K!Rename
<1> QED
  BY <1>1, <1>2, <1>3, <1>4, <1>5 DEF K!Next

\* A start ends with the default database and its schema, though another start
\* died half-way (repository.go:224-250).
THEOREM CatalogDefaultNamespace ==
    ASSUME K!CatalogAssumption
    PROVE  K!Spec => K!DefaultNamespace
<1> DEFINE Ends ==
             server # "up" /\ server' = "up" => (database # 0 /\ K!SchemaRows(DefaultSchema) # {})'
<1>1. ASSUME KInv, [K!Next]_(K!vars), server # "up", server' = "up"
      PROVE  (database # 0 /\ K!SchemaRows(DefaultSchema) # {})'
  <2>1. /\ server = "schema"
        /\ \/ K!SchemaRows(DefaultSchema) # {} /\ UNCHANGED K!dbVars
           \/ K!InsertSchema(database, DefaultSchema)
    BY <1>1, ComesUp DEF K!EnsureSchema
  <2>2. database # 0 /\ DataType
    BY <1>1, <2>1 DEF KInv, Starts
  <2>3. CASE K!SchemaRows(DefaultSchema) # {} /\ UNCHANGED K!dbVars
    BY <2>2, <2>3 DEF K!SchemaRows, K!dbVars
  <2>4. CASE K!InsertSchema(database, DefaultSchema)
    <3>1. PICK x : x = [id |-> last.schema + 1, database |-> database, name |-> DefaultSchema]
      OBVIOUS
    <3>2. x \in schemas' /\ database' = database
      BY <2>4, <3>1 DEF K!InsertSchema
    <3>3. x.database = database /\ x.name = DefaultSchema
      BY <3>1
    <3> QED
      BY <2>2, <3>2, <3>3 DEF K!SchemaRows
  <2> QED
    BY <2>1, <2>3, <2>4
<1>2. KInv /\ [K!Next]_(K!vars) => [Ends]_(K!vars)
  BY <1>1
<1> QED
  BY <1>2, CatalogInvariant, PTL DEF K!Spec, K!DefaultNamespace
=============================================================================
