------------------------------ MODULE Streams ------------------------------
(***************************************************************************)
(* An append-only stream over one source table, the statements that        *)
(* consume it, and MERGE.                                                  *)
(* Source: pkg/query/stream_processor.go, pkg/metadata/stream_repository   *)
(* .go, pkg/query/executor.go (executeRawWithContext) and                  *)
(* pkg/query/merge_processor.go.                                           *)
(*                                                                         *)
(* A stream is a row with an offset: it shows the source rows whose rowid  *)
(* is greater.  A consuming statement lists the streams, reads the         *)
(* greatest rowid, runs over the rows between the two, and then moves the  *)
(* offset.  These are four calls on a shared database, so the calls of     *)
(* two clients interleave, and each can fail after the ones before it took *)
(* effect.                                                                 *)
(*                                                                         *)
(* MERGE is tried as one native statement.  When that returns an error it  *)
(* is decomposed into an UPDATE and an INSERT, and each of them consumes   *)
(* the stream on its own.                                                  *)
(***************************************************************************)
EXTENDS Integers, Sequences, FiniteSetsExt

CONSTANTS
    Clients,
    MaxRow,        \* bound: rowids 0 .. MaxRow - 1 in one source table
    MaxStream,     \* bound: streams created under the one name
    MaxTable,      \* bound: source tables created under the one name
    MatchedRows,   \* rowids whose row MERGE's ON condition matches
    NoStream

VARIABLES
    source,      \* the source table: [table, rows, next]
    stream,      \* the row of _metadata_streams, or NoStream
    lastId,      \* ids given to streams so far
    todo,        \* statements a client has still to run
    pc,          \* where the client is in the first of them
    snap,        \* what it read: [id, offset, high]; CREATE STREAM: the table as id
    read,        \* rows the applied statement read, until the offset is moved
    born,        \* history: the table and offset the stream was created with
    handled,     \* history: rows an applied statement acted upon
    settled,     \* history: rows read by statements that moved the offset
    seen,        \* history: settled when the client listed the streams
    decomposed   \* history: a decomposed MERGE has read the stream

\* The history is that of the present stream and the present source table: it
\* starts afresh when either is replaced.
dbVars == <<source, stream, lastId>>
clientVars == <<todo, pc, snap, read>>
historyVars == <<born, handled, settled, seen, decomposed>>
vars == <<dbVars, clientVars, historyVars>>
-----------------------------------------------------------------------------
RowIds == 0 .. MaxRow - 1
StreamIds == 1 .. MaxStream
Tables == 1 .. MaxTable

Offsets == -1 .. MaxRow - 1
StreamRows == [id : StreamIds, offset : Offsets]
Statements == {"dml", "native", "update", "insert"}
NoSnap == [id |-> 0, offset |-> -1, high |-> -1]

ASSUME StreamAssumption ==
    /\ {MaxRow, MaxStream, MaxTable} \subseteq Nat \ {0}
    /\ MatchedRows \subseteq RowIds
    /\ NoStream \notin StreamRows

\* SELECT COALESCE(MAX(rowid), -1) FROM source.
MaxRowId == Max(source.rows \cup {-1})

\* The rows the rewritten statement of c reads.
Window(c) == {r \in source.rows : snap[c].offset < r /\ r <= snap[c].high}

\* The rows among w that statement s acts upon.
Affected(s, w) ==
    CASE s = "update" -> w \cap MatchedRows
      [] s = "insert" -> w \ MatchedRows
      [] OTHER        -> w

\* c works on the present stream.
Current(c) == stream # NoStream /\ snap[c].id = stream.id
-----------------------------------------------------------------------------
\* The source table, as ordinary statements leave it.  Rowids grow and are
\* not reused; a replaced table starts again at 0.

InsertRow ==
    /\ source.next < MaxRow
    /\ source' = [source EXCEPT !.rows = @ \cup {source.next}, !.next = @ + 1]
    /\ UNCHANGED <<stream, lastId, clientVars, historyVars>>

DeleteRow ==
    /\ \E r \in source.rows : source' = [source EXCEPT !.rows = @ \ {r}]
    /\ UNCHANGED <<stream, lastId, clientVars, historyVars>>

NewHistory ==
    /\ handled' = {} /\ settled' = {} /\ decomposed' = FALSE
    /\ read' = [c \in Clients |-> {}]
    /\ seen' = [c \in Clients |-> {}]

ReplaceTable ==
    /\ source.table < MaxTable
    /\ source' = [table |-> source.table + 1, rows |-> {}, next |-> 0]
    /\ NewHistory
    /\ UNCHANGED <<stream, lastId, todo, pc, snap, born>>
-----------------------------------------------------------------------------
\* CREATE STREAM: the offset is read first, the row is inserted second.

MeasureSource(c) ==
    /\ pc[c] = "idle"
    /\ lastId < MaxStream
    /\ pc' = [pc EXCEPT ![c] = "create"]
    /\ snap' = [snap EXCEPT ![c] = [id |-> source.table, offset |-> MaxRowId, high |-> -1]]
    /\ UNCHANGED <<dbVars, todo, read, historyVars>>

\* An existing stream is an error, unless OR REPLACE deletes it first.
CreateStream(c, replace) ==
    /\ pc[c] = "create"
    /\ pc' = [pc EXCEPT ![c] = "idle"]
    /\ snap' = [snap EXCEPT ![c] = NoSnap]
    /\ IF (stream = NoStream \/ replace) /\ lastId < MaxStream
       THEN /\ stream' = [id |-> lastId + 1, offset |-> snap[c].offset]
            /\ lastId' = lastId + 1
            /\ born' = [table |-> snap[c].id, offset |-> snap[c].offset]
            /\ NewHistory
       ELSE UNCHANGED <<stream, lastId, read, historyVars>>
    /\ UNCHANGED <<source, todo>>

DropStream ==
    /\ stream # NoStream
    /\ stream' = NoStream
    /\ NewHistory
    /\ UNCHANGED <<source, lastId, todo, pc, snap, born>>
-----------------------------------------------------------------------------
\* Consuming statements

Start(c) ==
    /\ pc[c] = "idle"
    /\ \E s \in {"dml", "native"} : todo' = [todo EXCEPT ![c] = <<s>>]
    /\ pc' = [pc EXCEPT ![c] = "list"]
    /\ UNCHANGED <<dbVars, snap, read, historyVars>>

\* rewriteReferences, first query: the stream and its offset.
ListStreams(c) ==
    /\ pc[c] = "list"
    /\ stream # NoStream
    /\ snap' = [snap EXCEPT ![c] = [id |-> stream.id, offset |-> stream.offset, high |-> -1]]
    /\ seen' = [seen EXCEPT ![c] = settled]
    /\ decomposed' = (decomposed \/ Head(todo[c]) \in {"update", "insert"})
    /\ pc' = [pc EXCEPT ![c] = "measure"]
    /\ UNCHANGED <<dbVars, todo, read, born, handled, settled>>

\* rewriteReferences, second query: the high-water mark.
FreezeHighWater(c) ==
    /\ pc[c] = "measure"
    /\ snap' = [snap EXCEPT ![c].high = MaxRowId]
    /\ pc' = [pc EXCEPT ![c] = "exec"]
    /\ UNCHANGED <<dbVars, todo, read, historyVars>>

\* The statement itself runs and commits.
Exec(c) ==
    /\ pc[c] = "exec"
    /\ read' = [read EXCEPT ![c] = IF Current(c) THEN Window(c) ELSE {}]
    /\ handled' = IF Current(c) THEN handled \cup Affected(Head(todo[c]), Window(c)) ELSE handled
    /\ pc' = [pc EXCEPT ![c] = "advance"]
    /\ UNCHANGED <<dbVars, todo, snap, born, settled, seen, decomposed>>

\* c is done with a statement; the ones in rest remain.
ContinueLater(c, rest) ==
    /\ todo' = [todo EXCEPT ![c] = rest]
    /\ pc' = [pc EXCEPT ![c] = "idle"]
    /\ snap' = [snap EXCEPT ![c] = NoSnap]
    /\ read' = [read EXCEPT ![c] = {}]
    /\ seen' = [seen EXCEPT ![c] = {}]

Continue(c, rest) ==
    /\ todo' = [todo EXCEPT ![c] = rest]
    /\ pc' = [pc EXCEPT ![c] = IF rest = <<>> THEN "idle" ELSE "list"]
    /\ snap' = [snap EXCEPT ![c] = NoSnap]
    /\ read' = [read EXCEPT ![c] = {}]
    /\ seen' = [seen EXCEPT ![c] = {}]

\* UPDATE _metadata_streams SET stream_offset = ? WHERE id = ? AND
\* stream_offset < ?; when no row changed, the row must still be there.
UpdateStreamOffset(c, offset) ==
    /\ Current(c)
    /\ stream' = [stream EXCEPT !.offset = Max({@, offset})]

\* Mutants for AdvanceOffsets.
AdvanceToLatest(c) ==
    /\ pc[c] = "advance"
    /\ UpdateStreamOffset(c, MaxRowId)
    /\ settled' = IF Current(c) THEN settled \cup read[c] ELSE settled
    /\ Continue(c, Tail(todo[c]))
    /\ UNCHANGED <<source, lastId, born, handled, decomposed>>

AdvanceLessThanRead(c) ==
    /\ pc[c] = "advance"
    /\ UpdateStreamOffset(c, snap[c].high - 1)
    /\ settled' = IF Current(c) THEN settled \cup read[c] ELSE settled
    /\ Continue(c, Tail(todo[c]))
    /\ UNCHANGED <<source, lastId, born, handled, decomposed>>

AdvanceOffsets(c) ==
    /\ pc[c] = "advance"
    /\ IF snap[c].high <= snap[c].offset THEN UNCHANGED stream
                                        ELSE UpdateStreamOffset(c, snap[c].high)
    /\ settled' = IF Current(c) THEN settled \cup read[c] ELSE settled
    /\ Continue(c, Tail(todo[c]))
    /\ UNCHANGED <<source, lastId, born, handled, decomposed>>

\* Any of the calls fails, or (list, advance) the stream is gone.  ExecuteMerge
\* answers every error of the native attempt, whatever had taken effect, by
\* decomposing the MERGE; other errors end the request.
Fail(c) ==
    /\ pc[c] \in {"list", "measure", "exec", "advance"}
    /\ Continue(c, IF Head(todo[c]) = "native" THEN <<"update", "insert">> ELSE <<>>)
    /\ UNCHANGED <<dbVars, born, handled, settled, decomposed>>

\* The process dies between two calls and its requests are forgotten.
Crash ==
    /\ \E c \in Clients : pc[c] # "idle"
    /\ pc' = [c \in Clients |-> "idle"]
    /\ todo' = [c \in Clients |-> <<>>]
    /\ snap' = [c \in Clients |-> NoSnap]
    /\ read' = [c \in Clients |-> {}]
    /\ seen' = [c \in Clients |-> {}]
    /\ UNCHANGED <<dbVars, born, handled, settled, decomposed>>
-----------------------------------------------------------------------------
Init ==
    /\ source = [table |-> 1, rows |-> {}, next |-> 0]
    /\ stream = NoStream
    /\ lastId = 0
    /\ todo = [c \in Clients |-> <<>>]
    /\ pc = [c \in Clients |-> "idle"]
    /\ snap = [c \in Clients |-> NoSnap]
    /\ read = [c \in Clients |-> {}]
    /\ born = [table |-> 1, offset |-> -1]
    /\ handled = {}
    /\ settled = {}
    /\ seen = [c \in Clients |-> {}]
    /\ decomposed = FALSE

Next ==
    \/ InsertRow
    \/ DeleteRow
    \/ ReplaceTable
    \/ DropStream
    \/ Crash
    \/ \E c \in Clients :
          \/ MeasureSource(c)
          \/ \E replace \in BOOLEAN : CreateStream(c, replace)
          \/ Start(c)
          \/ ListStreams(c)
          \/ FreezeHighWater(c)
          \/ Exec(c)
          \/ AdvanceOffsets(c)
          \/ Fail(c)

Spec == Init /\ [][Next]_vars
-----------------------------------------------------------------------------
\* The types of the variables.  A statement under way has read a stream that
\* was created, and a client between requests holds nothing.
TypeOK ==
    /\ source.table \in Tables /\ source.next \in 0 .. MaxRow
    /\ source.rows \subseteq 0 .. source.next - 1
    /\ lastId \in 0 .. MaxStream
    /\ stream = NoStream \/ (stream \in StreamRows /\ stream.id = lastId)
    /\ born \in [table : Tables, offset : Offsets]
    /\ \A c \in Clients :
          /\ pc[c] \in {"idle", "create", "list", "measure", "exec", "advance"}
          /\ \A i \in 1 .. Len(todo[c]) : todo[c][i] \in Statements
          /\ (pc[c] \in {"idle", "create"}) <=> (todo[c] = <<>>)
          /\ pc[c] \in {"measure", "exec", "advance"} => snap[c].id \in 1 .. lastId
          /\ pc[c] # "advance" => read[c] = {}
          /\ read[c] \cup seen[c] \subseteq RowIds
    /\ handled \cup settled \subseteq RowIds
    /\ decomposed \in BOOLEAN

\* README: a successful DML statement advances the offset, "so the same
\* changes are not returned again".  A consuming statement never reads a row
\* that a statement which had succeeded before it began has read, whatever
\* other clients, failures and crashes do in between.
NotReturnedAgain ==
    \A c \in Clients : pc[c] = "exec" => Window(c) \cap seen[c] = {}

\* The rows of the table the stream was created on that came after its
\* creation and that its offset has passed.
Passed == IF stream = NoStream \/ source.table # born.table THEN {}
          ELSE {r \in source.rows : born.offset < r /\ r <= stream.offset}

\* No insert is lost: a row the offset has passed has been acted upon by a
\* statement that was applied.  Streams read by a decomposed MERGE are the
\* exception: see MergeLosesNoRow.
NoRowSkipped == ~decomposed => Passed \subseteq handled

\* The high-water mark is frozen "so a successful DML statement can advance to
\* the exact set of rows it consumed" (stream_processor.go:120).  With MERGE
\* too: when one succeeds, every row the offset has passed was acted upon.
MergeLosesNoRow ==
    [][\A c \in Clients : AdvanceOffsets(c) /\ todo[c] = <<"insert">>
          => (Passed \subseteq handled)']_vars
=============================================================================
