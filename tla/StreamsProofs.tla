---------------------------- MODULE StreamsProofs ----------------------------
(***************************************************************************)
(* The safety of Streams for any clients, any matched rows and any bounds: *)
(* no consumer that began after another had succeeded reads its rows, and  *)
(* no row is passed by the offset unless a statement acted upon it.        *)
(*                                                                         *)
(* Neither is inductive.  A consumer reads between the offset it listed    *)
(* and the mark it froze, so the first needs that what is settled lies     *)
(* behind the offset; the second needs that the mark is below the next     *)
(* rowid, so that no later insert falls into a window that has been read,  *)
(* and that on the table the stream was created on nothing but the offset  *)
(* itself is ever ahead of a consumer's snapshot.                          *)
(***************************************************************************)
EXTENDS Streams, TLAPS, WellFoundedInduction

Places == {"idle", "create", "list", "measure", "exec", "advance"}
Listed == {"measure", "exec", "advance"}

\* What a client may have still to run.
Plans == {<<>>, <<"dml">>, <<"native">>, <<"update", "insert">>, <<"insert">>}

StateType ==
    /\ source \in [table : Tables, rows : SUBSET RowIds, next : 0 .. MaxRow]
    /\ \A r \in source.rows : r < source.next
    /\ lastId \in 0 .. MaxStream
    /\ stream = NoStream \/ (stream \in StreamRows /\ stream.id = lastId)
    /\ born \in [table : Tables, offset : Offsets]
    /\ pc \in [Clients -> Places]
    /\ todo \in [Clients -> Plans]
    /\ snap \in [Clients -> [id : Nat, offset : Offsets, high : Offsets]]
    /\ read \in [Clients -> SUBSET RowIds] /\ seen \in [Clients -> SUBSET RowIds]
    /\ handled \subseteq RowIds /\ settled \subseteq RowIds /\ decomposed \in BOOLEAN

\* Where a client is says what it holds.
PlacesHold ==
    \A c \in Clients :
        /\ pc[c] \in {"idle", "create"} <=> todo[c] = <<>>
        /\ pc[c] \in Listed => snap[c].id \in 1 .. lastId
        /\ pc[c] # "advance" => read[c] = {}
        /\ pc[c] \notin Listed => seen[c] = {}

\* Tables are replaced by later ones, so what was measured on a table that is
\* still there was measured on it.
TablesGrow ==
    /\ born.table <= source.table
    /\ \A c \in Clients : pc[c] = "create" =>
          /\ snap[c].id \in Tables /\ snap[c].id <= source.table
          /\ snap[c].id = source.table => snap[c].offset < source.next

\* What is settled lies behind the offset, and what a client knew to be
\* settled behind its window.
SettledBehind ==
    /\ \A r \in settled : stream # NoStream /\ r <= stream.offset
    /\ \A c \in Clients :
          /\ \A r \in seen[c] : r <= snap[c].offset
          /\ \A r \in read[c] : snap[c].offset < r /\ r <= snap[c].high

OnBornTable == stream # NoStream /\ source.table = born.table

\* On the stream's own table, a window that was frozen gets no more rows, and
\* one that was read was acted upon.
WindowsClosed ==
    /\ OnBornTable => stream.offset < source.next
    /\ \A c \in Clients : (pc[c] \in Listed /\ Current(c)) =>
          /\ snap[c].offset <= stream.offset
          /\ OnBornTable /\ pc[c] \in {"exec", "advance"} => snap[c].high < source.next
          /\ OnBornTable /\ ~decomposed =>
                /\ Head(todo[c]) \in {"dml", "native"}
                /\ pc[c] = "advance" => Window(c) \subseteq handled

\* The inductive invariant.
SInv == StateType /\ PlacesHold /\ TablesGrow /\ SettledBehind /\ WindowsClosed /\ NoRowSkipped
-----------------------------------------------------------------------------
(***************************************************************************)
(* Facts about the operators.                                              *)
(***************************************************************************)

BoundedBy(S, n) == S \in SUBSET Int /\ \A r \in S : r <= n

\* A set of integers that is not empty and is bounded has a greatest member.
LEMMA MaxIsGreatest ==
    ASSUME NEW n \in Int, NEW S, BoundedBy(S, n), S # {}
    PROVE  Max(S) \in S /\ \A r \in S : r <= Max(S)
<1> USE DEF BoundedBy
<1> DEFINE T == {n - r : r \in S}
<1>1. T \in SUBSET Nat /\ T # {}
  <2>1. \A r \in S : n - r \in Nat
    OBVIOUS
  <2>2. T \subseteq Nat
    BY <2>1
  <2>3. T # {}
    <3>1. PICK r \in S : TRUE
      OBVIOUS
    <3>2. n - r \in T
      OBVIOUS
    <3> QED
      BY <3>2
  <2> QED
    BY <2>2, <2>3
<1>2. \E x \in T : \A y \in T : ~ (<<y, x>> \in OpToRel(<, Nat))
  <2> HIDE DEF T
  <2> QED
    BY <1>1, NatLessThanWellFounded, WFMin
<1>3. PICK x \in T : \A y \in T : ~(y < x)
  BY <1>1, <1>2 DEF OpToRel
<1>4. PICK m \in S : x = n - m
  OBVIOUS
<1>5. \A r \in S : m >= r
  <2>1. ASSUME NEW r \in S PROVE m >= r
    <3>1. n - r \in T
      OBVIOUS
    <3> HIDE DEF T
    <3>2. ~(n - r < n - m)
      BY <1>3, <1>4, <3>1
    <3> QED
      BY <3>2
  <2> QED
    BY <2>1
<1>6. Max(S) \in S /\ \A r \in S : Max(S) >= r
  BY <1>5 DEF Max
<1> QED
  BY <1>6

\* The greatest rowid is below the next one, and is an offset.
LEMMA MaxRowIdOK ==
    ASSUME StateType
    PROVE  /\ MaxRowId \in Offsets /\ MaxRowId < source.next
           /\ \A r \in source.rows : r <= MaxRowId
<1>1. MaxRow \in Nat \ {0}
  BY StreamAssumption
<1>2. /\ source.rows \subseteq RowIds /\ source.next \in 0 .. MaxRow
      /\ \A r \in source.rows : r < source.next
  BY DEF StateType
<1>3. PICK S : S = source.rows \cup {-1}
  OBVIOUS
<1>4. S \in SUBSET Int /\ S # {} /\ \A r \in S : r <= MaxRow /\ r < source.next /\ r \in Offsets
  BY <1>1, <1>2, <1>3 DEF RowIds, Offsets
<1>5. Max(S) \in S /\ \A r \in S : r <= Max(S)
  <2>1. BoundedBy(S, MaxRow)
    BY <1>4 DEF BoundedBy
  <2> QED
    BY <1>1, <1>4, <2>1, MaxIsGreatest
<1> QED
  BY <1>3, <1>4, <1>5 DEF MaxRowId

\* The plans and what is left of them.
LEMMA PlansOK ==
    ASSUME NEW p \in Plans
    PROVE  /\ \A i \in 1 .. Len(p) : p[i] \in Statements
           /\ p # <<>> => Tail(p) \in Plans /\ Head(p) \in Statements
           /\ <<"update", "insert">> \in Plans /\ <<>> \in Plans
           /\ <<"update", "insert">> # <<>>
<1>1. CASE p = <<>>
  BY <1>1 DEF Plans
<1>2. CASE p \in {<<"dml">>, <<"native">>, <<"insert">>}
  <2>1. PICK s \in {"dml", "native", "insert"} : p = <<s>>
    BY <1>2
  <2>2. Len(p) = 1 /\ p[1] = s /\ Tail(p) = <<>> /\ Head(p) = s
    BY <2>1
  <2> QED
    BY <2>1, <2>2 DEF Plans, Statements
<1>3. CASE p = <<"update", "insert">>
  <2>1. Len(p) = 2 /\ p[1] = "update" /\ p[2] = "insert" /\ Head(p) = "update"
    BY <1>3
  <2>2. Tail(p) = <<"insert">>
    BY <1>3
  <2> QED
    BY <2>1, <2>2 DEF Plans, Statements
<1> QED
  BY <1>1, <1>2, <1>3 DEF Plans

\* A window lies between what was listed and what was frozen.
LEMMA WindowOK ==
    ASSUME StateType, NEW c \in Clients
    PROVE  /\ Window(c) \subseteq RowIds /\ Window(c) \subseteq source.rows
           /\ \A r \in Window(c) : snap[c].offset < r /\ r <= snap[c].high
  BY DEF StateType, Window

LEMMA AffectedOK ==
    ASSUME NEW s, NEW w \in SUBSET RowIds
    PROVE  /\ Affected(s, w) \subseteq RowIds
           /\ s \in {"dml", "native"} => Affected(s, w) = w
  BY DEF Affected
-----------------------------------------------------------------------------
(***************************************************************************)
(* The source table and the stream's row.                                  *)
(***************************************************************************)

\* An insert takes a rowid above every mark.
LEMMA InsertRowOK ==
    ASSUME SInv, InsertRow
    PROVE  SInv'
<1> USE DEF InsertRow, clientVars, historyVars
<1>1. /\ source.next \in RowIds /\ source.next \in Int /\ source'.next = source.next + 1
      /\ source'.rows = source.rows \cup {source.next} /\ source'.table = source.table
      /\ source' \in [table : Tables, rows : SUBSET RowIds, next : 0 .. MaxRow]
  <2>1. source.next \in RowIds /\ source.next + 1 \in 0 .. MaxRow /\ source.next \in Int
    BY StreamAssumption DEF SInv, StateType, RowIds
  <2> QED
    BY <2>1 DEF SInv, StateType
<1>2. \A r \in source.rows : r \in Int /\ r < source.next
  BY DEF SInv, StateType, RowIds
<1>3. StateType'
  BY <1>1, <1>2 DEF SInv, StateType
<1>4. PlacesHold' /\ SettledBehind'
  BY DEF SInv, PlacesHold, SettledBehind
<1>5. TablesGrow'
  <2>1. \A c \in Clients : snap[c].offset \in Int
    BY DEF SInv, StateType, Offsets
  <2> QED
    BY <1>1, <2>1 DEF SInv, TablesGrow
<1>6. WindowsClosed'
  <2>1. OnBornTable' = OnBornTable /\ \A c \in Clients : Current(c)' = Current(c)
    BY <1>1 DEF OnBornTable, Current
  <2>2. stream # NoStream => stream.offset \in Int
    BY DEF SInv, StateType, StreamRows, Offsets
  <2>3. ASSUME NEW c \in Clients, snap[c].high < source.next
        PROVE  snap[c].high < source'.next /\ Window(c)' = Window(c)
    <3>1. snap[c].high \in Int /\ snap[c].offset \in Int
      BY DEF SInv, StateType, Offsets
    <3> QED
      BY <1>1, <2>3, <3>1 DEF Window
  <2> QED
    BY <1>1, <2>1, <2>2, <2>3 DEF SInv, WindowsClosed, OnBornTable
<1>7. NoRowSkipped'
  <2>1. OnBornTable => stream.offset < source.next /\ stream.offset \in Int
    BY DEF SInv, WindowsClosed, StateType, OnBornTable, StreamRows, Offsets
  <2>2. Passed' = Passed
    BY <1>1, <2>1 DEF Passed, OnBornTable
  <2> QED
    BY <2>2 DEF SInv, NoRowSkipped
<1> QED
  BY <1>3, <1>4, <1>5, <1>6, <1>7 DEF SInv

LEMMA DeleteRowOK ==
    ASSUME SInv, DeleteRow
    PROVE  SInv'
<1> USE DEF DeleteRow, clientVars, historyVars
<1>1. /\ source' \in [table : Tables, rows : SUBSET RowIds, next : 0 .. MaxRow]
      /\ source'.rows \subseteq source.rows
      /\ source'.table = source.table /\ source'.next = source.next
  BY DEF SInv, StateType
<1>2. StateType'
  BY <1>1 DEF SInv, StateType
<1>3. PlacesHold' /\ SettledBehind' /\ TablesGrow'
  BY <1>1 DEF SInv, PlacesHold, SettledBehind, TablesGrow
<1>4. WindowsClosed'
  BY <1>1 DEF SInv, WindowsClosed, OnBornTable, Current, Window
<1>5. NoRowSkipped'
  BY <1>1 DEF SInv, NoRowSkipped, Passed
<1> QED
  BY <1>2, <1>3, <1>4, <1>5 DEF SInv

\* What was created on the table that is gone is not on a table again.
LEMMA ReplaceTableOK ==
    ASSUME SInv, ReplaceTable
    PROVE  SInv'
<1> USE DEF ReplaceTable, NewHistory
<1>1. /\ source' \in [table : Tables, rows : SUBSET RowIds, next : 0 .. MaxRow]
      /\ source'.rows = {} /\ source'.table = source.table + 1 /\ source.table \in Int
  <2>1. source.table + 1 \in Tables /\ source.table \in Int /\ 0 \in 0 .. MaxRow
    BY StreamAssumption DEF SInv, StateType, Tables
  <2> QED
    BY <2>1
<1>2. StateType'
  BY <1>1 DEF SInv, StateType
<1>3. PlacesHold' /\ SettledBehind'
  BY <1>1 DEF SInv, PlacesHold, SettledBehind
<1>4. born.table \in Int /\ born.table < source'.table
  BY <1>1 DEF SInv, TablesGrow, StateType, Tables
<1>5. TablesGrow'
  <2>1. \A c \in Clients : pc[c] = "create" =>
           snap[c].id \in Tables /\ snap[c].id \in Int /\ snap[c].id < source'.table
    BY <1>1 DEF SInv, TablesGrow, Tables
  <2> QED
    BY <1>1, <1>4, <2>1 DEF TablesGrow
<1>6. WindowsClosed' /\ NoRowSkipped'
  <2>1. ~OnBornTable'
    BY <1>4 DEF OnBornTable
  <2>2. Passed' = {}
    BY <1>1 DEF Passed
  <2> QED
    BY <2>1, <2>2 DEF SInv, WindowsClosed, NoRowSkipped, Current
<1> QED
  BY <1>2, <1>3, <1>5, <1>6 DEF SInv

LEMMA DropStreamOK ==
    ASSUME SInv, DropStream
    PROVE  SInv'
<1> USE DEF DropStream, NewHistory
<1>1. StateType'
  BY DEF SInv, StateType
<1>2. PlacesHold' /\ SettledBehind' /\ TablesGrow'
  BY DEF SInv, PlacesHold, SettledBehind, TablesGrow
<1>3. WindowsClosed'
  BY DEF WindowsClosed, OnBornTable, Current
<1>4. NoRowSkipped'
  BY DEF NoRowSkipped, Passed
<1> QED
  BY <1>1, <1>2, <1>3, <1>4 DEF SInv

LEMMA MeasureSourceOK ==
    ASSUME SInv, NEW c \in Clients, MeasureSource(c)
    PROVE  SInv'
<1> USE DEF MeasureSource, dbVars, historyVars
<1>1. MaxRowId \in Offsets /\ MaxRowId < source.next /\ -1 \in Offsets /\ source.table \in Nat
  BY MaxRowIdOK, StreamAssumption DEF SInv, StateType, Offsets, Tables
<1>2. PICK n : n = [id |-> source.table, offset |-> MaxRowId, high |-> -1]
  OBVIOUS
<1>3. snap' = [snap EXCEPT ![c] = n] /\ n \in [id : Nat, offset : Offsets, high : Offsets]
  BY <1>1, <1>2
<1>4. StateType'
  BY <1>3 DEF SInv, StateType, Places
<1>5. pc'[c] = "create" /\ snap'[c] = n /\ \A d \in Clients \ {c} : pc'[d] = pc[d] /\ snap'[d] = snap[d]
  BY <1>3 DEF SInv, StateType
<1>6. PlacesHold'
  BY <1>5 DEF SInv, PlacesHold, Listed
<1>7. SettledBehind'
  <2>1. seen[c] = {} /\ read[c] = {}
    BY DEF SInv, PlacesHold, Listed
  <2> QED
    BY <1>5, <2>1 DEF SInv, SettledBehind
<1>8. TablesGrow'
  BY <1>1, <1>2, <1>5 DEF SInv, TablesGrow, StateType, Tables
<1>9. WindowsClosed'
  BY <1>5 DEF SInv, WindowsClosed, OnBornTable, Current, Window, Listed
<1>10. NoRowSkipped'
  BY DEF SInv, NoRowSkipped, Passed
<1> QED
  BY <1>4, <1>6, <1>7, <1>8, <1>9, <1>10 DEF SInv

\* A new stream is not the one of any statement under way, and starts below
\* the rowids to come if its table is still there.
LEMMA CreateStreamOK ==
    ASSUME SInv, NEW c \in Clients, NEW replace \in BOOLEAN, CreateStream(c, replace)
    PROVE  SInv'
<1>1. /\ pc[c] = "create" /\ pc' = [pc EXCEPT ![c] = "idle"]
      /\ snap' = [snap EXCEPT ![c] = NoSnap] /\ UNCHANGED <<source, todo>>
  BY DEF CreateStream
<1>2. /\ NoSnap \in [id : Nat, offset : Offsets, high : Offsets] /\ NoSnap.offset = -1
  BY StreamAssumption DEF NoSnap, Offsets
<1>3. /\ pc'[c] = "idle" /\ snap'[c] = NoSnap
      /\ \A d \in Clients \ {c} : pc'[d] = pc[d] /\ snap'[d] = snap[d]
      /\ pc' \in [Clients -> Places]
      /\ snap' \in [Clients -> [id : Nat, offset : Offsets, high : Offsets]]
  BY <1>1, <1>2 DEF SInv, StateType, Places
<1>4. TablesGrow' \/ ~(UNCHANGED born)
  BY <1>1, <1>3 DEF SInv, TablesGrow
<1>5. seen[c] = {} /\ read[c] = {} /\ todo[c] = <<>>
  BY <1>1 DEF SInv, PlacesHold, Listed
<1>6. CASE /\ lastId < MaxStream /\ lastId' = lastId + 1 /\ NewHistory
           /\ stream' = [id |-> lastId + 1, offset |-> snap[c].offset]
           /\ born' = [table |-> snap[c].id, offset |-> snap[c].offset]
  <2> USE DEF NewHistory
  <2>1. /\ snap[c].id \in Tables /\ snap[c].id <= source.table
        /\ snap[c].id = source.table => snap[c].offset < source.next
        /\ snap[c].offset \in Offsets
    BY <1>1 DEF SInv, TablesGrow, StateType
  <2>2. lastId' \in 0 .. MaxStream /\ lastId \in Nat /\ lastId' \in StreamIds /\ lastId' = lastId + 1
    BY <1>6, StreamAssumption DEF SInv, StateType, StreamIds
  <2>3. /\ stream' \in StreamRows /\ stream'.id = lastId' /\ stream' # NoStream
        /\ stream'.offset = snap[c].offset
    <3>1. stream' \in StreamRows /\ stream'.id = lastId' /\ stream'.offset = snap[c].offset
      BY <1>6, <2>1, <2>2 DEF StreamRows
    <3> QED
      BY <3>1, StreamAssumption
  <2>4. StateType'
    BY <1>1, <1>3, <1>6, <2>1, <2>2, <2>3 DEF SInv, StateType
  <2>5. PlacesHold'
    <3>1. \A d \in Clients : pc[d] \in Listed => snap[d].id \in 1 .. lastId'
      BY <2>2 DEF SInv, PlacesHold
    <3> QED
      BY <1>1, <1>3, <1>6, <1>5, <3>1 DEF SInv, PlacesHold, Listed
  <2>6. TablesGrow'
    BY <1>1, <1>3, <1>6, <2>1 DEF SInv, TablesGrow
  <2>7. SettledBehind'
    BY <1>6 DEF SettledBehind
  <2>8. \A d \in Clients : pc'[d] \in Listed => ~Current(d)'
    BY <1>1, <1>3, <2>2, <2>3 DEF SInv, PlacesHold, Current, Listed
  <2>9. WindowsClosed'
    BY <1>1, <1>6, <2>1, <2>3, <2>8 DEF WindowsClosed, OnBornTable
  <2>10. NoRowSkipped'
    <3>1. snap[c].offset \in Int /\ \A r \in source.rows : r \in Int
      BY <2>1 DEF Offsets, SInv, StateType, RowIds
    <3>2. Passed' = {}
      BY <1>1, <1>6, <2>3, <3>1 DEF Passed
    <3> QED
      BY <3>2 DEF NoRowSkipped
  <2> QED
    BY <2>4, <2>5, <2>6, <2>7, <2>9, <2>10 DEF SInv
<1>7. CASE UNCHANGED <<stream, lastId, read, historyVars>>
  <2> USE DEF historyVars
  <2>1. StateType' /\ PlacesHold' /\ SettledBehind'
    BY <1>1, <1>3, <1>5, <1>7 DEF SInv, StateType, PlacesHold, SettledBehind, Listed
  <2>2. TablesGrow'
    BY <1>4, <1>7
  <2>3. WindowsClosed'
    BY <1>1, <1>3, <1>7 DEF SInv, WindowsClosed, OnBornTable, Current, Window, Listed
  <2>4. NoRowSkipped'
    BY <1>1, <1>7 DEF SInv, NoRowSkipped, Passed
  <2> QED
    BY <2>1, <2>2, <2>3, <2>4 DEF SInv
<1> QED
  BY <1>6, <1>7 DEF CreateStream
-----------------------------------------------------------------------------
(***************************************************************************)
(* The consumers.                                                          *)
(***************************************************************************)

LEMMA StartOK ==
    ASSUME SInv, NEW c \in Clients, Start(c)
    PROVE  SInv'
<1> USE DEF Start, dbVars, historyVars
<1>1. PICK s \in {"dml", "native"} : todo' = [todo EXCEPT ![c] = <<s>>]
  OBVIOUS
<1>2. /\ pc' \in [Clients -> Places] /\ todo' \in [Clients -> Plans]
      /\ pc[c] = "idle" /\ pc'[c] = "list" /\ todo'[c] = <<s>> /\ <<s>> # <<>>
      /\ \A d \in Clients \ {c} : pc'[d] = pc[d] /\ todo'[d] = todo[d]
  BY <1>1 DEF SInv, StateType, Places, Plans
<1>3. StateType' /\ SettledBehind'
  BY <1>2 DEF SInv, StateType, SettledBehind
<1>4. PlacesHold' /\ TablesGrow'
  BY <1>2 DEF SInv, PlacesHold, TablesGrow, Listed
<1>5. WindowsClosed'
  BY <1>2 DEF SInv, WindowsClosed, OnBornTable, Current, Window, Listed
<1>6. NoRowSkipped'
  BY DEF SInv, NoRowSkipped, Passed
<1> QED
  BY <1>3, <1>4, <1>5, <1>6 DEF SInv

\* What the client finds settled lies behind the offset it finds.
LEMMA ListStreamsOK ==
    ASSUME SInv, NEW c \in Clients, ListStreams(c)
    PROVE  SInv'
<1> USE DEF ListStreams, dbVars
<1>1. /\ stream.id \in Nat /\ stream.id = lastId /\ stream.id \in 1 .. lastId
      /\ stream.offset \in Offsets /\ stream.offset \in Int /\ -1 \in Offsets
  BY StreamAssumption DEF SInv, StateType, StreamRows, StreamIds, Offsets
<1>2. /\ todo[c] # <<>> /\ Head(todo[c]) \in Statements /\ read[c] = {}
  <2>1. todo[c] \in Plans /\ todo[c] # <<>> /\ read[c] = {}
    BY DEF SInv, StateType, PlacesHold
  <2> QED
    BY <2>1, PlansOK
<1>3. /\ pc' \in [Clients -> Places] /\ seen' \in [Clients -> SUBSET RowIds]
      /\ snap' \in [Clients -> [id : Nat, offset : Offsets, high : Offsets]]
      /\ pc'[c] = "measure" /\ seen'[c] = settled
      /\ snap'[c].id = stream.id /\ snap'[c].offset = stream.offset
      /\ \A d \in Clients \ {c} : pc'[d] = pc[d] /\ seen'[d] = seen[d] /\ snap'[d] = snap[d]
  BY <1>1 DEF SInv, StateType, Places
<1>4. StateType'
  BY <1>3 DEF SInv, StateType
<1>5. PlacesHold'
  BY <1>1, <1>2, <1>3 DEF SInv, PlacesHold, Listed
<1>6. TablesGrow'
  BY <1>3 DEF SInv, TablesGrow
<1>7. SettledBehind'
  BY <1>2, <1>3 DEF SInv, SettledBehind
<1>8. WindowsClosed'
  <2>1. OnBornTable' = OnBornTable
    BY DEF OnBornTable
  <2>2. ~decomposed' => ~decomposed /\ Head(todo[c]) \in {"dml", "native"}
    BY <1>2 DEF Statements
  <2>3. \A d \in Clients \ {c} : Current(d)' = Current(d) /\ Window(d)' = Window(d)
    BY <1>3 DEF Current, Window
  <2> QED
    BY <1>1, <1>3, <2>1, <2>2, <2>3 DEF SInv, WindowsClosed
<1>9. NoRowSkipped'
  BY DEF SInv, NoRowSkipped, Passed
<1> QED
  BY <1>4, <1>5, <1>6, <1>7, <1>8, <1>9 DEF SInv

\* The mark is below the rowids to come.
LEMMA FreezeHighWaterOK ==
    ASSUME SInv, NEW c \in Clients, FreezeHighWater(c)
    PROVE  SInv'
<1> USE DEF FreezeHighWater, dbVars, historyVars
<1>1. MaxRowId \in Offsets /\ MaxRowId < source.next
  BY MaxRowIdOK DEF SInv
<1>2. PICK h : h = MaxRowId
  OBVIOUS
<1>3. /\ pc' \in [Clients -> Places]
      /\ snap' \in [Clients -> [id : Nat, offset : Offsets, high : Offsets]]
      /\ pc'[c] = "exec" /\ pc[c] = "measure" /\ snap'[c].high = h
      /\ snap'[c].id = snap[c].id /\ snap'[c].offset = snap[c].offset
      /\ \A d \in Clients \ {c} : pc'[d] = pc[d] /\ snap'[d] = snap[d]
  BY <1>1, <1>2 DEF SInv, StateType, Places
<1>4. StateType'
  BY <1>3 DEF SInv, StateType
<1>5. PlacesHold' /\ TablesGrow'
  BY <1>3 DEF SInv, PlacesHold, TablesGrow, Listed
<1>6. SettledBehind'
  <2>1. read[c] = {}
    BY DEF SInv, PlacesHold
  <2> QED
    BY <1>3, <2>1 DEF SInv, SettledBehind
<1>7. WindowsClosed'
  <2>1. OnBornTable' = OnBornTable
    BY DEF OnBornTable
  <2>2. Current(c)' = Current(c)
    BY <1>3 DEF Current
  <2>3. \A d \in Clients \ {c} : Current(d)' = Current(d) /\ Window(d)' = Window(d)
    BY <1>3 DEF Current, Window
  <2> QED
    BY <1>1, <1>2, <1>3, <2>1, <2>2, <2>3 DEF SInv, WindowsClosed, Listed
<1>8. NoRowSkipped'
  BY DEF SInv, NoRowSkipped, Passed
<1> QED
  BY <1>4, <1>5, <1>6, <1>7, <1>8 DEF SInv

\* What the statement reads it acts upon, unless it is half of a MERGE.
LEMMA ExecOK ==
    ASSUME SInv, NEW c \in Clients, Exec(c)
    PROVE  SInv'
<1> USE DEF Exec, dbVars
<1>1. PICK w : w = IF Current(c) THEN Window(c) ELSE {}
  OBVIOUS
<1>2. /\ w \in SUBSET RowIds /\ \A r \in w : snap[c].offset < r /\ r <= snap[c].high
      /\ Current(c) => Window(c) = w
  BY <1>1, WindowOK DEF SInv
<1>3. /\ pc' \in [Clients -> Places] /\ read' \in [Clients -> SUBSET RowIds]
      /\ pc'[c] = "advance" /\ pc[c] = "exec" /\ read'[c] = w
      /\ \A d \in Clients \ {c} : pc'[d] = pc[d] /\ read'[d] = read[d]
  BY <1>1, <1>2 DEF SInv, StateType, Places
<1>4. /\ handled \subseteq handled' /\ handled' \subseteq RowIds
      /\ Current(c) /\ Head(todo[c]) \in {"dml", "native"} => w \subseteq handled'
  <2>1. PICK s : s = Head(todo[c])
    OBVIOUS
  <2>2. Affected(s, w) \subseteq RowIds /\ (s \in {"dml", "native"} => Affected(s, w) = w)
    BY <1>2, AffectedOK
  <2>3. handled' = IF Current(c) THEN handled \cup Affected(s, w) ELSE handled
    BY <1>2, <2>1
  <2> QED
    BY <2>1, <2>2, <2>3 DEF SInv, StateType
<1>5. StateType'
  BY <1>3, <1>4 DEF SInv, StateType
<1>6. PlacesHold' /\ TablesGrow'
  BY <1>3 DEF SInv, PlacesHold, TablesGrow, Listed
<1>7. SettledBehind'
  BY <1>2, <1>3 DEF SInv, SettledBehind
<1>8. WindowsClosed'
  <2>1. OnBornTable' = OnBornTable
    BY DEF OnBornTable
  <2>2. \A d \in Clients : Current(d)' = Current(d) /\ Window(d)' = Window(d)
    BY DEF Current, Window
  <2> QED
    BY <1>2, <1>3, <1>4, <2>1, <2>2 DEF SInv, WindowsClosed, Listed
<1>9. NoRowSkipped'
  BY <1>4 DEF SInv, NoRowSkipped, Passed
<1> QED
  BY <1>5, <1>6, <1>7, <1>8, <1>9 DEF SInv

\* The client between two statements: it holds nothing.
LEMMA ContinueOK ==
    ASSUME StateType, NEW c \in Clients, NEW rest \in Plans, Continue(c, rest)
    PROVE  /\ pc' \in [Clients -> Places] /\ todo' \in [Clients -> Plans]
           /\ snap' \in [Clients -> [id : Nat, offset : Offsets, high : Offsets]]
           /\ read' \in [Clients -> SUBSET RowIds] /\ seen' \in [Clients -> SUBSET RowIds]
           /\ pc'[c] \in {"idle", "list"} /\ (pc'[c] = "idle" <=> todo'[c] = <<>>)
           /\ read'[c] = {} /\ seen'[c] = {}
           /\ \A d \in Clients \ {c} :
                 /\ pc'[d] = pc[d] /\ todo'[d] = todo[d] /\ snap'[d] = snap[d]
                 /\ read'[d] = read[d] /\ seen'[d] = seen[d]
<1>1. NoSnap \in [id : Nat, offset : Offsets, high : Offsets]
  BY StreamAssumption DEF NoSnap, Offsets
<1>2. PICK q : q = (IF rest = <<>> THEN "idle" ELSE "list")
  OBVIOUS
<1>3. q \in Places /\ q \in {"idle", "list"} /\ (q = "idle" <=> rest = <<>>)
  BY <1>2 DEF Places
<1>4. /\ pc' = [pc EXCEPT ![c] = q] /\ todo' = [todo EXCEPT ![c] = rest]
      /\ snap' = [snap EXCEPT ![c] = NoSnap]
      /\ read' = [read EXCEPT ![c] = {}] /\ seen' = [seen EXCEPT ![c] = {}]
  BY <1>2 DEF Continue
<1> QED
  BY <1>1, <1>3, <1>4 DEF StateType

\* The greater of two.
LEMMA MaxOfTwo ==
    ASSUME NEW a \in Int, NEW b \in Int
    PROVE  Max({a, b}) \in {a, b} /\ a <= Max({a, b}) /\ b <= Max({a, b})
<1>1. PICK S : S = {a, b}
  OBVIOUS
<1>2. \E m \in S : \A r \in S : m >= r
  <2>1. CASE a >= b
    BY <1>1, <2>1
  <2>2. CASE ~(a >= b)
    BY <1>1, <2>2
  <2> QED
    BY <2>1, <2>2
<1>3. Max(S) \in S /\ \A r \in S : Max(S) >= r
  BY <1>2 DEF Max
<1> QED
  BY <1>1, <1>3

\* The offset goes to the mark if that is further, and what the statement
\* read is then behind it.
LEMMA AdvanceMoves ==
    ASSUME SInv, NEW c \in Clients, AdvanceOffsets(c)
    PROVE  /\ settled' \subseteq RowIds
           /\ \A r \in settled' : stream' # NoStream /\ r <= stream'.offset
           /\ \/ UNCHANGED stream
              \/ /\ Current(c) /\ stream' \in StreamRows /\ stream'.id = stream.id
                 /\ stream'.offset \in {stream.offset, snap[c].high}
                 /\ stream.offset <= stream'.offset
<1> USE DEF AdvanceOffsets
<1>1. /\ snap[c].high \in Offsets /\ snap[c].offset \in Offsets
      /\ \A r \in read[c] : snap[c].offset < r /\ r <= snap[c].high /\ r \in RowIds
      /\ \A r \in settled : stream # NoStream /\ r <= stream.offset /\ r \in RowIds
  BY DEF SInv, SettledBehind, StateType
<1>2. Offsets \subseteq Int /\ RowIds \subseteq Int
  BY DEF Offsets, RowIds
<1>3. CASE snap[c].high <= snap[c].offset
  <2>1. ASSUME NEW r \in read[c]
        PROVE  FALSE
    <3>1. r \in Int /\ snap[c].offset \in Int /\ snap[c].high \in Int
      BY <1>1, <1>2
    <3>2. snap[c].offset < r /\ r <= snap[c].high
      BY <1>1
    <3> QED
      BY <1>3, <3>1, <3>2
  <2> QED
    BY <1>1, <1>3, <2>1
<1>4. CASE ~(snap[c].high <= snap[c].offset)
  <2>1. Current(c) /\ stream' = [stream EXCEPT !.offset = Max({stream.offset, snap[c].high})]
    BY <1>4 DEF UpdateStreamOffset
  <2>2. stream \in StreamRows /\ stream.offset \in Offsets
    BY <2>1 DEF Current, SInv, StateType, StreamRows
  <2>3. PICK a, b : a = stream.offset /\ b = snap[c].high
    OBVIOUS
  <2>4. PICK m : m = Max({a, b})
    OBVIOUS
  <2>5. m \in {a, b} /\ a <= m /\ b <= m
    BY <1>1, <1>2, <2>2, <2>3, <2>4, MaxOfTwo
  <2>6. stream' = [stream EXCEPT !.offset = m]
    BY <2>1, <2>3, <2>4
  <2>7. /\ stream'.id = stream.id /\ stream'.offset = m /\ m \in Offsets
        /\ stream' \in StreamRows
    BY <1>1, <2>2, <2>3, <2>5, <2>6 DEF StreamRows
  <2>8. stream' # NoStream
    BY <2>7, StreamAssumption
  <2>9. ASSUME NEW r \in settled'
        PROVE  r \in RowIds /\ r <= stream'.offset
    <3>1. r \in RowIds /\ (r <= a \/ r <= b)
      BY <1>1, <2>1, <2>3, <2>9
    <3>2. r \in Int /\ a \in Int /\ b \in Int
      BY <1>1, <1>2, <2>2, <2>3, <3>1
    <3> QED
      BY <2>5, <2>7, <3>1, <3>2
  <2> QED
    BY <2>1, <2>3, <2>5, <2>7, <2>8, <2>9
<1> QED
  BY <1>3, <1>4

LEMMA AdvanceOffsetsOK ==
    ASSUME SInv, NEW c \in Clients, AdvanceOffsets(c)
    PROVE  SInv'
<1>1. /\ pc[c] = "advance" /\ UNCHANGED <<source, lastId, born, handled, decomposed>>
  BY DEF AdvanceOffsets
<1>2. /\ pc' \in [Clients -> Places] /\ todo' \in [Clients -> Plans]
      /\ snap' \in [Clients -> [id : Nat, offset : Offsets, high : Offsets]]
      /\ read' \in [Clients -> SUBSET RowIds] /\ seen' \in [Clients -> SUBSET RowIds]
      /\ pc'[c] \in {"idle", "list"} /\ (pc'[c] = "idle" <=> todo'[c] = <<>>)
      /\ read'[c] = {} /\ seen'[c] = {}
      /\ \A d \in Clients \ {c} :
            /\ pc'[d] = pc[d] /\ todo'[d] = todo[d] /\ snap'[d] = snap[d]
            /\ read'[d] = read[d] /\ seen'[d] = seen[d]
  <2>1. PICK p : p = todo[c]
    OBVIOUS
  <2>2. p \in Plans /\ p # <<>>
    BY <1>1, <2>1 DEF SInv, StateType, PlacesHold
  <2>3. PICK rest : rest = Tail(p)
    OBVIOUS
  <2>4. rest \in Plans /\ Continue(c, rest)
    BY <2>1, <2>2, <2>3, PlansOK DEF AdvanceOffsets
  <2> QED
    BY <2>4, ContinueOK DEF SInv
<1>3. /\ settled' \subseteq RowIds
      /\ \A r \in settled' : stream' # NoStream /\ r <= stream'.offset
      /\ \/ UNCHANGED stream
         \/ /\ Current(c) /\ stream' \in StreamRows /\ stream'.id = stream.id
            /\ stream'.offset \in {stream.offset, snap[c].high}
            /\ stream.offset <= stream'.offset
  BY AdvanceMoves
<1>4. /\ stream' = NoStream <=> stream = NoStream
      /\ stream # NoStream =>
            /\ stream'.id = stream.id /\ stream.offset \in Int /\ stream'.offset \in Int
            /\ stream.offset <= stream'.offset
            /\ stream'.offset # stream.offset => Current(c) /\ stream'.offset = snap[c].high
  <2>1. stream # NoStream => stream \in StreamRows /\ stream.offset \in Int
    BY DEF SInv, StateType, StreamRows, Offsets
  <2>2. CASE UNCHANGED stream
    BY <2>1, <2>2
  <2>3. CASE ~UNCHANGED stream
    <3>1. stream # NoStream /\ stream' # NoStream
      BY <1>3, <2>3, StreamAssumption DEF Current
    <3>2. stream'.offset \in Int
      BY <1>3, <2>3 DEF StreamRows, Offsets
    <3> QED
      BY <1>3, <2>1, <2>3, <3>1, <3>2
  <2> QED
    BY <2>2, <2>3
<1>5. StateType'
  <2>1. stream' = NoStream \/ (stream' \in StreamRows /\ stream'.id = lastId)
    BY <1>3, <1>4 DEF SInv, StateType
  <2> QED
    BY <1>1, <1>2, <1>3, <2>1 DEF SInv, StateType
<1>6. PlacesHold' /\ TablesGrow'
  BY <1>1, <1>2 DEF SInv, PlacesHold, TablesGrow, Listed
<1>7. SettledBehind'
  BY <1>2, <1>3 DEF SInv, SettledBehind
<1>8. OnBornTable' <=> OnBornTable
  BY <1>1, <1>4 DEF OnBornTable
<1>9. WindowsClosed'
  <2>1. OnBornTable => stream'.offset < source.next
    BY <1>1, <1>4 DEF SInv, WindowsClosed, OnBornTable, Listed
  <2>2. \A d \in Clients \ {c} : (Current(d)' <=> Current(d)) /\ Window(d)' = Window(d)
    BY <1>1, <1>2, <1>4 DEF Current, Window
  <2>3. \A d \in Clients : snap[d].offset \in Int
    BY DEF SInv, StateType, Offsets
  <2>4. ASSUME NEW d \in Clients \ {c}, pc'[d] \in Listed, Current(d)'
        PROVE  /\ snap'[d].offset <= stream'.offset
               /\ OnBornTable' /\ pc'[d] \in {"exec", "advance"} => snap'[d].high < source'.next
               /\ OnBornTable' /\ ~decomposed' =>
                     /\ Head(todo'[d]) \in {"dml", "native"}
                     /\ pc'[d] = "advance" => Window(d)' \subseteq handled'
    <3>1. Current(d) /\ pc[d] \in Listed /\ stream # NoStream
      BY <1>2, <2>2, <2>4 DEF Current
    <3>2. snap[d].offset <= stream.offset
      BY <3>1 DEF SInv, WindowsClosed
    <3>3. snap'[d].offset <= stream'.offset
      BY <1>2, <1>4, <2>3, <3>1, <3>2
    <3> QED
      BY <1>1, <1>2, <1>8, <2>2, <2>4, <3>1, <3>3 DEF SInv, WindowsClosed
  <2> QED
    BY <1>1, <1>2, <1>8, <2>1, <2>4 DEF WindowsClosed, Listed
<1>10. NoRowSkipped'
  <2>1. SUFFICES ASSUME ~decomposed, NEW r \in Passed'
                 PROVE  r \in handled
    BY <1>1 DEF NoRowSkipped
  <2>2. /\ stream # NoStream /\ OnBornTable /\ r \in source.rows /\ r \in Int
        /\ born.offset < r /\ r <= stream'.offset
    BY <1>1, <1>4, <2>1 DEF Passed, OnBornTable, SInv, StateType, RowIds
  <2>3. CASE r <= stream.offset
    <3>1. r \in Passed
      BY <2>2, <2>3 DEF Passed, OnBornTable
    <3> QED
      BY <2>1, <3>1 DEF SInv, NoRowSkipped
  <2>4. CASE ~(r <= stream.offset)
    <3>1. Current(c) /\ stream'.offset = snap[c].high
      BY <1>4, <2>2, <2>4
    <3>2. snap[c].offset <= stream.offset /\ Window(c) \subseteq handled
      BY <1>1, <2>1, <2>2, <3>1 DEF SInv, WindowsClosed, Listed
    <3>3. snap[c].offset \in Int
      BY DEF SInv, StateType, Offsets
    <3>4. r \in Window(c)
      BY <1>4, <2>2, <2>4, <3>1, <3>2, <3>3 DEF Window
    <3> QED
      BY <3>2, <3>4
  <2> QED
    BY <2>3, <2>4
<1> QED
  BY <1>5, <1>6, <1>7, <1>9, <1>10 DEF SInv

\* After an error the MERGE is decomposed, anything else is given up.
LEMMA FailOK ==
    ASSUME SInv, NEW c \in Clients, Fail(c)
    PROVE  SInv'
<1>1. UNCHANGED <<dbVars, born, handled, settled, decomposed>>
  BY DEF Fail
<1>2. /\ pc' \in [Clients -> Places] /\ todo' \in [Clients -> Plans]
      /\ snap' \in [Clients -> [id : Nat, offset : Offsets, high : Offsets]]
      /\ read' \in [Clients -> SUBSET RowIds] /\ seen' \in [Clients -> SUBSET RowIds]
      /\ pc'[c] \in {"idle", "list"} /\ (pc'[c] = "idle" <=> todo'[c] = <<>>)
      /\ read'[c] = {} /\ seen'[c] = {}
      /\ \A d \in Clients \ {c} :
            /\ pc'[d] = pc[d] /\ todo'[d] = todo[d] /\ snap'[d] = snap[d]
            /\ read'[d] = read[d] /\ seen'[d] = seen[d]
  <2>1. PICK rest : rest = IF Head(todo[c]) = "native" THEN <<"update", "insert">> ELSE <<>>
    OBVIOUS
  <2>2. rest \in Plans /\ Continue(c, rest)
    BY <2>1 DEF Fail, Plans
  <2> QED
    BY <2>2, ContinueOK DEF SInv
<1> USE DEF dbVars
<1>3. StateType' /\ PlacesHold' /\ TablesGrow' /\ SettledBehind'
  <2>1. StateType'
    BY <1>1, <1>2 DEF SInv, StateType
  <2>2. PlacesHold' /\ TablesGrow'
    BY <1>1, <1>2 DEF SInv, PlacesHold, TablesGrow, Listed
  <2>3. SettledBehind'
    BY <1>1, <1>2 DEF SInv, SettledBehind
  <2> QED
    BY <2>1, <2>2, <2>3
<1>4. WindowsClosed'
  <2>1. OnBornTable' = OnBornTable
    BY <1>1 DEF OnBornTable
  <2>2. \A d \in Clients \ {c} : Current(d)' = Current(d) /\ Window(d)' = Window(d)
    BY <1>1, <1>2 DEF Current, Window
  <2> QED
    BY <1>1, <1>2, <2>1, <2>2 DEF SInv, WindowsClosed, Listed
<1>5. NoRowSkipped'
  BY <1>1 DEF SInv, NoRowSkipped, Passed
<1> QED
  BY <1>3, <1>4, <1>5 DEF SInv

LEMMA CrashOK ==
    ASSUME SInv, Crash
    PROVE  SInv'
<1> USE DEF Crash, dbVars
<1>1. /\ NoSnap \in [id : Nat, offset : Offsets, high : Offsets] /\ <<>> \in Plans
      /\ "idle" \in Places /\ "idle" \notin Listed
  BY StreamAssumption DEF NoSnap, Offsets, Plans, Places, Listed
<1>2. StateType'
  BY <1>1 DEF SInv, StateType
<1>3. PlacesHold' /\ TablesGrow'
  BY <1>1 DEF SInv, PlacesHold, TablesGrow
<1>4. SettledBehind'
  BY DEF SInv, SettledBehind
<1>5. WindowsClosed'
  BY <1>1 DEF SInv, WindowsClosed, OnBornTable
<1>6. NoRowSkipped'
  BY DEF SInv, NoRowSkipped, Passed
<1> QED
  BY <1>2, <1>3, <1>4, <1>5, <1>6 DEF SInv
-----------------------------------------------------------------------------
LEMMA InitInvariant ==
    ASSUME Init
    PROVE  SInv
<1> USE DEF Init
<1>1. /\ NoSnap \in [id : Nat, offset : Offsets, high : Offsets] /\ <<>> \in Plans
      /\ "idle" \in Places /\ "idle" \notin Listed /\ NoSnap.offset = -1
      /\ 1 \in Tables /\ 0 \in 0 .. MaxRow /\ 0 \in 0 .. MaxStream /\ -1 \in Offsets
  BY StreamAssumption DEF NoSnap, Offsets, Plans, Places, Listed, Tables
<1>2. StateType
  BY <1>1 DEF StateType
<1>3. PlacesHold /\ TablesGrow /\ SettledBehind
  BY <1>1 DEF PlacesHold, TablesGrow, SettledBehind
<1>4. WindowsClosed /\ NoRowSkipped
  BY <1>1 DEF WindowsClosed, OnBornTable, NoRowSkipped, Passed
<1> QED
  BY <1>2, <1>3, <1>4 DEF SInv

LEMMA NextInvariant ==
    ASSUME SInv, [Next]_vars
    PROVE  SInv'
<1>1. CASE Next
  BY <1>1, InsertRowOK, DeleteRowOK, ReplaceTableOK, DropStreamOK, MeasureSourceOK,
     CreateStreamOK, StartOK, ListStreamsOK, FreezeHighWaterOK, ExecOK, AdvanceOffsetsOK,
     FailOK, CrashOK DEF Next
<1>2. CASE UNCHANGED vars
  <2> USE <1>2 DEF vars, dbVars, clientVars, historyVars
  <2>1. StateType' /\ PlacesHold' /\ TablesGrow' /\ SettledBehind'
    BY DEF SInv, StateType, PlacesHold, TablesGrow, SettledBehind
  <2>2. WindowsClosed'
    BY DEF SInv, WindowsClosed, OnBornTable, Current, Window
  <2>3. NoRowSkipped'
    BY DEF SInv, NoRowSkipped, Passed
  <2> QED
    BY <2>1, <2>2, <2>3 DEF SInv
<1> QED
  BY <1>1, <1>2

\* What is settled stays behind the offset and what is read is acted upon.
THEOREM StreamsInvariant == Spec => []SInv
<1>1. Init => SInv
  BY InitInvariant
<1>2. SInv /\ [Next]_vars => SInv'
  BY NextInvariant
<1> QED
  BY <1>1, <1>2, PTL DEF Spec

\* The rows of the stream and the source, and what the clients hold at each
\* place, are of their types.
THEOREM StreamsTypeOK == Spec => []TypeOK
<1>1. ASSUME SInv
      PROVE  TypeOK
  <2>1. \A c \in Clients : \A i \in 1 .. Len(todo[c]) : todo[c][i] \in Statements
    BY <1>1, PlansOK DEF SInv, StateType
  <2>2. /\ source.table \in Tables /\ source.next \in 0 .. MaxRow
        /\ source.rows \subseteq 0 .. source.next - 1
    BY <1>1 DEF SInv, StateType, RowIds
  <2>3. \A c \in Clients : read[c] \cup seen[c] \subseteq RowIds
    BY <1>1 DEF SInv, StateType
  <2> QED
    BY <1>1, <2>1, <2>2, <2>3 DEF SInv, StateType, PlacesHold, TypeOK, Places, Listed
<1> QED
  BY <1>1, StreamsInvariant, PTL

\* A statement never reads a row that was read by one which had succeeded
\* before it listed the streams, whoever else reads, fails or crashes.
THEOREM StreamsNotReturnedAgain == Spec => []NotReturnedAgain
<1>1. ASSUME SInv
      PROVE  NotReturnedAgain
  <2>1. SUFFICES ASSUME NEW c \in Clients, NEW r \in Window(c), r \in seen[c]
                 PROVE  FALSE
    BY DEF NotReturnedAgain
  <2>2. r \in Int /\ snap[c].offset \in Int
    BY <1>1, <2>1 DEF SInv, StateType, RowIds, Offsets
  <2>3. snap[c].offset < r /\ r <= snap[c].offset
    BY <1>1, <2>1 DEF SInv, SettledBehind, Window
  <2> QED
    BY <2>2, <2>3
<1> QED
  BY <1>1, StreamsInvariant, PTL

\* No row of the stream's table is passed by its offset unless a statement
\* acted upon it, as long as no MERGE was decomposed.
THEOREM StreamsNoRowSkipped == Spec => []NoRowSkipped
<1>1. SInv => NoRowSkipped
  BY DEF SInv
<1> QED
  BY <1>1, StreamsInvariant, PTL
=============================================================================
