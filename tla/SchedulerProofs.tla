--------------------------- MODULE SchedulerProofs ---------------------------
(***************************************************************************)
(* The safety of Tasks for any names, clients, interval and number of      *)
(* ids: a task created under a used name starts its own life, and a pass   *)
(* of the scheduler runs a task at most once after it was suspended,       *)
(* dropped or replaced.                                                    *)
(*                                                                         *)
(* Both rest on the ids.  A process goes on with the id of the row it has  *)
(* read, ids are given once, and an id that some process holds is not the  *)
(* id of a row of another name (Refers).  For the late runs, the rows that *)
(* a pass has still to run are distinct and have not been run late, and a  *)
(* started row has not either, for RESUME makes a new start (OnceListed).  *)
(***************************************************************************)
EXTENDS Tasks, TLAPS

Places == {"idle", "resume", "suspend", "run", "record", "next"}

StateType ==
    /\ row \in [Tasks -> Rows \cup {None}]
    /\ lastId \in 0 .. MaxId
    /\ orphaned \subseteq 1 .. lastId /\ resumed \subseteq 1 .. lastId /\ ran \subseteq 1 .. lastId
    /\ pc \in [Procs -> Places]
    /\ got \in [Procs -> Refs \cup {None}]
    /\ listed \subseteq Refs
    /\ late \in [Ids -> {0, 1}]
    /\ \A p \in Procs : pc[p] \in {"idle", "next"} <=> got[p] = None

\* No two rows have one id.
IdsOnce ==
    \A t \in Tasks : row[t] # None =>
        /\ row[t].id <= lastId
        /\ \A u \in Tasks \ {t} : row[u] # None => row[u].id # row[t].id

\* An id that was read under one name is not the id of a row of another.
Refers(r) ==
    /\ r.id <= lastId
    /\ \A t \in Tasks : row[t] # None /\ row[t].id = r.id => t = r.task

RefsGiven ==
    /\ \A p \in Procs : got[p] # None => Refers(got[p])
    /\ \A r \in listed : Refers(r)

\* Who is about to record a run has run the definition.
RecordsRan == \A p \in Procs : pc[p] = "record" /\ Present(got[p]) => got[p].id \in ran

\* A started row, and what the pass has still to run, was not run late.
OnceListed ==
    /\ \A t \in Tasks : row[t] # None /\ row[t].state = "STARTED" => late[row[t].id] = 0
    /\ \A r \in listed : late[r.id] = 0
    /\ \A r \in listed, s \in listed : r.id = s.id => r = s
    /\ pc[Scheduler] = "run" =>
          late[got[Scheduler].id] = 0 /\ \A r \in listed : r.id # got[Scheduler].id

\* The inductive invariant.
TInv == StateType /\ IdsOnce /\ RefsGiven /\ OwnIncarnation /\ RecordsRan /\ OnceListed
-----------------------------------------------------------------------------
(***************************************************************************)
(* The rows.                                                               *)
(***************************************************************************)

\* What the steps need to know of the constants.
LEMMA ConstantsOK ==
    /\ Interval \in Nat \ {0} /\ MaxId \in Nat \ {0}
    /\ Scheduler \notin Clients /\ None \notin Rows /\ None \notin Refs
    /\ Scheduler \in Procs /\ Clients \subseteq Procs
  BY TasksAssumption DEF Procs

\* Rows may change what is not their id, name or state.
LEMMA SameIds ==
    ASSUME TInv, row' \in [Tasks -> Rows \cup {None}],
           \A t \in Tasks : (row'[t] = None <=> row[t] = None) /\
                            (row[t] # None => row'[t].id = row[t].id),
           UNCHANGED lastId
    PROVE  /\ IdsOnce'
           /\ \A r : Refers(r)' <=> Refers(r)
           /\ \A r \in Refs : Present(r)' <=> Present(r)
<1>1. IdsOnce'
  BY DEF TInv, IdsOnce
<1>2. \A r : Refers(r)' <=> Refers(r)
  BY DEF Refers
<1>3. \A r \in Refs : Present(r)' <=> Present(r)
  BY DEF Present, Refs
<1> QED
  BY <1>1, <1>2, <1>3

LEMMA TimeOK ==
    ASSUME TInv, Time
    PROVE  TInv'
<1> USE DEF Time, historyVars
<1>1. \A t \in Tasks : row[t] # None /\ row[t].age # Interval =>
         /\ [row[t] EXCEPT !.age = @ + 1] \in Rows
         /\ [row[t] EXCEPT !.age = @ + 1] # None
  <2>1. SUFFICES ASSUME NEW t \in Tasks, row[t] # None, row[t].age # Interval
                 PROVE  [row[t] EXCEPT !.age = @ + 1] \in Rows
    BY ConstantsOK
  <2>2. PICK x \in Rows : x = row[t]
    BY <2>1 DEF TInv, StateType
  <2>3. x.age + 1 \in 0 .. Interval
    BY <2>1, <2>2, ConstantsOK DEF Rows
  <2>4. [x EXCEPT !.age = @ + 1] \in Rows
    BY <2>2, <2>3 DEF Rows
  <2> QED
    BY <2>2, <2>4
<1>2. row' \in [Tasks -> Rows \cup {None}]
  BY <1>1 DEF TInv, StateType
<1>3. \A t \in Tasks : /\ row'[t] = None <=> row[t] = None
                       /\ row[t] # None => /\ row'[t].id = row[t].id
                                           /\ row'[t].state = row[t].state
                                           /\ row'[t].executed = row[t].executed
  <2>1. SUFFICES ASSUME NEW t \in Tasks, row[t] # None
                 PROVE  /\ row'[t] # None /\ row'[t].id = row[t].id
                        /\ row'[t].state = row[t].state /\ row'[t].executed = row[t].executed
    OBVIOUS
  <2>2. CASE row[t].age = Interval
    BY <2>1, <2>2
  <2>3. CASE row[t].age # Interval
    <3>1. PICK x \in Rows : x = row[t]
      BY <2>1 DEF TInv, StateType
    <3>2. row'[t] = [x EXCEPT !.age = @ + 1] /\ row'[t] # None
      BY <1>1, <2>1, <2>3, <3>1
    <3> QED
      BY <3>1, <3>2 DEF Rows
  <2> QED
    BY <2>2, <2>3
<1>4. /\ IdsOnce' /\ \A r : Refers(r)' <=> Refers(r)
      /\ \A r \in Refs : Present(r)' <=> Present(r)
  BY <1>2, <1>3, SameIds
<1>5. StateType'
  BY <1>2 DEF TInv, StateType
<1>6. RefsGiven' /\ OwnIncarnation'
  BY <1>3, <1>4 DEF TInv, RefsGiven, OwnIncarnation
<1>7. RecordsRan'
  BY <1>4 DEF TInv, RecordsRan, StateType, Places
<1>8. OnceListed'
  BY <1>3 DEF TInv, OnceListed
<1> QED
  BY <1>4, <1>5, <1>6, <1>7, <1>8 DEF TInv

LEMMA DropOwnerOK ==
    ASSUME TInv, NEW i \in Ids, DropOwner(i)
    PROVE  TInv'
<1> USE DEF DropOwner, historyVars
<1>1. StateType' /\ IdsOnce' /\ OwnIncarnation' /\ OnceListed'
  BY DEF TInv, StateType, IdsOnce, OwnIncarnation, OnceListed
<1>2. RefsGiven' /\ RecordsRan'
  BY DEF TInv, RefsGiven, Refers, RecordsRan, Present
<1> QED
  BY <1>1, <1>2 DEF TInv

\* A row that goes takes its id with it, and no one else has it.
LEMMA DropTaskOK ==
    ASSUME TInv, NEW t \in Tasks, DropTask(t)
    PROVE  TInv'
<1> USE DEF DropTask
<1>1. /\ row' \in [Tasks -> Rows \cup {None}] /\ row'[t] = None
      /\ \A u \in Tasks \ {t} : row'[u] = row[u]
  BY DEF TInv, StateType
<1>2. resumed' = resumed \ {row[t].id} /\ ran' = ran \ {row[t].id}
  BY DEF Forget
<1>3. StateType'
  BY <1>1, <1>2 DEF TInv, StateType
<1>4. IdsOnce' /\ RefsGiven'
  BY <1>1 DEF TInv, IdsOnce, RefsGiven, Refers
<1>5. \A u \in Tasks : row'[u] # None => row'[u] = row[u] /\ row[u].id # row[t].id
  BY <1>1 DEF TInv, IdsOnce
<1>6. OwnIncarnation' /\ OnceListed'
  BY <1>2, <1>5 DEF TInv, OwnIncarnation, OnceListed
<1>7. RecordsRan'
  <2>1. SUFFICES ASSUME NEW p \in Procs, pc[p] = "record", Present(got[p])'
                 PROVE  got[p].id \in ran'
    BY DEF RecordsRan
  <2>2. got[p] \in Refs
    BY <2>1 DEF TInv, StateType
  <2>3. Present(got[p]) /\ got[p].id # row[t].id
    BY <1>5, <2>1, <2>2 DEF Present, Refs
  <2> QED
    BY <1>2, <2>1, <2>3 DEF TInv, RecordsRan
<1> QED
  BY <1>3, <1>4, <1>6, <1>7 DEF TInv

\* A new row has an id that no one knows.
LEMMA CreateTaskOK ==
    ASSUME TInv, NEW t \in Tasks, NEW replace \in BOOLEAN, CreateTask(t, replace)
    PROVE  TInv'
<1>1. /\ lastId < MaxId /\ lastId' = lastId + 1 /\ Forget(t)
      /\ row' = [row EXCEPT ![t] = [id |-> lastId', state |-> "SUSPENDED", age |-> 0,
                                    executed |-> FALSE]]
      /\ UNCHANGED <<orphaned, pc, got, listed, late>>
  BY DEF CreateTask
<1>2. lastId \in Nat /\ lastId' \in Ids /\ lastId' \in 0 .. MaxId
  BY <1>1, ConstantsOK DEF TInv, StateType, Ids
<1>3. PICK x : x = [id |-> lastId', state |-> "SUSPENDED", age |-> 0, executed |-> FALSE]
  OBVIOUS
<1>4. x \in Rows /\ x # None /\ x.id = lastId' /\ x.state = "SUSPENDED" /\ ~x.executed
  <2>1. 0 \in 0 .. Interval
    BY ConstantsOK
  <2>2. x \in Rows
    BY <1>2, <1>3, <2>1 DEF Rows
  <2> QED
    BY <1>3, <2>2, ConstantsOK
<1>5. /\ row' \in [Tasks -> Rows \cup {None}] /\ row'[t] = x
      /\ \A u \in Tasks \ {t} : row'[u] = row[u]
  BY <1>1, <1>3, <1>4 DEF TInv, StateType
<1>6. /\ resumed' \subseteq resumed /\ ran' \subseteq ran
      /\ \A i \in resumed : (row[t] = None \/ row[t].id # i) => i \in resumed'
      /\ \A i \in ran : (row[t] = None \/ row[t].id # i) => i \in ran'
  BY <1>1 DEF Forget
<1>7. StateType'
  <2>1. 1 .. lastId \subseteq 1 .. lastId'
    BY <1>1, <1>2
  <2> QED
    BY <1>1, <1>2, <1>5, <1>6, <2>1 DEF TInv, StateType
<1>8. \A u \in Tasks \ {t} : row[u] # None => row[u].id \in Nat /\ row[u].id < lastId'
  BY <1>1, <1>2 DEF TInv, StateType, IdsOnce, Rows, Ids
<1>9. IdsOnce'
  BY <1>2, <1>4, <1>5, <1>8 DEF TInv, IdsOnce
<1>10. \A r : r.id \in Nat /\ Refers(r) => Refers(r)' /\ r.id # lastId'
  BY <1>1, <1>2, <1>4, <1>5, <1>8 DEF Refers
<1>11. RefsGiven'
  <2>1. \A r \in Refs : r.id \in Nat
    BY DEF Refs, Ids
  <2> QED
    BY <1>1, <1>10, <2>1 DEF TInv, RefsGiven, StateType
<1>12. \A u \in Tasks \ {t} : row[u] # None => row[t] = None \/ row[u].id # row[t].id
  BY DEF TInv, IdsOnce
<1>13. OwnIncarnation'
  BY <1>4, <1>5, <1>6, <1>12 DEF TInv, OwnIncarnation
<1>14. OnceListed'
  BY <1>1, <1>4, <1>5 DEF TInv, OnceListed
<1>15. RecordsRan'
  <2>1. SUFFICES ASSUME NEW p \in Procs, pc[p] = "record", Present(got[p])'
                 PROVE  got[p].id \in ran'
    BY <1>1 DEF RecordsRan
  <2>2. got[p] \in Refs /\ Refers(got[p]) /\ got[p].id \in Nat
    BY <2>1 DEF TInv, StateType, RefsGiven, Refs, Ids
  <2>3. row'[got[p].task] # None /\ row'[got[p].task].id = got[p].id
    BY <1>1, <2>1 DEF Present
  <2>4. got[p].task # t /\ got[p].task \in Tasks
    BY <1>4, <1>5, <1>10, <2>2, <2>3 DEF Refs
  <2>5. Present(got[p])
    BY <1>5, <2>3, <2>4 DEF Present
  <2>6. row[t] = None \/ row[t].id # got[p].id
    BY <1>12, <2>4, <2>5 DEF Present
  <2> QED
    BY <1>6, <2>1, <2>5, <2>6 DEF TInv, RecordsRan
<1> QED
  BY <1>7, <1>9, <1>11, <1>13, <1>14, <1>15 DEF TInv
-----------------------------------------------------------------------------
(***************************************************************************)
(* The requests of clients and the scheduler.                              *)
(***************************************************************************)

\* What only moves processes keeps what is said of the rows.
LEMMA RowsStay ==
    ASSUME TInv, UNCHANGED taskVars
    PROVE  /\ IdsOnce' /\ \A r : Refers(r)' <=> Refers(r)
           /\ \A r : Present(r)' <=> Present(r)
  BY DEF taskVars, TInv, IdsOnce, Refers, Present

\* A process that is done holds nothing.
LEMMA DoneMoves ==
    ASSUME StateType, NEW p \in Procs, Done(p)
    PROVE  /\ pc' \in [Procs -> Places] /\ got' \in [Procs -> Refs \cup {None}]
           /\ pc'[p] \in {"idle", "next"} /\ got'[p] = None
           /\ \A q \in Procs \ {p} : pc'[q] = pc[q] /\ got'[q] = got[q]
<1>1. PICK x : x = IF p = Scheduler THEN "next" ELSE "idle"
  OBVIOUS
<1>2. x \in Places /\ x \in {"idle", "next"} /\ pc' = [pc EXCEPT ![p] = x]
  BY <1>1 DEF Done, Go, Places
<1> QED
  BY <1>2 DEF StateType, Done

LEMMA GetByNameOK ==
    ASSUME TInv, NEW c \in Clients, NEW t \in Tasks, NEW o \in Ops, GetByName(c, t, o)
    PROVE  TInv'
<1> USE DEF GetByName, historyVars
<1>1. PICK r : r = [task |-> t, id |-> row[t].id]
  OBVIOUS
<1>2. r \in Refs /\ r # None /\ r.task = t /\ r.id = row[t].id
  <2>1. row[t] \in Rows
    BY DEF TInv, StateType
  <2>2. r \in Refs
    BY <1>1, <2>1 DEF Refs, Rows
  <2> QED
    BY <1>1, <2>2, ConstantsOK
<1>3. c \in Procs /\ c # Scheduler
  BY ConstantsOK
<1>4. /\ pc' \in [Procs -> Places] /\ got' \in [Procs -> Refs \cup {None}]
      /\ pc'[c] = o /\ got'[c] = r
      /\ \A q \in Procs \ {c} : pc'[q] = pc[q] /\ got'[q] = got[q]
  BY <1>1, <1>2, <1>3 DEF Go, Ops, Places, TInv, StateType
<1>5. /\ IdsOnce' /\ \A x : Refers(x)' <=> Refers(x)
      /\ \A x : Present(x)' <=> Present(x)
  BY RowsStay
<1> USE DEF taskVars
<1>6. StateType'
  BY <1>2, <1>4 DEF TInv, StateType, Ops
<1>7. RefsGiven'
  <2>1. Refers(r)
    BY <1>2 DEF Refers, TInv, IdsOnce
  <2> QED
    BY <1>4, <1>5, <2>1 DEF TInv, RefsGiven
<1>8. RecordsRan'
  <2>1. SUFFICES ASSUME NEW p \in Procs, pc'[p] = "record", Present(got'[p])
                 PROVE  got'[p].id \in ran
    BY <1>5 DEF RecordsRan, Present
  <2>2. p # c
    BY <1>4, <2>1 DEF Ops
  <2> QED
    BY <1>4, <2>1, <2>2 DEF TInv, RecordsRan
<1>9. OwnIncarnation' /\ OnceListed'
  BY <1>3, <1>4, ConstantsOK DEF TInv, OwnIncarnation, OnceListed
<1> QED
  BY <1>5, <1>6, <1>7, <1>8, <1>9 DEF TInv

\* RESUME and SUSPEND reach the row that was read or none; a resumed row
\* begins to be counted anew.
LEMMA SetTaskStateOK ==
    ASSUME TInv, NEW c \in Clients, SetTaskState(c)
    PROVE  TInv'
<1>1. c \in Procs /\ c # Scheduler
  BY ConstantsOK
<1>2. /\ pc' \in [Procs -> Places] /\ got' \in [Procs -> Refs \cup {None}]
      /\ pc'[c] \in {"idle", "next"} /\ got'[c] = None
      /\ \A q \in Procs \ {c} : pc'[q] = pc[q] /\ got'[q] = got[q]
  BY <1>1, DoneMoves DEF SetTaskState, TInv
<1>3. PICK r : r = got[c]
  OBVIOUS
<1>4. /\ pc[c] \in {"resume", "suspend"} /\ r \in Refs /\ r # None
      /\ UNCHANGED <<lastId, orphaned, listed, ran>>
  <2>1. pc[c] \in {"resume", "suspend"} /\ UNCHANGED <<lastId, orphaned, listed, ran>>
    BY DEF SetTaskState
  <2> QED
    BY <1>1, <1>3, <2>1, ConstantsOK DEF TInv, StateType
<1>5. CASE ~Present(r)
  <2>1. UNCHANGED <<row, resumed, late>>
    BY <1>3, <1>5 DEF SetTaskState
  <2>2. /\ IdsOnce' /\ \A x : Refers(x)' <=> Refers(x)
        /\ \A x : Present(x)' <=> Present(x)
    BY <1>4, <2>1, RowsStay DEF taskVars
  <2>3. StateType' /\ OwnIncarnation' /\ OnceListed'
    BY <1>1, <1>2, <1>4, <2>1, ConstantsOK DEF TInv, StateType, OwnIncarnation, OnceListed
  <2>4. RefsGiven'
    BY <1>2, <1>4, <2>2 DEF TInv, RefsGiven
  <2>5. RecordsRan'
    BY <1>2, <1>4, <2>1 DEF TInv, RecordsRan, Present
  <2> QED
    BY <2>2, <2>3, <2>4, <2>5 DEF TInv
<1>6. CASE Present(r)
  <2>1. PICK t, s, i : /\ t = r.task /\ i = r.id
                       /\ s = IF pc[c] = "resume" THEN "STARTED" ELSE "SUSPENDED"
    OBVIOUS
  <2>2. /\ t \in Tasks /\ i \in Ids /\ row[t] # None /\ row[t].id = i /\ row[t] \in Rows
        /\ s \in {"STARTED", "SUSPENDED"} /\ i \in 1 .. lastId
    <3>1. t \in Tasks /\ i \in Ids /\ row[t] # None /\ row[t].id = i
      BY <1>4, <1>6, <2>1 DEF Present, Refs
    <3> QED
      BY <2>1, <3>1 DEF TInv, StateType, IdsOnce, Ids
  <2>3. /\ row' = [row EXCEPT ![t].state = s]
        /\ s = "STARTED" => resumed' = resumed \cup {i} /\ late' = [late EXCEPT ![i] = 0]
        /\ s # "STARTED" => UNCHANGED <<resumed, late>>
    BY <1>3, <1>6, <2>1 DEF SetTaskState
  <2>4. /\ row'[t].id = i /\ row'[t].state = s /\ row'[t].executed = row[t].executed
        /\ row'[t] \in Rows /\ row'[t] # None
        /\ \A u \in Tasks \ {t} : row'[u] = row[u]
        /\ row' \in [Tasks -> Rows \cup {None}]
    <3>1. PICK x : x = [row[t] EXCEPT !.state = s]
      OBVIOUS
    <3>2. x \in Rows /\ x.id = i /\ x.state = s /\ x.executed = row[t].executed
      BY <2>2, <3>1 DEF Rows
    <3>3. row' = [row EXCEPT ![t] = x]
      BY <2>3, <3>1
    <3> QED
      BY <2>2, <3>2, <3>3, ConstantsOK DEF TInv, StateType
  <2>5. /\ IdsOnce' /\ \A x : Refers(x)' <=> Refers(x)
        /\ \A x \in Refs : Present(x)' <=> Present(x)
    <3>1. \A u \in Tasks : (row'[u] = None <=> row[u] = None) /\
                           (row[u] # None => row'[u].id = row[u].id)
      BY <2>2, <2>4
    <3> QED
      BY <1>4, <2>4, <3>1, SameIds
  <2>6. /\ late' \in [Ids -> {0, 1}] /\ resumed' \subseteq 1 .. lastId /\ resumed \subseteq resumed'
        /\ \A j \in Ids : late[j] = 0 => late'[j] = 0
        /\ s = "STARTED" => i \in resumed' /\ late'[i] = 0
    BY <2>2, <2>3 DEF TInv, StateType
  <2>7. StateType'
    BY <1>1, <1>2, <1>4, <2>4, <2>6 DEF TInv, StateType
  <2>8. RefsGiven'
    BY <1>2, <1>4, <2>5 DEF TInv, RefsGiven
  <2>9. OwnIncarnation'
    BY <1>4, <2>2, <2>4, <2>6 DEF TInv, OwnIncarnation
  <2>10. RecordsRan'
    <3>1. SUFFICES ASSUME NEW p \in Procs, pc'[p] = "record", Present(got[p])', got'[p] = got[p]
                   PROVE  got[p].id \in ran
      BY <1>2, <1>4 DEF RecordsRan, Present
    <3>2. p # c /\ pc[p] = "record" /\ got[p] \in Refs
      BY <1>2, <3>1, <2>7, ConstantsOK DEF TInv, StateType
    <3>3. PICK g \in Refs : g = got[p]
      BY <3>2
    <3>4. Present(g)'
      BY <3>1, <3>3 DEF Present
    <3>5. Present(got[p])
      BY <2>5, <3>3, <3>4
    <3> QED
      BY <3>2, <3>5 DEF TInv, RecordsRan
  <2>11. OnceListed'
    <3>1. \A u \in Tasks : row'[u] # None /\ row'[u].state = "STARTED" => late'[row'[u].id] = 0
      <4>1. \A u \in Tasks : row[u] # None => row[u].id \in Ids
        BY DEF TInv, StateType, Rows
      <4> QED
        BY <2>2, <2>4, <2>6, <4>1 DEF TInv, OnceListed
    <3>2. \A x \in listed : x.id \in Ids /\ late'[x.id] = 0
      BY <2>6 DEF TInv, OnceListed, StateType, Refs
    <3>3. pc[Scheduler] = "run" => got[Scheduler].id \in Ids /\ late'[got[Scheduler].id] = 0
      BY <2>6, ConstantsOK DEF TInv, OnceListed, StateType, Refs
    <3> QED
      BY <1>1, <1>2, <1>4, <3>1, <3>2, <3>3, ConstantsOK DEF TInv, OnceListed
  <2> QED
    BY <2>5, <2>7, <2>8, <2>9, <2>10, <2>11 DEF TInv
<1> QED
  BY <1>5, <1>6

\* A late run is counted once: what it ran is neither started nor listed.
LEMMA RunOK ==
    ASSUME TInv, NEW p \in Procs, Run(p)
    PROVE  TInv'
<1>1. PICK r : r = got[p]
  OBVIOUS
<1>2. /\ pc[p] = "run" /\ r \in Refs /\ r # None /\ Refers(r) /\ r.id \in Ids
      /\ UNCHANGED <<taskVars, got, listed, resumed>>
  <2>1. pc[p] = "run" /\ UNCHANGED <<taskVars, got, listed, resumed>>
    BY DEF Run
  <2>2. r \in Refs /\ r # None
    BY <1>1, <2>1, ConstantsOK DEF TInv, StateType
  <2> QED
    BY <1>1, <2>1, <2>2 DEF TInv, RefsGiven, Refs
<1>3. /\ pc' \in [Procs -> Places] /\ pc'[p] = "record"
      /\ \A q \in Procs \ {p} : pc'[q] = pc[q]
  BY DEF Run, Go, Places, TInv, StateType
<1>4. /\ ran \subseteq ran' /\ ran' \subseteq 1 .. lastId /\ (Present(r) => r.id \in ran')
  <2>1. r.id \in 1 .. lastId
    BY <1>2 DEF Refers, Ids, TInv, StateType
  <2> QED
    BY <1>1, <2>1 DEF Run, TInv, StateType
<1>5. \/ UNCHANGED late
      \/ /\ p = Scheduler /\ ~Started(r) /\ late' = [late EXCEPT ![r.id] = 1]
  <2>1. late' = IF p = Scheduler /\ ~Started(r) THEN [late EXCEPT ![r.id] = late[r.id] + 1] ELSE late
    BY <1>1 DEF Run
  <2>2. p = Scheduler => late[r.id] + 1 = 1
    BY <1>1, <1>2 DEF TInv, OnceListed
  <2>3. CASE p = Scheduler /\ ~Started(r)
    BY <2>1, <2>2, <2>3
  <2>4. CASE ~(p = Scheduler /\ ~Started(r))
    BY <2>1, <2>4
  <2> QED
    BY <2>3, <2>4
<1>6. /\ IdsOnce' /\ \A x : Refers(x)' <=> Refers(x)
      /\ \A x : Present(x)' <=> Present(x)
  BY <1>2, RowsStay
<1>7. late' \in [Ids -> {0, 1}] /\ \A j \in Ids \ {r.id} : late'[j] = late[j]
  BY <1>2, <1>5 DEF TInv, StateType
<1> USE DEF taskVars
<1>8. StateType'
  BY <1>2, <1>3, <1>4, <1>7 DEF TInv, StateType
<1>9. RefsGiven'
  BY <1>2, <1>6 DEF TInv, RefsGiven
<1>10. OwnIncarnation'
  BY <1>2, <1>4 DEF TInv, OwnIncarnation
<1>11. RecordsRan'
  BY <1>1, <1>2, <1>3, <1>4 DEF TInv, RecordsRan, Present
<1>12. OnceListed'
  <2>1. CASE UNCHANGED late
    BY <1>2, <1>3, <2>1, ConstantsOK DEF TInv, OnceListed
  <2>2. CASE p = Scheduler /\ ~Started(r)
    <3>1. \A u \in Tasks : row[u] # None /\ row[u].state = "STARTED" => row[u].id # r.id
      BY <1>2, <2>2 DEF Started, Present, Refers
    <3>2. \A u \in Tasks : row[u] # None => row[u].id \in Ids
      BY DEF TInv, StateType, Rows
    <3>3. \A u \in Tasks : row[u] # None /\ row[u].state = "STARTED" => late'[row[u].id] = 0
      BY <1>7, <3>1, <3>2 DEF TInv, OnceListed
    <3>4. \A x \in listed : x.id \in Ids /\ x.id # r.id
      BY <1>1, <1>2, <2>2 DEF TInv, OnceListed, StateType, Refs
    <3>5. \A x \in listed : late'[x.id] = 0
      BY <1>7, <3>4 DEF TInv, OnceListed
    <3> QED
      BY <1>2, <1>3, <2>2, <3>3, <3>5 DEF TInv, OnceListed
  <2> QED
    BY <1>5, <2>1, <2>2
<1> QED
  BY <1>6, <1>8, <1>9, <1>10, <1>11, <1>12 DEF TInv

LEMMA UnresolvedOK ==
    ASSUME TInv, NEW p \in Procs, Unresolved(p)
    PROVE  TInv'
<1>1. /\ pc' \in [Procs -> Places] /\ got' \in [Procs -> Refs \cup {None}]
      /\ pc'[p] \in {"idle", "next"} /\ got'[p] = None
      /\ \A q \in Procs \ {p} : pc'[q] = pc[q] /\ got'[q] = got[q]
  BY DoneMoves DEF Unresolved, TInv
<1>2. UNCHANGED <<taskVars, listed, historyVars>>
  BY DEF Unresolved
<1>3. /\ IdsOnce' /\ \A x : Refers(x)' <=> Refers(x)
      /\ \A x : Present(x)' <=> Present(x)
  BY <1>2, RowsStay
<1> USE DEF taskVars, historyVars
<1>4. StateType' /\ OwnIncarnation'
  BY <1>1, <1>2 DEF TInv, StateType, OwnIncarnation
<1>5. OnceListed'
  BY <1>1, <1>2, ConstantsOK DEF TInv, OnceListed
<1>6. RefsGiven'
  BY <1>1, <1>2, <1>3 DEF TInv, RefsGiven
<1>7. RecordsRan'
  BY <1>1, <1>2 DEF TInv, RecordsRan, Present
<1> QED
  BY <1>3, <1>4, <1>5, <1>6, <1>7 DEF TInv

\* A run is recorded in the row whose definition was run.
LEMMA RecordTaskExecutionOK ==
    ASSUME TInv, NEW p \in Procs, RecordTaskExecution(p)
    PROVE  TInv'
<1>1. /\ pc' \in [Procs -> Places] /\ got' \in [Procs -> Refs \cup {None}]
      /\ pc'[p] \in {"idle", "next"} /\ got'[p] = None
      /\ \A q \in Procs \ {p} : pc'[q] = pc[q] /\ got'[q] = got[q]
  BY DoneMoves DEF RecordTaskExecution, TInv
<1>2. pc[p] = "record" /\ UNCHANGED <<lastId, orphaned, listed, historyVars>>
  BY DEF RecordTaskExecution
<1>3. PICK r \in Refs : r = got[p]
  BY <1>2, ConstantsOK DEF TInv, StateType
<1> USE DEF historyVars
<1>4. CASE UNCHANGED row
  <2>1. /\ IdsOnce' /\ \A x : Refers(x)' <=> Refers(x)
        /\ \A x : Present(x)' <=> Present(x)
    BY <1>2, <1>4, RowsStay DEF taskVars
  <2>2. StateType' /\ OwnIncarnation'
    BY <1>1, <1>2, <1>4 DEF TInv, StateType, OwnIncarnation
  <2>3. OnceListed'
    BY <1>1, <1>2, <1>4, ConstantsOK DEF TInv, OnceListed
  <2>4. RefsGiven'
    BY <1>1, <1>2, <2>1 DEF TInv, RefsGiven
  <2>5. RecordsRan'
    BY <1>1, <1>2, <1>4 DEF TInv, RecordsRan, Present
  <2> QED
    BY <2>1, <2>2, <2>3, <2>4, <2>5 DEF TInv
<1>5. CASE Present(r) /\ row' = [row EXCEPT ![r.task].age = 0, ![r.task].executed = TRUE]
  <2>1. PICK t : t = r.task
    OBVIOUS
  <2>2. t \in Tasks /\ row[t] \in Rows /\ row[t].id = r.id /\ row[t] # None /\ r.id \in ran
    <3>1. t \in Tasks /\ row[t] # None /\ row[t].id = r.id
      BY <1>5, <2>1 DEF Present, Refs
    <3> QED
      BY <1>2, <1>3, <1>5, <3>1 DEF TInv, StateType, RecordsRan
  <2>3. /\ row'[t].id = row[t].id /\ row'[t].state = row[t].state
        /\ row'[t] \in Rows /\ row'[t] # None
        /\ \A u \in Tasks \ {t} : row'[u] = row[u]
        /\ row' \in [Tasks -> Rows \cup {None}]
    <3>1. PICK x : x = [row[t] EXCEPT !.age = 0, !.executed = TRUE]
      OBVIOUS
    <3>2. x \in Rows /\ x.id = row[t].id /\ x.state = row[t].state
      <4>1. 0 \in 0 .. Interval
        BY ConstantsOK
      <4> QED
        BY <2>2, <3>1, <4>1 DEF Rows
    <3>3. row' = [row EXCEPT ![t] = x]
      BY <1>5, <2>1, <2>2, <3>1 DEF TInv, StateType
    <3> QED
      BY <2>2, <3>2, <3>3, ConstantsOK DEF TInv, StateType
  <2>4. /\ IdsOnce' /\ \A x : Refers(x)' <=> Refers(x)
        /\ \A x \in Refs : Present(x)' <=> Present(x)
    <3>1. \A u \in Tasks : (row'[u] = None <=> row[u] = None) /\
                           (row[u] # None => row'[u].id = row[u].id)
      BY <2>2, <2>3
    <3> QED
      BY <1>2, <2>3, <3>1, SameIds
  <2>5. StateType'
    BY <1>1, <1>2, <2>3 DEF TInv, StateType
  <2>6. OwnIncarnation'
    BY <1>2, <2>2, <2>3 DEF TInv, OwnIncarnation
  <2>7. OnceListed'
    BY <1>1, <1>2, <2>2, <2>3, ConstantsOK DEF TInv, OnceListed
  <2>8. RefsGiven'
    BY <1>1, <1>2, <2>4 DEF TInv, RefsGiven
  <2>9. RecordsRan'
    <3>1. SUFFICES ASSUME NEW q \in Procs, pc'[q] = "record", Present(got[q])', got'[q] = got[q]
                   PROVE  got[q].id \in ran
      BY <1>1, <1>2 DEF RecordsRan, Present
    <3>2. q # p /\ pc[q] = "record" /\ got[q] \in Refs
      BY <1>1, <3>1, <2>5, ConstantsOK DEF TInv, StateType
    <3>3. PICK g \in Refs : g = got[q]
      BY <3>2
    <3>4. Present(g)'
      BY <3>1, <3>3 DEF Present
    <3>5. Present(got[q])
      BY <2>4, <3>3, <3>4
    <3> QED
      BY <3>2, <3>5 DEF TInv, RecordsRan
  <2> QED
    BY <2>4, <2>5, <2>6, <2>7, <2>8, <2>9 DEF TInv
<1> QED
  BY <1>3, <1>4, <1>5 DEF RecordTaskExecution
-----------------------------------------------------------------------------
(***************************************************************************)
(* The pass, and the theorems.                                             *)
(***************************************************************************)

\* What is due is started, so it was not run late since.
LEMMA ListTasksOK ==
    ASSUME TInv, ListTasks
    PROVE  TInv'
<1> USE DEF ListTasks, historyVars
<1>1. /\ pc' \in [Procs -> Places] /\ pc[Scheduler] = "idle" /\ pc'[Scheduler] = "next"
      /\ \A q \in Procs \ {Scheduler} : pc'[q] = pc[q]
  BY ConstantsOK DEF Go, Places, TInv, StateType
<1>2. \A r \in listed' : \E t \in Tasks : /\ r = [task |-> t, id |-> row[t].id] /\ row[t] # None
                                          /\ row[t].state = "STARTED"
  BY DEF Due
<1>3. \A r \in listed' : /\ r \in Refs /\ r.task \in Tasks /\ row[r.task] # None
                         /\ r.id = row[r.task].id /\ row[r.task].state = "STARTED"
                         /\ r = [task |-> r.task, id |-> r.id]
  <2>1. SUFFICES ASSUME NEW r \in listed'
                 PROVE  /\ r \in Refs /\ r.task \in Tasks /\ row[r.task] # None
                        /\ r.id = row[r.task].id /\ row[r.task].state = "STARTED"
                        /\ r = [task |-> r.task, id |-> r.id]
    OBVIOUS
  <2>2. PICK t \in Tasks : /\ r = [task |-> t, id |-> row[t].id] /\ row[t] # None
                           /\ row[t].state = "STARTED"
    BY <1>2, <2>1
  <2>3. row[t].id \in Ids
    BY <2>2 DEF TInv, StateType, Rows
  <2> QED
    BY <2>2, <2>3 DEF Refs
<1>4. /\ IdsOnce' /\ \A x : Refers(x)' <=> Refers(x)
      /\ \A x : Present(x)' <=> Present(x)
  BY RowsStay
<1> USE DEF taskVars
<1>5. StateType'
  BY <1>1, <1>3 DEF TInv, StateType
<1>6. RefsGiven'
  <2>1. \A r \in listed' : Refers(r)
    BY <1>3 DEF Refers, TInv, IdsOnce
  <2> QED
    BY <1>4, <2>1 DEF TInv, RefsGiven
<1>7. OwnIncarnation'
  BY DEF TInv, OwnIncarnation
<1>8. RecordsRan'
  BY <1>1 DEF TInv, RecordsRan, Present
<1>9. OnceListed'
  <2>1. \A r \in listed' : late[r.id] = 0
    BY <1>3 DEF TInv, OnceListed
  <2>2. \A r \in listed', s \in listed' : r.id = s.id => r = s
    <3>1. SUFFICES ASSUME NEW r \in listed', NEW s \in listed', r.id = s.id
                   PROVE  r.task = s.task
      BY <1>3
    <3> QED
      BY <1>3, <3>1 DEF TInv, IdsOnce
  <2> QED
    BY <1>1, <2>1, <2>2 DEF TInv, OnceListed
<1> QED
  BY <1>4, <1>5, <1>6, <1>7, <1>8, <1>9 DEF TInv

LEMMA RunListedOK ==
    ASSUME TInv, NEW r \in Refs, RunListed(r)
    PROVE  TInv'
<1> USE DEF RunListed, historyVars
<1>1. /\ r \in listed /\ listed' = listed \ {r} /\ r # None
      /\ UNCHANGED <<taskVars, historyVars>>
  BY ConstantsOK
<1>2. \/ UNCHANGED <<pc, got>>
      \/ /\ pc' \in [Procs -> Places] /\ got' \in [Procs -> Refs \cup {None}]
         /\ pc'[Scheduler] = "run" /\ got'[Scheduler] = r
         /\ \A q \in Procs \ {Scheduler} : pc'[q] = pc[q] /\ got'[q] = got[q]
  BY ConstantsOK DEF Go, Places, TInv, StateType
<1>3. /\ IdsOnce' /\ \A x : Refers(x)' <=> Refers(x)
      /\ \A x : Present(x)' <=> Present(x)
  BY RowsStay
<1> USE DEF taskVars
<1>4. StateType'
  BY <1>1, <1>2 DEF TInv, StateType
<1>5. RefsGiven'
  BY <1>1, <1>2, <1>3 DEF TInv, RefsGiven
<1>6. OwnIncarnation'
  BY DEF TInv, OwnIncarnation
<1>7. RecordsRan'
  BY <1>1, <1>2 DEF TInv, RecordsRan, Present
<1>8. OnceListed'
  BY <1>1, <1>2, ConstantsOK DEF TInv, OnceListed
<1> QED
  BY <1>3, <1>4, <1>5, <1>6, <1>7, <1>8 DEF TInv

LEMMA EndPassOK ==
    ASSUME TInv, EndPass
    PROVE  TInv'
<1> USE DEF EndPass, historyVars
<1>1. /\ pc' \in [Procs -> Places] /\ pc[Scheduler] = "next" /\ pc'[Scheduler] = "idle"
      /\ \A q \in Procs \ {Scheduler} : pc'[q] = pc[q]
  BY ConstantsOK DEF Go, Places, TInv, StateType
<1>2. /\ IdsOnce' /\ \A x : Refers(x)' <=> Refers(x)
      /\ \A x : Present(x)' <=> Present(x)
  BY RowsStay
<1> USE DEF taskVars
<1>3. StateType' /\ OwnIncarnation' /\ OnceListed'
  BY <1>1 DEF TInv, StateType, OwnIncarnation, OnceListed
<1>4. RefsGiven'
  BY <1>2 DEF TInv, RefsGiven
<1>5. RecordsRan'
  BY <1>1 DEF TInv, RecordsRan, Present
<1> QED
  BY <1>2, <1>3, <1>4, <1>5 DEF TInv

LEMMA CrashOK ==
    ASSUME TInv, Crash
    PROVE  TInv'
<1> USE DEF Crash, historyVars
<1>1. /\ IdsOnce' /\ \A x : Refers(x)' <=> Refers(x)
      /\ \A x : Present(x)' <=> Present(x)
  BY RowsStay
<1> USE DEF taskVars
<1>2. StateType' /\ OwnIncarnation'
  BY DEF TInv, StateType, OwnIncarnation, Places
<1>3. OnceListed'
  BY ConstantsOK DEF TInv, OnceListed
<1>4. RefsGiven' /\ RecordsRan'
  BY DEF RefsGiven, RecordsRan
<1> QED
  BY <1>1, <1>2, <1>3, <1>4 DEF TInv

LEMMA InitInvariant ==
    ASSUME Init
    PROVE  TInv
<1> USE DEF Init
<1>1. 0 \in 0 .. MaxId
  BY ConstantsOK
<1>2. StateType
  BY <1>1 DEF StateType, Places
<1>3. IdsOnce /\ RefsGiven /\ OwnIncarnation /\ RecordsRan
  BY DEF IdsOnce, RefsGiven, OwnIncarnation, RecordsRan
<1>4. OnceListed
  BY ConstantsOK DEF OnceListed
<1> QED
  BY <1>2, <1>3, <1>4 DEF TInv

LEMMA NextInvariant ==
    ASSUME TInv, [Next]_vars
    PROVE  TInv'
<1>1. CASE SchedulerStep
  BY <1>1, ConstantsOK, ListTasksOK, RunListedOK, RunOK, UnresolvedOK, RecordTaskExecutionOK,
     EndPassOK DEF SchedulerStep
<1>2. ASSUME NEW c \in Clients,
             \/ \E t \in Tasks, o \in Ops : GetByName(c, t, o)
             \/ SetTaskState(c) \/ Run(c) \/ Unresolved(c) \/ RecordTaskExecution(c)
      PROVE  TInv'
  <2>1. c \in Procs
    BY ConstantsOK
  <2> QED
    BY <1>2, <2>1, GetByNameOK, SetTaskStateOK, RunOK, UnresolvedOK, RecordTaskExecutionOK
<1>3. CASE UNCHANGED vars
  <2>1. /\ IdsOnce' /\ \A x : Refers(x)' <=> Refers(x)
        /\ \A x : Present(x)' <=> Present(x)
    BY <1>3, RowsStay DEF vars
  <2> USE <1>3 DEF vars, taskVars, historyVars
  <2>2. StateType' /\ OwnIncarnation' /\ OnceListed'
    BY DEF TInv, StateType, OwnIncarnation, OnceListed
  <2>3. RefsGiven'
    BY <2>1 DEF TInv, RefsGiven
  <2>4. RecordsRan'
    BY DEF TInv, RecordsRan, Present
  <2> QED
    BY <2>1, <2>2, <2>3, <2>4 DEF TInv
<1> QED
  BY <1>1, <1>2, <1>3, TimeOK, CrashOK, DropOwnerOK, DropTaskOK, CreateTaskOK DEF Next

\* Every process holds the id of a row it has read, and no row that is
\* started or listed was run late.
THEOREM TasksInvariant == Spec => []TInv
<1>1. Init => TInv
  BY InitInvariant
<1>2. TInv /\ [Next]_vars => TInv'
  BY NextInvariant
<1> QED
  BY <1>1, <1>2, PTL DEF Spec

\* The rows have different ids, given so far, and a process that runs, sets or
\* records something has read a row.
THEOREM TasksTypeOK == Spec => []TypeOK
<1>1. ASSUME TInv
      PROVE  TypeOK
  <2>1. \A t \in Tasks : row[t] # None => row[t] \in Rows
    BY <1>1 DEF TInv, StateType
  <2> QED
    BY <1>1, <2>1 DEF TInv, StateType, IdsOnce, TypeOK, Places
<1> QED
  BY <1>1, TasksInvariant, PTL

\* A task is only started because it was resumed itself, and has only runs of
\* its own, whatever is still done for an earlier task of its name.
THEOREM TasksOwnIncarnation == Spec => []OwnIncarnation
<1>1. TInv => OwnIncarnation
  BY DEF TInv
<1> QED
  BY <1>1, TasksInvariant, PTL

\* The scheduler runs a task at most once after it was suspended, dropped or
\* replaced, however long its pass takes.
THEOREM TasksAtMostOneLateRun == Spec => []AtMostOneLateRun
<1>1. TInv => AtMostOneLateRun
  BY DEF TInv, StateType, AtMostOneLateRun
<1> QED
  BY <1>1, TasksInvariant, PTL
-----------------------------------------------------------------------------
(***************************************************************************)
(* Dynamic tables, as an instance with variables of their own: for any     *)
(* names, clients, warehouses, lags and number of definitions, the rows    *)
(* materialized are those of the present definition.                       *)
(*                                                                         *)
(* A refresh writes what it has read two steps before.  It may, for        *)
(* between the lookup and the transaction it holds the mutex (Operates),   *)
(* and whoever changes the row of a dynamic table holds it then: so the    *)
(* row is the one it has read (Read).  The pass keeps the mutex across     *)
(* all its refreshes, and what it has listed stays (PassHolds).  Ordinary  *)
(* statements do not take the mutex, and write no definition's rows.       *)
(***************************************************************************)
CONSTANTS Tables, Warehouses, WarehouseOf, Lag, MaxDefinition, MaxWait, ClientOps, ProcedureOps

VARIABLES dtRow, type, physical, lastDef, mu, writeMu, conn, slot, dtPc, op, at, dtGot, pinned,
          dtListed, since

D == INSTANCE DynamicTables WITH row <- dtRow, pc <- dtPc, got <- dtGot, listed <- dtListed

DPlaces == {"idle", "connect", "lock", "get", "acquire", "exec", "end", "check", "register",
           "list", "next", "record"}
DOps == D!DynamicOps \cup D!OrdinaryOps
ReadRows == [id : D!Definitions, def : D!Definitions]

DStateType ==
    /\ lastDef \in 0 .. MaxDefinition
    /\ dtRow \in [Tables -> D!Rows \cup {None}]
    /\ \A t \in Tables : dtRow[t] # None => dtRow[t].def <= lastDef
    /\ type \in [Tables -> {"none", "base", "dynamic"}]
    /\ physical \in [Tables -> D!OrdinaryRows .. lastDef]
    /\ mu \in D!Procs \cup {None} /\ conn \in D!Procs \cup {None}
    /\ dtPc \in [D!Procs -> DPlaces] /\ op \in [D!Procs -> DOps \cup {"none"}]
    /\ at \in [D!Procs -> Tables \cup {None}] /\ dtGot \in [D!Procs -> ReadRows \cup {D!NoRow}]
    /\ pinned \in [D!Procs -> BOOLEAN]
    /\ dtListed \subseteq Tables /\ since \in 0 .. MaxWait

\* p is between the lookup and the end of a dynamic-table operation.
Operates(p) == dtPc[p] \in {"get", "acquire"} \/ (dtPc[p] = "exec" /\ op[p] \in D!DynamicOps)

\* The row under t is the one p has read.
Read(p, t) ==
    /\ dtRow[t] # None /\ dtGot[p] \in ReadRows
    /\ dtRow[t].id = dtGot[p].id /\ dtRow[t].def = dtGot[p].def

\* What process p is doing, and what it relies on.
DHolds(p) ==
    /\ dtPc[p] \in {"get", "acquire", "exec", "check", "register", "record"} => at[p] \in Tables
    /\ dtPc[p] \in {"get", "acquire"} => op[p] \in D!DynamicOps
    /\ dtPc[p] \in {"check", "register"} => op[p] \in D!OrdinaryOps
    /\ p # Scheduler /\ dtPc[p] \in {"connect", "lock"} => at[p] \in Tables
    /\ p # Scheduler /\ dtPc[p] = "lock" => op[p] \in D!DynamicOps
    /\ dtPc[p] = "connect" => op[p] \in DOps
    /\ Operates(p) => mu = p
    /\ dtPc[p] \in {"acquire", "exec"} /\ op[p] = "refresh" => Read(p, at[p])
    /\ pinned[p] => conn = p

\* The pass keeps the mutex, and the rows it has listed and visits stay.
PassHolds ==
    /\ dtPc[Scheduler] \in {"idle", "lock", "list", "next", "get", "acquire", "exec", "record", "end"}
    /\ dtPc[Scheduler] \in {"idle", "lock"} => dtListed = {}
    /\ dtPc[Scheduler] \notin {"idle", "lock"} => mu = Scheduler /\ \A t \in dtListed : dtRow[t] # None
    /\ dtPc[Scheduler] \in {"get", "acquire", "exec", "record"} =>
          op[Scheduler] = "refresh" /\ dtRow[at[Scheduler]] # None
    /\ ~pinned[Scheduler]
    /\ \A c \in Clients : dtPc[c] \notin {"list", "next", "record"}

\* The inductive invariant; the constants keep what is assumed of them.
DInv ==
    /\ D!DynamicTablesAssumption
    /\ DStateType /\ PassHolds /\ (\A p \in D!Procs : DHolds(p))
    /\ D!DefinitionMatches
-----------------------------------------------------------------------------
\* What the steps need to know of the constants.
DTKnown ==
    /\ Lag \in Nat \ {0} /\ MaxDefinition \in Nat \ {0} /\ MaxWait \in Nat
    /\ Scheduler \notin Clients /\ None \notin D!Procs /\ None \notin D!Rows
    /\ WarehouseOf \in [Tables -> Warehouses] /\ ClientOps \cup ProcedureOps \subseteq DOps
    /\ Clients \subseteq D!Procs /\ Scheduler \in D!Procs

LEMMA DTAssumed ==
    ASSUME D!DynamicTablesAssumption
    PROVE  DTKnown
  BY DEF DTKnown, D!DynamicTablesAssumption, D!Procs, DOps

LEMMA DTConstants ==
    ASSUME DInv
    PROVE  /\ Lag \in Nat \ {0} /\ MaxDefinition \in Nat \ {0} /\ MaxWait \in Nat
           /\ Scheduler \notin Clients /\ None \notin D!Procs /\ None \notin D!Rows
           /\ WarehouseOf \in [Tables -> Warehouses] /\ ClientOps \cup ProcedureOps \subseteq DOps
           /\ Clients \subseteq D!Procs /\ Scheduler \in D!Procs
  BY DTAssumed DEF DInv, DTKnown

\* Rows may change what is not their id or definition.
SameRows ==
    \A t \in Tables : /\ dtRow'[t] = None <=> dtRow[t] = None
                      /\ dtRow[t] # None => dtRow'[t].id = dtRow[t].id /\ dtRow'[t].def = dtRow[t].def

\* A step of process p leaves the others where they are.
Others(p) ==
    /\ \A q \in D!Procs \ {p} : /\ dtPc'[q] = dtPc[q] /\ op'[q] = op[q] /\ at'[q] = at[q]
                                /\ dtGot'[q] = dtGot[q] /\ pinned'[q] = pinned[q]
                                /\ mu = q => mu' = q
                                /\ conn = q => conn' = q
    /\ p # Scheduler => UNCHANGED <<dtListed, since>>
    /\ p # Scheduler => dtPc'[p] \notin {"list", "next", "record"}

\* Nobody relies on rows that a process changes under the mutex.
LEMMA OthersHold ==
    ASSUME DInv, NEW p \in D!Procs, Others(p), mu = p \/ SameRows
    PROVE  /\ \A q \in D!Procs \ {p} : DHolds(q)'
           /\ p # Scheduler => PassHolds'
<1>1. ASSUME NEW q \in D!Procs \ {p}
      PROVE  DHolds(q)'
  <2>1. /\ dtPc'[q] = dtPc[q] /\ op'[q] = op[q] /\ at'[q] = at[q]
        /\ dtGot'[q] = dtGot[q] /\ pinned'[q] = pinned[q]
        /\ mu = q => mu' = q
        /\ conn = q => conn' = q
    BY DEF Others
  <2>2. DHolds(q)
    BY DEF DInv
  <2>3. CASE mu = p
    <3>1. ~Operates(q)
      BY <2>2, <2>3 DEF DHolds
    <3>2. ~(dtPc[q] \in {"acquire", "exec"} /\ op[q] = "refresh")
      BY <3>1 DEF Operates, D!DynamicOps
    <3> QED
      BY <2>1, <2>2, <3>1, <3>2 DEF DHolds, Operates
  <2>4. CASE SameRows
    <3>1. dtPc[q] \in {"acquire", "exec"} /\ op[q] = "refresh" => Read(q, at[q])'
      BY <2>1, <2>2, <2>4 DEF DHolds, Read, SameRows
    <3> QED
      BY <2>1, <2>2, <3>1 DEF DHolds, Operates
  <2> QED
    BY <2>3, <2>4
<1>2. ASSUME p # Scheduler
      PROVE  PassHolds'
  <2>1. /\ dtPc'[Scheduler] = dtPc[Scheduler] /\ op'[Scheduler] = op[Scheduler]
        /\ at'[Scheduler] = at[Scheduler] /\ pinned'[Scheduler] = pinned[Scheduler]
        /\ mu = Scheduler => mu' = Scheduler
        /\ UNCHANGED dtListed
    BY <1>2, DTConstants DEF Others
  <2>2. \A c \in Clients : dtPc'[c] \notin {"list", "next", "record"}
    BY <1>2, DTConstants DEF Others, DInv, PassHolds
  <2>3. PassHolds /\ DHolds(Scheduler) /\ dtListed \subseteq Tables
    BY DTConstants DEF DInv, DStateType
  <2>4. CASE mu = p
    BY <1>2, <2>1, <2>2, <2>3, <2>4 DEF PassHolds
  <2>5. CASE SameRows
    BY <2>1, <2>2, <2>3, <2>5 DEF PassHolds, SameRows, DHolds
  <2> QED
    BY <2>4, <2>5
<1> QED
  BY <1>1, <1>2

\* The step of a process, all together.
LEMMA OneStep ==
    ASSUME DInv, NEW p \in D!Procs, Others(p), mu = p \/ SameRows,
           DStateType', DHolds(p)', p = Scheduler => PassHolds', D!DefinitionMatches'
    PROVE  DInv'
  BY OthersHold DEF DInv

\* Nothing of the tables changes.
LEMMA TablesStay ==
    ASSUME DInv, UNCHANGED D!tableVars
    PROVE  SameRows /\ D!DefinitionMatches'
  BY DEF D!tableVars, SameRows, DInv, D!DefinitionMatches

\* The step of a client that moves it and changes none of the tables.
LEMMA ClientMoves ==
    ASSUME DInv, NEW c \in Clients, Others(c), UNCHANGED D!tableVars, DStateType', DHolds(c)'
    PROVE  DInv'
  BY DTConstants, TablesStay, OneStep

\* Nothing changes but the locks that have no part in the invariant.
LEMMA NothingChanges ==
    ASSUME DInv, UNCHANGED <<dtRow, type, physical, lastDef, mu, conn, dtPc, dtGot,
                             op, at, pinned, dtListed, since>>
    PROVE  DInv'
<1>1. DStateType' /\ PassHolds' /\ D!DefinitionMatches'
  BY DEF DInv, DStateType, PassHolds, D!DefinitionMatches
<1>2. ASSUME NEW p \in D!Procs PROVE DHolds(p)'
  <2>1. DHolds(p)
    BY DEF DInv
  <2> QED
    BY <2>1 DEF DHolds, Operates, Read
<1> QED
  BY <1>1, <1>2 DEF DInv

\* Taking the write mutex changes nothing that the invariant is about.
LEMMA LockWriteOK ==
    ASSUME DInv, NEW p \in D!Procs, D!LockWrite(p)
    PROVE  DInv'
<1>1. UNCHANGED <<dtRow, type, physical, lastDef, mu, conn, dtPc, dtGot,
                  op, at, pinned, dtListed, since>>
  BY DEF D!LockWrite, D!tableVars, D!requestVars, D!passVars
<1> QED
  BY <1>1, NothingChanges

\* The clock changes ages, and nobody relies on ages.
LEMMA DTimeOK ==
    ASSUME DInv, D!Time
    PROVE  DInv'
<1> DEFINE older(age, max) == IF age \in 0 .. max - 1 THEN age + 1 ELSE age
<1>1. /\ dtRow' = [t \in Tables |-> IF dtRow[t] = None THEN None
                    ELSE [dtRow[t] EXCEPT !.last = older(@, Lag + MaxWait),
                                        !.tried = older(@, D!Backoff + MaxWait)]]
      /\ since' = IF dtPc[Scheduler] = "idle" THEN since ELSE older(since, MaxWait)
      /\ UNCHANGED <<type, physical, lastDef, mu, conn, dtPc, dtGot,
                     op, at, pinned, dtListed>>
  BY DEF D!Time, D!lockVars, D!requestVars
<1>2. \A age \in D!Ages : older(age, Lag + MaxWait) \in D!Ages
  BY DTConstants DEF D!Ages
<1>3. \A age \in -1 .. D!Backoff + MaxWait : older(age, D!Backoff + MaxWait) \in -1 .. D!Backoff + MaxWait
  BY DTConstants DEF D!Backoff
<1>4. since' \in 0 .. MaxWait
  <2>1. since \in 0 .. MaxWait /\ older(since, MaxWait) \in 0 .. MaxWait
    BY DTConstants DEF DInv, DStateType
  <2> QED
    BY <1>1, <2>1
<1> HIDE DEF older
<1>5. \A t \in Tables : dtRow[t] # None =>
         /\ dtRow'[t] \in D!Rows /\ dtRow'[t].id = dtRow[t].id /\ dtRow'[t].def = dtRow[t].def
  <2>1. SUFFICES ASSUME NEW t \in Tables, dtRow[t] # None
                 PROVE  /\ dtRow'[t] \in D!Rows /\ dtRow'[t].id = dtRow[t].id /\ dtRow'[t].def = dtRow[t].def
    OBVIOUS
  <2>2. PICK x \in D!Rows : x = dtRow[t]
    BY <2>1 DEF DInv, DStateType
  <2>3. older(x.last, Lag + MaxWait) \in D!Ages
        /\ older(x.tried, D!Backoff + MaxWait) \in -1 .. D!Backoff + MaxWait
    BY <1>2, <1>3, <2>2 DEF D!Rows
  <2>4. dtRow'[t] = [x EXCEPT !.last = older(@, Lag + MaxWait),
                            !.tried = older(@, D!Backoff + MaxWait)]
    BY <1>1, <2>1, <2>2
  <2> QED
    BY <2>2, <2>3, <2>4 DEF D!Rows
<1>6. \A t \in Tables : dtRow[t] = None => dtRow'[t] = None
  BY <1>1
<1>7. SameRows
  BY <1>5, <1>6, DTConstants DEF SameRows
<1>8. dtRow' \in [Tables -> D!Rows \cup {None}]
  BY <1>1, <1>5, <1>6
<1>9. DStateType'
  <2>1. \A t \in Tables : dtRow'[t] # None => dtRow'[t].def <= lastDef
    BY <1>5, <1>6 DEF DInv, DStateType
  <2> QED
    BY <1>1, <1>4, <1>8, <2>1 DEF DInv, DStateType
<1>10. ASSUME NEW p \in D!Procs
       PROVE  DHolds(p)'
  <2>1. DHolds(p)
    BY DEF DInv
  <2>2. dtPc[p] \in {"acquire", "exec"} /\ op[p] = "refresh" => Read(p, at[p])'
    BY <1>1, <1>7, <2>1 DEF DHolds, Read, SameRows
  <2> QED
    BY <1>1, <2>1, <2>2 DEF DHolds, Operates
<1>11. PassHolds'
  <2>1. DHolds(Scheduler) /\ dtListed \subseteq Tables
    BY DTConstants DEF DInv, DStateType
  <2> QED
    BY <1>1, <1>7, <2>1 DEF DInv, PassHolds, SameRows, DHolds
<1>12. D!DefinitionMatches'
  BY <1>1, <1>7 DEF DInv, D!DefinitionMatches, SameRows
<1> QED
  BY <1>9, <1>10, <1>11, <1>12 DEF DInv
-----------------------------------------------------------------------------
(***************************************************************************)
(* The requests of clients.                                                *)
(***************************************************************************)

LEMMA SubmitOK ==
    ASSUME DInv, NEW c \in Clients, NEW t \in Tables, NEW o \in D!DynamicOps, D!Submit(c, t, o)
    PROVE  DInv'
<1>1. /\ dtPc[c] = "idle" /\ op' = [op EXCEPT ![c] = o] /\ at' = [at EXCEPT ![c] = t]
      /\ dtPc' = [dtPc EXCEPT ![c] = "lock"]
      /\ UNCHANGED <<dtRow, type, physical, lastDef, mu, conn, pinned, dtGot, dtListed, since>>
  BY DEF D!Submit, D!Go, D!tableVars, D!lockVars, D!passVars
<1>2. c \in D!Procs
  BY DTConstants
<1>3. DStateType' /\ Others(c) /\ dtPc'[c] = "lock" /\ op'[c] = o /\ at'[c] = t
  BY <1>1, <1>2 DEF DInv, DStateType, Others, DPlaces, DOps
<1>4. DHolds(c)'
  BY <1>1, <1>2, <1>3 DEF DInv, DHolds, Operates
<1> QED
  BY <1>1, <1>3, <1>4, ClientMoves DEF D!tableVars

LEMMA CallOK ==
    ASSUME DInv, NEW c \in Clients, NEW w \in Warehouses, NEW t \in Tables, NEW o \in ProcedureOps,
           D!Call(c, w, t, o)
    PROVE  DInv'
<1>1. /\ dtPc[c] = "idle" /\ op' = [op EXCEPT ![c] = o] /\ at' = [at EXCEPT ![c] = t]
      /\ dtPc' = [dtPc EXCEPT ![c] = "connect"]
      /\ UNCHANGED <<dtRow, type, physical, lastDef, mu, conn, pinned, dtGot, dtListed, since>>
  BY DEF D!Call, D!Go, D!tableVars, D!passVars
<1>2. c \in D!Procs /\ o \in DOps
  BY DTConstants
<1>3. DStateType' /\ Others(c) /\ dtPc'[c] = "connect" /\ op'[c] = o /\ at'[c] = t
  BY <1>1, <1>2 DEF DInv, DStateType, Others, DPlaces, DOps
<1>4. DHolds(c)'
  BY <1>1, <1>2, <1>3 DEF DInv, DHolds, Operates
<1> QED
  BY <1>1, <1>3, <1>4, ClientMoves DEF D!tableVars

\* A procedure takes the connection that nobody has.
LEMMA WithPinnedConnectionOK ==
    ASSUME DInv, NEW c \in Clients, D!WithPinnedConnection(c)
    PROVE  DInv'
<1>1. /\ dtPc[c] = "connect" /\ conn = None /\ conn' = c /\ pinned' = [pinned EXCEPT ![c] = TRUE]
      /\ \/ op[c] \in D!DynamicOps /\ dtPc' = [dtPc EXCEPT ![c] = "lock"]
         \/ op[c] \notin D!DynamicOps /\ dtPc' = [dtPc EXCEPT ![c] = "check"]
      /\ UNCHANGED <<dtRow, type, physical, lastDef, mu, op, at, dtGot, dtListed, since>>
  BY DEF D!WithPinnedConnection, D!Go, D!tableVars, D!passVars
<1>2. c \in D!Procs /\ c # Scheduler /\ None \notin D!Procs
  BY DTConstants
<1>3. DStateType'
  BY <1>1, <1>2 DEF DInv, DStateType, DPlaces
<1>4. /\ Others(c)
      /\ dtPc'[c] = IF op[c] \in D!DynamicOps THEN "lock" ELSE "check"
  BY <1>1, <1>2 DEF DInv, DStateType, Others
<1>5. op[c] \in DOps /\ at[c] \in Tables
  BY <1>1, <1>2 DEF DInv, DHolds
<1>6. DHolds(c)'
  BY <1>1, <1>2, <1>4, <1>5 DEF DInv, DHolds, Operates, DOps
<1> QED
  BY <1>1, <1>3, <1>4, <1>6, ClientMoves DEF D!tableVars

\* What a client says of the row it has looked up, while it holds the mutex.
LEMMA ClientLocks ==
    ASSUME DInv, NEW c \in Clients, D!Lock(c)
    PROVE  DInv'
<1>1. /\ dtPc[c] = "lock"
      /\ \/ mu = None /\ mu' = c /\ dtPc' = [dtPc EXCEPT ![c] = "get"]
         \/ UNCHANGED mu /\ dtPc' = [dtPc EXCEPT ![c] = "end"]
      /\ UNCHANGED <<dtRow, type, physical, lastDef, conn, dtGot, op,
                     at, pinned, dtListed, since>>
  BY DTConstants DEF D!Lock, D!Go, D!tableVars, D!requestVars, D!passVars
<1>2. c \in D!Procs /\ c # Scheduler /\ None \notin D!Procs
  BY DTConstants
<1>3. op[c] \in D!DynamicOps /\ at[c] \in Tables
  BY <1>1, <1>2 DEF DInv, DHolds
<1>4. DStateType'
  BY <1>1, <1>2 DEF DInv, DStateType, DPlaces
<1>5. Others(c) /\ dtPc'[c] \in {"get", "end"} /\ (dtPc'[c] = "get" => mu' = c)
  BY <1>1, <1>2 DEF DInv, DStateType, Others
<1>6. DHolds(c)'
  BY <1>1, <1>2, <1>3, <1>5 DEF DInv, DHolds, Operates
<1> QED
  BY <1>1, <1>4, <1>5, <1>6, ClientMoves DEF D!tableVars

\* What the lookup takes, for a client and for the scheduler.
LEMMA GetByNameReads ==
    ASSUME DInv, NEW p \in D!Procs, D!GetByName(p), D!Accepted(p)
    PROVE  /\ dtGot' \in [D!Procs -> ReadRows \cup {D!NoRow}]
           /\ \A q \in D!Procs \ {p} : dtGot'[q] = dtGot[q]
           /\ dtPc' = [dtPc EXCEPT ![p] = IF op[p] = "drop" THEN "exec" ELSE "acquire"]
           /\ op[p] = "refresh" => Read(p, at[p])'
<1>1. /\ dtPc[p] = "get"
      /\ dtGot' = [dtGot EXCEPT ![p] = IF op[p] # "refresh" THEN D!NoRow
                                   ELSE [id |-> dtRow[at[p]].id, def |-> dtRow[at[p]].def]]
      /\ dtPc' = [dtPc EXCEPT ![p] = IF op[p] = "drop" THEN "exec" ELSE "acquire"]
      /\ UNCHANGED <<dtRow, at>>
  BY DEF D!GetByName, D!Go, D!tableVars, D!requestVars
<1>2. at[p] \in Tables
  BY <1>1 DEF DInv, DHolds
<1>3. CASE op[p] # "refresh"
  BY <1>1, <1>3 DEF DInv, DStateType
<1>4. CASE op[p] = "refresh"
  <2>1. dtRow[at[p]] # None
    BY <1>4 DEF D!Accepted
  <2>2. PICK x \in D!Rows : x = dtRow[at[p]]
    BY <1>2, <2>1 DEF DInv, DStateType
  <2>3. PICK y : y = [id |-> x.id, def |-> x.def]
    OBVIOUS
  <2>4. y \in ReadRows /\ y.id = x.id /\ y.def = x.def
    BY <2>2, <2>3 DEF D!Rows, ReadRows
  <2>5. dtGot' = [dtGot EXCEPT ![p] = y]
    BY <1>1, <1>4, <2>2, <2>3
  <2>6. dtGot' \in [D!Procs -> ReadRows \cup {D!NoRow}] /\ dtGot'[p] = y
        /\ \A q \in D!Procs \ {p} : dtGot'[q] = dtGot[q]
    BY <2>4, <2>5 DEF DInv, DStateType
  <2> QED
    BY <1>1, <2>1, <2>2, <2>4, <2>6 DEF Read
<1> QED
  BY <1>3, <1>4

LEMMA ClientGets ==
    ASSUME DInv, NEW c \in Clients, D!GetByName(c)
    PROVE  DInv'
<1>1. /\ dtPc[c] = "get"
      /\ UNCHANGED <<dtRow, type, physical, lastDef, mu, conn, op,
                     at, pinned, dtListed, since>>
  BY DEF D!GetByName, D!tableVars, D!lockVars, D!requestVars, D!passVars
<1>2. c \in D!Procs /\ c # Scheduler
  BY DTConstants
<1>3. op[c] \in D!DynamicOps /\ at[c] \in Tables /\ mu = c
  BY <1>1, <1>2 DEF DInv, DHolds, Operates
<1>4. CASE D!Accepted(c)
  <2>1. /\ dtGot' \in [D!Procs -> ReadRows \cup {D!NoRow}]
        /\ \A q \in D!Procs \ {c} : dtGot'[q] = dtGot[q]
        /\ dtPc' = [dtPc EXCEPT ![c] = IF op[c] = "drop" THEN "exec" ELSE "acquire"]
        /\ op[c] = "refresh" => Read(c, at[c])'
    BY <1>2, <1>4, GetByNameReads
  <2>2. DStateType' /\ Others(c) /\ dtPc'[c] \in {"exec", "acquire"}
    BY <1>1, <1>2, <2>1 DEF DInv, DStateType, Others, DPlaces
  <2>3. DHolds(c)'
    BY <1>1, <1>2, <1>3, <2>1, <2>2 DEF DInv, DHolds, Operates
  <2> QED
    BY <1>1, <2>2, <2>3, ClientMoves DEF D!tableVars
<1>5. CASE ~D!Accepted(c)
  <2>1. dtPc' = [dtPc EXCEPT ![c] = "end"] /\ UNCHANGED dtGot
    BY <1>2, <1>5 DEF D!GetByName, D!Failed, D!Go
  <2>2. DStateType' /\ Others(c) /\ dtPc'[c] = "end"
    BY <1>1, <1>2, <2>1 DEF DInv, DStateType, Others, DPlaces
  <2>3. DHolds(c)'
    BY <1>1, <1>2, <2>1, <2>2 DEF DInv, DHolds, Operates
  <2> QED
    BY <1>1, <2>2, <2>3, ClientMoves DEF D!tableVars
<1> QED
  BY <1>4, <1>5

LEMMA ClientAcquires ==
    ASSUME DInv, NEW c \in Clients, D!Acquire(c)
    PROVE  DInv'
<1>1. /\ dtPc[c] = "acquire" /\ dtPc' = [dtPc EXCEPT ![c] = "exec"]
      /\ UNCHANGED <<dtRow, type, physical, lastDef, mu, conn, dtGot, op,
                     at, pinned, dtListed, since>>
  BY DEF D!Acquire, D!Go, D!tableVars, D!requestVars, D!passVars
<1>2. c \in D!Procs /\ c # Scheduler
  BY DTConstants
<1>3. DStateType' /\ Others(c) /\ dtPc'[c] = "exec"
  BY <1>1, <1>2 DEF DInv, DStateType, Others, DPlaces
<1>4. DHolds(c)'
  BY <1>1, <1>2, <1>3 DEF DInv, DHolds, Operates, Read
<1> QED
  BY <1>1, <1>3, <1>4, ClientMoves DEF D!tableVars

LEMMA ClientFails ==
    ASSUME DInv, NEW c \in Clients, D!FailRequest(c)
    PROVE  DInv'
<1>1. /\ dtPc' = [dtPc EXCEPT ![c] = "end"]
      /\ UNCHANGED <<dtRow, type, physical, lastDef, mu, conn, dtGot,
                     op, at, pinned, dtListed, since>>
  BY DTConstants DEF D!FailRequest, D!Failed, D!Go, D!tableVars, D!lockVars, D!requestVars, D!passVars
<1>2. c \in D!Procs /\ c # Scheduler
  BY DTConstants
<1>3. DStateType' /\ Others(c) /\ dtPc'[c] = "end"
  BY <1>1, <1>2 DEF DInv, DStateType, Others, DPlaces
<1>4. DHolds(c)'
  BY <1>1, <1>2, <1>3 DEF DInv, DHolds, Operates
<1> QED
  BY <1>1, <1>3, <1>4, ClientMoves DEF D!tableVars

\* A client that ends gives back what is its own.
LEMMA EndOK ==
    ASSUME DInv, NEW c \in Clients, D!End(c)
    PROVE  DInv'
<1>1. /\ mu' = IF mu = c THEN None ELSE mu
      /\ conn' = IF conn = c THEN None ELSE conn
      /\ pinned' = [pinned EXCEPT ![c] = FALSE]
      /\ op' = [op EXCEPT ![c] = "none"] /\ at' = [at EXCEPT ![c] = None]
      /\ dtGot' = [dtGot EXCEPT ![c] = D!NoRow] /\ dtPc' = [dtPc EXCEPT ![c] = "idle"]
      /\ UNCHANGED <<dtRow, type, physical, lastDef, dtListed, since>>
  BY DEF D!End, D!Go, D!tableVars, D!passVars
<1>2. c \in D!Procs /\ c # Scheduler /\ None \notin D!Procs
  BY DTConstants
<1>3. DStateType'
  BY <1>1, <1>2 DEF DInv, DStateType, DPlaces
<1>4. Others(c) /\ dtPc'[c] = "idle" /\ ~pinned'[c]
  BY <1>1, <1>2 DEF DInv, DStateType, Others
<1>5. DHolds(c)'
  BY <1>4 DEF DHolds, Operates
<1> QED
  BY <1>1, <1>3, <1>4, <1>5, ClientMoves DEF D!tableVars
-----------------------------------------------------------------------------
(***************************************************************************)
(* The transactions.                                                       *)
(***************************************************************************)

LEMMA MaterializeKeeps ==
    ASSUME DInv, NEW t \in Tables, D!MaterializeDynamicTable(t),
           UNCHANGED <<mu, conn, op, at, dtGot,
                       pinned, dtListed, since>>, dtPc' \in [D!Procs -> DPlaces]
    PROVE  DStateType' /\ D!DefinitionMatches'
<1>1. PICK d : d = lastDef + 1
  OBVIOUS
<1>2. /\ d <= MaxDefinition /\ lastDef' = d
      /\ physical' = [physical EXCEPT ![t] = d] /\ type' = [type EXCEPT ![t] = "dynamic"]
      /\ dtRow' = [dtRow EXCEPT ![t] = [id |-> IF @ = None THEN d ELSE @.id, def |-> d,
                                    last |-> 0, tried |-> -1]]
  BY <1>1 DEF D!MaterializeDynamicTable
<1>3. lastDef \in 0 .. MaxDefinition /\ d \in D!Definitions /\ lastDef' \in 0 .. MaxDefinition
      /\ \A n \in D!OrdinaryRows .. lastDef : n \in D!OrdinaryRows .. d
      /\ d \in D!OrdinaryRows .. d
  BY <1>1, <1>2, DTConstants DEF DInv, DStateType, D!Definitions, D!OrdinaryRows
<1>4. PICK i : i = IF dtRow[t] = None THEN d ELSE dtRow[t].id
  OBVIOUS
<1>5. i \in D!Definitions
  <2>1. dtRow[t] # None => dtRow[t] \in D!Rows
    BY DEF DInv, DStateType
  <2> QED
    BY <1>3, <1>4, <2>1 DEF D!Rows
<1>6. PICK x : x = [id |-> i, def |-> d, last |-> 0, tried |-> -1]
  OBVIOUS
<1>7. x \in D!Rows /\ x.def = d
  <2>1. 0 \in D!Ages /\ -1 \in -1 .. D!Backoff + MaxWait
    BY DTConstants DEF D!Ages, D!Backoff
  <2> QED
    BY <1>3, <1>5, <1>6, <2>1 DEF D!Rows
<1>8. /\ dtRow' \in [Tables -> D!Rows \cup {None}] /\ dtRow'[t] = x
      /\ \A u \in Tables \ {t} : dtRow'[u] = dtRow[u]
  <2>1. dtRow' = [dtRow EXCEPT ![t] = x]
    BY <1>2, <1>4, <1>6 DEF DInv, DStateType
  <2> QED
    BY <1>7, <2>1 DEF DInv, DStateType
<1>9. physical' \in [Tables -> D!OrdinaryRows .. lastDef'] /\ physical'[t] = d
      /\ \A u \in Tables \ {t} : physical'[u] = physical[u]
  BY <1>2, <1>3 DEF DInv, DStateType
<1>10. \A u \in Tables : dtRow'[u] # None => dtRow'[u].def <= lastDef'
  <2>1. SUFFICES ASSUME NEW u \in Tables \ {t}, dtRow'[u] # None
                 PROVE  dtRow'[u].def <= lastDef'
    BY <1>2, <1>3, <1>7, <1>8 DEF D!Definitions
  <2>2. dtRow'[u] \in D!Rows /\ dtRow'[u].def <= lastDef
    BY <1>8, <2>1 DEF DInv, DStateType
  <2>3. PICK n \in Nat : n = dtRow'[u].def
    BY <2>2, DTConstants DEF D!Rows, D!Definitions
  <2>4. n <= lastDef
    BY <2>2, <2>3
  <2>5. n <= d
    <3>1. lastDef \in Nat
      BY <1>3, DTConstants
    <3> QED
      BY <1>1, <2>3, <2>4, <3>1
  <2> QED
    BY <1>2, <2>3, <2>5
<1>11. DStateType'
  BY <1>2, <1>3, <1>8, <1>9, <1>10 DEF DInv, DStateType
<1>12. D!DefinitionMatches'
  BY <1>7, <1>8, <1>9 DEF DInv, D!DefinitionMatches
<1> QED
  BY <1>11, <1>12

\* A refresh writes the rows of the definition it has read, which is the
\* present one because nobody else has had the mutex.
LEMMA RefreshKeeps ==
    ASSUME DInv, NEW p \in D!Procs, NEW t \in Tables, Read(p, t), NEW now \in 0 .. MaxWait,
           D!RefreshDynamicTableAt(t, dtGot[p], now),
           UNCHANGED <<mu, conn, op, at, dtGot,
                       pinned, dtListed, since>>, dtPc' \in [D!Procs -> DPlaces]
    PROVE  DStateType' /\ D!DefinitionMatches' /\ SameRows
<1>1. /\ physical' = [physical EXCEPT ![t] = dtGot[p].def]
      /\ dtRow' = [dtRow EXCEPT ![t].last = now, ![t].tried = -1]
      /\ UNCHANGED <<type, lastDef>>
  BY DEF D!RefreshDynamicTableAt
<1>2. PICK x \in D!Rows : x = dtRow[t]
  BY DEF Read, DInv, DStateType
<1>3. PICK y : y = [x EXCEPT !.last = now, !.tried = -1]
  OBVIOUS
<1>4. y \in D!Rows /\ y.id = x.id /\ y.def = x.def
  <2>1. now \in D!Ages /\ -1 \in -1 .. D!Backoff + MaxWait
    BY DTConstants DEF D!Ages, D!Backoff
  <2> QED
    BY <1>2, <1>3, <2>1 DEF D!Rows
<1>5. dtRow' = [dtRow EXCEPT ![t] = y]
  BY <1>1, <1>2, <1>3 DEF DInv, DStateType
<1>6. /\ dtRow' \in [Tables -> D!Rows \cup {None}] /\ dtRow'[t] = y
      /\ \A u \in Tables \ {t} : dtRow'[u] = dtRow[u]
  BY <1>4, <1>5 DEF DInv, DStateType
<1>7. SameRows
  BY <1>2, <1>4, <1>6, DTConstants DEF SameRows, Read
<1>8. dtGot[p].def = x.def /\ x.def \in D!Definitions /\ x.def <= lastDef
  BY <1>2, DTConstants DEF Read, D!Rows, DInv, DStateType
<1>9. x.def \in D!OrdinaryRows .. lastDef
  BY <1>8, DTConstants DEF D!Definitions, D!OrdinaryRows, DInv, DStateType
<1>10. physical' \in [Tables -> D!OrdinaryRows .. lastDef] /\ physical'[t] = x.def
       /\ \A u \in Tables \ {t} : physical'[u] = physical[u]
  BY <1>1, <1>8, <1>9 DEF DInv, DStateType
<1>11. DStateType'
  BY <1>1, <1>6, <1>7, <1>10 DEF DInv, DStateType, SameRows
<1>12. D!DefinitionMatches'
  BY <1>4, <1>6, <1>10 DEF DInv, D!DefinitionMatches
<1> QED
  BY <1>7, <1>11, <1>12

LEMMA DropKeeps ==
    ASSUME DInv, NEW t \in Tables, D!DropDynamicTableAtomic(t),
           UNCHANGED <<mu, conn, op, at, dtGot,
                       pinned, dtListed, since>>, dtPc' \in [D!Procs -> DPlaces]
    PROVE  DStateType' /\ D!DefinitionMatches'
<1>1. /\ physical' = [physical EXCEPT ![t] = D!Absent] /\ dtRow' = [dtRow EXCEPT ![t] = None]
      /\ type' = [type EXCEPT ![t] = IF @ = "dynamic" THEN "none" ELSE @]
      /\ UNCHANGED lastDef
  BY DEF D!DropDynamicTableAtomic
<1>2. D!Absent \in D!OrdinaryRows .. lastDef
  BY DTConstants DEF D!Absent, D!OrdinaryRows, DInv, DStateType
<1>3. DStateType'
  BY <1>1, <1>2 DEF DInv, DStateType
<1>4. D!DefinitionMatches'
  BY <1>1 DEF DInv, DStateType, D!DefinitionMatches
<1> QED
  BY <1>3, <1>4

LEMMA ClientExecutes ==
    ASSUME DInv, NEW c \in Clients, D!Exec(c)
    PROVE  DInv'
<1>1. /\ dtPc[c] = "exec" /\ op[c] \in D!DynamicOps /\ dtPc' = [dtPc EXCEPT ![c] = "end"]
      /\ UNCHANGED <<mu, conn, dtGot, op, at, pinned, dtListed, since>>
  BY DTConstants DEF D!Exec, D!Failed, D!Go, D!lockVars, D!requestVars, D!passVars
<1>2. c \in D!Procs /\ c # Scheduler
  BY DTConstants
<1>3. at[c] \in Tables /\ mu = c /\ (op[c] = "refresh" => Read(c, at[c]))
  BY <1>1, <1>2 DEF DInv, DHolds, Operates
<1>4. dtPc' \in [D!Procs -> DPlaces] /\ Others(c) /\ dtPc'[c] = "end"
  BY <1>1, <1>2 DEF DInv, DStateType, Others, DPlaces
<1>5. DStateType' /\ D!DefinitionMatches'
  <2>1. CASE op[c] = "refresh" /\ D!RefreshDynamicTableAt(at[c], dtGot[c], 0)
    <3>1. 0 \in 0 .. MaxWait
      BY DTConstants
    <3> QED
      BY <1>1, <1>2, <1>3, <1>4, <2>1, <3>1, RefreshKeeps
  <2>2. CASE op[c] = "drop" /\ D!DropDynamicTableAtomic(at[c])
    BY <1>1, <1>3, <1>4, <2>2, DropKeeps
  <2>3. CASE D!MaterializeDynamicTable(at[c])
    BY <1>1, <1>3, <1>4, <2>3, MaterializeKeeps
  <2>4. CASE UNCHANGED D!tableVars
    BY <1>1, <1>4, <2>4, TablesStay DEF D!tableVars, DInv, DStateType
  <2> QED
    BY <1>2, <2>1, <2>2, <2>3, <2>4 DEF D!Exec
<1>6. DHolds(c)'
  BY <1>1, <1>2, <1>4 DEF DInv, DHolds, Operates
<1> QED
  BY <1>2, <1>3, <1>4, <1>5, <1>6, OneStep
-----------------------------------------------------------------------------
(***************************************************************************)
(* Ordinary statements: they write no rows of a definition.                *)
(***************************************************************************)

LEMMA OrdinaryOK ==
    ASSUME DInv, NEW c \in Clients, NEW w \in Warehouses, NEW t \in Tables, NEW o \in D!OrdinaryOps,
           D!Ordinary(c, w, t, o)
    PROVE  DInv'
<1>1. /\ dtPc[c] = "idle" /\ op' = [op EXCEPT ![c] = o] /\ at' = [at EXCEPT ![c] = t]
      /\ dtPc' = [dtPc EXCEPT ![c] = "check"]
      /\ UNCHANGED <<dtRow, type, physical, lastDef, mu, conn, pinned, dtGot, dtListed, since>>
  BY DEF D!Ordinary, D!Go, D!tableVars, D!passVars
<1>2. c \in D!Procs /\ c # Scheduler
  BY DTConstants
<1>3. DStateType' /\ Others(c) /\ dtPc'[c] = "check" /\ op'[c] = o /\ at'[c] = t
  BY <1>1, <1>2 DEF DInv, DStateType, Others, DPlaces, DOps
<1>4. DHolds(c)'
  BY <1>1, <1>2, <1>3 DEF DInv, DHolds, Operates
<1> QED
  BY <1>1, <1>3, <1>4, ClientMoves DEF D!tableVars

LEMMA RejectOrdinaryMutationOK ==
    ASSUME DInv, NEW c \in Clients, D!RejectOrdinaryMutation(c)
    PROVE  DInv'
<1>1. /\ dtPc[c] = "check"
      /\ dtPc' = [dtPc EXCEPT ![c] = IF op[c] # "table if not exists" /\ type[at[c]] = "dynamic"
                                 THEN "end" ELSE "exec"]
      /\ UNCHANGED <<dtRow, type, physical, lastDef, mu, conn, dtGot,
                     op, at, pinned, dtListed, since>>
  BY DEF D!RejectOrdinaryMutation, D!Go, D!tableVars, D!lockVars, D!requestVars, D!passVars
<1>2. c \in D!Procs /\ c # Scheduler
  BY DTConstants
<1>3. DStateType' /\ Others(c) /\ dtPc'[c] \in {"end", "exec"}
  BY <1>1, <1>2 DEF DInv, DStateType, Others, DPlaces
<1>4. op[c] \in D!OrdinaryOps /\ at[c] \in Tables
  BY <1>1, <1>2 DEF DInv, DHolds
<1>5. DHolds(c)'
  BY <1>1, <1>2, <1>3, <1>4 DEF DInv, DHolds, Operates, D!DynamicOps, D!OrdinaryOps
<1> QED
  BY <1>1, <1>3, <1>5, ClientMoves DEF D!tableVars

LEMMA ExecOrdinaryOK ==
    ASSUME DInv, NEW c \in Clients, D!ExecOrdinary(c)
    PROVE  DInv'
<1>1. PICK t : t = at[c]
  OBVIOUS
<1>2. /\ dtPc[c] = "exec" /\ op[c] \in D!OrdinaryOps
      /\ dtPc' = [dtPc EXCEPT ![c] = "end"] \/ dtPc' = [dtPc EXCEPT ![c] = "register"]
      /\ UNCHANGED <<dtRow, type, lastDef, mu, conn, dtGot, op, at, pinned, dtListed, since>>
  BY DEF D!ExecOrdinary, D!Go, D!lockVars, D!requestVars, D!passVars
<1>3. c \in D!Procs /\ c # Scheduler
  BY DTConstants
<1>4. t \in Tables
  BY <1>1, <1>2, <1>3 DEF DInv, DHolds
<1>5. /\ physical' \in [Tables -> D!OrdinaryRows .. lastDef]
      /\ \A u \in Tables : physical'[u] \in {physical[u], D!Absent, D!OrdinaryRows}
  <2>1. D!Absent \in D!OrdinaryRows .. lastDef /\ D!OrdinaryRows \in D!OrdinaryRows .. lastDef
    BY DTConstants DEF D!Absent, D!OrdinaryRows, DInv, DStateType
  <2>2. physical' = physical \/ \E v \in {physical[t], D!Absent, D!OrdinaryRows} :
           physical' = [physical EXCEPT ![t] = v]
    <3>1. CASE op[c] \in {"dml", "drop table"} /\ physical[t] = D!Absent
      BY <1>1, <3>1 DEF D!ExecOrdinary
    <3>2. CASE ~(op[c] \in {"dml", "drop table"} /\ physical[t] = D!Absent)
      <4>1. physical' = [physical EXCEPT ![t] =
                CASE op[c] = "drop table"                        -> D!Absent
                  [] op[c] = "table if not exists" /\ @ # D!Absent -> @
                  [] OTHER                                       -> D!OrdinaryRows]
        BY <1>1, <3>2 DEF D!ExecOrdinary
      <4>2. PICK v : v = CASE op[c] = "drop table"                                  -> D!Absent
                           [] op[c] = "table if not exists" /\ physical[t] # D!Absent -> physical[t]
                           [] OTHER                                                 -> D!OrdinaryRows
        OBVIOUS
      <4>3. v \in {physical[t], D!Absent, D!OrdinaryRows}
        BY <4>2
      <4>4. physical' = [physical EXCEPT ![t] = v]
        BY <4>1, <4>2, <1>4 DEF DInv, DStateType
      <4> QED
        BY <4>3, <4>4
    <3> QED
      BY <3>1, <3>2
  <2> QED
    BY <1>4, <2>1, <2>2 DEF DInv, DStateType
<1>6. DStateType' /\ Others(c) /\ dtPc'[c] \in {"end", "register"}
  BY <1>2, <1>3, <1>5 DEF DInv, DStateType, Others, DPlaces
<1>7. SameRows
  BY <1>2 DEF SameRows
<1>8. DHolds(c)'
  BY <1>2, <1>3, <1>6 DEF DInv, DHolds, Operates
<1>9. D!DefinitionMatches'
  <2>1. D!Absent \notin D!Definitions /\ D!OrdinaryRows \notin D!Definitions
    BY DTConstants DEF D!Absent, D!OrdinaryRows, D!Definitions
  <2> QED
    BY <1>2, <1>5, <2>1 DEF DInv, D!DefinitionMatches
<1> QED
  BY <1>3, <1>6, <1>7, <1>8, <1>9, OneStep

LEMMA RegisterOK ==
    ASSUME DInv, NEW c \in Clients, D!Register(c)
    PROVE  DInv'
<1>1. /\ dtPc[c] = "register"
      /\ type' = [type EXCEPT ![at[c]] = IF op[c] = "drop table" THEN "none" ELSE "base"]
      /\ dtPc' = [dtPc EXCEPT ![c] = "end"]
      /\ UNCHANGED <<dtRow, physical, lastDef, mu, conn, dtGot, op,
                     at, pinned, dtListed, since>>
  BY DEF D!Register, D!Go, D!lockVars, D!requestVars, D!passVars
<1>2. c \in D!Procs /\ c # Scheduler
  BY DTConstants
<1>3. DStateType' /\ Others(c) /\ dtPc'[c] = "end"
  BY <1>1, <1>2 DEF DInv, DStateType, Others, DPlaces
<1>4. SameRows /\ D!DefinitionMatches'
  BY <1>1 DEF SameRows, DInv, D!DefinitionMatches
<1>5. DHolds(c)'
  BY <1>1, <1>2, <1>3 DEF DInv, DHolds, Operates
<1> QED
  BY <1>2, <1>3, <1>4, <1>5, OneStep
-----------------------------------------------------------------------------
(***************************************************************************)
(* The scheduler's pass.                                                   *)
(***************************************************************************)

\* The step of the scheduler that changes none of the tables.
LEMMA SchedulerMoves ==
    ASSUME DInv, Others(Scheduler), UNCHANGED D!tableVars, DStateType', DHolds(Scheduler)', PassHolds'
    PROVE  DInv'
  BY DTConstants, TablesStay, OneStep

\* Where the scheduler is, whenever it attempts a refresh.
LEMMA Attempts ==
    ASSUME DInv, dtPc[Scheduler] \in {"get", "acquire", "exec", "record"}
    PROVE  /\ Scheduler \in D!Procs /\ mu = Scheduler /\ op[Scheduler] = "refresh"
           /\ at[Scheduler] \in Tables /\ dtRow[at[Scheduler]] # None
           /\ \A t \in dtListed : dtRow[t] # None
           /\ dtPc[Scheduler] \in {"acquire", "exec"} => Read(Scheduler, at[Scheduler])
           /\ ~pinned[Scheduler]
  BY DTConstants DEF DInv, PassHolds, DHolds

LEMMA TickOK ==
    ASSUME DInv, D!Tick
    PROVE  DInv'
<1>1. /\ dtPc[Scheduler] = "idle" /\ since' = 0 /\ dtPc' = [dtPc EXCEPT ![Scheduler] = "lock"]
      /\ UNCHANGED <<dtRow, type, physical, lastDef, mu, conn, dtGot,
                     op, at, pinned, dtListed>>
  BY DEF D!Tick, D!Go, D!tableVars, D!lockVars, D!requestVars
<1>2. Scheduler \in D!Procs /\ Scheduler \notin Clients
  BY DTConstants
<1>3. /\ DStateType' /\ Others(Scheduler) /\ dtPc'[Scheduler] = "lock"
      /\ \A c \in Clients : dtPc'[c] = dtPc[c]
  BY <1>1, <1>2, DTConstants DEF DInv, DStateType, Others, DPlaces
<1>4. DHolds(Scheduler)'
  BY <1>1, <1>2, <1>3 DEF DInv, DHolds, Operates
<1>5. PassHolds'
  BY <1>1, <1>3 DEF DInv, PassHolds
<1> QED
  BY <1>1, <1>3, <1>4, <1>5, SchedulerMoves DEF D!tableVars

\* The scheduler waits for the mutex, and starts a pass with nothing listed.
LEMMA SchedulerLocks ==
    ASSUME DInv, D!Lock(Scheduler)
    PROVE  DInv'
<1>1. /\ dtPc[Scheduler] = "lock" /\ mu = None /\ mu' = Scheduler
      /\ dtPc' = [dtPc EXCEPT ![Scheduler] = "list"]
      /\ UNCHANGED <<dtRow, type, physical, lastDef, conn, dtGot, op,
                     at, pinned, dtListed, since>>
  BY DEF DInv, PassHolds, D!Lock, D!Go, D!tableVars, D!requestVars, D!passVars
<1>2. Scheduler \in D!Procs /\ Scheduler \notin Clients /\ None \notin D!Procs
  BY DTConstants
<1>3. /\ DStateType' /\ Others(Scheduler) /\ dtPc'[Scheduler] = "list"
      /\ \A c \in Clients : dtPc'[c] = dtPc[c]
  BY <1>1, <1>2, DTConstants DEF DInv, DStateType, Others, DPlaces
<1>4. DHolds(Scheduler)'
  BY <1>1, <1>2, <1>3 DEF DInv, DHolds, Operates
<1>5. PassHolds'
  BY <1>1, <1>3 DEF DInv, PassHolds
<1> QED
  BY <1>1, <1>3, <1>4, <1>5, SchedulerMoves DEF D!tableVars

\* The pass lists rows that are there, and keeps the mutex.
LEMMA ListDynamicTablesOK ==
    ASSUME DInv, D!ListDynamicTables
    PROVE  DInv'
<1>1. /\ dtPc[Scheduler] = "list" /\ dtPc' = [dtPc EXCEPT ![Scheduler] = "next"]
      /\ dtListed' \subseteq {t \in Tables : dtRow[t] # None}
      /\ UNCHANGED <<dtRow, type, physical, lastDef, mu, conn, dtGot, op, at, pinned, since>>
  BY DEF D!ListDynamicTables, D!Go, D!tableVars, D!lockVars, D!requestVars
<1>2. Scheduler \in D!Procs /\ Scheduler \notin Clients
  BY DTConstants
<1>3. /\ DStateType' /\ Others(Scheduler) /\ dtPc'[Scheduler] = "next"
      /\ \A c \in Clients : dtPc'[c] = dtPc[c]
  BY <1>1, <1>2, DTConstants DEF DInv, DStateType, Others, DPlaces
<1>4. DHolds(Scheduler)'
  BY <1>1, <1>2, <1>3 DEF DInv, DHolds, Operates
<1>5. PassHolds'
  BY <1>1, <1>3 DEF DInv, PassHolds
<1> QED
  BY <1>1, <1>3, <1>4, <1>5, SchedulerMoves DEF D!tableVars

LEMMA RefreshDueOK ==
    ASSUME DInv, NEW t \in Tables, D!RefreshDue(t)
    PROVE  DInv'
<1>1. /\ dtPc[Scheduler] = "next" /\ t \in dtListed /\ dtListed' = dtListed \ {t}
      /\ op' = [op EXCEPT ![Scheduler] = "refresh"] /\ at' = [at EXCEPT ![Scheduler] = t]
      /\ dtPc' = [dtPc EXCEPT ![Scheduler] = "get"]
      /\ UNCHANGED <<dtRow, type, physical, lastDef, mu, conn, dtGot, pinned, since>>
  BY DEF D!RefreshDue, D!Go, D!tableVars, D!lockVars
<1>2. Scheduler \in D!Procs /\ Scheduler \notin Clients
  BY DTConstants
<1>3. /\ DStateType' /\ Others(Scheduler) /\ dtPc'[Scheduler] = "get" /\ op'[Scheduler] = "refresh"
      /\ at'[Scheduler] = t /\ \A c \in Clients : dtPc'[c] = dtPc[c]
  BY <1>1, <1>2, DTConstants DEF DInv, DStateType, Others, DPlaces, DOps, D!DynamicOps
<1>4. mu = Scheduler /\ \A u \in dtListed : dtRow[u] # None
  BY <1>1 DEF DInv, PassHolds
<1>5. DHolds(Scheduler)'
  BY <1>1, <1>2, <1>3, <1>4 DEF DInv, DHolds, Operates, D!DynamicOps
<1>6. PassHolds'
  BY <1>1, <1>3, <1>4 DEF DInv, PassHolds
<1> QED
  BY <1>1, <1>3, <1>5, <1>6, SchedulerMoves DEF D!tableVars

LEMMA SchedulerGets ==
    ASSUME DInv, D!GetByName(Scheduler)
    PROVE  DInv'
<1>1. /\ dtPc[Scheduler] = "get"
      /\ UNCHANGED <<dtRow, type, physical, lastDef, mu, conn, op,
                     at, pinned, dtListed, since>>
  BY DEF D!GetByName, D!tableVars, D!lockVars, D!requestVars, D!passVars
<1>2. Scheduler \in D!Procs /\ Scheduler \notin Clients
  BY DTConstants
<1>3. /\ mu = Scheduler /\ op[Scheduler] = "refresh" /\ at[Scheduler] \in Tables
      /\ dtRow[at[Scheduler]] # None /\ \A t \in dtListed : dtRow[t] # None
  BY <1>1, Attempts
<1>4. CASE D!Accepted(Scheduler)
  <2>1. /\ dtGot' \in [D!Procs -> ReadRows \cup {D!NoRow}]
        /\ \A q \in D!Procs \ {Scheduler} : dtGot'[q] = dtGot[q]
        /\ dtPc' = [dtPc EXCEPT ![Scheduler] = "acquire"]
        /\ Read(Scheduler, at[Scheduler])'
    BY <1>2, <1>3, <1>4, GetByNameReads
  <2>2. /\ DStateType' /\ Others(Scheduler) /\ dtPc'[Scheduler] = "acquire"
        /\ \A c \in Clients : dtPc'[c] = dtPc[c]
    BY <1>1, <1>2, <2>1, DTConstants DEF DInv, DStateType, Others, DPlaces
  <2>3. DHolds(Scheduler)'
    BY <1>1, <1>2, <1>3, <2>1, <2>2 DEF DInv, DHolds, Operates, D!DynamicOps
  <2>4. PassHolds'
    BY <1>1, <1>3, <2>2 DEF DInv, PassHolds
  <2> QED
    BY <1>1, <2>2, <2>3, <2>4, SchedulerMoves DEF D!tableVars
<1>5. CASE ~D!Accepted(Scheduler)
  <2>1. dtPc' = [dtPc EXCEPT ![Scheduler] = "record"] /\ UNCHANGED dtGot
    BY <1>5 DEF D!GetByName, D!Failed, D!Go
  <2>2. /\ DStateType' /\ Others(Scheduler) /\ dtPc'[Scheduler] = "record"
        /\ \A c \in Clients : dtPc'[c] = dtPc[c]
    BY <1>1, <1>2, <2>1, DTConstants DEF DInv, DStateType, Others, DPlaces
  <2>3. DHolds(Scheduler)'
    BY <1>1, <1>2, <1>3, <2>1, <2>2 DEF DInv, DHolds, Operates
  <2>4. PassHolds'
    BY <1>1, <1>3, <2>2 DEF DInv, PassHolds
  <2> QED
    BY <1>1, <2>1, <2>2, <2>3, <2>4, SchedulerMoves DEF D!tableVars
<1> QED
  BY <1>4, <1>5

LEMMA SchedulerAcquires ==
    ASSUME DInv, D!Acquire(Scheduler)
    PROVE  DInv'
<1>1. /\ dtPc[Scheduler] = "acquire" /\ dtPc' = [dtPc EXCEPT ![Scheduler] = "exec"]
      /\ UNCHANGED <<dtRow, type, physical, lastDef, mu, conn, dtGot, op,
                     at, pinned, dtListed, since>>
  BY DEF D!Acquire, D!Go, D!tableVars, D!requestVars, D!passVars
<1>2. Scheduler \in D!Procs /\ Scheduler \notin Clients
  BY DTConstants
<1>3. /\ DStateType' /\ Others(Scheduler) /\ dtPc'[Scheduler] = "exec"
      /\ \A c \in Clients : dtPc'[c] = dtPc[c]
  BY <1>1, <1>2, DTConstants DEF DInv, DStateType, Others, DPlaces
<1>4. /\ mu = Scheduler /\ op[Scheduler] = "refresh" /\ at[Scheduler] \in Tables
      /\ dtRow[at[Scheduler]] # None /\ \A t \in dtListed : dtRow[t] # None
      /\ Read(Scheduler, at[Scheduler])
  BY <1>1, Attempts
<1>5. DHolds(Scheduler)'
  BY <1>1, <1>2, <1>3, <1>4 DEF DInv, DHolds, Operates, D!DynamicOps, Read
<1>6. PassHolds'
  BY <1>1, <1>3, <1>4 DEF DInv, PassHolds
<1> QED
  BY <1>1, <1>3, <1>5, <1>6, SchedulerMoves DEF D!tableVars

LEMMA SchedulerFails ==
    ASSUME DInv, D!FailRequest(Scheduler)
    PROVE  DInv'
<1>1. /\ dtPc[Scheduler] \in {"get", "acquire", "exec"} /\ dtPc' = [dtPc EXCEPT ![Scheduler] = "record"]
      /\ UNCHANGED <<dtRow, type, physical, lastDef, mu, conn, dtGot,
                     op, at, pinned, dtListed, since>>
  BY DEF DInv, PassHolds, D!FailRequest, D!Failed, D!Go, D!tableVars, D!requestVars, D!passVars
<1>2. Scheduler \in D!Procs /\ Scheduler \notin Clients
  BY DTConstants
<1>3. /\ DStateType' /\ Others(Scheduler) /\ dtPc'[Scheduler] = "record"
      /\ \A c \in Clients : dtPc'[c] = dtPc[c]
  BY <1>1, <1>2, DTConstants DEF DInv, DStateType, Others, DPlaces
<1>4. /\ mu = Scheduler /\ op[Scheduler] = "refresh" /\ at[Scheduler] \in Tables
      /\ dtRow[at[Scheduler]] # None /\ \A t \in dtListed : dtRow[t] # None
  BY <1>1, Attempts
<1>5. DHolds(Scheduler)'
  BY <1>1, <1>2, <1>3, <1>4 DEF DInv, DHolds, Operates
<1>6. PassHolds'
  BY <1>1, <1>3, <1>4 DEF DInv, PassHolds
<1> QED
  BY <1>1, <1>3, <1>5, <1>6, SchedulerMoves DEF D!tableVars

\* The refresh of a row that the pass has read under its mutex.
LEMMA SchedulerExecutes ==
    ASSUME DInv, D!Exec(Scheduler)
    PROVE  DInv'
<1>1. /\ dtPc[Scheduler] = "exec"
      /\ \/ dtPc' = [dtPc EXCEPT ![Scheduler] = "end"]
         \/ dtPc' = [dtPc EXCEPT ![Scheduler] = "record"]
      /\ UNCHANGED <<mu, conn, dtGot, op, at, pinned, dtListed, since>>
  BY DEF D!Exec, D!Failed, D!Go, D!lockVars, D!requestVars, D!passVars
<1>2. Scheduler \in D!Procs /\ Scheduler \notin Clients
  BY DTConstants
<1>3. /\ mu = Scheduler /\ op[Scheduler] = "refresh" /\ at[Scheduler] \in Tables
      /\ dtRow[at[Scheduler]] # None /\ \A t \in dtListed : dtRow[t] # None
      /\ Read(Scheduler, at[Scheduler])
  BY <1>1, Attempts
<1>4. /\ dtPc' \in [D!Procs -> DPlaces] /\ Others(Scheduler) /\ dtPc'[Scheduler] \in {"end", "record"}
      /\ \A c \in Clients : dtPc'[c] = dtPc[c]
  BY <1>1, <1>2, DTConstants DEF DInv, DStateType, Others, DPlaces
<1>5. DStateType' /\ D!DefinitionMatches' /\ SameRows
  <2>1. CASE D!RefreshDynamicTableAt(at[Scheduler], dtGot[Scheduler], since)
    <3>1. since \in 0 .. MaxWait
      BY DEF DInv, DStateType
    <3> QED
      BY <1>1, <1>2, <1>3, <1>4, <2>1, <3>1, RefreshKeeps
  <2>2. CASE UNCHANGED D!tableVars
    BY <1>1, <1>4, <2>2, TablesStay DEF D!tableVars, DInv, DStateType
  <2> QED
    BY <1>3, <2>1, <2>2 DEF D!Exec
<1>6. DHolds(Scheduler)'
  BY <1>1, <1>2, <1>3, <1>4 DEF DInv, DHolds, Operates
<1>7. PassHolds'
  BY <1>1, <1>3, <1>4, <1>5 DEF DInv, DStateType, PassHolds, SameRows
<1> QED
  BY <1>2, <1>3, <1>4, <1>5, <1>6, <1>7, OneStep

\* What the end of an attempt leaves, whether it failed or not.
LEMMA AttemptEndedOK ==
    ASSUME DInv, dtPc[Scheduler] \in {"record", "end"}, D!AttemptEnded,
           dtPc' = [dtPc EXCEPT ![Scheduler] = "next"], UNCHANGED <<mu, dtListed>>,
           dtRow' \in [Tables -> D!Rows \cup {None}], SameRows
    PROVE  DInv'
<1>1. /\ op' = [op EXCEPT ![Scheduler] = "none"] /\ at' = [at EXCEPT ![Scheduler] = None]
      /\ dtGot' = [dtGot EXCEPT ![Scheduler] = D!NoRow]
      /\ UNCHANGED <<type, physical, lastDef, conn, pinned, since>>
  BY DEF D!AttemptEnded
<1>2. Scheduler \in D!Procs /\ Scheduler \notin Clients
  BY DTConstants
<1>3. \A t \in Tables : dtRow'[t] # None => dtRow'[t].def <= lastDef
  BY DEF SameRows, DInv, DStateType
<1>4. DStateType'
  BY <1>1, <1>2, <1>3 DEF DInv, DStateType, DPlaces
<1>5. /\ Others(Scheduler) /\ dtPc'[Scheduler] = "next" /\ \A c \in Clients : dtPc'[c] = dtPc[c]
  BY <1>1, <1>2, DTConstants DEF DInv, DStateType, Others
<1>6. /\ mu = Scheduler /\ ~pinned[Scheduler] /\ \A t \in dtListed : dtRow[t] # None
  BY DEF DInv, PassHolds
<1>7. DHolds(Scheduler)'
  BY <1>1, <1>5, <1>6 DEF DHolds, Operates
<1>8. \A t \in dtListed : dtRow'[t] # None
  BY <1>6 DEF SameRows, DInv, DStateType
<1>9. PassHolds'
  BY <1>1, <1>5, <1>6, <1>8 DEF DInv, PassHolds
<1>10. D!DefinitionMatches'
  BY <1>1 DEF DInv, D!DefinitionMatches, SameRows
<1> QED
  BY <1>2, <1>4, <1>5, <1>7, <1>9, <1>10, OneStep

LEMMA RecordDynamicTableFailureOK ==
    ASSUME DInv, D!RecordDynamicTableFailure
    PROVE  DInv'
<1>1. PICK t : t = at[Scheduler]
  OBVIOUS
<1>2. /\ dtPc[Scheduler] = "record" /\ D!AttemptEnded /\ dtPc' = [dtPc EXCEPT ![Scheduler] = "next"]
      /\ UNCHANGED <<mu, dtListed>>
      /\ dtRow' = [dtRow EXCEPT ![t].tried = since] \/ UNCHANGED dtRow
  BY <1>1 DEF D!RecordDynamicTableFailure, D!Go
<1>3. t \in Tables /\ dtRow[t] # None
  BY <1>1, <1>2, Attempts
<1>4. dtRow' \in [Tables -> D!Rows \cup {None}] /\ SameRows
  <2>1. CASE UNCHANGED dtRow
    BY <2>1 DEF DInv, DStateType, SameRows
  <2>2. CASE dtRow' = [dtRow EXCEPT ![t].tried = since]
    <3>1. PICK x \in D!Rows : x = dtRow[t]
      BY <1>3 DEF DInv, DStateType
    <3>2. PICK y : y = [x EXCEPT !.tried = since]
      OBVIOUS
    <3>3. y \in D!Rows /\ y.id = x.id /\ y.def = x.def
      <4>1. since \in -1 .. D!Backoff + MaxWait
        BY DTConstants DEF D!Backoff, DInv, DStateType
      <4> QED
        BY <3>1, <3>2, <4>1 DEF D!Rows
    <3>4. dtRow' = [dtRow EXCEPT ![t] = y]
      BY <2>2, <3>1, <3>2 DEF DInv, DStateType
    <3>5. dtRow' \in [Tables -> D!Rows \cup {None}] /\ dtRow'[t] = y
          /\ \A u \in Tables \ {t} : dtRow'[u] = dtRow[u]
      BY <1>3, <3>3, <3>4 DEF DInv, DStateType
    <3> QED
      BY <1>3, <3>1, <3>3, <3>5, DTConstants DEF SameRows
  <2> QED
    BY <1>2, <2>1, <2>2
<1> QED
  BY <1>2, <1>4, AttemptEndedOK

LEMMA RefreshedOK ==
    ASSUME DInv, D!Refreshed
    PROVE  DInv'
<1>1. /\ dtPc[Scheduler] = "end" /\ D!AttemptEnded /\ dtPc' = [dtPc EXCEPT ![Scheduler] = "next"]
      /\ UNCHANGED <<dtRow, mu, dtListed>>
  BY DEF D!Refreshed, D!Go
<1>2. dtRow' \in [Tables -> D!Rows \cup {None}] /\ SameRows
  BY <1>1 DEF DInv, DStateType, SameRows
<1> QED
  BY <1>1, <1>2, AttemptEndedOK

LEMMA DEndPassOK ==
    ASSUME DInv, D!EndPass
    PROVE  DInv'
<1>1. /\ dtPc[Scheduler] = "next" /\ dtListed = {} /\ mu' = None /\ since' = 0
      /\ dtPc' = [dtPc EXCEPT ![Scheduler] = "idle"]
      /\ UNCHANGED <<dtRow, type, physical, lastDef, conn, dtGot, op, at, pinned, dtListed>>
  BY DEF D!EndPass, D!Go, D!tableVars, D!requestVars
<1>2. Scheduler \in D!Procs /\ Scheduler \notin Clients /\ None \notin D!Procs
  BY DTConstants
<1>3. mu = Scheduler
  BY <1>1 DEF DInv, PassHolds
<1>4. /\ DStateType' /\ Others(Scheduler) /\ dtPc'[Scheduler] = "idle"
      /\ \A c \in Clients : dtPc'[c] = dtPc[c]
  BY <1>1, <1>2, <1>3, DTConstants DEF DInv, DStateType, Others, DPlaces
<1>5. DHolds(Scheduler)'
  BY <1>1, <1>2, <1>4 DEF DInv, DHolds, Operates
<1>6. PassHolds'
  BY <1>1, <1>4 DEF DInv, PassHolds
<1> QED
  BY <1>1, <1>4, <1>5, <1>6, SchedulerMoves DEF D!tableVars
-----------------------------------------------------------------------------
(***************************************************************************)
(* The slots and the write mutex.                                          *)
(***************************************************************************)

\* Who has the write mutex is at a write.
LocksHeld ==
    /\ slot \in [Warehouses -> D!Procs \cup {None}]
    /\ writeMu \in D!Procs \cup {None}
    /\ \A p \in D!Procs : writeMu = p => dtPc[p] \in {"exec", "register", "record"}

\* A process that goes on has given the write mutex back, if it had it.
LEMMA MovesKeepLocks ==
    ASSUME DInv, LocksHeld, NEW p \in D!Procs, NEW x, dtPc' = [dtPc EXCEPT ![p] = x],
           slot' \in [Warehouses -> D!Procs \cup {None}],
           \/ writeMu' = None
           \/ UNCHANGED writeMu /\ writeMu # p
    PROVE  LocksHeld'
  BY DTConstants DEF DInv, DStateType, LocksHeld

LEMMA FreeKeepsSlots ==
    ASSUME LocksHeld, NEW p \in D!Procs, D!Free(p)
    PROVE  slot' \in [Warehouses -> D!Procs \cup {None}]
  BY DEF LocksHeld, D!Free

\* A request that fails.
LEMMA FailedKeepsLocks ==
    ASSUME DInv, LocksHeld, NEW p \in D!Procs, D!Failed(p),
           \/ writeMu' = None
           \/ UNCHANGED writeMu /\ writeMu # p
    PROVE  LocksHeld'
<1>1. slot' \in [Warehouses -> D!Procs \cup {None}]
  BY FreeKeepsSlots DEF D!Failed, LocksHeld
<1>2. PICK x \in {"record", "end"} : dtPc' = [dtPc EXCEPT ![p] = x]
  BY DEF D!Failed, D!Go
<1> QED
  BY <1>1, <1>2, MovesKeepLocks

LEMMA AdvanceKeepsLocks ==
    ASSUME DInv, LocksHeld, NEW p \in D!Procs, D!Advance(p)
    PROVE  LocksHeld'
<1>1. CASE D!Lock(p)
  <2>1. PICK x \in {"list", "get", "end"} : dtPc' = [dtPc EXCEPT ![p] = x]
    BY <1>1 DEF D!Lock, D!Go
  <2>2. UNCHANGED <<slot, writeMu>> /\ writeMu # p
    BY <1>1 DEF D!Lock, LocksHeld
  <2> QED
    BY <2>1, <2>2, MovesKeepLocks DEF LocksHeld
<1>2. CASE D!GetByName(p)
  <2>1. UNCHANGED writeMu /\ writeMu # p
    BY <1>2 DEF D!GetByName, LocksHeld
  <2>2. CASE D!Accepted(p)
    <3>1. PICK x \in {"exec", "acquire"} : dtPc' = [dtPc EXCEPT ![p] = x]
      BY <1>2, <2>2 DEF D!GetByName, D!Go
    <3>2. UNCHANGED slot
      BY <1>2, <2>2 DEF D!GetByName
    <3> QED
      BY <2>1, <3>1, <3>2, MovesKeepLocks DEF LocksHeld
  <2>3. CASE ~D!Accepted(p)
    BY <1>2, <2>1, <2>3, FailedKeepsLocks DEF D!GetByName
  <2> QED
    BY <2>2, <2>3
<1>3. CASE D!Acquire(p)
  <2>1. slot' \in [Warehouses -> D!Procs \cup {None}] /\ UNCHANGED writeMu /\ writeMu # p
    BY <1>3 DEF D!Acquire, LocksHeld
  <2>2. dtPc' = [dtPc EXCEPT ![p] = "exec"]
    BY <1>3 DEF D!Acquire, D!Go
  <2> QED
    BY <2>1, <2>2, MovesKeepLocks
<1>4. CASE D!LockWrite(p)
  BY <1>4, DTConstants DEF D!LockWrite, LocksHeld
<1>5. CASE D!Exec(p)
  <2>1. writeMu' = None
    BY <1>5 DEF D!Exec
  <2>2. CASE D!Go(p, "end") /\ UNCHANGED slot
    BY <2>1, <2>2, MovesKeepLocks DEF D!Go, LocksHeld
  <2>3. CASE D!Failed(p)
    BY <2>1, <2>3, FailedKeepsLocks
  <2> QED
    BY <1>5, <2>2, <2>3 DEF D!Exec
<1> QED
  BY <1>1, <1>2, <1>3, <1>4, <1>5 DEF D!Advance

LEMMA FailRequestKeepsLocks ==
    ASSUME DInv, LocksHeld, NEW p \in D!Procs, D!FailRequest(p)
    PROVE  LocksHeld'
<1>1. writeMu' = IF writeMu = p THEN None ELSE writeMu
  BY DEF D!FailRequest
<1> QED
  BY <1>1, FailedKeepsLocks DEF D!FailRequest

LEMMA ClientStepKeepsLocks ==
    ASSUME DInv, LocksHeld, NEW c \in Clients, D!ClientStep(c)
    PROVE  LocksHeld'
<1>1. c \in D!Procs
  BY DTConstants
<1>2. CASE D!Advance(c)
  BY <1>1, <1>2, AdvanceKeepsLocks
<1>3. CASE D!WithPinnedConnection(c)
  <2>1. PICK x \in {"lock", "check"} : dtPc' = [dtPc EXCEPT ![c] = x]
    BY <1>3 DEF D!WithPinnedConnection, D!Go
  <2>2. UNCHANGED <<slot, writeMu>> /\ writeMu # c
    BY <1>1, <1>3 DEF D!WithPinnedConnection, LocksHeld
  <2> QED
    BY <1>1, <2>1, <2>2, MovesKeepLocks DEF LocksHeld
<1>4. CASE D!RejectOrdinaryMutation(c)
  <2>1. PICK x \in {"end", "exec"} : dtPc' = [dtPc EXCEPT ![c] = x]
    BY <1>4 DEF D!RejectOrdinaryMutation, D!Go
  <2>2. UNCHANGED <<slot, writeMu>> /\ writeMu # c
    BY <1>1, <1>4 DEF D!RejectOrdinaryMutation, D!lockVars, LocksHeld
  <2> QED
    BY <1>1, <2>1, <2>2, MovesKeepLocks DEF LocksHeld
<1>5. CASE D!ExecOrdinary(c) \/ D!Register(c)
  <2>1. PICK x \in {"end", "register"} : dtPc' = [dtPc EXCEPT ![c] = x]
    BY <1>5 DEF D!ExecOrdinary, D!Register, D!Go
  <2>2. UNCHANGED slot /\ writeMu' = None
    BY <1>5 DEF D!ExecOrdinary, D!Register
  <2> QED
    BY <1>1, <2>1, <2>2, MovesKeepLocks DEF LocksHeld
<1>6. CASE D!End(c)
  <2>1. dtPc' = [dtPc EXCEPT ![c] = "idle"] /\ UNCHANGED writeMu /\ writeMu # c
    BY <1>1, <1>6 DEF D!End, D!Go, LocksHeld
  <2>2. slot' \in [Warehouses -> D!Procs \cup {None}]
    BY <1>1, <1>6, FreeKeepsSlots DEF D!End
  <2> QED
    BY <1>1, <2>1, <2>2, MovesKeepLocks
<1> QED
  BY <1>2, <1>3, <1>4, <1>5, <1>6 DEF D!ClientStep

LEMMA SchedulerStepKeepsLocks ==
    ASSUME DInv, LocksHeld, D!SchedulerStep
    PROVE  LocksHeld'
<1>1. Scheduler \in D!Procs
  BY DTConstants
<1>2. CASE D!Advance(Scheduler)
  BY <1>1, <1>2, AdvanceKeepsLocks
<1>3. CASE D!FailRequest(Scheduler)
  BY <1>1, <1>3, FailRequestKeepsLocks
<1>4. CASE D!Tick \/ D!ListDynamicTables \/ \E t \in Tables : D!RefreshDue(t)
  <2>1. PICK x \in {"lock", "next", "get"} : dtPc' = [dtPc EXCEPT ![Scheduler] = x]
    BY <1>4 DEF D!Tick, D!ListDynamicTables, D!RefreshDue, D!Go
  <2>2. UNCHANGED <<slot, writeMu>> /\ writeMu # Scheduler
    BY <1>1, <1>4 DEF D!Tick, D!ListDynamicTables, D!RefreshDue, D!lockVars, LocksHeld
  <2> QED
    BY <1>1, <2>1, <2>2, MovesKeepLocks DEF LocksHeld
<1>5. CASE D!RecordDynamicTableFailure
  <2>1. dtPc' = [dtPc EXCEPT ![Scheduler] = "next"] /\ UNCHANGED slot /\ writeMu' = None
    BY <1>5 DEF D!RecordDynamicTableFailure, D!Go
  <2> QED
    BY <1>1, <2>1, MovesKeepLocks DEF LocksHeld
<1>6. CASE D!Refreshed
  <2>1. dtPc' = [dtPc EXCEPT ![Scheduler] = "next"] /\ UNCHANGED writeMu /\ writeMu # Scheduler
    BY <1>1, <1>6 DEF D!Refreshed, D!Go, LocksHeld
  <2>2. slot' \in [Warehouses -> D!Procs \cup {None}]
    BY <1>1, <1>6, FreeKeepsSlots DEF D!Refreshed
  <2> QED
    BY <1>1, <2>1, <2>2, MovesKeepLocks
<1>7. CASE D!EndPass
  <2>1. dtPc' = [dtPc EXCEPT ![Scheduler] = "idle"]
    BY <1>7 DEF D!EndPass, D!Go
  <2>2. UNCHANGED <<slot, writeMu>> /\ writeMu # Scheduler
    BY <1>1, <1>7 DEF D!EndPass, LocksHeld
  <2> QED
    BY <1>1, <2>1, <2>2, MovesKeepLocks DEF LocksHeld
<1> QED
  BY <1>2, <1>3, <1>4, <1>5, <1>6, <1>7 DEF D!SchedulerStep

\* A CALL or an ordinary statement that comes in.
LEMMA RequestsKeepLocks ==
    ASSUME DInv, LocksHeld, NEW c \in Clients, NEW w \in Warehouses, NEW t \in Tables, NEW o,
           D!Call(c, w, t, o) \/ D!Ordinary(c, w, t, o)
    PROVE  LocksHeld'
<1>1. c \in D!Procs
  BY DTConstants
<1>2. PICK x \in {"connect", "check"} : dtPc' = [dtPc EXCEPT ![c] = x]
  BY DEF D!Call, D!Ordinary, D!Go
<1>3. UNCHANGED writeMu /\ writeMu # c
  BY <1>1 DEF D!Call, D!Ordinary, LocksHeld
<1>4. UNCHANGED slot \/ slot' = [slot EXCEPT ![w] = c]
  BY DEF D!Call, D!Ordinary
<1>5. slot' \in [Warehouses -> D!Procs \cup {None}]
  BY <1>1, <1>4 DEF LocksHeld
<1> QED
  BY <1>1, <1>2, <1>3, <1>5, MovesKeepLocks

-----------------------------------------------------------------------------
(***************************************************************************)
(* The theorems.                                                           *)
(***************************************************************************)

\* The initial state.
LEMMA DTInitOK ==
    ASSUME D!DynamicTablesAssumption, D!Init
    PROVE  DInv
<1>1. DStateType
  BY DTAssumed DEF DTKnown, D!Init, DStateType, DPlaces, D!NoRow, D!Absent, D!OrdinaryRows
<1>2. PassHolds
  BY DTAssumed DEF DTKnown, D!Init, PassHolds
<1>3. \A p \in D!Procs : DHolds(p)
  BY DEF D!Init, DHolds, Operates
<1>4. D!DefinitionMatches
  BY DEF D!Init, D!DefinitionMatches
<1> QED
  BY <1>1, <1>2, <1>3, <1>4 DEF DInv

\* A step of a client.
LEMMA ClientStepOK ==
    ASSUME DInv, NEW c \in Clients, D!ClientStep(c)
    PROVE  DInv'
  BY ClientLocks, ClientGets, ClientAcquires, ClientExecutes, WithPinnedConnectionOK,
     RejectOrdinaryMutationOK, ExecOrdinaryOK, RegisterOK, EndOK, LockWriteOK, DTConstants
     DEF D!ClientStep, D!Advance

\* A step of the scheduler.
LEMMA SchedulerStepOK ==
    ASSUME DInv, D!SchedulerStep
    PROVE  DInv'
  BY SchedulerLocks, SchedulerGets, SchedulerAcquires, SchedulerExecutes, SchedulerFails, TickOK,
     ListDynamicTablesOK, RefreshDueOK, RecordDynamicTableFailureOK, RefreshedOK, DEndPassOK,
     LockWriteOK, DTConstants
     DEF D!SchedulerStep, D!Advance

\* A step that changes nothing.
LEMMA DTStutterOK ==
    ASSUME DInv, LocksHeld, UNCHANGED D!vars
    PROVE  DInv' /\ LocksHeld'
<1>1. UNCHANGED <<dtRow, type, physical, lastDef, mu, writeMu, conn, slot, dtPc, dtGot,
                  op, at, pinned, dtListed, since>>
  BY DEF D!vars, D!tableVars, D!lockVars, D!requestVars, D!passVars
<1>2. LocksHeld'
  BY <1>1 DEF LocksHeld
<1> QED
  BY <1>1, <1>2, NothingChanges

\* The inductive invariant holds in every reachable state: the mutex keeps the
\* row that a refresh has read as it is until the refresh is executed.
THEOREM DynamicTablesInvariant ==
    ASSUME D!DynamicTablesAssumption
    PROVE  D!Spec => [](DInv /\ LocksHeld)
<1>1. D!Init => DInv /\ LocksHeld
  <2>1. D!Init => LocksHeld
    BY DTAssumed DEF DTKnown, D!Init, LocksHeld
  <2> QED
    BY <2>1, DTInitOK
<1>2. DInv /\ LocksHeld /\ [D!Next]_(D!vars) => DInv' /\ LocksHeld'
  <2> SUFFICES ASSUME DInv, LocksHeld, [D!Next]_(D!vars) PROVE DInv' /\ LocksHeld'
    OBVIOUS
  <2>1. CASE D!Time
    <3>1. LocksHeld'
      BY <2>1 DEF D!Time, D!lockVars, LocksHeld
    <3> QED
      BY <2>1, <3>1, DTimeOK
  <2>2. CASE D!SchedulerStep
    BY <2>2, SchedulerStepOK, SchedulerStepKeepsLocks
  <2>3. ASSUME NEW c \in Clients, D!ClientStep(c)
        PROVE  DInv' /\ LocksHeld'
    BY <2>3, ClientStepOK, ClientStepKeepsLocks
  <2>4. ASSUME NEW c \in Clients, D!FailRequest(c)
        PROVE  DInv' /\ LocksHeld'
    BY <2>4, ClientFails, FailRequestKeepsLocks, DTConstants
  <2>5. ASSUME NEW c \in Clients, NEW t \in Tables, NEW o \in ClientOps \cap D!DynamicOps,
               D!Submit(c, t, o)
        PROVE  DInv' /\ LocksHeld'
    <3>1. LocksHeld'
      <4>1. dtPc' = [dtPc EXCEPT ![c] = "lock"] /\ UNCHANGED <<slot, writeMu>> /\ dtPc[c] = "idle"
        BY <2>5 DEF D!Submit, D!Go, D!lockVars
      <4>2. c \in D!Procs
        BY DTConstants
      <4>3. writeMu # c
        BY <4>1, <4>2 DEF LocksHeld
      <4> QED
        BY <4>1, <4>2, <4>3, MovesKeepLocks DEF LocksHeld
    <3> QED
      BY <2>5, <3>1, SubmitOK
  <2>6. ASSUME NEW c \in Clients, NEW t \in Tables, NEW o \in ProcedureOps, NEW w \in Warehouses,
               D!Call(c, w, t, o)
        PROVE  DInv' /\ LocksHeld'
    BY <2>6, CallOK, RequestsKeepLocks
  <2>7. ASSUME NEW c \in Clients, NEW t \in Tables, NEW o \in ClientOps \cap D!OrdinaryOps,
               NEW w \in Warehouses, D!Ordinary(c, w, t, o)
        PROVE  DInv' /\ LocksHeld'
    BY <2>7, OrdinaryOK, RequestsKeepLocks
  <2>8. CASE UNCHANGED D!vars
    BY <2>8, DTStutterOK
  <2> QED
    BY <2>1, <2>2, <2>3, <2>4, <2>5, <2>6, <2>7, <2>8 DEF D!Next
<1> QED
  BY <1>1, <1>2, PTL DEF D!Spec

\* The variables have their types; only the holder of the mutex is between the
\* lookup of an operation on dynamic tables and its transaction; who has the
\* write mutex is at a write, and a CALL that runs has the connection; the
\* scheduler keeps the mutex between the refreshes of a pass.
THEOREM DynamicTablesTypeOK ==
    ASSUME D!DynamicTablesAssumption
    PROVE  D!Spec => []D!TypeOK
<1>1. DInv /\ LocksHeld => D!TypeOK
  <2> SUFFICES ASSUME DInv, LocksHeld PROVE D!TypeOK
    OBVIOUS
  <2>1. \A p \in D!Procs :
           /\ dtPc[p] \in {"get", "acquire"} => mu = p
           /\ dtPc[p] = "exec" /\ op[p] \in D!DynamicOps => mu = p
           /\ writeMu = p => dtPc[p] \in {"exec", "register", "record"}
           /\ pinned[p] => conn = p
    BY DEF DInv, DHolds, Operates, LocksHeld
  <2>2. dtPc[Scheduler] \in {"list", "next", "record"} => mu = Scheduler
    BY DEF DInv, PassHolds
  <2>3. {mu, writeMu, conn} \subseteq D!Procs \cup {None} /\ slot \in [Warehouses -> D!Procs \cup {None}]
    BY DEF DInv, DStateType, LocksHeld
  <2> QED
    BY <2>1, <2>2, <2>3 DEF DInv, DStateType, D!TypeOK
<1> QED
  BY <1>1, DynamicTablesInvariant, PTL

\* Rows materialized in a dynamic table are those of its present definition,
\* whoever read an earlier one and refreshed late.
THEOREM DynamicTablesDefinitionMatches ==
    ASSUME D!DynamicTablesAssumption
    PROVE  D!Spec => []D!DefinitionMatches
<1>1. DInv => D!DefinitionMatches
  BY DEF DInv
<1> QED
  BY <1>1, DynamicTablesInvariant, PTL
=============================================================================
