------------------------------- MODULE Tasks -------------------------------
(***************************************************************************)
(* Tasks and the scheduler that runs them.                                 *)
(* Source: pkg/query/task_processor.go and task_scheduler.go,              *)
(* pkg/metadata/task_repository.go.                                        *)
(*                                                                         *)
(* A pass of the scheduler lists all tasks once and runs those due, one    *)
(* after the other.  No lock is shared with the statements that create,    *)
(* replace, alter, execute and drop tasks, so a task may be another one,   *)
(* or none, when its turn comes.                                           *)
(***************************************************************************)
EXTENDS Integers, FiniteSets

CONSTANTS
    Tasks,      \* names in one schema
    Clients,
    Scheduler,
    Interval,   \* the SCHEDULE of every task, in units of time
    MaxId,      \* bound: tasks created
    None

VARIABLES
    row,        \* the row of _metadata_tasks, or None; age since its last run
    lastId,
    orphaned,   \* ids whose owner role is gone
    pc,         \* the request of each process and where it is
    got,        \* the row it read: [task, id]
    listed,     \* rows the pass has still to run
    resumed,    \* history: ids of rows that were resumed
    ran,        \* history: ids of rows whose definition was run
    late        \* history: scheduled runs of an id since it was last STARTED

taskVars == <<row, lastId, orphaned>>
historyVars == <<resumed, ran, late>>
vars == <<taskVars, pc, got, listed, historyVars>>
-----------------------------------------------------------------------------
Procs == Clients \cup {Scheduler}
Ids == 1 .. MaxId
Rows == [id : Ids, state : {"STARTED", "SUSPENDED"}, age : 0 .. Interval, executed : BOOLEAN]
Refs == [task : Tasks, id : Ids]
Ops == {"resume", "suspend", "run"}

ASSUME TasksAssumption ==
    /\ {Interval, MaxId} \subseteq Nat \ {0}
    /\ Scheduler \notin Clients /\ None \notin Rows \cup Refs

\* The row that r names is still there.
Present(r) == row[r.task] # None /\ row[r.task].id = r.id

Started(r) == Present(r) /\ row[r.task].state = "STARTED"

Due(t) == row[t] # None /\ row[t].state = "STARTED" /\ row[t].age >= Interval

Go(p, next) == pc' = [pc EXCEPT ![p] = next]

Time ==
    /\ row' = [t \in Tasks |-> IF row[t] = None \/ row[t].age = Interval THEN row[t]
                               ELSE [row[t] EXCEPT !.age = @ + 1]]
    /\ UNCHANGED <<lastId, orphaned, pc, got, listed, historyVars>>

\* DROP ROLE of the role that created task i (bound: once).
DropOwner(i) ==
    /\ orphaned = {} /\ i \in 1 .. lastId
    /\ orphaned' = {i}
    /\ UNCHANGED <<row, lastId, pc, got, listed, historyVars>>
-----------------------------------------------------------------------------
\* The history of a row ends with it.
Forget(t) ==
    LET gone == IF row[t] = None THEN {} ELSE {row[t].id}
    IN  resumed' = resumed \ gone /\ ran' = ran \ gone

\* Mutant for CreateTask: the id counts the present rows.
CreateCounting(t, replace) ==
    /\ lastId < MaxId
    /\ row[t] = None \/ replace
    /\ lastId' = lastId + 1
    /\ row' = [row EXCEPT ![t] = [id |-> Cardinality({u \in Tasks : row[u] # None}) + 1,
                                  state |-> "SUSPENDED", age |-> 0, executed |-> FALSE]]
    /\ Forget(t)
    /\ UNCHANGED <<orphaned, pc, got, listed, late>>

\* CREATE [OR REPLACE] TASK: one transaction; a new row is suspended.
CreateTask(t, replace) ==
    /\ lastId < MaxId
    /\ row[t] = None \/ replace
    /\ lastId' = lastId + 1
    /\ row' = [row EXCEPT ![t] = [id |-> lastId', state |-> "SUSPENDED", age |-> 0,
                                  executed |-> FALSE]]
    /\ Forget(t)
    /\ UNCHANGED <<orphaned, pc, got, listed, late>>

DropTask(t) ==
    /\ row[t] # None
    /\ row' = [row EXCEPT ![t] = None]
    /\ Forget(t)
    /\ UNCHANGED <<lastId, orphaned, pc, got, listed, late>>

\* ALTER and EXECUTE TASK read the row by its name and use its id afterwards.
GetByName(c, t, o) ==
    /\ pc[c] = "idle" /\ row[t] # None
    /\ got' = [got EXCEPT ![c] = [task |-> t, id |-> row[t].id]]
    /\ Go(c, o)
    /\ UNCHANGED <<taskVars, listed, historyVars>>

Done(p) ==
    /\ Go(p, IF p = Scheduler THEN "next" ELSE "idle")
    /\ got' = [got EXCEPT ![p] = None]

\* Mutant for SetTaskState: WHERE name = ?.
SetStateByName(c) ==
    LET r == got[c] IN
    /\ pc[c] \in {"resume", "suspend"}
    /\ row' = [row EXCEPT ![r.task] = IF @ = None THEN None ELSE
                  [@ EXCEPT !.state = IF pc[c] = "resume" THEN "STARTED" ELSE "SUSPENDED"]]
    /\ resumed' = IF pc[c] = "resume" /\ Present(r) THEN resumed \cup {r.id} ELSE resumed
    /\ Done(c)
    /\ UNCHANGED <<lastId, orphaned, listed, ran, late>>

\* UPDATE ... WHERE id = ?; no such row is an error.
SetTaskState(c) ==
    LET r == got[c] IN
    /\ pc[c] \in {"resume", "suspend"}
    /\ IF Present(r)
       THEN /\ row' = [row EXCEPT ![r.task].state =
                          IF pc[c] = "resume" THEN "STARTED" ELSE "SUSPENDED"]
            /\ resumed' = IF pc[c] = "resume" THEN resumed \cup {r.id} ELSE resumed
            /\ late' = IF pc[c] = "resume" THEN [late EXCEPT ![r.id] = 0] ELSE late
       ELSE UNCHANGED <<row, resumed, late>>
    /\ Done(c)
    /\ UNCHANGED <<lastId, orphaned, listed, ran>>
-----------------------------------------------------------------------------
\* executeStoredTask: the definition is run, whatever became of the row, and
\* the outcome recorded.
Run(p) ==
    LET r == got[p] IN
    /\ pc[p] = "run"
    /\ ran' = IF Present(r) THEN ran \cup {r.id} ELSE ran
    /\ late' = IF p = Scheduler /\ ~Started(r) THEN [late EXCEPT ![r.id] = @ + 1] ELSE late
    /\ Go(p, "record")
    /\ UNCHANGED <<taskVars, got, listed, resumed>>

\* The schema or the database is gone.
Unresolved(p) ==
    /\ pc[p] = "run"
    /\ Done(p)
    /\ UNCHANGED <<taskVars, listed, historyVars>>

\* UPDATE ... WHERE id = ?; no such row is no error.  It may fail as well.
RecordTaskExecution(p) ==
    LET r == got[p] IN
    /\ pc[p] = "record"
    /\ \/ Present(r) /\ row' = [row EXCEPT ![r.task].age = 0, ![r.task].executed = TRUE]
       \/ UNCHANGED row
    /\ Done(p)
    /\ UNCHANGED <<lastId, orphaned, listed, historyVars>>
-----------------------------------------------------------------------------
\* RunDueTasks

ListTasks ==
    /\ pc[Scheduler] = "idle"
    /\ listed' = {[task |-> t, id |-> row[t].id] : t \in {u \in Tasks : Due(u)}}
    /\ Go(Scheduler, "next")
    /\ UNCHANGED <<taskVars, got, historyVars>>

\* Mutants for RunListed: a task stays on the list; an error ends the pass.
RunAndKeep(r) ==
    /\ pc[Scheduler] = "next" /\ r \in listed /\ r.id \notin orphaned
    /\ got' = [got EXCEPT ![Scheduler] = r]
    /\ Go(Scheduler, "run")
    /\ UNCHANGED <<taskVars, listed, historyVars>>

RunOrAbort(r) ==
    /\ pc[Scheduler] = "next" /\ r \in listed
    /\ \/ /\ r.id \in orphaned
          /\ listed' = {}
          /\ Go(Scheduler, "idle")
          /\ UNCHANGED got
       \/ /\ r.id \notin orphaned
          /\ listed' = listed \ {r}
          /\ got' = [got EXCEPT ![Scheduler] = r]
          /\ Go(Scheduler, "run")
    /\ UNCHANGED <<taskVars, historyVars>>

\* Without its owner's role a task is not run, and nothing is recorded.
RunListed(r) ==
    /\ pc[Scheduler] = "next" /\ r \in listed
    /\ listed' = listed \ {r}
    /\ IF r.id \in orphaned
       THEN UNCHANGED <<pc, got>>
       ELSE /\ got' = [got EXCEPT ![Scheduler] = r]
            /\ Go(Scheduler, "run")
    /\ UNCHANGED <<taskVars, historyVars>>

EndPass ==
    /\ pc[Scheduler] = "next" /\ listed = {}
    /\ Go(Scheduler, "idle")
    /\ UNCHANGED <<taskVars, got, listed, historyVars>>

\* The process dies; the rows stay.
Crash ==
    /\ \E p \in Procs : pc[p] # "idle"
    /\ pc' = [p \in Procs |-> "idle"]
    /\ got' = [p \in Procs |-> None]
    /\ listed' = {}
    /\ UNCHANGED <<taskVars, historyVars>>
-----------------------------------------------------------------------------
Init ==
    /\ row = [t \in Tasks |-> None]
    /\ lastId = 0
    /\ orphaned = {}
    /\ pc = [p \in Procs |-> "idle"]
    /\ got = [p \in Procs |-> None]
    /\ listed = {}
    /\ resumed = {}
    /\ ran = {}
    /\ late = [i \in Ids |-> 0]

SchedulerStep ==
    \/ ListTasks
    \/ \E r \in Refs : RunListed(r)
    \/ Run(Scheduler)
    \/ Unresolved(Scheduler)
    \/ RecordTaskExecution(Scheduler)
    \/ EndPass

Next ==
    \/ Time
    \/ SchedulerStep
    \/ Crash
    \/ \E i \in Ids : DropOwner(i)
    \/ \E t \in Tasks : DropTask(t) \/ \E replace \in BOOLEAN : CreateTask(t, replace)
    \/ \E c \in Clients :
          \/ \E t \in Tasks, o \in Ops : GetByName(c, t, o)
          \/ SetTaskState(c)
          \/ Run(c)
          \/ Unresolved(c)
          \/ RecordTaskExecution(c)

Spec == Init /\ [][Next]_vars

\* The ticker goes on and every run ends.
FairSpec == Spec /\ WF_vars(Time) /\ WF_vars(SchedulerStep)
-----------------------------------------------------------------------------
\* The types of the variables; ids are given once, and a process that runs,
\* sets or records something has read a row.
TypeOK ==
    /\ lastId \in 0 .. MaxId
    /\ orphaned \cup resumed \cup ran \subseteq 1 .. lastId
    /\ \A t \in Tasks :
          row[t] # None => /\ row[t] \in Rows /\ row[t].id <= lastId
                           /\ \A u \in Tasks \ {t} : row[u] # None => row[u].id # row[t].id
    /\ \A p \in Procs :
          /\ pc[p] \in {"idle", "resume", "suspend", "run", "record", "next"}
          /\ pc[p] \in {"idle", "next"} <=> got[p] = None
    /\ listed \subseteq Refs

\* A task created under a used name starts its own life: what a client or the
\* scheduler still does for its predecessor neither resumes it nor counts as a
\* run of it.
OwnIncarnation ==
    \A t \in Tasks : row[t] # None =>
        /\ row[t].state = "STARTED" => row[t].id \in resumed
        /\ row[t].executed => row[t].id \in ran

\* "Tasks in STARTED state run automatically" (README.md:471).  The list of a
\* pass may be older than a SUSPEND, DROP or OR REPLACE, so the scheduler may
\* run the task after it; but once at most, however long the pass.
AtMostOneLateRun == \A i \in Ids : late[i] <= 1

\* A started task that stays due is run again and again, whatever becomes of
\* the other tasks and unless the process keeps dying.
StartedTasksRun ==
    \A t \in Tasks :
        <>[](Due(t) /\ row[t].id \notin orphaned) =>
            \/ []<><<\E r \in listed : r.task = t /\ RunListed(r)>>_vars
            \/ []<><<Crash>>_vars
=============================================================================
