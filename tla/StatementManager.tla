-------------------------- MODULE StatementManager --------------------------
(***************************************************************************)
(* Statements submitted over the REST API: their status in memory, their   *)
(* row in the persistent history, and the reply their client gets.         *)
(* Source: pkg/query/statement_manager.go, pkg/metadata/statement_history  *)
(* .go and the submission path of server/handlers/rest_api_v2.go.          *)
(*                                                                         *)
(* A handle has two writers: the goroutine that runs it (the runner) and a *)
(* request that cancels it (the canceler).  Every method of the manager    *)
(* changes the status under StatementManager.mu, takes a summary, unlocks, *)
(* and only then writes the summary to the history, as an UPDATE that      *)
(* becomes an INSERT if it hit no row.  The three are separate steps here, *)
(* and those of the two writers interleave.                                *)
(*                                                                         *)
(* The warehouse is what Warehouse.tla says of it: a statement that needs  *)
(* one gets a lease, maybe after queueing, or an error.  What the SQL does *)
(* is left out: it succeeds or fails, whether or not its context is done.  *)
(***************************************************************************)
EXTENDS Naturals, FiniteSets

CONSTANTS
    Handles,      \* statement handles; a handle is never reused
    None          \* no row in the history; no reply yet

VARIABLES
    status,       \* Statement.Status; "absent" before, "gone" after
    completed,    \* Statement.CompletedOn is set
    cancelFunc,   \* Statement.cancelFunc is set
    writing,      \* summaries taken but not yet recorded
    history,      \* rows of _metadata_query_history
    lost,         \* history variable: handles one of whose records failed
    pc,           \* where the runner is
    ctxDone,      \* the context it runs under is done
    reply         \* what the client of the submission was told

memVars == <<status, completed, cancelFunc>>
dbVars == <<history, lost>>
runVars == <<pc, ctxDone, reply>>
vars == <<memVars, writing, dbVars, runVars>>
-----------------------------------------------------------------------------
\* Type definitions

Working == {"pending", "queued", "running"}
Terminal == {"success", "failed", "canceled"}
Statuses == Working \cup Terminal

Rows == [status : Statuses, completed : BOOLEAN]
Writes == [handle : Handles, by : {"runner", "canceler"}, row : Rows, op : {"update", "insert"}]
Replies == {"accepted", "success", "failed", "canceled"}
PCs == {"absent", "created", "starting", "queued", "executing", "failing",
        "reportError", "replySuccess", "replyFailed", "done"}

ASSUME NoneAssumption == None \notin Rows /\ None \notin Replies

InMemory(h) == status[h] \in Statuses

\* Writes of h still under way.
Recording(h) == {wr \in writing : wr.handle = h}

\* Fault: summaries are recorded in goroutines of their own.
AlwaysFree(h) == TRUE

\* The runner has recorded its last summary and may go on.
Free(h) == \A wr \in Recording(h) : wr.by # "runner"
-----------------------------------------------------------------------------
\* Status changes

\* The summary a method takes before it unlocks, to be recorded by the writer.
summarize(h, by, st, done) ==
    [handle |-> h, by |-> by, row |-> [status |-> st, completed |-> done], op |-> "update"]

\* Faults: a status that is terminal leaves CompletedOn unset; a refused result
\* is recorded all the same.
setStatusNotCompleted(h, st) ==
    IF status[h] \in {"canceled", "gone"}
    THEN UNCHANGED <<status, completed, writing>>
    ELSE /\ status' = [status EXCEPT ![h] = st]
         /\ writing' = writing \cup {summarize(h, "runner", st, completed[h])}
         /\ UNCHANGED completed

setStatusRecordsRefused(h, st) ==
    /\ writing' = writing \cup {summarize(h, "runner", st, st \in Terminal)}
    /\ IF status[h] \in {"canceled", "gone"}
       THEN UNCHANGED <<status, completed>>
       ELSE /\ status' = [status EXCEPT ![h] = st]
            /\ completed' = [completed EXCEPT ![h] = @ \/ st \in Terminal]

\* The locked part of UpdateStatus, SetResult, SetExecResult and SetError,
\* which only the runner calls: refused once the statement is canceled or
\* cleaned up.
setStatus(h, st) ==
    IF status[h] \in {"canceled", "gone"}
    THEN UNCHANGED <<status, completed, writing>>
    ELSE /\ status' = [status EXCEPT ![h] = st]
         /\ completed' = [completed EXCEPT ![h] = @ \/ st \in Terminal]
         /\ writing' = writing \cup {summarize(h, "runner", st, completed'[h])}

\* Fault: a canceled statement has no CompletedOn.
CancelNotCompleted(h) ==
    /\ status[h] \in Working
    /\ status' = [status EXCEPT ![h] = "canceled"]
    /\ ctxDone' = [ctxDone EXCEPT ![h] = @ \/ cancelFunc[h]]
    /\ writing' = writing \cup {summarize(h, "canceler", "canceled", FALSE)}
    /\ UNCHANGED <<completed, cancelFunc, dbVars, pc, reply>>

\* A cancel request.  Without a cancel function there is nothing to interrupt
\* the work with, now or later.
CancelStatement(h) ==
    /\ status[h] \in Working
    /\ status' = [status EXCEPT ![h] = "canceled"]
    /\ completed' = [completed EXCEPT ![h] = TRUE]
    /\ ctxDone' = [ctxDone EXCEPT ![h] = @ \/ cancelFunc[h]]
    /\ writing' = writing \cup {summarize(h, "canceler", "canceled", TRUE)}
    /\ UNCHANGED <<cancelFunc, dbVars, pc, reply>>

\* One tick of cleanupLoop forgets statements completed long enough ago.
cleanup(expired) ==
    /\ expired # {}
    /\ \A h \in expired : InMemory(h) /\ completed[h]
    /\ status' = [h \in Handles |-> IF h \in expired THEN "gone" ELSE status[h]]
    /\ UNCHANGED <<completed, cancelFunc, writing, dbVars, runVars>>
-----------------------------------------------------------------------------
\* The persistent history

\* Any Exec of the history may fail; the error is logged and dropped.
RecordFails(wr) ==
    /\ writing' = writing \ {wr}
    /\ lost' = lost \cup {wr.handle}
    /\ UNCHANGED <<memVars, history, runVars>>

\* RecordStatement: the UPDATE, which touches the row if there is one.
RecordUpdate(wr) ==
    /\ wr.op = "update"
    /\ IF history[wr.handle] # None
       THEN /\ history' = [history EXCEPT ![wr.handle] = wr.row]
            /\ writing' = writing \ {wr}
       ELSE /\ writing' = (writing \ {wr}) \cup {[wr EXCEPT !.op = "insert"]}
            /\ UNCHANGED history
    /\ UNCHANGED <<memVars, lost, runVars>>

\* RecordStatement: the INSERT.  The row's id is the handle, so a second
\* INSERT violates the primary key and is logged like any other failure.
RecordInsert(wr) ==
    /\ wr.op = "insert"
    /\ history' = IF history[wr.handle] = None
                  THEN [history EXCEPT ![wr.handle] = wr.row]
                  ELSE history
    /\ writing' = writing \ {wr}
    /\ UNCHANGED <<memVars, lost, runVars>>

\* pruneHistory deletes rows with an old completion time.  Retention (days)
\* is longer than the TTL in memory (an hour) and than any write, so such a
\* statement is gone from memory and nothing of it is being recorded.
pruneHistory(expired) ==
    /\ expired # {}
    /\ \A h \in expired : /\ history[h] # None /\ history[h].completed
                          /\ ~InMemory(h) /\ Recording(h) = {} /\ pc[h] = "done"
    /\ history' = [h \in Handles |-> IF h \in expired THEN None ELSE history[h]]
    /\ UNCHANGED <<memVars, writing, lost, runVars>>
-----------------------------------------------------------------------------
\* The runner

\* One call of the runner: from its place at, on to the place to.
Go(h, at, to) ==
    /\ pc[h] = at
    /\ Free(h)
    /\ pc' = [pc EXCEPT ![h] = to]

CreateStatementForUser(h) ==
    /\ Go(h, "absent", "created")
    /\ status' = [status EXCEPT ![h] = "pending"]
    /\ UNCHANGED <<completed, cancelFunc, writing, dbVars, ctxDone, reply>>

\* USE ROLE is answered here, and a session whose role was revoked is turned
\* away, both before there is a cancel function.
AnswerBeforeStart(h) ==
    /\ \/ Go(h, "created", "replySuccess") /\ setStatus(h, "success")
       \/ Go(h, "created", "replyFailed") /\ setStatus(h, "failed")
    /\ UNCHANGED <<cancelFunc, dbVars, ctxDone, reply>>

\* An asynchronous submission is answered now, and the rest of the run has
\* nobody left to answer.
SetCancelFunc(h) ==
    /\ Go(h, "created", "starting")
    /\ cancelFunc' = [cancelFunc EXCEPT ![h] = InMemory(h)]
    /\ reply' \in {reply, [reply EXCEPT ![h] = "accepted"]}
    /\ UNCHANGED <<status, completed, writing, dbVars, ctxDone>>

\* The client of a synchronous submission goes away.
Disconnect(h) ==
    /\ pc[h] \in {"starting", "queued", "executing"}
    /\ reply[h] = None
    /\ ~ctxDone[h]
    /\ ctxDone' = [ctxDone EXCEPT ![h] = TRUE]
    /\ UNCHANGED <<memVars, writing, dbVars, pc, reply>>

\* OnWarehouseQueued.
Enqueue(h) ==
    /\ Go(h, "starting", "queued")
    /\ setStatus(h, "queued")
    /\ UNCHANGED <<cancelFunc, dbVars, ctxDone, reply>>

\* OnWarehouseRunning, or a statement that needs no warehouse.
Run(h) ==
    /\ Go(h, "starting", "executing") \/ Go(h, "queued", "executing")
    /\ setStatus(h, "running")
    /\ UNCHANGED <<cancelFunc, dbVars, ctxDone, reply>>

\* No access, no lease, or an error of the SQL itself.
Fail(h) ==
    /\ \E at \in {"starting", "queued", "executing"} : Go(h, at, "failing")
    /\ UNCHANGED <<memVars, writing, dbVars, ctxDone, reply>>

\* SetResult or SetExecResult; whether it was refused is not looked at.
Succeed(h) ==
    /\ Go(h, "executing", "replySuccess")
    /\ setStatus(h, "success")
    /\ UNCHANGED <<cancelFunc, dbVars, ctxDone, reply>>

\* Answering the submission, unless it was answered as accepted.
Answer(h, r) == reply' = [reply EXCEPT ![h] = IF @ = "accepted" THEN @ ELSE r]

\* Fault: an interrupted statement is taken for a canceled one.
CheckInterrupted(h) ==
    /\ \/ ctxDone[h] /\ Go(h, "failing", "done") /\ Answer(h, "canceled")
       \/ ~ctxDone[h] /\ Go(h, "failing", "reportError") /\ UNCHANGED reply
    /\ UNCHANGED <<memVars, writing, dbVars, ctxDone>>

\* After an error: was it a cancellation?  The answer is read under the lock
\* and used after it.
CheckCanceled(h) ==
    /\ \/ status[h] = "canceled" /\ Go(h, "failing", "done") /\ Answer(h, "canceled")
       \/ status[h] # "canceled" /\ Go(h, "failing", "reportError") /\ UNCHANGED reply
    /\ UNCHANGED <<memVars, writing, dbVars, ctxDone>>

SetError(h) ==
    /\ Go(h, "reportError", "replyFailed")
    /\ setStatus(h, "failed")
    /\ UNCHANGED <<cancelFunc, dbVars, ctxDone, reply>>

Reply(h) ==
    /\ \/ Go(h, "replySuccess", "done") /\ Answer(h, "success")
       \/ Go(h, "replyFailed", "done") /\ Answer(h, "failed")
    /\ UNCHANGED <<memVars, writing, dbVars, ctxDone>>

\* The process dies and comes back on the same database file: the goroutines
\* and the statements are gone, the rows are not.
Restart ==
    /\ status' = [h \in Handles |-> IF pc[h] = "absent" THEN "absent" ELSE "gone"]
    /\ pc' = [h \in Handles |-> IF pc[h] = "absent" THEN "absent" ELSE "done"]
    /\ writing' = {}
    /\ UNCHANGED <<completed, cancelFunc, dbVars, ctxDone, reply>>
-----------------------------------------------------------------------------
Init ==
    /\ status = [h \in Handles |-> "absent"]
    /\ completed = [h \in Handles |-> FALSE]
    /\ cancelFunc = [h \in Handles |-> FALSE]
    /\ writing = {}
    /\ history = [h \in Handles |-> None]
    /\ lost = {}
    /\ pc = [h \in Handles |-> "absent"]
    /\ ctxDone = [h \in Handles |-> FALSE]
    /\ reply = [h \in Handles |-> None]

\* The calls of a runner after submission.
Step(h) ==
    \/ AnswerBeforeStart(h)
    \/ SetCancelFunc(h)
    \/ Enqueue(h)
    \/ Run(h)
    \/ Fail(h)
    \/ Succeed(h)
    \/ CheckCanceled(h)
    \/ SetError(h)
    \/ Reply(h)

Record(wr) == RecordUpdate(wr) \/ RecordInsert(wr) \/ RecordFails(wr)

Next ==
    \/ \E h \in Handles : CreateStatementForUser(h)
    \/ \E h \in Handles : Step(h)
    \/ \E h \in Handles : CancelStatement(h)
    \/ \E h \in Handles : Disconnect(h)
    \/ \E wr \in writing : Record(wr)
    \/ \E expired \in SUBSET Handles : cleanup(expired)
    \/ \E expired \in SUBSET Handles : pruneHistory(expired)
    \/ Restart

Spec == Init /\ [][Next]_vars

\* Goroutines keep running, a write to the database ends, a warehouse answers
\* (Warehouse!WaitersAnswered), a statement ends, and the ticker of the
\* cleanup goroutine keeps firing.  Nobody has to cancel anything.
Fairness ==
    \A h \in Handles :
        /\ WF_vars(Step(h))
        /\ WF_vars(\E wr \in writing : wr.handle = h /\ Record(wr))
        /\ WF_vars(cleanup({h}))

FairSpec == Spec /\ Fairness
-----------------------------------------------------------------------------
\* Every variable has its type, and a statement in memory has a completion time
\* exactly when it is over.
StateType ==
    /\ status \in [Handles -> Statuses \cup {"absent", "gone"}]
    /\ completed \in [Handles -> BOOLEAN]
    /\ cancelFunc \in [Handles -> BOOLEAN]
    /\ writing \in SUBSET Writes
    /\ history \in [Handles -> Rows \cup {None}]
    /\ lost \in SUBSET Handles
    /\ pc \in [Handles -> PCs]
    /\ ctxDone \in [Handles -> BOOLEAN]
    /\ reply \in [Handles -> Replies \cup {None}]
    /\ \A h \in Handles : /\ InMemory(h) => (completed[h] <=> status[h] \in Terminal)
                          /\ pc[h] = "absent" <=> status[h] = "absent"

\* Until a statement is canceled, at most one summary of it is to be recorded:
\* that of its status, by its runner, inserted where there is no row.
OneSummary ==
    \A h \in Handles : InMemory(h) /\ status[h] # "canceled" =>
        /\ \A wr \in Recording(h) :
              /\ wr.by = "runner" /\ wr.row.status = status[h]
              /\ wr.op = "insert" => history[h] = None
        /\ \A wr1, wr2 \in Recording(h) : wr1 = wr2

\* The variables have their types, and until it is canceled a statement has at
\* most one summary to record, which shows the status in memory.
TypeOK == StateType /\ OneSummary

\* However the writes of the runner and the canceler interleave, the history
\* never shows an outcome other than the one in memory.
TerminalRowIsTrue ==
    \A h \in Handles :
        history[h] # None =>
            /\ history[h].completed <=> history[h].status \in Terminal
            /\ InMemory(h) /\ history[h].completed => history[h].status = status[h]

\* Once the writes of a statement that ran to its end are over, its row shows
\* how it ended.  (Not so for a canceled one: SettledRowIsFinal.)
FinishedRowIsLast ==
    \A h \in Handles :
        status[h] \in {"success", "failed"} /\ Recording(h) = {} /\ h \notin lost =>
            history[h] # None /\ history[h].status = status[h]

\* A client that is told its statement was canceled can rely on it.
CanceledReplyIsTrue ==
    \A h \in Handles : reply[h] = "canceled" => status[h] \in {"canceled", "gone"}

\* The history never replaces one outcome by another, not even by a summary
\* that arrives when the statement has left memory.
OutcomeNotRevised ==
    [][\A h \in Handles :
          /\ history[h] # None /\ history[h].completed
          /\ history'[h] # None /\ history'[h].completed
          => history'[h].status = history[h].status]_vars

\* No statement stays in memory forever, canceled ones and those whose runner
\* outlives the cleanup included.
MemoryReclaimed ==
    \A h \in Handles : InMemory(h) ~> status[h] = "gone"

\* statement_history.go:36-37: the row follows the statement to its end.
SettledRowIsFinal ==
    \A h \in Handles :
        status[h] \in Terminal /\ Recording(h) = {} /\ h \notin lost =>
            history[h] # None /\ history[h].status = status[h]

\* statement_manager.go:212-214: a canceled statement whose work finished
\* anyway is not reported as though it had never been stopped.
SuccessReplyIsTrue ==
    \A h \in Handles : reply[h] = "success" => status[h] \in {"success", "gone"}

\* rest_api_v2.go:161-162: a cancellation interrupts the statement.
CanceledIsInterrupted ==
    \A h \in Handles :
        status[h] = "canceled" /\ pc[h] \in {"queued", "executing"} => ctxDone[h]
=============================================================================
