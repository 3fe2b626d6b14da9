----------------------- MODULE StatementManagerProofs -----------------------
(***************************************************************************)
(* The safety of StatementManager for every set of handles: what the       *)
(* history shows of a statement that is over, and what its client is told. *)
(*                                                                         *)
(* The invariants about the history are not inductive, since they say      *)
(* nothing of the summaries on their way to it.  The runner records its    *)
(* last summary before it makes the next, so while nobody has canceled the *)
(* statement there is one summary at most, and it shows the status in      *)
(* memory (OneSummary); afterwards the summaries that complete the row     *)
(* agree with memory (SummariesTrue).                                      *)
(***************************************************************************)
EXTENDS StatementManager, TLAPS

\* Before its creation nothing is known of a statement, and the runner that
\* has not yet reported an outcome finds none in memory but a cancellation.
RunnerDecides ==
    \A h \in Handles :
        /\ pc[h] = "absent" => ~completed[h] /\ Recording(h) = {} /\ history[h] = None
        /\ status[h] \in {"success", "failed"} => pc[h] \in {"replySuccess", "replyFailed", "done"}

\* A summary that completes the row shows the outcome in memory.
SummariesTrue ==
    \A wr \in writing :
        /\ wr.row.completed <=> wr.row.status \in Terminal
        /\ InMemory(wr.handle) /\ wr.row.completed => wr.row.status = status[wr.handle]

\* The outcome the runner reported is recorded, being recorded, or lost.
OutcomeRecorded ==
    \A h \in Handles : status[h] \in {"success", "failed"} =>
        \/ h \in lost
        \/ Recording(h) # {}
        \/ history[h] # None /\ history[h].status = status[h]

\* The inductive invariant.
MInv ==
    /\ StateType
    /\ TerminalRowIsTrue
    /\ CanceledReplyIsTrue
    /\ RunnerDecides
    /\ SummariesTrue
    /\ OneSummary
    /\ OutcomeRecorded
-----------------------------------------------------------------------------
\* Nothing exists before it is created.
LEMMA InitMInv == Init => MInv
<1> SUFFICES ASSUME Init
             PROVE  MInv
  OBVIOUS
<1>1. \A h \in Handles : ~InMemory(h)
  BY DEF Init, InMemory, Statuses, Working, Terminal
<1>2. StateType
  BY <1>1 DEF Init, StateType, PCs
<1>3. CanceledReplyIsTrue
  BY NoneAssumption DEF Init, CanceledReplyIsTrue, Replies
<1>4. TerminalRowIsTrue /\ RunnerDecides /\ SummariesTrue /\ OneSummary /\ OutcomeRecorded
  BY <1>1 DEF Init, TerminalRowIsTrue, RunnerDecides, SummariesTrue, OneSummary,
              OutcomeRecorded, Recording
<1> QED
  BY <1>2, <1>3, <1>4 DEF MInv

\* A step that leaves memory and history alone only moves the runner, and may
\* answer the submission.
LEMMA RunnerMoves ==
    ASSUME MInv,
           UNCHANGED <<status, completed, writing, dbVars>>,
           NEW h \in Handles, NEW to \in PCs \ {"absent"},
           pc[h] # "absent",
           pc' = pc \/ pc' = [pc EXCEPT ![h] = to],
           pc[h] \in {"replySuccess", "replyFailed", "done"}
              => to \in {"replySuccess", "replyFailed", "done"},
           status[h] \in {"success", "failed"}
              => pc[h] \in {"replySuccess", "replyFailed", "done"},
           cancelFunc' \in [Handles -> BOOLEAN],
           ctxDone' \in [Handles -> BOOLEAN],
           reply' \in [Handles -> Replies \cup {None}],
           \A g \in Handles : reply'[g] = "canceled" =>
                reply[g] = "canceled" \/ status[g] = "canceled"
    PROVE  MInv'
<1> USE DEF MInv, dbVars
<1>1. StateType'
  BY DEF StateType, InMemory
<1>2. TerminalRowIsTrue'
  BY DEF TerminalRowIsTrue, InMemory
<1>3. CanceledReplyIsTrue'
  BY DEF CanceledReplyIsTrue
<1>4. RunnerDecides'
  BY DEF RunnerDecides, Recording, StateType
<1>5. SummariesTrue' /\ OneSummary' /\ OutcomeRecorded'
  BY DEF SummariesTrue, OneSummary, OutcomeRecorded, Recording, InMemory
<1> QED
  BY <1>1, <1>2, <1>3, <1>4, <1>5

\* The runner sets a status: it is refused or is the only one to be recorded.
LEMMA SetStatusPreserves ==
    ASSUME MInv,
           NEW h \in Handles,
           NEW at \in {"created", "starting", "queued", "executing", "reportError"},
           NEW to \in PCs \ {"absent"}, NEW st \in Statuses \ {"canceled"},
           st \in {"success", "failed"} => to \in {"replySuccess", "replyFailed"},
           Go(h, at, to), setStatus(h, st),
           UNCHANGED <<cancelFunc, dbVars, ctxDone, reply>>
    PROVE  MInv'
<1> USE DEF MInv, dbVars
<1>1. /\ pc[h] = at /\ pc' = [pc EXCEPT ![h] = to]
      /\ \A wr \in writing : wr.handle = h => wr.by # "runner"
      /\ status[h] \in Working \cup {"canceled", "gone"}
  BY DEF Go, Free, Recording, RunnerDecides, StateType, Statuses, Terminal
<1>2. CASE status[h] \in {"canceled", "gone"}
  <2>1. UNCHANGED <<status, completed, writing, dbVars>>
    BY <1>2 DEF setStatus
  <2> QED
    BY <1>1, <1>2, <2>1, RunnerMoves DEF StateType, CanceledReplyIsTrue, RunnerDecides
<1>3. CASE status[h] \in Working
  <2> DEFINE new == summarize(h, "runner", st, st \in Terminal)
  <2>1. /\ status' = [status EXCEPT ![h] = st]
        /\ completed' = [completed EXCEPT ![h] = st \in Terminal]
        /\ writing' = writing \cup {new}
    BY <1>3 DEF setStatus, StateType, InMemory, Working, Terminal, Statuses
  <2>2. /\ new.handle = h /\ new.by = "runner" /\ new.op = "update"
        /\ new.row.status = st /\ (new.row.completed <=> st \in Terminal)
        /\ new \in Writes
    <3>1. [status |-> st, completed |-> st \in Terminal] \in Rows
      BY DEF Rows
    <3> QED
      BY <3>1 DEF summarize, Writes
  <2> HIDE DEF new
  <2>3. /\ \A wr \in writing : wr.handle # h
        /\ history[h] # None => ~history[h].completed
    BY <1>1, <1>3 DEF OneSummary, Recording, InMemory, TerminalRowIsTrue, Working, Statuses, Terminal
  <2>4. StateType'
    <3>1. /\ status' \in [Handles -> Statuses \cup {"absent", "gone"}]
          /\ completed' \in [Handles -> BOOLEAN]
          /\ writing' \in SUBSET Writes
          /\ pc' \in [Handles -> PCs]
      BY <1>1, <2>1, <2>2 DEF StateType
    <3>2. \A g \in Handles : InMemory(g)' => (completed'[g] <=> status'[g] \in Terminal)
      BY <2>1 DEF StateType, InMemory
    <3>3. \A g \in Handles : pc'[g] = "absent" <=> status'[g] = "absent"
      BY <1>1, <2>1 DEF StateType, Statuses, Working, Terminal
    <3> QED
      BY <3>1, <3>2, <3>3 DEF StateType
  <2>5. TerminalRowIsTrue'
    BY <2>1, <2>3 DEF TerminalRowIsTrue, InMemory, StateType
  <2>6. CanceledReplyIsTrue'
    BY <1>3, <2>1 DEF CanceledReplyIsTrue, StateType, Working
  <2>7. RunnerDecides'
    BY <1>1, <2>1, <2>2 DEF RunnerDecides, Recording, StateType
  <2>8. SummariesTrue'
    BY <2>1, <2>2, <2>3 DEF SummariesTrue, InMemory, StateType, Writes
  <2>9. OneSummary'
    BY <2>1, <2>2, <2>3 DEF OneSummary, Recording, InMemory, StateType
  <2>10. OutcomeRecorded'
    BY <2>1, <2>2 DEF OutcomeRecorded, Recording, StateType
  <2> QED
    BY <2>4, <2>5, <2>6, <2>7, <2>8, <2>9, <2>10
<1> QED
  BY <1>1, <1>2, <1>3

LEMMA CreatePreservesMInv ==
    ASSUME MInv, NEW h \in Handles, CreateStatementForUser(h)
    PROVE  MInv'
<1> USE DEF MInv, CreateStatementForUser, Go, dbVars
<1>1. /\ pc[h] = "absent" /\ status[h] = "absent" /\ ~completed[h]
      /\ Recording(h) = {} /\ history[h] = None
  BY DEF StateType, RunnerDecides
<1>2. StateType'
  BY <1>1 DEF StateType, InMemory, Statuses, Working, Terminal, PCs
<1>3. TerminalRowIsTrue'
  BY <1>1 DEF TerminalRowIsTrue, InMemory, StateType
<1>4. CanceledReplyIsTrue'
  BY <1>1 DEF CanceledReplyIsTrue, StateType
<1>5. RunnerDecides'
  BY <1>1 DEF RunnerDecides, Recording, StateType
<1>6. SummariesTrue'
  BY <1>1 DEF SummariesTrue, InMemory, Recording, StateType
<1>7. OneSummary'
  BY <1>1 DEF OneSummary, InMemory, Recording, StateType
<1>8. OutcomeRecorded'
  BY <1>1 DEF OutcomeRecorded, Recording, StateType
<1> QED
  BY <1>2, <1>3, <1>4, <1>5, <1>6, <1>7, <1>8

\* A cancellation is refused once there is an outcome, so none is on its way.
LEMMA CancelPreservesMInv ==
    ASSUME MInv, NEW h \in Handles, CancelStatement(h)
    PROVE  MInv'
<1> DEFINE new == summarize(h, "canceler", "canceled", TRUE)
<1> USE DEF MInv, dbVars
<1>1. /\ status[h] \in Working
      /\ status' = [status EXCEPT ![h] = "canceled"]
      /\ completed' = [completed EXCEPT ![h] = TRUE]
      /\ ctxDone' = [ctxDone EXCEPT ![h] = @ \/ cancelFunc[h]]
      /\ writing' = writing \cup {new}
      /\ UNCHANGED <<cancelFunc, history, lost, pc, reply>>
  BY DEF CancelStatement
<1>2. /\ new.handle = h /\ new.row.status = "canceled" /\ new.row.completed = TRUE
      /\ new \in Writes
  BY DEF summarize, Writes, Rows, Statuses, Terminal
<1> HIDE DEF new
<1>3. /\ \A wr \in writing : wr.handle = h => ~wr.row.completed
      /\ history[h] # None => ~history[h].completed
  BY <1>1 DEF OneSummary, SummariesTrue, Recording, InMemory, TerminalRowIsTrue, Working,
             Statuses, Terminal
<1>4. StateType'
  <2>1. /\ status' \in [Handles -> Statuses \cup {"absent", "gone"}]
        /\ completed' \in [Handles -> BOOLEAN]
        /\ writing' \in SUBSET Writes
    BY <1>1, <1>2 DEF StateType, Statuses, Terminal
  <2>2. ctxDone' \in [Handles -> BOOLEAN]
    BY <1>1 DEF StateType
  <2>3. \A g \in Handles : InMemory(g)' => (completed'[g] <=> status'[g] \in Terminal)
    BY <1>1 DEF StateType, InMemory, Terminal
  <2>4. \A g \in Handles : pc'[g] = "absent" <=> status'[g] = "absent"
    BY <1>1 DEF StateType, Working
  <2> QED
    BY <1>1, <2>1, <2>2, <2>3, <2>4 DEF StateType
<1>5. TerminalRowIsTrue'
  BY <1>1, <1>3 DEF TerminalRowIsTrue, InMemory, StateType
<1>6. CanceledReplyIsTrue'
  BY <1>1 DEF CanceledReplyIsTrue, StateType
<1>7. RunnerDecides'
  BY <1>1, <1>2 DEF RunnerDecides, Recording, StateType, Working
<1>8. SummariesTrue'
  BY <1>1, <1>2, <1>3 DEF SummariesTrue, InMemory, StateType, Terminal, Writes
<1>9. OneSummary'
  BY <1>1, <1>2 DEF OneSummary, Recording, InMemory, StateType
<1>10. OutcomeRecorded'
  BY <1>1, <1>2 DEF OutcomeRecorded, Recording, StateType
<1> QED
  BY <1>4, <1>5, <1>6, <1>7, <1>8, <1>9, <1>10

LEMMA CleanupPreservesMInv ==
    ASSUME MInv, NEW expired \in SUBSET Handles, cleanup(expired)
    PROVE  MInv'
<1> USE DEF MInv, cleanup, dbVars, runVars
<1>1. /\ \A h \in Handles : status'[h] = status[h] \/ (status'[h] = "gone" /\ InMemory(h))
      /\ \A h \in Handles : InMemory(h)' => InMemory(h) /\ status'[h] = status[h]
  BY DEF InMemory, Statuses, Working, Terminal
<1>2. StateType'
  BY <1>1 DEF StateType, InMemory, Statuses, Working, Terminal
<1>3. TerminalRowIsTrue' /\ CanceledReplyIsTrue'
  BY <1>1 DEF TerminalRowIsTrue, CanceledReplyIsTrue, InMemory, Statuses, Working, Terminal
<1>4. RunnerDecides' /\ SummariesTrue'
  BY <1>1 DEF RunnerDecides, SummariesTrue, Recording, StateType, Writes
<1>5. OneSummary' /\ OutcomeRecorded'
  BY <1>1 DEF OneSummary, OutcomeRecorded, Recording
<1> QED
  BY <1>2, <1>3, <1>4, <1>5

LEMMA PrunePreservesMInv ==
    ASSUME MInv, NEW expired \in SUBSET Handles, pruneHistory(expired)
    PROVE  MInv'
<1> USE DEF MInv, pruneHistory, memVars, runVars
<1>1. /\ \A h \in Handles : history'[h] \in {history[h], None}
      /\ \A h \in Handles : InMemory(h) => history'[h] = history[h]
  OBVIOUS
<1>2. StateType'
  BY <1>1 DEF StateType, InMemory
<1>3. TerminalRowIsTrue' /\ CanceledReplyIsTrue'
  BY <1>1 DEF TerminalRowIsTrue, CanceledReplyIsTrue, InMemory
<1>4. RunnerDecides' /\ SummariesTrue'
  BY <1>1 DEF RunnerDecides, SummariesTrue, Recording, InMemory
<1>5. OneSummary' /\ OutcomeRecorded'
  BY <1>1 DEF OneSummary, OutcomeRecorded, Recording, InMemory, Statuses, Terminal
<1> QED
  BY <1>2, <1>3, <1>4, <1>5

LEMMA RestartPreservesMInv ==
    ASSUME MInv, Restart
    PROVE  MInv'
<1> USE DEF MInv, Restart, dbVars
<1>1. /\ \A h \in Handles : ~InMemory(h)' /\ status'[h] \in {"absent", "gone"}
      /\ \A h \in Handles : pc'[h] = "absent" => pc[h] = "absent"
  BY DEF InMemory, Statuses, Working, Terminal
<1>2. StateType'
  BY <1>1 DEF StateType, InMemory, PCs
<1>3. TerminalRowIsTrue'
  BY <1>1 DEF TerminalRowIsTrue
<1>4. CanceledReplyIsTrue'
  BY DEF CanceledReplyIsTrue, StateType
<1>5. RunnerDecides' /\ SummariesTrue' /\ OneSummary' /\ OutcomeRecorded'
  BY <1>1 DEF RunnerDecides, SummariesTrue, OneSummary, OutcomeRecorded, Recording
<1> QED
  BY <1>2, <1>3, <1>4, <1>5
-----------------------------------------------------------------------------
\* Recording a summary.  What is known of the summary, and of the others of its
\* handle: while nobody has canceled the statement there are none.
LEMMA SummaryKnown ==
    ASSUME MInv, NEW wr \in writing
    PROVE  /\ wr \in Writes /\ wr.handle \in Handles /\ wr.row \in Rows /\ wr.row # None
           /\ pc[wr.handle] # "absent"
           /\ wr.row.completed <=> wr.row.status \in Terminal
           /\ InMemory(wr.handle) /\ wr.row.completed => wr.row.status = status[wr.handle]
           /\ InMemory(wr.handle) /\ status[wr.handle] # "canceled" =>
                 /\ Recording(wr.handle) = {wr}
                 /\ wr.by = "runner" /\ wr.row.status = status[wr.handle]
                 /\ wr.op = "insert" => history[wr.handle] = None
<1> USE DEF MInv
<1>1. wr \in Writes /\ wr.handle \in Handles /\ wr.row \in Rows /\ wr.row # None
  BY NoneAssumption DEF StateType, Writes
<1>2. wr \in Recording(wr.handle)
  BY DEF Recording
<1>3. pc[wr.handle] # "absent"
  BY <1>1, <1>2 DEF RunnerDecides
<1>4. /\ wr.row.completed <=> wr.row.status \in Terminal
      /\ InMemory(wr.handle) /\ wr.row.completed => wr.row.status = status[wr.handle]
  BY DEF SummariesTrue
<1>5. ASSUME InMemory(wr.handle), status[wr.handle] # "canceled"
      PROVE  /\ Recording(wr.handle) = {wr}
             /\ wr.by = "runner" /\ wr.row.status = status[wr.handle]
             /\ wr.op = "insert" => history[wr.handle] = None
  BY <1>1, <1>2, <1>5 DEF OneSummary
<1> QED
  BY <1>1, <1>3, <1>4, <1>5

\* The summary reaches the row, replacing what was there.
LEMMA RowWritten ==
    ASSUME MInv, NEW wr \in writing,
           history' = [history EXCEPT ![wr.handle] = wr.row],
           writing' = writing \ {wr},
           UNCHANGED <<memVars, lost, runVars>>
    PROVE  MInv'
<1> USE DEF MInv, memVars, runVars
<1> DEFINE h == wr.handle
<1>1. /\ h \in Handles /\ wr.row \in Rows /\ wr.row # None /\ pc[h] # "absent"
      /\ wr.row.completed <=> wr.row.status \in Terminal
      /\ InMemory(h) /\ wr.row.completed => wr.row.status = status[h]
      /\ InMemory(h) /\ status[h] # "canceled" =>
            Recording(h) = {wr} /\ wr.row.status = status[h]
  BY SummaryKnown
<1>2. /\ \A g \in Handles : Recording(g)' = Recording(g) \ {wr}
      /\ \A g \in Handles : InMemory(g)' <=> InMemory(g)
      /\ \A g \in Handles : g # h => history'[g] = history[g]
      /\ history'[h] = wr.row
      /\ \A g \in Handles : g # h => wr \notin Recording(g)
  BY <1>1 DEF Recording, InMemory, StateType
<1> HIDE DEF h
<1>3. StateType'
  BY <1>1, <1>2 DEF StateType, h
<1>4. TerminalRowIsTrue' /\ CanceledReplyIsTrue'
  BY <1>1, <1>2 DEF TerminalRowIsTrue, CanceledReplyIsTrue
<1>5. RunnerDecides' /\ SummariesTrue'
  BY <1>1, <1>2 DEF RunnerDecides, SummariesTrue, InMemory
<1>6. OneSummary'
  BY <1>1, <1>2 DEF OneSummary
<1>7. OutcomeRecorded'
  BY <1>1, <1>2 DEF OutcomeRecorded, InMemory, Statuses, Terminal
<1> QED
  BY <1>3, <1>4, <1>5, <1>6, <1>7

\* An UPDATE that hits no row becomes an INSERT of the same summary.
LEMMA BecomesInsert ==
    ASSUME MInv, NEW wr \in writing,
           history[wr.handle] = None,
           writing' = (writing \ {wr}) \cup {[wr EXCEPT !.op = "insert"]},
           UNCHANGED <<memVars, dbVars, runVars>>
    PROVE  MInv'
<1> USE DEF MInv, memVars, dbVars, runVars
<1> DEFINE h == wr.handle
           new == [wr EXCEPT !.op = "insert"]
<1>1. /\ h \in Handles /\ pc[h] # "absent"
      /\ wr.row.completed <=> wr.row.status \in Terminal
      /\ InMemory(h) /\ wr.row.completed => wr.row.status = status[h]
      /\ InMemory(h) /\ status[h] # "canceled" =>
            Recording(h) = {wr} /\ wr.by = "runner" /\ wr.row.status = status[h]
  BY SummaryKnown
<1>2. /\ new \in Writes /\ new.handle = h /\ new.by = wr.by /\ new.row = wr.row
      /\ history[h] = None /\ writing' = (writing \ {wr}) \cup {new}
  BY SummaryKnown DEF Writes
<1> HIDE DEF new
<1>3. /\ \A g \in Handles : g # h => Recording(g)' = Recording(g)
      /\ Recording(h)' = (Recording(h) \ {wr}) \cup {new}
      /\ \A g \in Handles : InMemory(g)' <=> InMemory(g)
  BY <1>1, <1>2 DEF Recording, InMemory
<1> HIDE DEF h
<1>4. StateType'
  BY <1>1, <1>2 DEF StateType, InMemory
<1>5. TerminalRowIsTrue' /\ CanceledReplyIsTrue'
  BY DEF TerminalRowIsTrue, CanceledReplyIsTrue, InMemory
<1>6. RunnerDecides'
  BY <1>1, <1>3 DEF RunnerDecides
<1>7. SummariesTrue'
  BY <1>1, <1>2 DEF SummariesTrue, InMemory
<1>8. OneSummary'
  BY <1>1, <1>2, <1>3 DEF OneSummary
<1>9. OutcomeRecorded'
  BY <1>1, <1>2, <1>3 DEF OutcomeRecorded
<1> QED
  BY <1>4, <1>5, <1>6, <1>7, <1>8, <1>9

\* A summary that is lost, or refused by the primary key, leaves no row; if it
\* was the outcome of the runner, it was not refused.
LEMMA SummaryDropped ==
    ASSUME MInv, NEW wr \in writing,
           writing' = writing \ {wr},
           \/ lost' = lost \cup {wr.handle}
           \/ lost' = lost /\ wr.op = "insert" /\ history[wr.handle] # None,
           UNCHANGED <<memVars, history, runVars>>
    PROVE  MInv'
<1> USE DEF MInv, memVars, runVars
<1> DEFINE h == wr.handle
<1>1. /\ h \in Handles /\ pc[h] # "absent"
      /\ InMemory(h) /\ status[h] # "canceled" =>
            (wr.op = "insert" => history[h] = None)
  BY SummaryKnown
<1>2. /\ \A g \in Handles : Recording(g)' = Recording(g) \ {wr}
      /\ \A g \in Handles : InMemory(g)' <=> InMemory(g)
      /\ \A g \in Handles : g # h => wr \notin Recording(g)
  BY <1>1 DEF Recording, InMemory
<1>3. h \in lost' \/ (lost' = lost /\ ~(InMemory(h) /\ status[h] # "canceled"))
  BY <1>1
<1>4. lost \subseteq lost' /\ lost' \subseteq lost \cup {h}
  OBVIOUS
<1> HIDE DEF h
<1>5. StateType'
  BY <1>1, <1>4 DEF StateType, InMemory
<1>6. TerminalRowIsTrue' /\ CanceledReplyIsTrue'
  BY DEF TerminalRowIsTrue, CanceledReplyIsTrue, InMemory
<1>7. RunnerDecides' /\ SummariesTrue'
  BY <1>1, <1>2 DEF RunnerDecides, SummariesTrue, InMemory
<1>8. OneSummary'
  BY <1>2 DEF OneSummary
<1>9. OutcomeRecorded'
  BY <1>2, <1>3, <1>4 DEF OutcomeRecorded, InMemory, Statuses, Terminal
<1> QED
  BY <1>5, <1>6, <1>7, <1>8, <1>9

LEMMA RecordPreservesMInv ==
    ASSUME MInv, NEW wr \in writing, Record(wr)
    PROVE  MInv'
<1>1. CASE RecordFails(wr)
  BY <1>1, SummaryDropped DEF RecordFails
<1>2. CASE RecordUpdate(wr)
  <2>1. CASE history[wr.handle] # None
    BY <1>2, <2>1, RowWritten DEF RecordUpdate
  <2>2. CASE history[wr.handle] = None
    BY <1>2, <2>2, BecomesInsert DEF RecordUpdate, dbVars
  <2> QED
    BY <2>1, <2>2
<1>3. CASE RecordInsert(wr)
  <2>1. CASE history[wr.handle] # None
    BY <1>3, <2>1, SummaryDropped DEF RecordInsert
  <2>2. CASE history[wr.handle] = None
    BY <1>3, <2>2, RowWritten DEF RecordInsert
  <2> QED
    BY <2>1, <2>2
<1> QED
  BY <1>1, <1>2, <1>3 DEF Record
-----------------------------------------------------------------------------
LEMMA StepPreservesMInv ==
    ASSUME MInv, NEW h \in Handles, Step(h)
    PROVE  MInv'
<1> USE DEF MInv
<1>1. CASE AnswerBeforeStart(h)
  BY <1>1, SetStatusPreserves DEF AnswerBeforeStart, PCs, Statuses, Terminal
<1>2. CASE Enqueue(h) \/ Run(h)
  BY <1>2, SetStatusPreserves DEF Enqueue, Run, PCs, Statuses, Working, Terminal
<1>3. CASE Succeed(h) \/ SetError(h)
  BY <1>3, SetStatusPreserves DEF Succeed, SetError, PCs, Statuses, Terminal
<1>4. CASE SetCancelFunc(h)
  <2>1. reply' \in [Handles -> Replies \cup {None}]
    BY <1>4 DEF SetCancelFunc, StateType, Replies
  <2>2. cancelFunc' \in [Handles -> BOOLEAN]
    BY <1>4 DEF SetCancelFunc, StateType, InMemory
  <2>3. \A g \in Handles : reply'[g] = "canceled" => reply[g] = "canceled"
    BY <1>4 DEF SetCancelFunc, StateType
  <2>4. /\ pc[h] = "created" /\ pc' = [pc EXCEPT ![h] = "starting"]
        /\ "starting" \in PCs \ {"absent"}
        /\ UNCHANGED <<status, completed, writing, dbVars, ctxDone>>
    BY <1>4 DEF SetCancelFunc, Go, PCs
  <2> QED
    BY <2>1, <2>2, <2>3, <2>4, RunnerMoves DEF StateType, RunnerDecides
<1>5. CASE Fail(h)
  <2>1. /\ pc[h] \in {"starting", "queued", "executing"}
        /\ pc' = [pc EXCEPT ![h] = "failing"]
        /\ "failing" \in PCs \ {"absent"}
        /\ UNCHANGED <<memVars, writing, dbVars, ctxDone, reply>>
    BY <1>5 DEF Fail, Go, PCs
  <2> QED
    BY <2>1, RunnerMoves DEF StateType, RunnerDecides, memVars
<1>6. CASE CheckCanceled(h)
  <2>1. /\ pc[h] = "failing"
        /\ UNCHANGED <<memVars, writing, dbVars, ctxDone>>
        /\ \/ /\ status[h] = "canceled"
              /\ pc' = [pc EXCEPT ![h] = "done"]
              /\ Answer(h, "canceled")
           \/ pc' = [pc EXCEPT ![h] = "reportError"] /\ UNCHANGED reply
    BY <1>6 DEF CheckCanceled, Go
  <2>2. /\ reply' \in [Handles -> Replies \cup {None}]
        /\ \A g \in Handles : reply'[g] = "canceled" =>
              reply[g] = "canceled" \/ status[g] = "canceled"
    BY <2>1 DEF Answer, StateType, Replies
  <2>3. PICK to \in {"done", "reportError"} : pc' = [pc EXCEPT ![h] = to]
    BY <2>1
  <2>4. to \in PCs \ {"absent"} /\ status[h] \notin {"success", "failed"}
    BY <2>1 DEF PCs, RunnerDecides
  <2> QED
    BY <2>1, <2>2, <2>3, <2>4, RunnerMoves DEF StateType, memVars
<1>7. CASE Reply(h)
  <2>1. /\ pc[h] \in {"replySuccess", "replyFailed"}
        /\ pc' = [pc EXCEPT ![h] = "done"]
        /\ "done" \in PCs \ {"absent"}
        /\ UNCHANGED <<memVars, writing, dbVars, ctxDone>>
        /\ Answer(h, "success") \/ Answer(h, "failed")
    BY <1>7 DEF Reply, Go, PCs
  <2>2. /\ reply' \in [Handles -> Replies \cup {None}]
        /\ \A g \in Handles : reply'[g] = "canceled" => reply[g] = "canceled"
    BY <2>1 DEF Answer, StateType, Replies
  <2> QED
    BY <2>1, <2>2, RunnerMoves DEF StateType, memVars
<1> QED
  BY <1>1, <1>2, <1>3, <1>4, <1>5, <1>6, <1>7 DEF Step

LEMMA DisconnectPreservesMInv ==
    ASSUME MInv, NEW h \in Handles, Disconnect(h)
    PROVE  MInv'
<1>1. /\ pc[h] \in {"starting", "queued", "executing"} /\ UNCHANGED <<memVars, writing, dbVars, pc, reply>>
      /\ ctxDone' = [ctxDone EXCEPT ![h] = TRUE]
  BY DEF Disconnect
<1>2. "done" \in PCs \ {"absent"}
  BY DEF PCs
<1> QED
  BY <1>1, <1>2, RunnerMoves DEF MInv, StateType, memVars, RunnerDecides

LEMMA NextPreservesMInv == MInv /\ [Next]_vars => MInv'
<1> SUFFICES ASSUME MInv, [Next]_vars
             PROVE  MInv'
  OBVIOUS
<1>1. ASSUME NEW h \in Handles,
             CreateStatementForUser(h) \/ Step(h) \/ CancelStatement(h) \/ Disconnect(h)
      PROVE  MInv'
  BY <1>1, CreatePreservesMInv, StepPreservesMInv, CancelPreservesMInv, DisconnectPreservesMInv
<1>2. ASSUME NEW wr \in writing, Record(wr)
      PROVE  MInv'
  BY <1>2, RecordPreservesMInv
<1>3. ASSUME NEW expired \in SUBSET Handles, cleanup(expired) \/ pruneHistory(expired)
      PROVE  MInv'
  BY <1>3, CleanupPreservesMInv, PrunePreservesMInv
<1>4. CASE Restart
  BY <1>4, RestartPreservesMInv
<1>5. CASE UNCHANGED vars
  <2>1. UNCHANGED <<status, completed, cancelFunc, writing, history, lost, pc, ctxDone, reply>>
    BY <1>5 DEF vars, memVars, dbVars, runVars
  <2>2. StateType' /\ TerminalRowIsTrue' /\ CanceledReplyIsTrue'
    BY <2>1 DEF MInv, StateType, TerminalRowIsTrue, CanceledReplyIsTrue, InMemory
  <2>3. RunnerDecides' /\ SummariesTrue' /\ OneSummary' /\ OutcomeRecorded'
    BY <2>1 DEF MInv, RunnerDecides, SummariesTrue, OneSummary, OutcomeRecorded, InMemory, Recording
  <2> QED
    BY <2>2, <2>3 DEF MInv
<1> QED
  BY <1>1, <1>2, <1>3, <1>4, <1>5 DEF Next

\* MInv holds in every state of every behaviour, for any set of handles.
THEOREM StatementInvariant == Spec => []MInv
<1> QED
  BY InitMInv, NextPreservesMInv, PTL DEF Spec

\* The manager, its runners and the history stay in their types; a statement in
\* memory has a completion time exactly when it is over, and until it is
\* canceled at most one summary to record, which shows its status in memory.
THEOREM StatementTypeOK == Spec => []TypeOK
<1>1. MInv => TypeOK
  BY DEF MInv, TypeOK
<1> QED
  BY <1>1, StatementInvariant, PTL

\* However the summaries of the runner and of a cancel request reach the
\* history, a row never shows an outcome other than the one in memory.
THEOREM StatementTerminalRowIsTrue == Spec => []TerminalRowIsTrue
<1>1. MInv => TerminalRowIsTrue
  BY DEF MInv
<1> QED
  BY <1>1, StatementInvariant, PTL

\* Once everything recorded of a statement that ran to its end has reached the
\* history or failed to, the row shows its outcome unless a write of it failed.
THEOREM StatementFinishedRowIsLast == Spec => []FinishedRowIsLast
<1>1. MInv => FinishedRowIsLast
  BY DEF MInv, OutcomeRecorded, FinishedRowIsLast
<1> QED
  BY <1>1, StatementInvariant, PTL

\* The client that is told its statement was canceled was not told so in vain:
\* no result and no error replaces the cancellation afterwards.
THEOREM StatementCanceledReplyIsTrue == Spec => []CanceledReplyIsTrue
<1>1. MInv => CanceledReplyIsTrue
  BY DEF MInv
<1> QED
  BY <1>1, StatementInvariant, PTL
-----------------------------------------------------------------------------
\* The completed summaries of a statement show one outcome, and so does its row
\* if it is completed, whether or not memory still knows it.
OneOutcome ==
    \A h \in Handles : \A wr \in Recording(h) : wr.row.completed =>
        /\ \A wr2 \in Recording(h) : wr2.row.completed => wr2.row.status = wr.row.status
        /\ history[h] # None /\ history[h].completed => history[h].status = wr.row.status

\* While the statement is in memory, memory is what they agree with.
LEMMA MemoryKnowsOutcome ==
    ASSUME MInv, NEW h \in Handles, InMemory(h), NEW wr \in Recording(h), wr.row.completed
    PROVE  /\ \A wr2 \in Recording(h) : wr2.row.completed => wr2.row.status = wr.row.status
           /\ history[h] # None /\ history[h].completed => history[h].status = wr.row.status
<1>1. \A w \in Recording(h) : w.row.completed => w.row.status = status[h]
  BY DEF MInv, SummariesTrue, Recording
<1>2. history[h] # None /\ history[h].completed => history[h].status = status[h]
  BY DEF MInv, TerminalRowIsTrue
<1> QED
  BY <1>1, <1>2

\* Nothing new is recorded of a statement that is not in memory; what reaches
\* its row was under way.
LEMMA NothingNewIsRecorded ==
    ASSUME MInv, MInv', [Next]_vars, NEW h \in Handles, ~InMemory(h)'
    PROVE  /\ \A wr \in Recording(h)' : \E old \in Recording(h) : old.row = wr.row
           /\ \/ history'[h] \in {history[h], None}
              \/ \E wr \in Recording(h) :
                    history'[h] = wr.row /\ Recording(h)' = Recording(h) \ {wr}
<1> DEFINE Goal ==
             /\ \A wr \in Recording(h)' : \E old \in Recording(h) : old.row = wr.row
             /\ \/ history'[h] \in {history[h], None}
                \/ \E wr \in Recording(h) :
                      history'[h] = wr.row /\ Recording(h)' = Recording(h) \ {wr}
<1>1. ASSUME writing' = writing, history'[h] \in {history[h], None}
      PROVE  Goal
  BY <1>1 DEF Recording
<1>2. ASSUME NEW g \in Handles, NEW st \in Statuses, setStatus(g, st), history' = history
      PROVE  Goal
  <2>1. CASE status[g] \in {"canceled", "gone"}
    BY <1>1, <1>2, <2>1 DEF setStatus
  <2>2. CASE status[g] \notin {"canceled", "gone"}
    <3>1. /\ status'[g] = st
          /\ writing' = writing \cup {summarize(g, "runner", st, completed'[g])}
      BY <1>2, <2>2 DEF setStatus, MInv, StateType
    <3>2. InMemory(g)'
      BY <3>1 DEF InMemory
    <3>3. g # h
      BY <3>2
    <3>4. Recording(h)' = Recording(h)
      BY <3>1, <3>3 DEF Recording, summarize
    <3> QED
      BY <1>2, <3>4
  <2> QED
    BY <2>1, <2>2
<1>3. ASSUME NEW g \in Handles, Step(g)
      PROVE  Goal
  <2>1. history' = history
    BY <1>3 DEF Step, AnswerBeforeStart, SetCancelFunc, Enqueue, Run, Fail, Succeed,
       CheckCanceled, SetError, Reply, dbVars
  <2>2. writing' = writing \/ \E st \in Statuses : setStatus(g, st)
    BY <1>3 DEF Step, AnswerBeforeStart, SetCancelFunc, Enqueue, Run, Fail, Succeed,
       CheckCanceled, SetError, Reply, Statuses, Working, Terminal
  <2> QED
    BY <1>1, <1>2, <2>1, <2>2
<1>4. ASSUME NEW g \in Handles, CancelStatement(g)
      PROVE  Goal
  <2>1. /\ status'[g] = "canceled" /\ history' = history
        /\ writing' = writing \cup {summarize(g, "canceler", "canceled", TRUE)}
    BY <1>4 DEF CancelStatement, dbVars, MInv, StateType
  <2>2. InMemory(g)'
    BY <2>1 DEF InMemory, Statuses, Terminal
  <2>3. g # h
    BY <2>2
  <2>4. Recording(h)' = Recording(h)
    BY <2>1, <2>3 DEF Recording, summarize
  <2> QED
    BY <2>1, <2>4
<1>5. ASSUME NEW wr \in writing, Record(wr)
      PROVE  Goal
  <2>1. wr.handle \in Handles /\ wr \in Writes
    BY <1>5, SummaryKnown
  <2>2. CASE history' = history /\ writing' = writing \ {wr}
    BY <2>2 DEF Recording
  <2>3. CASE /\ history' = [history EXCEPT ![wr.handle] = wr.row]
             /\ writing' = writing \ {wr}
    <3>1. CASE wr.handle = h
      <4>1. wr \in Recording(h) /\ history'[h] = wr.row
        BY <2>1, <2>3, <3>1 DEF Recording, MInv, StateType
      <4>2. Recording(h)' = Recording(h) \ {wr}
        BY <2>3 DEF Recording
      <4> QED
        BY <4>1, <4>2
    <3>2. CASE wr.handle # h
      <4>1. history'[h] = history[h]
        BY <2>3, <3>2 DEF MInv, StateType
      <4>2. Recording(h)' = Recording(h)
        BY <2>3, <3>2 DEF Recording
      <4> QED
        BY <4>1, <4>2
    <3> QED
      BY <3>1, <3>2
  <2>4. CASE /\ history' = history
             /\ writing' = (writing \ {wr}) \cup {[wr EXCEPT !.op = "insert"]}
    <3>1. [wr EXCEPT !.op = "insert"].row = wr.row /\ [wr EXCEPT !.op = "insert"].handle = wr.handle
      BY <2>1 DEF Writes
    <3>2. \A w \in Recording(h)' : \E old \in Recording(h) : old.row = w.row
      BY <2>4, <3>1 DEF Recording
    <3> QED
      BY <2>4, <3>2
  <2> QED
    BY <1>5, <2>2, <2>3, <2>4 DEF Record, RecordUpdate, RecordInsert, RecordFails
<1>6. CASE Restart
  BY <1>6 DEF Restart, Recording, dbVars
<1>7. ASSUME NEW expired \in SUBSET Handles, cleanup(expired) \/ pruneHistory(expired)
      PROVE  Goal
  <2>1. writing' = writing /\ history'[h] \in {history[h], None}
    BY <1>7 DEF cleanup, pruneHistory, dbVars
  <2> QED
    BY <1>1, <2>1
<1>8. ASSUME NEW g \in Handles, CreateStatementForUser(g) \/ Disconnect(g)
      PROVE  Goal
  <2>1. writing' = writing /\ history' = history
    BY <1>8 DEF CreateStatementForUser, Disconnect, dbVars
  <2> QED
    BY <1>1, <2>1
<1>9. CASE UNCHANGED vars
  BY <1>1, <1>9 DEF vars, dbVars
<1> QED
  BY <1>3, <1>4, <1>5, <1>6, <1>7, <1>8, <1>9 DEF Next

LEMMA OneOutcomeKept ==
    ASSUME MInv, MInv', OneOutcome, [Next]_vars
    PROVE  OneOutcome'
<1> SUFFICES ASSUME NEW h \in Handles, NEW wr \in Recording(h)', wr.row.completed
             PROVE  /\ \A wr2 \in Recording(h)' :
                          wr2.row.completed => wr2.row.status = wr.row.status
                    /\ history'[h] # None /\ history'[h].completed =>
                          history'[h].status = wr.row.status
  BY DEF OneOutcome
<1>1. CASE InMemory(h)'
  <2>1. \A w \in Recording(h)' : w.row.completed => w.row.status = status'[h]
    BY <1>1 DEF MInv, SummariesTrue, Recording
  <2>2. history'[h] # None /\ history'[h].completed => history'[h].status = status'[h]
    BY <1>1 DEF MInv, TerminalRowIsTrue
  <2> QED
    BY <2>1, <2>2
<1>2. CASE ~InMemory(h)'
  <2>1. PICK old \in Recording(h) : old.row = wr.row
    BY <1>2, NothingNewIsRecorded
  <2>2. \A wr2 \in Recording(h)' : wr2.row.completed => wr2.row.status = wr.row.status
    BY <1>2, <2>1, NothingNewIsRecorded DEF OneOutcome
  <2>3. CASE history'[h] \in {history[h], None}
    BY <2>1, <2>2, <2>3 DEF OneOutcome
  <2>4. CASE \E w \in Recording(h) : history'[h] = w.row
    BY <2>1, <2>2, <2>4 DEF OneOutcome
  <2> QED
    BY <1>2, <2>2, <2>3, <2>4, NothingNewIsRecorded
<1> QED
  BY <1>1, <1>2

\* An outcome the history has shown is not replaced by another one: of the two
\* writers one decides, and what is still under way agrees with it even when the
\* statement is forgotten (statement_manager.go:205-240, 318-345).
THEOREM StatementOutcomeNotRevised == Spec => OutcomeNotRevised
<1>1. Init => OneOutcome
  BY DEF Init, OneOutcome, Recording
<1>2. MInv /\ MInv' /\ OneOutcome /\ [Next]_vars => OneOutcome'
  BY OneOutcomeKept
<1>3. MInv /\ MInv' /\ OneOutcome /\ [Next]_vars =>
        [\A h \in Handles :
            /\ history[h] # None /\ history[h].completed
            /\ history'[h] # None /\ history'[h].completed
            => history'[h].status = history[h].status]_vars
  <2> SUFFICES ASSUME MInv, OneOutcome, Next, NEW h \in Handles,
                      history[h] # None, history[h].completed,
                      history'[h] # None, history'[h].completed
               PROVE  history'[h].status = history[h].status
    OBVIOUS
  <2>1. CASE history'[h] = history[h]
    BY <2>1
  <2>2. ASSUME NEW wr \in writing, Record(wr), history'[h] # history[h]
        PROVE  wr \in Recording(h) /\ history'[h] = wr.row
    BY <2>2, SummaryKnown DEF Record, RecordUpdate, RecordInsert, RecordFails, Recording,
       MInv, StateType
  <2>3. ASSUME NEW expired \in SUBSET Handles, pruneHistory(expired)
        PROVE  history'[h] \in {history[h], None}
    BY <2>3 DEF pruneHistory
  <2>4. CASE history'[h] # history[h]
    <3>1. PICK wr \in writing : Record(wr)
      BY <2>3, <2>4 DEF Next, CreateStatementForUser, Step, AnswerBeforeStart, SetCancelFunc,
         Enqueue, Run, Fail, Succeed, CheckCanceled, SetError, Reply, CancelStatement,
         Disconnect, cleanup, Restart, dbVars
    <3>2. wr \in Recording(h) /\ history'[h] = wr.row
      BY <2>2, <2>4, <3>1
    <3> QED
      BY <3>2 DEF OneOutcome
  <2> QED
    BY <2>1, <2>4
<1> QED
  BY <1>1, <1>2, <1>3, StatementInvariant, PTL DEF Spec, OutcomeNotRevised
=============================================================================
