----------------------------- MODULE Warehouse -----------------------------
(***************************************************************************)
(* Virtual warehouses: lifecycle and admission control.                    *)
(* Source: pkg/warehouse/manager.go and                                    *)
(* pkg/metadata/warehouse_repository.go.                                   *)
(*                                                                         *)
(* Every method of the Manager runs under Manager.mu, so it is one action. *)
(* The exception is Acquire of a full warehouse: the caller enqueues       *)
(* itself, unlocks, and blocks in a select on its ready channel and on its *)
(* context.  Enqueueing (Acquire), taking the answer (PickUp) and giving   *)
(* up (GiveUp) are therefore three actions, and everything may happen in   *)
(* between.                                                                *)
(*                                                                         *)
(* A method that returns an error before changing anything is a stuttering *)
(* step and has no disjunct.                                               *)
(***************************************************************************)
EXTENDS Integers, Sequences, FiniteSets

CONSTANTS
    Warehouses,   \* normalized warehouse names
    Statements,   \* goroutines that call Acquire, one statement at a time
    Sizes,        \* X-SMALL .. 6X-LARGE
    AutoSuspends, \* idle seconds before auto-suspension, 0 for never
    Capacity,     \* statements a warehouse of each size runs at once
    None          \* no row in the catalog; no call in progress

ASSUME CapacityAssumption == Capacity \in [Sizes -> Nat \ {0}]
ASSUME StatementsAssumption == IsFiniteSet(Statements)
ASSUME SettingsAssumption == Sizes # {} /\ AutoSuspends # {} /\ AutoSuspends \subseteq Nat

VARIABLES
    state,        \* lifecycle of each warehouse, "ABSENT" if not in the map
    settings,     \* Size, AutoResume and AutoSuspend
    running,      \* Warehouse.Running
    queued,       \* Warehouse.Queued
    queue,        \* runtimeWarehouse.queue
    catalog,      \* rows of _metadata_warehouses
    unsaved,      \* history variable: warehouses whose last write failed
    pc,           \* where each statement is in Acquire
    target,       \* the warehouse it asked for
    ready,        \* contents of waiter.ready (and waiter.admitted)
    canceled      \* its context is done

whVars == <<state, settings, running, queued, queue>>
dbVars == <<catalog, unsaved>>
stVars == <<pc, target, ready, canceled>>
vars == <<whVars, dbVars, stVars>>
-----------------------------------------------------------------------------
\* Type definitions

\* RESUMING is assigned and overwritten inside one critical section
\* (resume), so no other goroutine and no persisted row ever shows it.
States == {"ABSENT", "SUSPENDED", "ACTIVE", "SUSPENDING"}
Settings == [size : Sizes, autoResume : BOOLEAN, autoSuspend : AutoSuspends]
Rows == [state : States \ {"ABSENT"}, settings : Settings]

ASSUME NoneAssumption == None \notin Warehouses /\ None \notin Rows

\* What settings holds for a warehouse that does not exist.
NoSettings == CHOOSE cfg \in Settings : TRUE

\* The row persist writes for warehouse w: the counters are not part of it.
Row(st, cfg) == IF st = "ABSENT" THEN None ELSE [state |-> st, settings |-> cfg]

InLine(s, w) == \E i \in 1..Len(queue[w]) : queue[w][i] = s

\* The statements that own one of w's slots: those with a lease, and those
\* already admitted that have not yet returned from the select.
Holders(w) ==
    {s \in Statements : /\ target[s] = w
                        /\ \/ pc[s] = "holding"
                           \/ pc[s] = "waiting" /\ ready[s] = "granted"}
-----------------------------------------------------------------------------
\* Helpers

\* append(queue[:i], queue[i+1:]...)
Without(q, i) == [j \in 1..(Len(q) - 1) |-> IF j < i THEN q[j] ELSE q[j + 1]]

Room(w, st, cfg, run) ==
    IF st = "ACTIVE" /\ run < Capacity[cfg.size] THEN Capacity[cfg.size] - run ELSE 0

\* The number of waiters the loop of admit takes from the head of the queue.
Admissible(w, st, cfg, run) ==
    LET room == Room(w, st, cfg, run)
    IN  IF room < Len(queue[w]) THEN room ELSE Len(queue[w])

\* Fault: admit takes the waiters from the tail of the queue.
admitLatest(w, st, cfg, run, answered) ==
    LET n == Admissible(w, st, cfg, run)
        left == Len(queue[w]) - n
    IN  /\ running' = [running EXCEPT ![w] = run + n]
        /\ queued' = [queued EXCEPT ![w] = @ - n]
        /\ queue' = [queue EXCEPT ![w] = SubSeq(@, 1, left)]
        /\ ready' = [s \in Statements |->
                        IF \E i \in left + 1..left + n : queue[w][i] = s
                        THEN "granted" ELSE answered[s]]

\* admit: with state st, settings cfg and run statements running, the head of
\* the queue moves into the free slots; answered is what else changed in ready.
admit(w, st, cfg, run, answered) ==
    LET n == Admissible(w, st, cfg, run)
    IN  /\ running' = [running EXCEPT ![w] = run + n]
        /\ queued' = [queued EXCEPT ![w] = @ - n]
        /\ queue' = [queue EXCEPT ![w] = SubSeq(@, n + 1, Len(@))]
        /\ ready' = [s \in Statements |->
                        IF \E i \in 1..n : queue[w][i] = s THEN "granted" ELSE answered[s]]

\* persist: the write of w's row succeeds or fails.  Either way the change in
\* memory stands.
persist(w, st, cfg) ==
    \/ /\ catalog' = [catalog EXCEPT ![w] = Row(st, cfg)]
       /\ unsaved' = unsaved \ {w}
    \/ /\ UNCHANGED catalog
       /\ unsaved' = unsaved \cup {w}

\* Fault: the last release leaves a suspending warehouse as it is.
releaseForgetsSuspension(w, answered) ==
    /\ admit(w, state[w], settings[w], running[w] - 1, answered)
    /\ persist(w, state[w], settings[w])
    /\ UNCHANGED <<state, settings>>

\* releaseLocked and the persist its two callers make right after it.  The
\* slot is given back, and either the suspension that was waiting for it
\* completes or the queue moves up.
releaseLocked(w, answered) ==
    LET run == running[w] - 1
        st == IF state[w] = "SUSPENDING" /\ run = 0 THEN "SUSPENDED" ELSE state[w]
    IN  /\ state' = [state EXCEPT ![w] = st]
        /\ admit(w, st, settings[w], run, answered)
        /\ persist(w, st, settings[w])
        /\ UNCHANGED settings
-----------------------------------------------------------------------------
\* Lifecycle statements (CREATE / ALTER / DROP WAREHOUSE)

\* The row is written first; a failed write leaves nothing behind.
CreateWarehouseWithSettings(w, cfg) ==
    /\ state[w] = "ABSENT"
    /\ state' = [state EXCEPT ![w] = "SUSPENDED"]
    /\ settings' = [settings EXCEPT ![w] = cfg]
    /\ running' = [running EXCEPT ![w] = 0]
    /\ queued' = [queued EXCEPT ![w] = 0]
    /\ queue' = [queue EXCEPT ![w] = <<>>]
    /\ catalog' = [catalog EXCEPT ![w] = Row("SUSPENDED", cfg)]
    /\ unsaved' = unsaved \ {w}
    /\ UNCHANGED stVars

ResumeWarehouse(w) ==
    /\ state[w] = "SUSPENDED"
    /\ state' = [state EXCEPT ![w] = "ACTIVE"]
    /\ persist(w, "ACTIVE", settings[w])
    /\ UNCHANGED <<settings, running, queued, queue, stVars>>

\* SuspendWarehouse up to what it does to the queue.
suspendLifecycle(w, st) ==
    /\ state[w] \in {"ACTIVE", "SUSPENDING"}
    /\ state' = [state EXCEPT ![w] = st]
    /\ persist(w, st, settings[w])
    /\ UNCHANGED <<settings, running, pc, target, canceled>>

rejectQueue(w) ==
    ready' = [s \in Statements |-> IF InLine(s, w) THEN "rejected" ELSE ready[s]]

\* Faults: the queue is not cleared; its waiters are not answered.
SuspendKeepsQueue(w) ==
    /\ suspendLifecycle(w, IF running[w] = 0 THEN "SUSPENDED" ELSE "SUSPENDING")
    /\ rejectQueue(w)
    /\ queued' = [queued EXCEPT ![w] = 0]
    /\ UNCHANGED queue

SuspendForgetsWaiters(w) ==
    /\ suspendLifecycle(w, IF running[w] = 0 THEN "SUSPENDED" ELSE "SUSPENDING")
    /\ queue' = [queue EXCEPT ![w] = <<>>]
    /\ queued' = [queued EXCEPT ![w] = 0]
    /\ UNCHANGED ready

\* Every queued statement is answered with an error; running ones finish.
SuspendWarehouse(w) ==
    /\ suspendLifecycle(w, IF running[w] = 0 THEN "SUSPENDED" ELSE "SUSPENDING")
    /\ rejectQueue(w)
    /\ queue' = [queue EXCEPT ![w] = <<>>]
    /\ queued' = [queued EXCEPT ![w] = 0]

\* Fault: a larger size admits nobody.
AlterWithoutAdmit(w, cfg) ==
    /\ state[w] # "ABSENT"
    /\ settings' = [settings EXCEPT ![w] = cfg]
    /\ persist(w, state[w], cfg)
    /\ UNCHANGED <<state, running, queued, queue, stVars>>

\* New settings apply at once: a larger size admits waiters, a smaller one
\* interrupts nobody.
AlterWarehouse(w, cfg) ==
    /\ state[w] # "ABSENT"
    /\ settings' = [settings EXCEPT ![w] = cfg]
    /\ admit(w, state[w], cfg, running[w], ready)
    /\ persist(w, state[w], cfg)
    /\ UNCHANGED <<state, pc, target, canceled>>

\* The row is deleted first; if that fails the warehouse stays.
DropWarehouse(w) ==
    /\ state[w] # "ABSENT"
    /\ running[w] = 0
    /\ queued[w] = 0
    /\ state' = [state EXCEPT ![w] = "ABSENT"]
    /\ settings' = [settings EXCEPT ![w] = NoSettings]
    /\ queue' = [queue EXCEPT ![w] = <<>>]
    /\ catalog' = [catalog EXCEPT ![w] = None]
    /\ unsaved' = unsaved \ {w}
    /\ UNCHANGED <<running, queued, stVars>>

\* One tick of StartAutoSuspend.  The map is visited in no particular order
\* and the elapsed time is not modelled, so any idle warehouses may be due.
\* The loop returns at the first row it cannot write, which is suspended in
\* memory nevertheless.
CheckAutoSuspend(due) ==
    /\ due # {}
    /\ \A w \in due : /\ state[w] = "ACTIVE"
                      /\ settings[w].autoSuspend > 0
                      /\ running[w] = 0
                      /\ queued[w] = 0
    /\ state' = [w \in Warehouses |-> IF w \in due THEN "SUSPENDED" ELSE state[w]]
    /\ \E failed \in SUBSET due :
          /\ Cardinality(failed) <= 1
          /\ catalog' = [w \in Warehouses |-> IF w \in due \ failed
                                              THEN Row("SUSPENDED", settings[w])
                                              ELSE catalog[w]]
          /\ unsaved' = (unsaved \ due) \cup failed
    /\ UNCHANGED <<settings, running, queued, queue, stVars>>
-----------------------------------------------------------------------------
\* Admission

\* A slot is free and nobody waits for one: take it.  Otherwise wait at the
\* end of the queue.
Enter(s, w) ==
    /\ target' = [target EXCEPT ![s] = w]
    /\ \/ /\ queue[w] = <<>> /\ running[w] < Capacity[settings[w].size]
          /\ running' = [running EXCEPT ![w] = @ + 1]
          /\ pc' = [pc EXCEPT ![s] = "holding"]
          /\ UNCHANGED <<queued, queue>>
       \/ /\ ~(queue[w] = <<>> /\ running[w] < Capacity[settings[w].size])
          /\ queue' = [queue EXCEPT ![w] = Append(@, s)]
          /\ queued' = [queued EXCEPT ![w] = @ + 1]
          /\ pc' = [pc EXCEPT ![s] = "waiting"]
          /\ UNCHANGED running
    /\ UNCHANGED <<settings, ready, canceled>>

\* Acquire up to its select.  A suspended warehouse with AUTO_RESUME resumes
\* first, and if that cannot be written the call fails with the warehouse
\* left active in memory.
Acquire(s, w) ==
    /\ pc[s] = "idle"
    /\ \/ /\ state[w] = "ACTIVE"
          /\ Enter(s, w)
          /\ UNCHANGED <<state, dbVars>>
       \/ /\ state[w] = "SUSPENDED" /\ settings[w].autoResume
          /\ state' = [state EXCEPT ![w] = "ACTIVE"]
          /\ persist(w, "ACTIVE", settings[w])
          /\ IF w \in unsaved' THEN UNCHANGED <<settings, running, queued, queue, stVars>>
                               ELSE Enter(s, w)

\* The client cancels the statement, disconnects, or times out.
CancelContext(s) ==
    /\ pc[s] = "waiting"
    /\ canceled' = [canceled EXCEPT ![s] = TRUE]
    /\ UNCHANGED <<whVars, dbVars, pc, target, ready>>

\* The call is over: its waiter, lease and context are garbage.
Return(s) ==
    /\ pc' = [pc EXCEPT ![s] = "idle"]
    /\ target' = [target EXCEPT ![s] = None]
    /\ canceled' = [canceled EXCEPT ![s] = FALSE]

\* The select receives from ready.  With the context done as well, select may
\* take either branch.
PickUp(s) ==
    /\ pc[s] = "waiting"
    /\ ready' = [ready EXCEPT ![s] = "empty"]
    /\ \/ /\ ready[s] = "granted"
          /\ pc' = [pc EXCEPT ![s] = "holding"]
          /\ canceled' = [canceled EXCEPT ![s] = FALSE]
          /\ UNCHANGED target
       \/ /\ ready[s] = "rejected"
          /\ Return(s)
    /\ UNCHANGED <<whVars, dbVars>>

\* Fault: the slot of a statement canceled after its admission is not returned.
GiveUpLeaksSlot(s) ==
    LET w == target[s]
    IN
    /\ pc[s] = "waiting"
    /\ canceled[s]
    /\ Return(s)
    /\ \/ \E i \in 1..Len(queue[w]) :
             /\ queue[w][i] = s
             /\ queue' = [queue EXCEPT ![w] = Without(@, i)]
             /\ queued' = [queued EXCEPT ![w] = @ - 1]
             /\ UNCHANGED <<state, settings, running, dbVars, ready>>
       \/ /\ ~InLine(s, w)
          /\ ready' = [ready EXCEPT ![s] = "empty"]
          /\ UNCHANGED <<whVars, dbVars>>

\* The select receives from ctx.Done: the statement leaves the queue, or
\* gives back the slot it was admitted to in the meantime.
GiveUp(s) ==
    LET w == target[s]
        left == [ready EXCEPT ![s] = "empty"]
        admitted == ready[s] = "granted" /\ state[w] # "ABSENT" /\ running[w] > 0
    IN
    /\ pc[s] = "waiting"
    /\ canceled[s]
    /\ Return(s)
    /\ \/ \E i \in 1..Len(queue[w]) :
             /\ queue[w][i] = s
             /\ queue' = [queue EXCEPT ![w] = Without(@, i)]
             /\ queued' = [queued EXCEPT ![w] = @ - 1]
             /\ UNCHANGED <<state, settings, running, dbVars, ready>>
       \/ /\ ~InLine(s, w) /\ admitted
          /\ releaseLocked(w, left)
       \/ /\ ~InLine(s, w) /\ ~admitted
          /\ ready' = left
          /\ UNCHANGED <<whVars, dbVars>>

\* Lease.Release, deferred by the executor around the statement.
Release(s) ==
    LET w == target[s]
    IN
    /\ pc[s] = "holding"
    /\ Return(s)
    /\ IF state[w] # "ABSENT" /\ running[w] > 0
       THEN releaseLocked(w, ready)
       ELSE UNCHANGED <<whVars, dbVars, ready>>
-----------------------------------------------------------------------------
\* The process dies and comes back: leases and waiters are gone, and every
\* warehouse in the catalog is loaded and rewritten as SUSPENDED.
NewPersistentManager ==
    /\ state' = [w \in Warehouses |-> IF catalog[w] = None THEN "ABSENT" ELSE "SUSPENDED"]
    /\ settings' = [w \in Warehouses |-> IF catalog[w] = None THEN NoSettings
                                         ELSE catalog[w].settings]
    /\ running' = [w \in Warehouses |-> 0]
    /\ queued' = [w \in Warehouses |-> 0]
    /\ queue' = [w \in Warehouses |-> <<>>]
    /\ catalog' = [w \in Warehouses |-> IF catalog[w] = None THEN None
                                        ELSE [catalog[w] EXCEPT !.state = "SUSPENDED"]]
    /\ unsaved' = {}
    /\ pc' = [s \in Statements |-> "idle"]
    /\ ready' = [s \in Statements |-> "empty"]
    /\ canceled' = [s \in Statements |-> FALSE]
    /\ target' = [s \in Statements |-> None]
-----------------------------------------------------------------------------
Init ==
    /\ state = [w \in Warehouses |-> "ABSENT"]
    /\ settings = [w \in Warehouses |-> NoSettings]
    /\ running = [w \in Warehouses |-> 0]
    /\ queued = [w \in Warehouses |-> 0]
    /\ queue = [w \in Warehouses |-> <<>>]
    /\ catalog = [w \in Warehouses |-> None]
    /\ unsaved = {}
    /\ pc = [s \in Statements |-> "idle"]
    /\ target = [s \in Statements |-> None]
    /\ ready = [s \in Statements |-> "empty"]
    /\ canceled = [s \in Statements |-> FALSE]

Next ==
    \/ \E w \in Warehouses, cfg \in Settings : CreateWarehouseWithSettings(w, cfg)
    \/ \E w \in Warehouses : ResumeWarehouse(w)
    \/ \E w \in Warehouses : SuspendWarehouse(w)
    \/ \E w \in Warehouses, cfg \in Settings : AlterWarehouse(w, cfg)
    \/ \E w \in Warehouses : DropWarehouse(w)
    \/ \E due \in SUBSET Warehouses : CheckAutoSuspend(due)
    \/ \E s \in Statements, w \in Warehouses : Acquire(s, w)
    \/ \E s \in Statements : CancelContext(s)
    \/ \E s \in Statements : PickUp(s)
    \/ \E s \in Statements : GiveUp(s)
    \/ \E s \in Statements : Release(s)
    \/ NewPersistentManager

Spec == Init /\ [][Next]_vars

\* The goroutines of the waiters and of the lease holders keep running: a
\* blocked select with a ready branch takes one, and a statement that owns a
\* slot ends.  Nobody has to submit, cancel, resize or suspend anything.
Fairness ==
    \A s \in Statements : WF_vars(PickUp(s)) /\ WF_vars(GiveUp(s)) /\ WF_vars(Release(s))

FairSpec == Spec /\ Fairness
-----------------------------------------------------------------------------
\* Every variable has its type; an idle statement carries nothing over from
\* its last call (manager.go:230-295, whose locals die with the call).
TypeOK ==
    /\ state \in [Warehouses -> States]
    /\ settings \in [Warehouses -> Settings]
    /\ running \in [Warehouses -> Nat]
    /\ queued \in [Warehouses -> Nat]
    /\ queue \in [Warehouses -> Seq(Statements)]
    /\ catalog \in [Warehouses -> Rows \cup {None}]
    /\ unsaved \in SUBSET Warehouses
    /\ pc \in [Statements -> {"idle", "waiting", "holding"}]
    /\ target \in [Statements -> Warehouses \cup {None}]
    /\ ready \in [Statements -> {"empty", "granted", "rejected"}]
    /\ canceled \in [Statements -> BOOLEAN]
    /\ \A s \in Statements : /\ pc[s] = "idle" <=> target[s] = None
                             /\ pc[s] # "waiting" => ready[s] = "empty" /\ ~canceled[s]

\* Each queue holds exactly the statements blocked on its warehouse without
\* an answer, once each, and Queued counts them.  It would break if an answer
\* and a removal ever came apart, as when a canceled waiter is answered too.
QueueIsWaiters ==
    \A w \in Warehouses :
        /\ queued[w] = Len(queue[w])
        /\ \A i, j \in 1..Len(queue[w]) : queue[w][i] = queue[w][j] => i = j
        /\ \A s \in Statements :
              InLine(s, w) <=> target[s] = w /\ pc[s] = "waiting" /\ ready[s] = "empty"

\* Running is the number of slots actually owned: nothing is leaked when an
\* admitted statement is canceled before it picks up its lease, and nothing
\* is given back twice.
SlotAccounting ==
    \A w \in Warehouses : running[w] = Cardinality(Holders(w))

\* A statement never waits for a free slot: whenever somebody queues, the
\* warehouse is active and full, after every resize, release and cancel.
WorkConserving ==
    \A w \in Warehouses :
        queue[w] # <<>> => /\ state[w] = "ACTIVE"
                           /\ running[w] >= Capacity[settings[w].size]

\* The lifecycle agrees with the load: a warehouse that is suspended or
\* dropped runs nothing, and one that is suspending still does, so the
\* suspension has a release to complete it.
LifecycleMatchesLoad ==
    \A w \in Warehouses :
        /\ state[w] \in {"ABSENT", "SUSPENDED"} => running[w] = 0
        /\ state[w] = "SUSPENDING" => running[w] > 0

\* What a restart would load is what memory holds, for every warehouse whose
\* last write succeeded: no method changes a durable field without writing it.
CatalogCurrent ==
    \A w \in Warehouses \ unsaved : catalog[w] = Row(state[w], settings[w])

\* Admission never takes a warehouse over its size: Running exceeds Capacity
\* only after a resize below it, and then it only falls (manager.go:252, 355).
NeverOverAdmits ==
    [][\A w \in Warehouses : running'[w] > running[w] =>
                              running'[w] <= Capacity[settings'[w].size]]_vars

\* Every statement that queues gets a lease or an error.
WaitersAnswered ==
    \A s \in Statements : pc[s] = "waiting" ~> pc[s] # "waiting"

\* A warehouse told to suspend while statements run does get suspended.
SuspensionCompletes ==
    \A w \in Warehouses : state[w] = "SUSPENDING" ~> state[w] # "SUSPENDING"

\* Warehouse hands out slots as SlotPool says: first come first served, never
\* over capacity, and no free slot left while somebody waits.
Pool == INSTANCE SlotPool WITH
            Pools <- Warehouses,
            Clients <- Statements,
            Capacities <- {Capacity[z] : z \in Sizes},
            open <- [w \in Warehouses |-> state[w] = "ACTIVE"],
            slots <- [w \in Warehouses |-> Capacity[settings[w].size]],
            holders <- [w \in Warehouses |-> Holders(w)],
            line <- queue

ImplementsSlotPool == Pool!Spec
=============================================================================
