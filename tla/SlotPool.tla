------------------------------ MODULE SlotPool ------------------------------
(***************************************************************************)
(* What a warehouse promises the statements that use it: a pool of slots   *)
(* handed out first come, first served.  There is no lock, no channel, no  *)
(* counter and no catalog here; Warehouse implements this specification    *)
(* under the mapping at the end of that module.                            *)
(***************************************************************************)
EXTENDS Integers, Sequences, FiniteSets

CONSTANTS
    Pools,
    Clients,
    Capacities    \* the numbers of slots a pool may have

VARIABLES
    open,         \* whether a pool hands out slots
    slots,        \* how many it has
    holders,      \* the clients that own one
    line          \* the clients that wait, in the order they came

vars == <<open, slots, holders, line>>

\* The first n clients of a line.
Front(L, n) == {L[i] : i \in 1..n}

\* How many clients of the line L a pool of c slots lets in, while the clients
\* H hold theirs.
Fits(isOpen, c, H, L) ==
    LET free == IF isOpen /\ c > Cardinality(H) THEN c - Cardinality(H) ELSE 0
    IN  IF free < Len(L) THEN free ELSE Len(L)

\* Pool p is left with holders H, line L and c slots: while it is open, the
\* head of the line moves into the free slots, and nobody else does.
Settle(p, isOpen, c, H, L) ==
    LET n == Fits(isOpen, c, H, L)
    IN  /\ slots' = [slots EXCEPT ![p] = c]
        /\ open' = [open EXCEPT ![p] = isOpen]
        /\ holders' = [holders EXCEPT ![p] = H \cup Front(L, n)]
        /\ line' = [line EXCEPT ![p] = SubSeq(L, n + 1, Len(L))]

\* A pool opens once everyone who held a slot before it closed has left.
Open(p) ==
    /\ ~open[p] /\ holders[p] = {}
    /\ Settle(p, TRUE, slots[p], {}, line[p])

Resize(p, c) == Settle(p, open[p], c, holders[p], line[p])

\* A client that comes to an empty closed pool may open it.
Join(s, p) ==
    /\ \A q \in Pools : s \notin holders[q] /\ \A i \in DOMAIN line[q] : line[q][i] # s
    /\ open[p] \/ holders[p] = {}
    /\ Settle(p, TRUE, slots[p], holders[p], Append(line[p], s))

Leave(s, p) ==
    /\ s \in holders[p]
    /\ Settle(p, open[p], slots[p], holders[p] \ {s}, line[p])

Withdraw(p, i) ==
    /\ i \in DOMAIN line[p]
    /\ line' = [line EXCEPT ![p] = SubSeq(@, 1, i - 1) \o SubSeq(@, i + 1, Len(@))]
    /\ UNCHANGED <<open, slots, holders>>

\* Closing turns away the whole line; holders keep their slots.
Close(ps) ==
    /\ open' = [p \in Pools |-> open[p] /\ p \notin ps]
    /\ line' = [p \in Pools |-> IF p \in ps THEN <<>> ELSE line[p]]
    /\ slots' \in [Pools -> Capacities]
    /\ \A p \in Pools : slots'[p] # slots[p] => p \in ps /\ holders[p] = {}
    /\ UNCHANGED holders

\* The process that keeps the pools restarts.
Reset ==
    /\ open' = [p \in Pools |-> FALSE]
    /\ slots' \in [Pools -> Capacities]
    /\ holders' = [p \in Pools |-> {}]
    /\ line' = [p \in Pools |-> <<>>]

Init ==
    /\ open = [p \in Pools |-> FALSE]
    /\ slots \in [Pools -> Capacities]
    /\ holders = [p \in Pools |-> {}]
    /\ line = [p \in Pools |-> <<>>]

Next ==
    \/ \E p \in Pools : Open(p)
    \/ \E p \in Pools, c \in Capacities : Resize(p, c)
    \/ \E s \in Clients, p \in Pools : Join(s, p)
    \/ \E s \in Clients, p \in Pools : Leave(s, p)
    \/ \E p \in Pools : \E i \in DOMAIN line[p] : Withdraw(p, i)
    \/ \E ps \in SUBSET Pools : Close(ps)
    \/ Reset

Spec == Init /\ [][Next]_vars
=============================================================================
