-------------------------- MODULE WarehouseProofs --------------------------
(***************************************************************************)
(* Proofs about Warehouse, for any number of warehouses, statements and    *)
(* sizes.  The inductive invariant WInv is the conjunction of the          *)
(* invariants that TLC checks: none of them is inductive alone, since the  *)
(* counters are natural numbers only because they count what the queue and *)
(* the program counters say.  With it, every step is one of SlotPool under *)
(* the mapping of Warehouse, or changes nothing that SlotPool sees.        *)
(***************************************************************************)
EXTENDS Warehouse, FiniteSetTheorems, SequenceTheorems, TLAPS

\* The inductive invariant.
WInv ==
    /\ TypeOK
    /\ QueueIsWaiters
    /\ SlotAccounting
    /\ WorkConserving
    /\ LifecycleMatchesLoad
-----------------------------------------------------------------------------
\* A distinct prefix of a queue has as many members as its length, so a loop
\* that admits n waiters one by one adds n distinct holders.
LEMMA PrefixCardinality ==
    ASSUME NEW q \in Seq(Statements), NEW n \in 0..Len(q),
           \A i, j \in 1..Len(q) : q[i] = q[j] => i = j
    PROVE  /\ IsFiniteSet({q[i] : i \in 1..n})
           /\ Cardinality({q[i] : i \in 1..n}) = n
<1> DEFINE P == {q[i] : i \in 1..n}
           f == [i \in 1..n |-> q[i]]
<1>1. n \in Nat /\ 1..n \subseteq 1..Len(q)
  BY LenProperties
<1>2. IsFiniteSet(1..n) /\ Cardinality(1..n) = n
  BY <1>1, FS_Interval
<1>3. f \in Bijection(1..n, P)
  BY <1>1 DEF Bijection, Injection, Surjection, IsInjective
<1>4. ExistsBijection(1..n, P)
  BY <1>3 DEF ExistsBijection
<1>5. QED
  BY <1>2, <1>4, FS_Bijection

\* What is left of a queue when n statements leave its head.
LEMMA SuffixOfQueue ==
    ASSUME NEW q \in Seq(Statements), NEW n \in 0..Len(q)
    PROVE  /\ SubSeq(q, n + 1, Len(q)) \in Seq(Statements)
           /\ Len(SubSeq(q, n + 1, Len(q))) = Len(q) - n
           /\ \A i \in 1..(Len(q) - n) : SubSeq(q, n + 1, Len(q))[i] = q[n + i]
<1>1. Len(q) \in Nat /\ n \in Nat /\ n + 1 \in Int /\ \A i \in (n + 1)..Len(q) : q[i] \in Statements
  BY LenProperties, ElementOfSeq
<1>2. /\ SubSeq(q, n + 1, Len(q)) \in Seq(Statements)
      /\ Len(SubSeq(q, n + 1, Len(q))) = IF n + 1 <= Len(q) THEN Len(q) - (n + 1) + 1 ELSE 0
      /\ \A i \in 1..(Len(q) - (n + 1) + 1) : SubSeq(q, n + 1, Len(q))[i] = q[(n + 1) + i - 1]
  BY <1>1, SubSeqProperties
<1>3. QED
  BY <1>1, <1>2

\* What is left of a queue when its i-th statement leaves.
LEMMA WithoutProperties ==
    ASSUME NEW q \in Seq(Statements), NEW i \in 1..Len(q)
    PROVE  /\ Without(q, i) \in Seq(Statements)
           /\ Len(Without(q, i)) = Len(q) - 1
           /\ \A j \in 1..(Len(q) - 1) :
                 Without(q, i)[j] = IF j < i THEN q[j] ELSE q[j + 1]
<1>1. Len(q) \in Nat /\ Len(q) - 1 \in Nat /\ \A j \in 1..Len(q) : q[j] \in Statements
  BY LenProperties, ElementOfSeq
<1>2. Without(q, i) \in [1..(Len(q) - 1) -> Statements]
  BY <1>1 DEF Without
<1>3. QED
  BY <1>1, <1>2, SeqDef, LenProperties DEF Without
-----------------------------------------------------------------------------
\* The loop of admit takes no more than the queue holds, nobody unless the
\* warehouse is active, and stops only when the queue is empty or the
\* warehouse is full.
LEMMA AdmissibleProperties ==
    ASSUME NEW w \in Warehouses, NEW st \in States, NEW cfg \in Settings,
           NEW run \in Nat, queue[w] \in Seq(Statements)
    PROVE  LET n == Admissible(w, st, cfg, run)
           IN  /\ n \in 0..Len(queue[w])
               /\ st # "ACTIVE" => n = 0
               /\ n > 0 => run + n <= Capacity[cfg.size]
               /\ st = "ACTIVE" /\ n < Len(queue[w]) => run + n >= Capacity[cfg.size]
<1>1. Len(queue[w]) \in Nat
  BY LenProperties
<1>2. Capacity[cfg.size] \in Nat \ {0}
  BY CapacityAssumption DEF Settings
<1>3. QED
  BY <1>1, <1>2 DEF Admissible, Room

\* A warehouse has finitely many holders.
LEMMA HoldersFinite == \A w : IsFiniteSet(Holders(w)) /\ Cardinality(Holders(w)) \in Nat
  BY StatementsAssumption, FS_Subset, FS_CardinalityType DEF Holders
-----------------------------------------------------------------------------
\* persist leaves the catalog typed, whether the write succeeds or fails.
LEMMA PersistType ==
    ASSUME TypeOK, NEW w \in Warehouses, NEW st \in States, NEW cfg \in Settings,
           persist(w, st, cfg)
    PROVE  catalog' \in [Warehouses -> Rows \cup {None}] /\ unsaved' \in SUBSET Warehouses
<1>1. Row(st, cfg) \in Rows \cup {None}
  BY DEF Row, Rows
<1>2. CASE catalog' = [catalog EXCEPT ![w] = Row(st, cfg)] /\ unsaved' = unsaved \ {w}
  BY <1>1, <1>2 DEF TypeOK
<1>3. CASE catalog' = catalog /\ unsaved' = unsaved \cup {w}
  BY <1>3 DEF TypeOK
<1>4. QED
  BY <1>2, <1>3 DEF persist

\* The settings of a warehouse that does not exist are still settings.
LEMMA NoSettingsType == NoSettings \in Settings
<1>1. \E cfg : cfg \in Settings
  <2>1. PICK z \in Sizes, a \in AutoSuspends : TRUE
    BY SettingsAssumption
  <2>2. [size |-> z, autoResume |-> TRUE, autoSuspend |-> a] \in Settings
    BY <2>1 DEF Settings
  <2>3. QED
    BY <2>2
<1>2. QED
  BY <1>1 DEF NoSettings

\* The manager of an empty catalog satisfies the invariant.
LEMMA InitWInv == Init => WInv
<1> SUFFICES ASSUME Init
             PROVE  WInv
  OBVIOUS
<1>1. TypeOK
  <2>1. \A w \in Warehouses : queue[w] \in Seq(Statements)
    BY EmptySeq DEF Init
  <2>2. QED
    BY <2>1, NoSettingsType, NoneAssumption DEF Init, TypeOK, States
<1>2. QueueIsWaiters
  BY EmptySeq DEF Init, QueueIsWaiters, InLine
<1>3. SlotAccounting
  <2>1. \A w \in Warehouses : Holders(w) = {}
    BY DEF Init, Holders
  <2>2. QED
    BY <2>1, FS_EmptySet DEF Init, SlotAccounting
<1>4. WorkConserving
  BY DEF Init, WorkConserving
<1>5. LifecycleMatchesLoad
  BY DEF Init, LifecycleMatchesLoad
<1>6. QED
  BY <1>1, <1>2, <1>3, <1>4, <1>5 DEF WInv

\* The statements in gone return, and answered is ready without them.
Leaving(gone, answered) ==
    \A s \in Statements :
       /\ answered[s] = IF s \in gone THEN "empty" ELSE ready[s]
       /\ pc'[s] = IF s \in gone THEN "idle" ELSE pc[s]
       /\ target'[s] = IF s \in gone THEN None ELSE target[s]

\* Who owns a slot after admit: the statements in gone gave theirs back, and
\* the head of the queue, none of which owned one, got what was free.
LEMMA AdmitHolders ==
    ASSUME WInv,
           NEW w \in Warehouses, NEW st \in States, NEW cfg \in Settings,
           NEW gone \in SUBSET Holders(w),
           NEW run \in Nat, run = running[w] - Cardinality(gone),
           NEW answered,
           admit(w, st, cfg, run, answered),
           Leaving(gone, answered)
    PROVE  /\ \A v \in Warehouses : v # w => Holders(v)' = Holders(v)
           /\ Holders(w)' = (Holders(w) \ gone) \cup Pool!Front(queue[w], Admissible(w, st, cfg, run))
           /\ Cardinality(Holders(w) \ gone) = run
           /\ Cardinality(Holders(w)') = run + Admissible(w, st, cfg, run)
<1> DEFINE n == Admissible(w, st, cfg, run)
           q == queue[w]
           P == {q[i] : i \in 1..n}
<1> USE DEF WInv, Leaving
<1>1. q \in Seq(Statements) /\ Len(q) \in Nat /\ \A i \in 1..Len(q) : q[i] \in Statements
  BY LenProperties, ElementOfSeq DEF TypeOK
<1>2. n \in 0..Len(q)
  BY <1>1, AdmissibleProperties
<1>3. ready' = [s \in Statements |-> IF s \in P THEN "granted" ELSE answered[s]]
  BY DEF admit
<1> HIDE DEF n
<1>4. \A i, j \in 1..Len(q) : q[i] = q[j] => i = j
  BY DEF QueueIsWaiters
<1>5. \A s \in Statements :
         s \in P => target[s] = w /\ pc[s] = "waiting" /\ ready[s] = "empty" /\ s \notin gone
  BY <1>1, <1>2 DEF QueueIsWaiters, InLine, Holders
<1>6. ASSUME NEW v \in Warehouses, v # w
      PROVE  Holders(v)' = Holders(v)
  <2>1. ASSUME NEW s \in Statements
        PROVE  s \in Holders(v)' <=> s \in Holders(v)
    <3>1. target[s] = v => s \notin gone /\ s \notin P
      BY <1>5, <1>6 DEF Holders
    <3>2. target'[s] = v => target[s] = v /\ s \notin gone
      BY NoneAssumption DEF TypeOK
    <3>3. QED
      BY <3>1, <3>2, <1>3 DEF Holders
  <2>2. QED
    BY <2>1 DEF Holders
<1>7. Holders(w)' = (Holders(w) \ gone) \cup P
  <2>1. ASSUME NEW s \in Statements
        PROVE  s \in Holders(w)' <=> s \in (Holders(w) \ gone) \cup P
    <3>1. CASE s \in P
      BY <3>1, <1>3, <1>5 DEF Holders
    <3>2. CASE s \in gone
      BY <3>2, <1>5, NoneAssumption DEF Holders
    <3>3. CASE s \notin P /\ s \notin gone
      BY <3>3, <1>3 DEF Holders
    <3>4. QED
      BY <3>1, <3>2, <3>3
  <2>2. P \subseteq Statements
    BY <1>1, <1>2
  <2>3. QED
    BY <2>1, <2>2 DEF Holders
<1>8. IsFiniteSet(P) /\ Cardinality(P) = n
  BY <1>1, <1>2, <1>4, PrefixCardinality
<1>9. /\ IsFiniteSet(Holders(w) \ gone)
      /\ Cardinality(Holders(w) \ gone) = run
  <2>1. IsFiniteSet(gone) /\ IsFiniteSet(Holders(w) \ gone)
    BY HoldersFinite, FS_Subset
  <2>2. Cardinality(gone \cup (Holders(w) \ gone)) =
           Cardinality(gone) + Cardinality(Holders(w) \ gone)
           - Cardinality(gone \cap (Holders(w) \ gone))
    BY <2>1, FS_Union
  <2>3. gone \cup (Holders(w) \ gone) = Holders(w) /\ gone \cap (Holders(w) \ gone) = {}
    OBVIOUS
  <2>4. /\ Cardinality(gone) \in Nat /\ Cardinality(Holders(w) \ gone) \in Nat
        /\ Cardinality({}) = 0
    BY <2>1, FS_CardinalityType, FS_EmptySet
  <2>5. running[w] = Cardinality(Holders(w))
    BY DEF SlotAccounting
  <2>6. Cardinality(Holders(w)) = Cardinality(gone) + Cardinality(Holders(w) \ gone) - 0
    BY <2>2, <2>3, <2>4
  <2>7. QED
    BY <2>1, <2>4, <2>5, <2>6
<1>10. Cardinality((Holders(w) \ gone) \cup P) = run + n
  <2>1. (Holders(w) \ gone) \cap P = {}
    BY <1>5 DEF Holders
  <2>2. Cardinality((Holders(w) \ gone) \cup P) =
           Cardinality(Holders(w) \ gone) + Cardinality(P)
           - Cardinality((Holders(w) \ gone) \cap P)
    BY <1>8, <1>9, FS_Union
  <2>3. Cardinality((Holders(w) \ gone) \cap P) = 0
    BY <2>1, FS_EmptySet
  <2>4. QED
    BY <1>2, <1>8, <1>9, <2>2, <2>3
<1>11. QED
  BY <1>6, <1>7, <1>9, <1>10 DEF n, Pool!Front

\* The step shared by ALTER WAREHOUSE and every release: the statements in
\* gone give their slots back, then admit runs.
LEMMA AdmitPreservesWInv ==
    ASSUME WInv,
           NEW w \in Warehouses, NEW st \in States, NEW cfg \in Settings,
           NEW gone \in SUBSET Holders(w),
           NEW run \in Nat, run = running[w] - Cardinality(gone),
           NEW answered,
           answered = [s \in Statements |-> IF s \in gone THEN "empty" ELSE ready[s]],
           admit(w, st, cfg, run, answered),
           persist(w, st, cfg),
           state' = [state EXCEPT ![w] = st],
           settings' = [settings EXCEPT ![w] = cfg],
           pc' = [s \in Statements |-> IF s \in gone THEN "idle" ELSE pc[s]],
           target' = [s \in Statements |-> IF s \in gone THEN None ELSE target[s]],
           canceled' = [s \in Statements |-> IF s \in gone THEN FALSE ELSE canceled[s]],
           state[w] = "ACTIVE" => st = "ACTIVE",
           st \in {"ABSENT", "SUSPENDED"} => run = 0,
           st = "SUSPENDING" => run > 0
    PROVE  WInv'
<1> DEFINE n == Admissible(w, st, cfg, run)
           q == queue[w]
           P == {q[i] : i \in 1..n}
<1>0. /\ \A v \in Warehouses : v # w => Holders(v)' = Holders(v)
      /\ Cardinality(Holders(w)') = run + n
  <2>1. Leaving(gone, answered)
    BY DEF Leaving
  <2>2. QED
    BY <2>1, AdmitHolders
<1> USE DEF WInv
<1>1. q \in Seq(Statements) /\ Len(q) \in Nat /\ \A i \in 1..Len(q) : q[i] \in Statements
  BY LenProperties, ElementOfSeq DEF TypeOK
<1>2. /\ n \in 0..Len(q)
      /\ st # "ACTIVE" => n = 0
      /\ st = "ACTIVE" /\ n < Len(q) => run + n >= Capacity[cfg.size]
  BY <1>1, AdmissibleProperties
<1> HIDE DEF n
<1>3. n \in Nat /\ run + n \in Nat /\ Len(q) - n \in Nat
  BY <1>1, <1>2
<1>4. /\ queue' = [queue EXCEPT ![w] = SubSeq(q, n + 1, Len(q))]
      /\ running' = [running EXCEPT ![w] = run + n]
      /\ queued' = [queued EXCEPT ![w] = queued[w] - n]
      /\ ready' = [s \in Statements |-> IF s \in P THEN "granted" ELSE answered[s]]
  <2>1. /\ queue \in [Warehouses -> Seq(Statements)]
        /\ running \in [Warehouses -> Nat]
        /\ queued \in [Warehouses -> Nat]
    BY DEF TypeOK
  <2>2. /\ running' = [running EXCEPT ![w] = run + n]
        /\ queued' = [queued EXCEPT ![w] = @ - n]
        /\ queue' = [queue EXCEPT ![w] = SubSeq(@, n + 1, Len(@))]
        /\ ready' = [s \in Statements |->
                        IF \E i \in 1..n : q[i] = s THEN "granted" ELSE answered[s]]
    BY DEF admit, n
  <2>3. QED
    BY <2>1, <2>2
<1>5. /\ queue'[w] \in Seq(Statements)
      /\ Len(queue'[w]) = Len(q) - n
      /\ \A i \in 1..(Len(q) - n) : queue'[w][i] = q[n + i]
  BY <1>1, <1>2, <1>4, SuffixOfQueue DEF TypeOK
<1>6. queued[w] = Len(q) /\ \A i, j \in 1..Len(q) : q[i] = q[j] => i = j
  BY DEF QueueIsWaiters
<1>7. \A s \in Statements :
         s \in P => target[s] = w /\ pc[s] = "waiting" /\ ready[s] = "empty" /\ s \notin gone
  BY <1>1, <1>2 DEF QueueIsWaiters, InLine, Holders
<1>8. TypeOK'
  <2>1. catalog' \in [Warehouses -> Rows \cup {None}] /\ unsaved' \in SUBSET Warehouses
    BY PersistType
  <2>2. queue' \in [Warehouses -> Seq(Statements)] /\ queued' \in [Warehouses -> Nat]
    BY <1>3, <1>4, <1>5, <1>6 DEF TypeOK
  <2>3. state' \in [Warehouses -> States] /\ settings' \in [Warehouses -> Settings]
    BY DEF TypeOK
  <2>4. running' \in [Warehouses -> Nat]
    BY <1>3, <1>4 DEF TypeOK
  <2>5. /\ pc' \in [Statements -> {"idle", "waiting", "holding"}]
        /\ target' \in [Statements -> Warehouses \cup {None}]
        /\ canceled' \in [Statements -> BOOLEAN]
    BY DEF TypeOK
  <2>6. ready' \in [Statements -> {"empty", "granted", "rejected"}]
    BY <1>4 DEF TypeOK
  <2>7. ASSUME NEW s \in Statements
        PROVE  /\ pc'[s] = "idle" <=> target'[s] = None
               /\ pc'[s] # "waiting" => ready'[s] = "empty" /\ ~canceled'[s]
    <3>1. CASE s \in gone
      BY <3>1, <1>4, <1>7
    <3>2. CASE s \notin gone
      <4>1. pc'[s] = pc[s] /\ target'[s] = target[s] /\ canceled'[s] = canceled[s]
        BY <3>2
      <4>2. ready'[s] = IF s \in P THEN "granted" ELSE ready[s]
        BY <3>2, <1>4
      <4>3. s \in P => pc[s] = "waiting"
        BY <1>7
      <4>4. /\ pc[s] = "idle" <=> target[s] = None
            /\ pc[s] # "waiting" => ready[s] = "empty" /\ ~canceled[s]
        BY DEF TypeOK
      <4>5. QED
        BY <4>1, <4>2, <4>3, <4>4
    <3>3. QED
      BY <3>1, <3>2
  <2>8. QED
    BY <2>1, <2>2, <2>3, <2>4, <2>5, <2>6, <2>7 DEF TypeOK
<1>9. QueueIsWaiters'
  <2>1. ASSUME NEW v \in Warehouses, v # w
        PROVE  /\ queued'[v] = Len(queue'[v])
               /\ \A i, j \in 1..Len(queue'[v]) : queue'[v][i] = queue'[v][j] => i = j
               /\ \A s \in Statements :
                     InLine(s, v)' <=> target'[s] = v /\ pc'[s] = "waiting" /\ ready'[s] = "empty"
    <3>1. queue'[v] = queue[v] /\ queued'[v] = queued[v]
      BY <1>4, <2>1 DEF TypeOK
    <3>2. \A s \in Statements : target[s] = v => s \notin gone /\ s \notin P
      BY <1>7, <2>1 DEF Holders
    <3>3. ASSUME NEW s \in Statements
          PROVE  InLine(s, v)' <=> target'[s] = v /\ pc'[s] = "waiting" /\ ready'[s] = "empty"
      <4>1. InLine(s, v)' <=> InLine(s, v)
        BY <3>1 DEF InLine
      <4>2. target'[s] = v => target[s] = v /\ s \notin gone
        BY NoneAssumption DEF TypeOK
      <4>3. target[s] = v => /\ target'[s] = v /\ pc'[s] = pc[s] /\ ready'[s] = ready[s]
        BY <1>4, <3>2
      <4>4. QED
        BY <4>1, <4>2, <4>3 DEF QueueIsWaiters
    <3>4. QED
      BY <3>1, <3>3 DEF QueueIsWaiters
  <2>2. queued'[w] = Len(queue'[w])
    BY <1>4, <1>5, <1>6 DEF TypeOK
  <2>3. ASSUME NEW i \in 1..Len(queue'[w]), NEW j \in 1..Len(queue'[w]),
               queue'[w][i] = queue'[w][j]
        PROVE  i = j
    <3>1. n + i \in 1..Len(q) /\ n + j \in 1..Len(q) /\ q[n + i] = q[n + j]
      BY <1>1, <1>2, <1>5, <2>3
    <3>2. n + i = n + j
      BY <3>1, <1>6
    <3>3. QED
      BY <3>2, <1>3
  <2>4. ASSUME NEW s \in Statements
        PROVE  InLine(s, w)' <=> target'[s] = w /\ pc'[s] = "waiting" /\ ready'[s] = "empty"
    <3>1. ASSUME NEW i \in 1..Len(queue'[w]), queue'[w][i] = s
          PROVE  target'[s] = w /\ pc'[s] = "waiting" /\ ready'[s] = "empty"
      <4>1. n + i \in 1..Len(q) /\ q[n + i] = s
        <5>1. i \in 1..(Len(q) - n)
          BY <1>5, <3>1
        <5>2. n + i \in 1..Len(q)
          BY <5>1, <1>1, <1>2
        <5>3. queue'[w][i] = q[n + i]
          BY <5>1, <1>5
        <5>4. QED
          BY <5>2, <5>3, <3>1
      <4>2. target[s] = w /\ pc[s] = "waiting" /\ ready[s] = "empty" /\ s \notin gone
        BY <4>1 DEF QueueIsWaiters, InLine, Holders
      <4>3. s \notin P
        <5>1. SUFFICES ASSUME NEW k \in 1..n, q[k] = s
                       PROVE  FALSE
          OBVIOUS
        <5>2. k \in 1..Len(q) /\ k # n + i
          BY <1>1, <1>2, <1>5
        <5>3. QED
          BY <5>1, <5>2, <4>1, <1>6
      <4>4. QED
        BY <4>2, <4>3, <1>4
    <3>2. ASSUME target'[s] = w, pc'[s] = "waiting", ready'[s] = "empty"
          PROVE  \E i \in 1..Len(queue'[w]) : queue'[w][i] = s
      <4>1. s \notin gone /\ target[s] = w /\ pc[s] = "waiting"
        BY <3>2, NoneAssumption DEF TypeOK
      <4>2. s \notin P /\ ready[s] = "empty"
        BY <3>2, <4>1, <1>4
      <4>3. PICK k \in 1..Len(q) : q[k] = s
        BY <4>1, <4>2 DEF QueueIsWaiters, InLine
      <4>4. k \notin 1..n
        BY <4>2, <4>3
      <4>5. k - n \in 1..Len(queue'[w]) /\ queue'[w][k - n] = s
        <5>1. k - n \in 1..(Len(q) - n) /\ n + (k - n) = k
          BY <4>3, <4>4, <1>1, <1>2
        <5>2. queue'[w][k - n] = q[n + (k - n)]
          BY <5>1, <1>5
        <5>3. QED
          BY <5>1, <5>2, <4>3, <1>5
      <4>6. QED
        BY <4>5
    <3>3. QED
      BY <3>1, <3>2 DEF InLine
  <2>5. ASSUME NEW v \in Warehouses
        PROVE  /\ queued'[v] = Len(queue'[v])
               /\ \A i, j \in 1..Len(queue'[v]) : queue'[v][i] = queue'[v][j] => i = j
               /\ \A s \in Statements :
                     InLine(s, v)' <=> target'[s] = v /\ pc'[s] = "waiting" /\ ready'[s] = "empty"
    <3>1. CASE v # w
      BY <3>1, <2>1
    <3>2. CASE v = w
      <4>1. queued'[v] = Len(queue'[v])
        BY <3>2, <2>2
      <4>2. \A i, j \in 1..Len(queue'[v]) : queue'[v][i] = queue'[v][j] => i = j
        BY <3>2, <2>3
      <4>3. \A s \in Statements :
               InLine(s, v)' <=> target'[s] = v /\ pc'[s] = "waiting" /\ ready'[s] = "empty"
        BY <3>2, <2>4
      <4>4. QED
        BY <4>1, <4>2, <4>3
    <3>3. QED
      BY <3>1, <3>2
  <2>6. QED
    BY <2>5 DEF QueueIsWaiters
<1>10. SlotAccounting'
  <2>1. running'[w] = run + n /\ \A v \in Warehouses : v # w => running'[v] = running[v]
    BY <1>4 DEF TypeOK
  <2>2. QED
    BY <1>0, <2>1 DEF SlotAccounting
<1>11. WorkConserving'
  <2>1. ASSUME NEW v \in Warehouses, v # w, queue'[v] # <<>>
        PROVE  state'[v] = "ACTIVE" /\ running'[v] >= Capacity[settings'[v].size]
    BY <2>1, <1>4 DEF WorkConserving, TypeOK
  <2>2. ASSUME queue'[w] # <<>>
        PROVE  state'[w] = "ACTIVE" /\ running'[w] >= Capacity[settings'[w].size]
    <3>1. n < Len(q)
      BY <2>2, <1>1, <1>2, <1>5, EmptySeq
    <3>2. q # <<>>
      BY <3>1, <1>3, EmptySeq
    <3>3. st = "ACTIVE"
      BY <3>2 DEF WorkConserving
    <3>4. QED
      BY <3>1, <3>3, <1>2, <1>4 DEF TypeOK
  <2>3. QED
    BY <2>1, <2>2 DEF WorkConserving
<1>12. LifecycleMatchesLoad'
  <2>1. ASSUME NEW v \in Warehouses, v # w
        PROVE  /\ state'[v] \in {"ABSENT", "SUSPENDED"} => running'[v] = 0
               /\ state'[v] = "SUSPENDING" => running'[v] > 0
    BY <2>1, <1>4 DEF LifecycleMatchesLoad, TypeOK
  <2>2. state'[w] = st /\ running'[w] = run + n
    BY <1>4 DEF TypeOK
  <2>3. QED
    BY <2>1, <2>2, <1>2, <1>3 DEF LifecycleMatchesLoad
<1>13. QED
  BY <1>8, <1>9, <1>10, <1>11, <1>12

\* A step that changes neither the queues, the counters nor the answers, and
\* no lifecycle except of warehouses that run nothing.
LEMMA QuietStepPreservesWInv ==
    ASSUME WInv,
           UNCHANGED <<running, queued, queue, pc, target, ready>>,
           state' \in [Warehouses -> States],
           settings' \in [Warehouses -> Settings],
           catalog' \in [Warehouses -> Rows \cup {None}],
           unsaved' \in SUBSET Warehouses,
           canceled' \in [Statements -> BOOLEAN],
           \A s \in Statements : pc[s] # "waiting" => ~canceled'[s],
           \A w \in Warehouses :
              \/ state'[w] = state[w] /\ settings'[w] = settings[w]
              \/ running[w] = 0 /\ queue[w] = <<>> /\ state'[w] # "SUSPENDING"
    PROVE  WInv'
<1> USE DEF WInv
<1>1. TypeOK'
  BY DEF TypeOK
<1>2. QueueIsWaiters'
  BY DEF QueueIsWaiters, InLine
<1>3. SlotAccounting'
  <2>1. \A w \in Warehouses : Holders(w)' = Holders(w)
    BY DEF Holders
  <2>2. QED
    BY <2>1 DEF SlotAccounting
<1>4. WorkConserving'
  BY DEF WorkConserving
<1>5. LifecycleMatchesLoad'
  BY DEF LifecycleMatchesLoad
<1>6. QED
  BY <1>1, <1>2, <1>3, <1>4, <1>5

\* A warehouse that runs nothing has an empty queue.
LEMMA IdleQueueEmpty ==
    ASSUME WInv, NEW w \in Warehouses, running[w] = 0
    PROVE  queue[w] = <<>> /\ queued[w] = 0
<1>1. Capacity[settings[w].size] \in Nat \ {0}
  BY CapacityAssumption DEF WInv, TypeOK, Settings
<1>2. queue[w] = <<>>
  BY <1>1 DEF WInv, WorkConserving, TypeOK
<1>3. QED
  BY <1>2, EmptySeq DEF WInv, QueueIsWaiters
-----------------------------------------------------------------------------
\* One lemma per action of Next.

\* CREATE WAREHOUSE: the name was free, so nothing ran or waited under it.
LEMMA CreatePreservesWInv ==
    ASSUME WInv, NEW w \in Warehouses, NEW cfg \in Settings,
           CreateWarehouseWithSettings(w, cfg)
    PROVE  WInv'
<1> USE DEF CreateWarehouseWithSettings
<1>1. running[w] = 0 /\ queue[w] = <<>> /\ queued[w] = 0
  BY IdleQueueEmpty DEF WInv, LifecycleMatchesLoad
<1>2. UNCHANGED <<running, queued, queue, pc, target, ready, canceled>>
  BY <1>1 DEF WInv, TypeOK, stVars
<1>3. catalog' \in [Warehouses -> Rows \cup {None}] /\ unsaved' \in SUBSET Warehouses
  BY DEF WInv, TypeOK, Row, Rows, States
<1>4. /\ state' \in [Warehouses -> States] /\ settings' \in [Warehouses -> Settings]
      /\ canceled' \in [Statements -> BOOLEAN]
      /\ \A s \in Statements : pc[s] # "waiting" => ~canceled'[s]
  BY <1>2 DEF WInv, TypeOK, States
<1>5. \A v \in Warehouses :
         \/ state'[v] = state[v] /\ settings'[v] = settings[v]
         \/ running[v] = 0 /\ queue[v] = <<>> /\ state'[v] # "SUSPENDING"
  BY <1>1 DEF WInv, TypeOK
<1>6. QED
  BY <1>2, <1>3, <1>4, <1>5, QuietStepPreservesWInv

\* ALTER WAREHOUSE RESUME: a suspended warehouse runs nothing, so nobody waits.
LEMMA ResumePreservesWInv ==
    ASSUME WInv, NEW w \in Warehouses, ResumeWarehouse(w)
    PROVE  WInv'
<1> USE DEF ResumeWarehouse
<1>1. running[w] = 0 /\ queue[w] = <<>>
  BY IdleQueueEmpty DEF WInv, LifecycleMatchesLoad
<1>2. UNCHANGED <<running, queued, queue, pc, target, ready, canceled>>
  BY DEF stVars
<1>3. catalog' \in [Warehouses -> Rows \cup {None}] /\ unsaved' \in SUBSET Warehouses
  BY PersistType DEF WInv, TypeOK, States
<1>4. /\ state' \in [Warehouses -> States] /\ settings' \in [Warehouses -> Settings]
      /\ canceled' \in [Statements -> BOOLEAN]
      /\ \A s \in Statements : pc[s] # "waiting" => ~canceled'[s]
  BY <1>2 DEF WInv, TypeOK, States
<1>5. \A v \in Warehouses :
         \/ state'[v] = state[v] /\ settings'[v] = settings[v]
         \/ running[v] = 0 /\ queue[v] = <<>> /\ state'[v] # "SUSPENDING"
  BY <1>1 DEF WInv, TypeOK
<1>6. QED
  BY <1>2, <1>3, <1>4, <1>5, QuietStepPreservesWInv

\* DROP WAREHOUSE is refused while anything runs or waits.
LEMMA DropPreservesWInv ==
    ASSUME WInv, NEW w \in Warehouses, DropWarehouse(w)
    PROVE  WInv'
<1> USE DEF DropWarehouse
<1>1. running[w] = 0 /\ queue[w] = <<>>
  BY IdleQueueEmpty
<1>2. UNCHANGED <<running, queued, queue, pc, target, ready, canceled>>
  BY <1>1 DEF WInv, TypeOK, stVars
<1>3. /\ state' \in [Warehouses -> States] /\ settings' \in [Warehouses -> Settings]
      /\ catalog' \in [Warehouses -> Rows \cup {None}] /\ unsaved' \in SUBSET Warehouses
      /\ canceled' \in [Statements -> BOOLEAN]
      /\ \A s \in Statements : pc[s] # "waiting" => ~canceled'[s]
  BY <1>2, NoSettingsType DEF WInv, TypeOK, States
<1>4. \A v \in Warehouses :
         \/ state'[v] = state[v] /\ settings'[v] = settings[v]
         \/ running[v] = 0 /\ queue[v] = <<>> /\ state'[v] # "SUSPENDING"
  BY <1>1 DEF WInv, TypeOK
<1>5. QED
  BY <1>2, <1>3, <1>4, QuietStepPreservesWInv

\* Auto-suspension takes only idle warehouses.
LEMMA AutoSuspendPreservesWInv ==
    ASSUME WInv, NEW due \in SUBSET Warehouses, CheckAutoSuspend(due)
    PROVE  WInv'
<1> USE DEF CheckAutoSuspend
<1>1. \A w \in due : running[w] = 0 /\ queue[w] = <<>>
  BY IdleQueueEmpty
<1>2. UNCHANGED <<running, queued, queue, pc, target, ready, canceled>>
  BY DEF stVars
<1>3. catalog' \in [Warehouses -> Rows \cup {None}] /\ unsaved' \in SUBSET Warehouses
  <2>1. PICK failed \in SUBSET due :
           /\ catalog' = [w \in Warehouses |-> IF w \in due \ failed
                                               THEN Row("SUSPENDED", settings[w])
                                               ELSE catalog[w]]
           /\ unsaved' = (unsaved \ due) \cup failed
    OBVIOUS
  <2>2. \A w \in Warehouses : Row("SUSPENDED", settings[w]) \in Rows
    BY DEF WInv, TypeOK, Row, Rows, States
  <2>3. QED
    BY <2>1, <2>2 DEF WInv, TypeOK
<1>4. /\ state' \in [Warehouses -> States] /\ settings' \in [Warehouses -> Settings]
      /\ canceled' \in [Statements -> BOOLEAN]
      /\ \A s \in Statements : pc[s] # "waiting" => ~canceled'[s]
  BY <1>2 DEF WInv, TypeOK, States
<1>5. \A v \in Warehouses :
         \/ state'[v] = state[v] /\ settings'[v] = settings[v]
         \/ running[v] = 0 /\ queue[v] = <<>> /\ state'[v] # "SUSPENDING"
  BY <1>1 DEF WInv, TypeOK
<1>6. QED
  BY <1>2, <1>3, <1>4, <1>5, QuietStepPreservesWInv

\* Canceling a context changes nothing but the context.
LEMMA CancelContextPreservesWInv ==
    ASSUME WInv, NEW s \in Statements, CancelContext(s)
    PROVE  WInv'
<1> USE DEF CancelContext, whVars, dbVars
<1>1. /\ state' \in [Warehouses -> States] /\ settings' \in [Warehouses -> Settings]
      /\ catalog' \in [Warehouses -> Rows \cup {None}] /\ unsaved' \in SUBSET Warehouses
      /\ canceled' \in [Statements -> BOOLEAN]
  BY DEF WInv, TypeOK
<1>2. \A r \in Statements : pc[r] # "waiting" => ~canceled'[r]
  BY DEF WInv, TypeOK
<1>3. QED
  BY <1>1, <1>2, QuietStepPreservesWInv

\* ALTER WAREHOUSE SET: an admit after which nobody has left.
LEMMA AlterPreservesWInv ==
    ASSUME WInv, NEW w \in Warehouses, NEW cfg \in Settings, AlterWarehouse(w, cfg)
    PROVE  WInv'
<1> USE DEF AlterWarehouse
<1>1. /\ state[w] \in States /\ running[w] \in Nat
      /\ state[w] \in {"ABSENT", "SUSPENDED"} => running[w] = 0
      /\ state[w] = "SUSPENDING" => running[w] > 0
  BY DEF WInv, TypeOK, LifecycleMatchesLoad
<1>2. Cardinality({}) = 0 /\ running[w] = running[w] - Cardinality({}) /\ {} \in SUBSET Holders(w)
  BY <1>1, FS_EmptySet
<1>3. /\ ready = [s \in Statements |-> IF s \in {} THEN "empty" ELSE ready[s]]
      /\ pc' = [s \in Statements |-> IF s \in {} THEN "idle" ELSE pc[s]]
      /\ target' = [s \in Statements |-> IF s \in {} THEN None ELSE target[s]]
      /\ canceled' = [s \in Statements |-> IF s \in {} THEN FALSE ELSE canceled[s]]
      /\ state' = [state EXCEPT ![w] = state[w]]
  BY DEF WInv, TypeOK
<1>4. QED
  BY <1>1, <1>2, <1>3, AdmitPreservesWInv

\* releaseLocked, for a statement that owns a slot and is about to return.
LEMMA ReleaseLockedPreservesWInv ==
    ASSUME WInv, NEW s \in Statements, s \in Holders(target[s]), target[s] \in Warehouses,
           Return(s),
           releaseLocked(target[s], [ready EXCEPT ![s] = "empty"])
    PROVE  WInv'
<1> DEFINE w == target[s]
           run == running[w] - 1
           st == IF state[w] = "SUSPENDING" /\ run = 0 THEN "SUSPENDED" ELSE state[w]
           answered == [ready EXCEPT ![s] = "empty"]
           gone == {s}
<1>0. w \in Warehouses
  OBVIOUS
<1>1. running[w] \in Nat /\ running[w] = Cardinality(Holders(w)) /\ state[w] \in States
  BY DEF WInv, TypeOK, SlotAccounting
<1>2. Cardinality(gone) = 1 /\ gone \in SUBSET Holders(w)
  BY FS_Singleton
<1>3. running[w] > 0
  <2>1. Holders(w) # {}
    BY <1>2
  <2>2. Cardinality(Holders(w)) # 0
    BY <2>1, HoldersFinite, FS_EmptySet
  <2>3. QED
    BY <2>2, <1>1
<1>4. /\ run \in Nat /\ run = running[w] - Cardinality(gone) /\ st \in States
      /\ settings[w] \in Settings
  BY <1>1, <1>2, <1>3 DEF WInv, TypeOK, States
<1>5. /\ state[w] = "ACTIVE" => st = "ACTIVE"
      /\ st \in {"ABSENT", "SUSPENDED"} => run = 0
      /\ st = "SUSPENDING" => run > 0
  BY <1>1, <1>3 DEF WInv, LifecycleMatchesLoad
<1>6. /\ answered = [r \in Statements |-> IF r \in gone THEN "empty" ELSE ready[r]]
      /\ pc' = [r \in Statements |-> IF r \in gone THEN "idle" ELSE pc[r]]
      /\ target' = [r \in Statements |-> IF r \in gone THEN None ELSE target[r]]
      /\ canceled' = [r \in Statements |-> IF r \in gone THEN FALSE ELSE canceled[r]]
  BY DEF WInv, TypeOK, Return
<1>7. /\ state' = [state EXCEPT ![w] = st]
      /\ admit(w, st, settings[w], run, answered)
      /\ persist(w, st, settings[w])
      /\ settings' = [settings EXCEPT ![w] = settings[w]]
  BY DEF releaseLocked, WInv, TypeOK
<1> HIDE DEF w, run, st, answered, gone
<1>8. QED
  BY <1>0, <1>2, <1>4, <1>5, <1>6, <1>7, AdmitPreservesWInv

\* Lease.Release: the holder's own slot keeps the guard of release true.
LEMMA ReleasePreservesWInv ==
    ASSUME WInv, NEW s \in Statements, Release(s)
    PROVE  WInv'
<1>1. /\ target[s] \in Warehouses /\ s \in Holders(target[s])
      /\ ready[s] = "empty" /\ ready = [ready EXCEPT ![s] = "empty"]
  BY DEF Release, WInv, TypeOK, Holders
<1>2. running[target[s]] > 0
  <2>1. Holders(target[s]) # {}
    BY <1>1
  <2>2. /\ Cardinality(Holders(target[s])) # 0
        /\ Cardinality(Holders(target[s])) \in Nat
    BY <2>1, HoldersFinite, FS_EmptySet
  <2>3. QED
    BY <2>2, <1>1 DEF WInv, SlotAccounting
<1>3. state[target[s]] # "ABSENT"
  BY <1>1, <1>2 DEF WInv, LifecycleMatchesLoad
<1>4. Return(s) /\ releaseLocked(target[s], ready)
  BY <1>2, <1>3 DEF Release
<1>5. QED
  BY <1>1, <1>4, ReleaseLockedPreservesWInv

\* A waiter of w changes into an idle statement without touching w's slots;
\* left is what remains of w's queue.
LEMMA LeaveQueuePreservesWInv ==
    ASSUME WInv, NEW s \in Statements, NEW w \in Warehouses,
           NEW i \in 1..Len(queue[w]), queue[w][i] = s,
           queue' = [queue EXCEPT ![w] = Without(@, i)],
           queued' = [queued EXCEPT ![w] = @ - 1],
           Return(s),
           UNCHANGED <<state, settings, running, catalog, unsaved, ready>>
    PROVE  WInv'
<1> DEFINE q == queue[w]
<1> USE DEF WInv
<1>1. q \in Seq(Statements) /\ Len(q) \in Nat \ {0} /\ q # <<>>
  BY LenProperties, EmptySeq DEF TypeOK
<1>2. /\ queue'[w] \in Seq(Statements)
      /\ Len(queue'[w]) = Len(q) - 1
      /\ \A j \in 1..(Len(q) - 1) : queue'[w][j] = IF j < i THEN q[j] ELSE q[j + 1]
  <2>1. queue'[w] = Without(q, i)
    BY DEF TypeOK
  <2>2. QED
    BY <1>1, <2>1, WithoutProperties
<1>3. /\ queued[w] = Len(q) /\ \A j, k \in 1..Len(q) : q[j] = q[k] => j = k
      /\ target[s] = w /\ pc[s] = "waiting" /\ ready[s] = "empty"
  BY DEF QueueIsWaiters, InLine
<1>4. /\ pc' = [pc EXCEPT ![s] = "idle"]
      /\ target' = [target EXCEPT ![s] = None]
      /\ canceled' = [canceled EXCEPT ![s] = FALSE]
  BY DEF Return
<1>5. TypeOK'
  <2>1. queue' \in [Warehouses -> Seq(Statements)]
    BY <1>2 DEF TypeOK
  <2>2. queued' \in [Warehouses -> Nat]
    BY <1>1, <1>3 DEF TypeOK
  <2>3. /\ pc' \in [Statements -> {"idle", "waiting", "holding"}]
        /\ target' \in [Statements -> Warehouses \cup {None}]
        /\ canceled' \in [Statements -> BOOLEAN]
    BY <1>4 DEF TypeOK
  <2>4. \A r \in Statements :
           /\ pc'[r] = "idle" <=> target'[r] = None
           /\ pc'[r] # "waiting" => ready[r] = "empty" /\ ~canceled'[r]
    BY <1>3, <1>4 DEF TypeOK
  <2>5. QED
    BY <2>1, <2>2, <2>3, <2>4 DEF TypeOK
<1>6. QueueIsWaiters'
  <2>1. ASSUME NEW v \in Warehouses, v # w
        PROVE  /\ queued'[v] = Len(queue'[v])
               /\ \A j, k \in 1..Len(queue'[v]) : queue'[v][j] = queue'[v][k] => j = k
               /\ \A r \in Statements :
                     InLine(r, v)' <=> target'[r] = v /\ pc'[r] = "waiting" /\ ready'[r] = "empty"
    <3>1. queue'[v] = queue[v] /\ queued'[v] = queued[v]
      BY <2>1 DEF TypeOK
    <3>2. \A r \in Statements : InLine(r, v)' <=> InLine(r, v)
      BY <3>1 DEF InLine
    <3>3. \A r \in Statements :
             /\ target'[r] = v => target[r] = v /\ r # s
             /\ target[r] = v => target'[r] = v /\ pc'[r] = pc[r]
      BY <1>3, <1>4, <2>1, NoneAssumption DEF TypeOK
    <3>4. QED
      BY <3>1, <3>2, <3>3 DEF QueueIsWaiters
  <2>2. queued'[w] = Len(queue'[w])
    BY <1>2, <1>3 DEF TypeOK
  <2>3. ASSUME NEW j \in 1..Len(queue'[w]), NEW k \in 1..Len(queue'[w]),
               queue'[w][j] = queue'[w][k]
        PROVE  j = k
    <3>1. PICK j2 \in 1..Len(q) : queue'[w][j] = q[j2] /\ j2 = IF j < i THEN j ELSE j + 1
      BY <1>1, <1>2
    <3>2. PICK k2 \in 1..Len(q) : queue'[w][k] = q[k2] /\ k2 = IF k < i THEN k ELSE k + 1
      BY <1>1, <1>2
    <3>3. j2 = k2
      BY <3>1, <3>2, <2>3, <1>3
    <3>4. QED
      BY <3>1, <3>2, <3>3
  <2>4. ASSUME NEW r \in Statements
        PROVE  InLine(r, w)' <=> target'[r] = w /\ pc'[r] = "waiting" /\ ready'[r] = "empty"
    <3>1. ASSUME NEW j \in 1..Len(queue'[w]), queue'[w][j] = r
          PROVE  target'[r] = w /\ pc'[r] = "waiting" /\ ready'[r] = "empty"
      <4>1. PICK k \in 1..Len(q) : q[k] = r /\ k # i
        BY <1>1, <1>2, <3>1
      <4>2. r # s
        BY <4>1, <1>3
      <4>3. target[r] = w /\ pc[r] = "waiting" /\ ready[r] = "empty"
        BY <4>1 DEF QueueIsWaiters, InLine
      <4>4. QED
        BY <4>2, <4>3, <1>4
    <3>2. ASSUME target'[r] = w, pc'[r] = "waiting", ready'[r] = "empty"
          PROVE  \E j \in 1..Len(queue'[w]) : queue'[w][j] = r
      <4>1. r # s /\ target[r] = w /\ pc[r] = "waiting" /\ ready[r] = "empty"
        BY <3>2, <1>4, NoneAssumption DEF TypeOK
      <4>2. PICK k \in 1..Len(q) : q[k] = r
        BY <4>1 DEF QueueIsWaiters, InLine
      <4>3. k # i
        BY <4>1, <4>2
      <4>4. CASE k < i
        BY <4>2, <4>4, <1>1, <1>2
      <4>5. CASE k > i
        <5>1. k - 1 \in 1..Len(queue'[w]) /\ queue'[w][k - 1] = q[k]
          BY <4>5, <1>1, <1>2
        <5>2. QED
          BY <5>1, <4>2
      <4>6. QED
        BY <4>3, <4>4, <4>5
    <3>3. QED
      BY <3>1, <3>2 DEF InLine
  <2>5. QED
    BY <2>1, <2>2, <2>3, <2>4 DEF QueueIsWaiters
<1>7. SlotAccounting'
  <2>1. ASSUME NEW v \in Warehouses
        PROVE  Holders(v)' = Holders(v)
    BY <1>3, <1>4, NoneAssumption DEF Holders, TypeOK
  <2>2. QED
    BY <2>1 DEF SlotAccounting
<1>8. WorkConserving'
  BY <1>1, <1>2 DEF WorkConserving, TypeOK
<1>9. LifecycleMatchesLoad'
  BY DEF LifecycleMatchesLoad
<1>10. QED
  BY <1>5, <1>6, <1>7, <1>8, <1>9

\* A statement that was turned away returns: it is in no queue and owns no slot.
LEMMA RejectedReturnPreservesWInv ==
    ASSUME WInv, NEW s \in Statements, pc[s] = "waiting", ready[s] = "rejected",
           Return(s), ready' = [ready EXCEPT ![s] = "empty"], UNCHANGED <<whVars, dbVars>>
    PROVE  WInv'
<1> USE DEF WInv, whVars, dbVars
<1>1. /\ pc' = [pc EXCEPT ![s] = "idle"]
      /\ target' = [target EXCEPT ![s] = None]
      /\ canceled' = [canceled EXCEPT ![s] = FALSE]
  BY DEF Return
<1>2. TypeOK'
  <2>1. /\ pc' \in [Statements -> {"idle", "waiting", "holding"}]
        /\ target' \in [Statements -> Warehouses \cup {None}]
        /\ ready' \in [Statements -> {"empty", "granted", "rejected"}]
        /\ canceled' \in [Statements -> BOOLEAN]
    BY <1>1 DEF TypeOK
  <2>2. ASSUME NEW r \in Statements
        PROVE  /\ pc'[r] = "idle" <=> target'[r] = None
               /\ pc'[r] # "waiting" => ready'[r] = "empty" /\ ~canceled'[r]
    BY <1>1 DEF TypeOK
  <2>3. QED
    BY <2>1, <2>2 DEF TypeOK
<1>3. QueueIsWaiters'
  <2>1. ASSUME NEW w \in Warehouses, NEW r \in Statements
        PROVE  InLine(r, w)' <=> target'[r] = w /\ pc'[r] = "waiting" /\ ready'[r] = "empty"
    BY <1>1, NoneAssumption DEF QueueIsWaiters, InLine, TypeOK
  <2>2. QED
    BY <2>1 DEF QueueIsWaiters
<1>4. SlotAccounting'
  <2>1. \A v \in Warehouses : Holders(v)' = Holders(v)
    BY <1>1, NoneAssumption DEF Holders, TypeOK
  <2>2. QED
    BY <2>1 DEF SlotAccounting
<1>5. WorkConserving' /\ LifecycleMatchesLoad'
  BY DEF WorkConserving, LifecycleMatchesLoad
<1>6. QED
  BY <1>2, <1>3, <1>4, <1>5

\* A canceled waiter was in line, admitted, or turned away; in the last case
\* it owns nothing, which is why the silent branch of the code loses no slot.
LEMMA GiveUpPreservesWInv ==
    ASSUME WInv, NEW s \in Statements, GiveUp(s)
    PROVE  WInv'
<1> DEFINE w == target[s]
<1> USE DEF GiveUp
<1>1. w \in Warehouses /\ pc[s] = "waiting"
  BY DEF WInv, TypeOK
<1>2. CASE \E i \in 1..Len(queue[w]) :
             /\ queue[w][i] = s
             /\ queue' = [queue EXCEPT ![w] = Without(@, i)]
             /\ queued' = [queued EXCEPT ![w] = @ - 1]
             /\ UNCHANGED <<state, settings, running, dbVars, ready>>
  BY <1>1, <1>2, LeaveQueuePreservesWInv DEF dbVars
<1>3. CASE ~InLine(s, w) /\ releaseLocked(w, [ready EXCEPT ![s] = "empty"]) /\ ready[s] = "granted"
  BY <1>1, <1>3, ReleaseLockedPreservesWInv DEF Holders
<1>4. CASE /\ ~InLine(s, w)
           /\ ~(ready[s] = "granted" /\ state[w] # "ABSENT" /\ running[w] > 0)
           /\ ready' = [ready EXCEPT ![s] = "empty"]
           /\ UNCHANGED <<whVars, dbVars>>
  <2>1. ready[s] = "rejected"
    <3>1. ready[s] # "empty"
      BY <1>1, <1>4 DEF WInv, QueueIsWaiters
    <3>2. ready[s] # "granted"
      <4>1. SUFFICES ASSUME ready[s] = "granted"
                     PROVE  FALSE
        OBVIOUS
      <4>2. Holders(w) # {}
        BY <1>1, <4>1 DEF Holders
      <4>3. Cardinality(Holders(w)) # 0 /\ Cardinality(Holders(w)) \in Nat
        BY <4>2, HoldersFinite, FS_EmptySet
      <4>4. running[w] > 0
        BY <4>3, <1>1 DEF WInv, SlotAccounting
      <4>5. state[w] # "ABSENT"
        BY <4>4, <1>1 DEF WInv, LifecycleMatchesLoad
      <4>6. QED
        BY <1>4, <4>1, <4>4, <4>5
    <3>3. QED
      BY <3>1, <3>2 DEF WInv, TypeOK
  <2>2. Return(s) /\ ready' = [ready EXCEPT ![s] = "empty"] /\ UNCHANGED <<whVars, dbVars>>
    BY <1>4
  <2>3. QED
    BY <1>1, <2>1, <2>2, RejectedReturnPreservesWInv
<1>5. QED
  BY <1>2, <1>3, <1>4

\* The answer becomes a lease or an error; the slot was counted when granted.
LEMMA PickUpPreservesWInv ==
    ASSUME WInv, NEW s \in Statements, PickUp(s)
    PROVE  WInv'
<1> USE DEF PickUp
<1>1. CASE ready[s] = "rejected" /\ Return(s)
  BY <1>1, RejectedReturnPreservesWInv
<1>2. CASE /\ ready[s] = "granted"
           /\ pc' = [pc EXCEPT ![s] = "holding"]
           /\ canceled' = [canceled EXCEPT ![s] = FALSE]
           /\ UNCHANGED target
  <2> USE DEF WInv, whVars, dbVars
  <2>1. pc[s] = "waiting" /\ target[s] # None /\ ready' = [ready EXCEPT ![s] = "empty"]
    BY DEF TypeOK
  <2>2. TypeOK'
    <3>1. /\ pc' \in [Statements -> {"idle", "waiting", "holding"}]
          /\ ready' \in [Statements -> {"empty", "granted", "rejected"}]
          /\ canceled' \in [Statements -> BOOLEAN]
      BY <1>2, <2>1 DEF TypeOK
    <3>2. ASSUME NEW r \in Statements
          PROVE  /\ pc'[r] = "idle" <=> target'[r] = None
                 /\ pc'[r] # "waiting" => ready'[r] = "empty" /\ ~canceled'[r]
      BY <1>2, <2>1 DEF TypeOK
    <3>3. QED
      BY <3>1, <3>2, <1>2 DEF TypeOK
  <2>3. QueueIsWaiters'
    BY <1>2, <2>1 DEF QueueIsWaiters, InLine, TypeOK
  <2>4. SlotAccounting'
    <3>1. \A v \in Warehouses : Holders(v)' = Holders(v)
      BY <1>2, <2>1 DEF Holders, TypeOK
    <3>2. QED
      BY <3>1 DEF SlotAccounting
  <2>5. WorkConserving' /\ LifecycleMatchesLoad'
    BY DEF WorkConserving, LifecycleMatchesLoad
  <2>6. QED
    BY <2>2, <2>3, <2>4, <2>5
<1>3. QED
  BY <1>1, <1>2

\* A statement takes a slot of an active warehouse whose queue is empty.
LEMMA TakeSlotPreservesWInv ==
    ASSUME WInv, NEW s \in Statements, NEW w \in Warehouses, pc[s] = "idle",
           state' = [state EXCEPT ![w] = "ACTIVE"],
           catalog' \in [Warehouses -> Rows \cup {None}], unsaved' \in SUBSET Warehouses,
           queue[w] = <<>>,
           running' = [running EXCEPT ![w] = @ + 1],
           pc' = [pc EXCEPT ![s] = "holding"],
           target' = [target EXCEPT ![s] = w],
           UNCHANGED <<settings, queued, queue, ready, canceled>>
    PROVE  WInv'
<1> USE DEF WInv
<1>1. target[s] = None /\ ready[s] = "empty" /\ ~canceled[s] /\ running[w] \in Nat
  BY DEF TypeOK
<1>2. TypeOK'
  <2>1. /\ state' \in [Warehouses -> States]
        /\ running' \in [Warehouses -> Nat]
        /\ pc' \in [Statements -> {"idle", "waiting", "holding"}]
        /\ target' \in [Statements -> Warehouses \cup {None}]
    BY DEF TypeOK, States
  <2>2. ASSUME NEW r \in Statements
        PROVE  /\ pc'[r] = "idle" <=> target'[r] = None
               /\ pc'[r] # "waiting" => ready'[r] = "empty" /\ ~canceled'[r]
    BY <1>1, NoneAssumption DEF TypeOK
  <2>3. QED
    BY <2>1, <2>2 DEF TypeOK
<1>3. QueueIsWaiters'
  BY <1>1 DEF QueueIsWaiters, InLine, TypeOK
<1>4. SlotAccounting'
  <2>1. ASSUME NEW v \in Warehouses, v # w
        PROVE  Holders(v)' = Holders(v)
    BY <1>1, <2>1, NoneAssumption DEF Holders, TypeOK
  <2>2. Holders(w)' = Holders(w) \cup {s} /\ s \notin Holders(w)
    BY <1>1, NoneAssumption DEF Holders, TypeOK
  <2>3. Cardinality(Holders(w) \cup {s}) = Cardinality(Holders(w)) + 1
    BY <2>2, HoldersFinite, FS_AddElement
  <2>4. running'[w] = Cardinality(Holders(w)')
    <3>1. running'[w] = running[w] + 1 /\ running[w] = Cardinality(Holders(w))
      BY DEF SlotAccounting, TypeOK
    <3>2. QED
      BY <3>1, <2>2, <2>3
  <2>5. ASSUME NEW v \in Warehouses, v # w
        PROVE  running'[v] = Cardinality(Holders(v)')
    BY <2>1, <2>5 DEF SlotAccounting, TypeOK
  <2>6. QED
    BY <2>4, <2>5 DEF SlotAccounting
<1>5. WorkConserving'
  BY DEF WorkConserving, TypeOK
<1>6. LifecycleMatchesLoad'
  BY <1>1 DEF LifecycleMatchesLoad, TypeOK
<1>7. QED
  BY <1>2, <1>3, <1>4, <1>5, <1>6

\* A statement joins the queue of an active warehouse that is full.
LEMMA JoinQueuePreservesWInv ==
    ASSUME WInv, NEW s \in Statements, NEW w \in Warehouses, pc[s] = "idle",
           state[w] = "ACTIVE", running[w] >= Capacity[settings[w].size],
           queue' = [queue EXCEPT ![w] = Append(@, s)],
           queued' = [queued EXCEPT ![w] = @ + 1],
           pc' = [pc EXCEPT ![s] = "waiting"],
           target' = [target EXCEPT ![s] = w],
           UNCHANGED <<state, settings, running, catalog, unsaved, ready, canceled>>
    PROVE  WInv'
<1> DEFINE q == queue[w]
<1> USE DEF WInv
<1>1. q \in Seq(Statements) /\ Len(q) \in Nat /\ queued[w] = Len(q)
  BY LenProperties DEF TypeOK, QueueIsWaiters
<1>2. /\ queue'[w] \in Seq(Statements)
      /\ Len(queue'[w]) = Len(q) + 1
      /\ queue'[w][Len(q) + 1] = s
      /\ \A i \in 1..Len(q) : queue'[w][i] = q[i]
  <2>1. queue'[w] = Append(q, s)
    BY DEF TypeOK
  <2>2. QED
    BY <1>1, <2>1, AppendProperties
<1>3. /\ target[s] = None /\ ready[s] = "empty" /\ ~canceled[s]
      /\ \A i \in 1..Len(q) : q[i] # s
      /\ \A i, j \in 1..Len(q) : q[i] = q[j] => i = j
  BY NoneAssumption DEF TypeOK, QueueIsWaiters, InLine
<1>4. TypeOK'
  <2>1. queue' \in [Warehouses -> Seq(Statements)]
    BY <1>2 DEF TypeOK
  <2>2. queued' \in [Warehouses -> Nat]
    BY <1>1 DEF TypeOK
  <2>3. /\ pc' \in [Statements -> {"idle", "waiting", "holding"}]
        /\ target' \in [Statements -> Warehouses \cup {None}]
    BY DEF TypeOK
  <2>4. \A r \in Statements :
           /\ pc'[r] = "idle" <=> target'[r] = None
           /\ pc'[r] # "waiting" => ready'[r] = "empty" /\ ~canceled'[r]
    BY NoneAssumption DEF TypeOK
  <2>5. QED
    BY <2>1, <2>2, <2>3, <2>4 DEF TypeOK
<1>5. QueueIsWaiters'
  <2>1. ASSUME NEW v \in Warehouses, v # w
        PROVE  /\ queued'[v] = Len(queue'[v])
               /\ \A i, j \in 1..Len(queue'[v]) : queue'[v][i] = queue'[v][j] => i = j
               /\ \A r \in Statements :
                     InLine(r, v)' <=> target'[r] = v /\ pc'[r] = "waiting" /\ ready'[r] = "empty"
    <3>1. queue'[v] = queue[v] /\ queued'[v] = queued[v]
      BY <2>1 DEF TypeOK
    <3>2. \A r \in Statements : InLine(r, v)' <=> InLine(r, v)
      BY <3>1 DEF InLine
    <3>3. \A r \in Statements :
             /\ target'[r] = v => target[r] = v /\ r # s
             /\ target[r] = v => target'[r] = v /\ pc'[r] = pc[r]
      BY <1>3, <2>1, NoneAssumption DEF TypeOK
    <3>4. /\ queued[v] = Len(queue[v])
          /\ \A i, j \in 1..Len(queue[v]) : queue[v][i] = queue[v][j] => i = j
          /\ \A r \in Statements :
                InLine(r, v) <=> target[r] = v /\ pc[r] = "waiting" /\ ready[r] = "empty"
      BY DEF QueueIsWaiters
    <3>5. \A r \in Statements :
             InLine(r, v)' <=> target'[r] = v /\ pc'[r] = "waiting" /\ ready'[r] = "empty"
      BY <3>2, <3>3, <3>4
    <3>6. queued'[v] = Len(queue'[v])
      BY <3>1, <3>4
    <3>7. ASSUME NEW i \in 1..Len(queue'[v]), NEW j \in 1..Len(queue'[v]),
                 queue'[v][i] = queue'[v][j]
          PROVE  i = j
      <4>1. i \in 1..Len(queue[v]) /\ j \in 1..Len(queue[v]) /\ queue[v][i] = queue[v][j]
        BY <3>1, <3>7
      <4>2. QED
        BY <4>1, <3>4
    <3>8. QED
      BY <3>5, <3>6, <3>7
  <2>2. queued'[w] = Len(queue'[w])
    BY <1>1, <1>2 DEF TypeOK
  <2>3. ASSUME NEW i \in 1..Len(queue'[w]), NEW j \in 1..Len(queue'[w]),
               queue'[w][i] = queue'[w][j]
        PROVE  i = j
    <3>1. i \in 1..Len(q) \/ i = Len(q) + 1
      BY <1>1, <1>2
    <3>2. j \in 1..Len(q) \/ j = Len(q) + 1
      BY <1>1, <1>2
    <3>3. QED
      BY <3>1, <3>2, <2>3, <1>2, <1>3
  <2>4. ASSUME NEW r \in Statements
        PROVE  InLine(r, w)' <=> target'[r] = w /\ pc'[r] = "waiting" /\ ready'[r] = "empty"
    <3>1. InLine(r, w)' <=> InLine(r, w) \/ r = s
      <4>1. 1..Len(queue'[w]) = (1..Len(q)) \cup {Len(q) + 1}
        BY <1>1, <1>2
      <4>2. QED
        BY <4>1, <1>2 DEF InLine
    <3>2. CASE r = s
      BY <3>1, <3>2, <1>3 DEF TypeOK
    <3>3. CASE r # s
      BY <3>1, <3>3 DEF QueueIsWaiters, TypeOK
    <3>4. QED
      BY <3>2, <3>3
  <2>5. QED
    BY <2>1, <2>2, <2>3, <2>4 DEF QueueIsWaiters
<1>6. SlotAccounting'
  <2>1. \A v \in Warehouses : Holders(v)' = Holders(v)
    BY <1>3, NoneAssumption DEF Holders, TypeOK
  <2>2. QED
    BY <2>1 DEF SlotAccounting
<1>7. WorkConserving'
  BY DEF WorkConserving, TypeOK
<1>8. LifecycleMatchesLoad'
  BY DEF LifecycleMatchesLoad
<1>9. QED
  BY <1>4, <1>5, <1>6, <1>7, <1>8

\* Acquire, up to its select: the slot, the queue, or the failed resume.
LEMMA AcquirePreservesWInv ==
    ASSUME WInv, NEW s \in Statements, NEW w \in Warehouses, Acquire(s, w)
    PROVE  WInv'
<1> USE DEF Acquire
<1>1. Capacity[settings[w].size] \in Nat \ {0} /\ running[w] \in Nat
  BY CapacityAssumption DEF WInv, TypeOK, Settings
<1>2. CASE state[w] = "ACTIVE" /\ Enter(s, w) /\ UNCHANGED <<state, dbVars>>
  <2>1. /\ state' = [state EXCEPT ![w] = "ACTIVE"] /\ UNCHANGED <<state, catalog, unsaved>>
        /\ catalog' \in [Warehouses -> Rows \cup {None}] /\ unsaved' \in SUBSET Warehouses
    BY <1>2 DEF dbVars, WInv, TypeOK
  <2>2. CASE queue[w] = <<>> /\ running[w] < Capacity[settings[w].size]
    BY <1>2, <2>1, <2>2, TakeSlotPreservesWInv DEF Enter
  <2>3. CASE ~(queue[w] = <<>> /\ running[w] < Capacity[settings[w].size])
    <3>1. running[w] >= Capacity[settings[w].size]
      BY <1>1, <2>3 DEF WInv, WorkConserving
    <3>2. QED
      BY <1>2, <2>1, <2>3, <3>1, JoinQueuePreservesWInv DEF Enter
  <2>4. QED
    BY <2>2, <2>3
<1>3. CASE /\ state[w] = "SUSPENDED" /\ state' = [state EXCEPT ![w] = "ACTIVE"]
           /\ persist(w, "ACTIVE", settings[w])
           /\ IF w \in unsaved' THEN UNCHANGED <<settings, running, queued, queue, stVars>>
                                ELSE Enter(s, w)
  <2>1. running[w] = 0 /\ queue[w] = <<>>
    BY <1>3, IdleQueueEmpty DEF WInv, LifecycleMatchesLoad
  <2>2. catalog' \in [Warehouses -> Rows \cup {None}] /\ unsaved' \in SUBSET Warehouses
    BY <1>3, PersistType DEF WInv, TypeOK, States
  <2>3. CASE w \in unsaved'
    <3>1. UNCHANGED <<settings, running, queued, queue, pc, target, ready, canceled>>
      BY <1>3, <2>3 DEF stVars
    <3>2. /\ state' \in [Warehouses -> States] /\ settings' \in [Warehouses -> Settings]
          /\ canceled' \in [Statements -> BOOLEAN]
          /\ \A r \in Statements : pc[r] # "waiting" => ~canceled'[r]
      BY <1>3, <3>1 DEF WInv, TypeOK, States
    <3>3. \A v \in Warehouses :
             \/ state'[v] = state[v] /\ settings'[v] = settings[v]
             \/ running[v] = 0 /\ queue[v] = <<>> /\ state'[v] # "SUSPENDING"
      BY <1>3, <2>1, <3>1 DEF WInv, TypeOK
    <3>4. QED
      BY <2>2, <3>1, <3>2, <3>3, QuietStepPreservesWInv
  <2>4. CASE w \notin unsaved'
    <3>1. Enter(s, w)
      BY <1>3, <2>4
    <3>2. running[w] < Capacity[settings[w].size]
      BY <1>1, <2>1
    <3>3. QED
      BY <1>3, <2>1, <2>2, <3>1, <3>2, TakeSlotPreservesWInv DEF Enter
  <2>5. QED
    BY <2>3, <2>4
<1>4. QED
  BY <1>2, <1>3

\* A suspension answers the whole queue with an error and empties it.
LEMMA SuspendPreservesWInv ==
    ASSUME WInv, NEW w \in Warehouses, SuspendWarehouse(w)
    PROVE  WInv'
<1> DEFINE st == IF running[w] = 0 THEN "SUSPENDED" ELSE "SUSPENDING"
<1> USE DEF WInv
<1>1. /\ state[w] \in {"ACTIVE", "SUSPENDING"}
      /\ state' = [state EXCEPT ![w] = st]
      /\ ready' = [s \in Statements |-> IF InLine(s, w) THEN "rejected" ELSE ready[s]]
      /\ queue' = [queue EXCEPT ![w] = <<>>]
      /\ queued' = [queued EXCEPT ![w] = 0]
      /\ persist(w, st, settings[w])
      /\ UNCHANGED <<settings, running, pc, target, canceled>>
  BY DEF SuspendWarehouse, suspendLifecycle, rejectQueue
<1>2. \A s \in Statements :
         InLine(s, w) <=> target[s] = w /\ pc[s] = "waiting" /\ ready[s] = "empty"
  BY DEF QueueIsWaiters
<1>3. queue'[w] = <<>> /\ queued'[w] = 0 /\ Len(queue'[w]) = 0 /\ <<>> \in Seq(Statements)
  BY <1>1, EmptySeq DEF TypeOK
<1>4. TypeOK'
  <2>1. catalog' \in [Warehouses -> Rows \cup {None}] /\ unsaved' \in SUBSET Warehouses
    BY <1>1, PersistType DEF TypeOK, States
  <2>2. /\ state' \in [Warehouses -> States]
        /\ queue' \in [Warehouses -> Seq(Statements)]
        /\ queued' \in [Warehouses -> Nat]
        /\ ready' \in [Statements -> {"empty", "granted", "rejected"}]
    BY <1>1, <1>3 DEF TypeOK, States
  <2>3. \A s \in Statements :
           /\ pc[s] = "idle" <=> target[s] = None
           /\ pc[s] # "waiting" => ready'[s] = "empty" /\ ~canceled[s]
    BY <1>1, <1>2 DEF TypeOK
  <2>4. QED
    BY <1>1, <2>1, <2>2, <2>3 DEF TypeOK
<1>5. QueueIsWaiters'
  <2>1. ASSUME NEW v \in Warehouses, v # w
        PROVE  /\ queued'[v] = Len(queue'[v])
               /\ \A i, j \in 1..Len(queue'[v]) : queue'[v][i] = queue'[v][j] => i = j
               /\ \A r \in Statements :
                     InLine(r, v)' <=> target'[r] = v /\ pc'[r] = "waiting" /\ ready'[r] = "empty"
    <3>1. queue'[v] = queue[v] /\ queued'[v] = queued[v]
      BY <1>1, <2>1 DEF TypeOK
    <3>2. \A r \in Statements : InLine(r, v)' <=> InLine(r, v)
      BY <3>1 DEF InLine
    <3>3. \A r \in Statements : target[r] = v => ready'[r] = ready[r]
      BY <1>1, <1>2, <2>1
    <3>4. QED
      BY <1>1, <3>1, <3>2, <3>3 DEF QueueIsWaiters
  <2>2. ASSUME NEW r \in Statements
        PROVE  ~InLine(r, w)' /\ ~(target'[r] = w /\ pc'[r] = "waiting" /\ ready'[r] = "empty")
    <3>1. ~InLine(r, w)'
      BY <1>3 DEF InLine
    <3>2. ~(target[r] = w /\ pc[r] = "waiting" /\ ready'[r] = "empty")
      BY <1>1, <1>2
    <3>3. QED
      BY <1>1, <3>1, <3>2
  <2>3. \A i, j \in 1..Len(queue'[w]) : queue'[w][i] = queue'[w][j] => i = j
    BY <1>3
  <2>4. QED
    BY <1>3, <2>1, <2>2, <2>3 DEF QueueIsWaiters
<1>6. SlotAccounting'
  <2>1. \A s \in Statements : pc[s] = "waiting" => (ready'[s] = "granted" <=> ready[s] = "granted")
    BY <1>1, <1>2
  <2>2. \A v \in Warehouses : Holders(v)' = Holders(v)
    BY <1>1, <2>1 DEF Holders
  <2>3. QED
    BY <1>1, <2>2 DEF SlotAccounting
<1>7. WorkConserving'
  BY <1>1, <1>3 DEF WorkConserving, TypeOK
<1>8. LifecycleMatchesLoad'
  BY <1>1 DEF LifecycleMatchesLoad, TypeOK
<1>9. QED
  BY <1>4, <1>5, <1>6, <1>7, <1>8

\* A restart forgets every lease and every waiter, so it starts over.
LEMMA RestartPreservesWInv ==
    ASSUME WInv, NewPersistentManager
    PROVE  WInv'
<1> USE DEF NewPersistentManager
<1>1. TypeOK'
  <2>1. \A w \in Warehouses : queue'[w] \in Seq(Statements)
    BY EmptySeq
  <2>2. \A w \in Warehouses : catalog[w] # None =>
           /\ catalog[w] \in Rows
           /\ catalog[w].settings \in Settings
           /\ [catalog[w] EXCEPT !.state = "SUSPENDED"] \in Rows
    <3>1. ASSUME NEW row \in Rows
          PROVE  row.settings \in Settings /\ [row EXCEPT !.state = "SUSPENDED"] \in Rows
      BY DEF Rows, States
    <3>2. QED
      BY <3>1 DEF WInv, TypeOK
  <2>3. catalog' \in [Warehouses -> Rows \cup {None}]
    BY <2>2
  <2>4. settings' \in [Warehouses -> Settings]
    BY <2>2, NoSettingsType
  <2>5. QED
    BY <2>1, <2>3, <2>4, NoneAssumption DEF TypeOK, States
<1>2. QueueIsWaiters'
  BY EmptySeq DEF QueueIsWaiters, InLine
<1>3. SlotAccounting'
  <2>1. \A w \in Warehouses : Holders(w)' = {}
    BY DEF Holders
  <2>2. QED
    BY <2>1, FS_EmptySet DEF SlotAccounting
<1>4. WorkConserving' /\ LifecycleMatchesLoad'
  BY DEF WorkConserving, LifecycleMatchesLoad
<1>5. QED
  BY <1>1, <1>2, <1>3, <1>4 DEF WInv
-----------------------------------------------------------------------------
\* Every step of the warehouses preserves the inductive invariant.
LEMMA NextPreservesWInv == WInv /\ [Next]_vars => WInv'
<1> SUFFICES ASSUME WInv, [Next]_vars
             PROVE  WInv'
  OBVIOUS
<1>1. ASSUME NEW w \in Warehouses, NEW cfg \in Settings, CreateWarehouseWithSettings(w, cfg)
      PROVE  WInv'
  BY <1>1, CreatePreservesWInv
<1>2. ASSUME NEW w \in Warehouses, ResumeWarehouse(w)
      PROVE  WInv'
  BY <1>2, ResumePreservesWInv
<1>3. ASSUME NEW w \in Warehouses, SuspendWarehouse(w)
      PROVE  WInv'
  BY <1>3, SuspendPreservesWInv
<1>4. ASSUME NEW w \in Warehouses, NEW cfg \in Settings, AlterWarehouse(w, cfg)
      PROVE  WInv'
  BY <1>4, AlterPreservesWInv
<1>5. ASSUME NEW w \in Warehouses, DropWarehouse(w)
      PROVE  WInv'
  BY <1>5, DropPreservesWInv
<1>6. ASSUME NEW due \in SUBSET Warehouses, CheckAutoSuspend(due)
      PROVE  WInv'
  BY <1>6, AutoSuspendPreservesWInv
<1>7. ASSUME NEW s \in Statements, NEW w \in Warehouses, Acquire(s, w)
      PROVE  WInv'
  BY <1>7, AcquirePreservesWInv
<1>8. ASSUME NEW s \in Statements, CancelContext(s)
      PROVE  WInv'
  BY <1>8, CancelContextPreservesWInv
<1>9. ASSUME NEW s \in Statements, PickUp(s)
      PROVE  WInv'
  BY <1>9, PickUpPreservesWInv
<1>10. ASSUME NEW s \in Statements, GiveUp(s)
       PROVE  WInv'
  BY <1>10, GiveUpPreservesWInv
<1>11. ASSUME NEW s \in Statements, Release(s)
       PROVE  WInv'
  BY <1>11, ReleasePreservesWInv
<1>12. CASE NewPersistentManager
  BY <1>12, RestartPreservesWInv
<1>13. CASE UNCHANGED vars
  BY <1>13 DEF vars, whVars, dbVars, stVars, WInv, TypeOK, QueueIsWaiters, SlotAccounting,
               WorkConserving, LifecycleMatchesLoad, InLine, Holders
<1>14. QED
  BY <1>1, <1>2, <1>3, <1>4, <1>5, <1>6, <1>7, <1>8, <1>9, <1>10, <1>11, <1>12, <1>13 DEF Next

\* The invariant holds in every reachable state, whatever the numbers of
\* warehouses, statements and sizes.
THEOREM WarehouseInvariant == Spec => []WInv
<1>1. Init => WInv
  BY InitWInv
<1>2. WInv /\ [Next]_vars => WInv'
  BY NextPreservesWInv
<1>3. QED
  BY <1>1, <1>2, PTL DEF Spec

\* Type correctness of Manager and of the goroutines in Acquire.
THEOREM WarehouseTypeOK == Spec => []TypeOK
<1>1. WInv => TypeOK
  BY DEF WInv
<1>2. QED
  BY <1>1, WarehouseInvariant, PTL

\* The queue of a warehouse is exactly the statements blocked on it
\* (manager.go:259-263, 273-291, 354-365).
THEOREM WarehouseQueueIsWaiters == Spec => []QueueIsWaiters
<1>1. WInv => QueueIsWaiters
  BY DEF WInv
<1>2. QED
  BY <1>1, WarehouseInvariant, PTL

\* No slot is leaked or given back twice, through cancellations, resizes,
\* suspensions and restarts (manager.go:273-294, 330-352).
THEOREM WarehouseSlotAccounting == Spec => []SlotAccounting
<1>1. WInv => SlotAccounting
  BY DEF WInv
<1>2. QED
  BY <1>1, WarehouseInvariant, PTL

\* Nobody waits while a slot is free (manager.go:252, 354-365).
THEOREM WarehouseWorkConserving == Spec => []WorkConserving
<1>1. WInv => WorkConserving
  BY DEF WInv
<1>2. QED
  BY <1>1, WarehouseInvariant, PTL

\* A suspended or dropped warehouse runs nothing, and a suspending one has a
\* release to come (manager.go:178-190, 343-352).
THEOREM WarehouseLifecycle == Spec => []LifecycleMatchesLoad
<1>1. WInv => LifecycleMatchesLoad
  BY DEF WInv
<1>2. QED
  BY <1>1, WarehouseInvariant, PTL
-----------------------------------------------------------------------------
\* A write that succeeds stores the state and settings the step leaves in
\* memory; one that fails puts the warehouse among the unsaved.
LEMMA PersistKeepsCatalogCurrent ==
    ASSUME TypeOK, CatalogCurrent, NEW w \in Warehouses, NEW st, NEW cfg,
           persist(w, st, cfg),
           state' = [state EXCEPT ![w] = st],
           settings' = [settings EXCEPT ![w] = cfg]
    PROVE  CatalogCurrent'
<1>1. SUFFICES ASSUME NEW v \in Warehouses, v \notin unsaved'
               PROVE  catalog'[v] = Row(state'[v], settings'[v])
  BY DEF CatalogCurrent, Row
<1>2. CASE v = w
  BY <1>1, <1>2 DEF persist, TypeOK, Row
<1>3. CASE v # w
  <2>1. v \notin unsaved /\ catalog'[v] = catalog[v]
    BY <1>1, <1>3 DEF persist, TypeOK
  <2>2. state'[v] = state[v] /\ settings'[v] = settings[v]
    BY <1>3 DEF TypeOK
  <2>3. QED
    BY <2>1, <2>2 DEF CatalogCurrent
<1>4. QED
  BY <1>2, <1>3

\* Every step that changes a durable field writes the row, or is known not
\* to have.
LEMMA NextPreservesCatalogCurrent ==
    TypeOK /\ CatalogCurrent /\ [Next]_vars => CatalogCurrent'
<1> SUFFICES ASSUME TypeOK, CatalogCurrent, [Next]_vars
             PROVE  CatalogCurrent'
  OBVIOUS
<1>0. \A w \in Warehouses : settings = [settings EXCEPT ![w] = settings[w]]
                            /\ state = [state EXCEPT ![w] = state[w]]
  BY DEF TypeOK
<1>1. ASSUME NEW w \in Warehouses, NEW cfg \in Settings, CreateWarehouseWithSettings(w, cfg)
      PROVE  CatalogCurrent'
  <2>1. persist(w, "SUSPENDED", cfg)
    BY <1>1 DEF CreateWarehouseWithSettings, persist
  <2>2. QED
    BY <1>1, <2>1, PersistKeepsCatalogCurrent DEF CreateWarehouseWithSettings
<1>2. ASSUME NEW w \in Warehouses, ResumeWarehouse(w)
      PROVE  CatalogCurrent'
  BY <1>0, <1>2, PersistKeepsCatalogCurrent DEF ResumeWarehouse
<1>3. ASSUME NEW w \in Warehouses, SuspendWarehouse(w)
      PROVE  CatalogCurrent'
  BY <1>0, <1>3, PersistKeepsCatalogCurrent DEF SuspendWarehouse, suspendLifecycle
<1>4. ASSUME NEW w \in Warehouses, NEW cfg \in Settings, AlterWarehouse(w, cfg)
      PROVE  CatalogCurrent'
  BY <1>0, <1>4, PersistKeepsCatalogCurrent DEF AlterWarehouse
<1>5. ASSUME NEW w \in Warehouses, DropWarehouse(w)
      PROVE  CatalogCurrent'
  <2>1. persist(w, "ABSENT", NoSettings)
    BY <1>5 DEF DropWarehouse, persist, Row
  <2>2. QED
    BY <1>5, <2>1, PersistKeepsCatalogCurrent DEF DropWarehouse
<1>6. ASSUME NEW due \in SUBSET Warehouses, CheckAutoSuspend(due)
      PROVE  CatalogCurrent'
  <2>1. PICK failed \in SUBSET due :
           /\ catalog' = [w \in Warehouses |-> IF w \in due \ failed
                                               THEN Row("SUSPENDED", settings[w])
                                               ELSE catalog[w]]
           /\ unsaved' = (unsaved \ due) \cup failed
    BY <1>6 DEF CheckAutoSuspend
  <2>2. /\ state' = [w \in Warehouses |-> IF w \in due THEN "SUSPENDED" ELSE state[w]]
        /\ settings' = settings
    BY <1>6 DEF CheckAutoSuspend
  <2>3. QED
    BY <2>1, <2>2 DEF CatalogCurrent, Row
<1>7. ASSUME NEW s \in Statements, NEW w \in Warehouses, Acquire(s, w)
      PROVE  CatalogCurrent'
  <2>1. CASE state[w] = "ACTIVE" /\ Enter(s, w) /\ UNCHANGED <<state, dbVars>>
    BY <2>1 DEF Enter, dbVars, CatalogCurrent, Row
  <2>2. CASE /\ state' = [state EXCEPT ![w] = "ACTIVE"]
             /\ persist(w, "ACTIVE", settings[w])
             /\ settings' = settings
    BY <1>0, <2>2, PersistKeepsCatalogCurrent
  <2>3. QED
    BY <1>7, <2>1, <2>2 DEF Acquire, Enter
<1>8. ASSUME NEW s \in Statements, CancelContext(s) \/ PickUp(s)
      PROVE  CatalogCurrent'
  BY <1>8 DEF CancelContext, PickUp, whVars, dbVars, CatalogCurrent, Row
<1>9. ASSUME NEW w \in Warehouses, NEW answered, releaseLocked(w, answered)
      PROVE  CatalogCurrent'
  <2> DEFINE st == IF state[w] = "SUSPENDING" /\ running[w] - 1 = 0
                   THEN "SUSPENDED" ELSE state[w]
  <2>1. /\ state' = [state EXCEPT ![w] = st]
        /\ persist(w, st, settings[w])
        /\ settings' = settings
    BY <1>9 DEF releaseLocked
  <2>2. QED
    BY <1>0, <2>1, PersistKeepsCatalogCurrent
<1>10. ASSUME NEW s \in Statements, GiveUp(s)
       PROVE  CatalogCurrent'
  <2>1. target[s] \in Warehouses
    BY <1>10 DEF GiveUp, TypeOK
  <2>2. CASE UNCHANGED <<state, settings, dbVars>>
    BY <2>2 DEF dbVars, CatalogCurrent, Row
  <2>3. CASE releaseLocked(target[s], [ready EXCEPT ![s] = "empty"])
    BY <1>9, <2>1, <2>3
  <2>4. QED
    BY <1>10, <2>2, <2>3 DEF GiveUp, whVars
<1>11. ASSUME NEW s \in Statements, Release(s)
       PROVE  CatalogCurrent'
  <2>1. target[s] \in Warehouses
    BY <1>11 DEF Release, TypeOK
  <2>2. CASE UNCHANGED <<whVars, dbVars>>
    BY <2>2 DEF whVars, dbVars, CatalogCurrent, Row
  <2>3. CASE releaseLocked(target[s], ready)
    BY <1>9, <2>1, <2>3
  <2>4. QED
    BY <1>11, <2>2, <2>3 DEF Release
<1>12. CASE NewPersistentManager
  <2>1. ASSUME NEW w \in Warehouses, catalog[w] # None
        PROVE  [catalog[w] EXCEPT !.state = "SUSPENDED"] =
                  [state |-> "SUSPENDED", settings |-> catalog[w].settings]
    <3>1. catalog[w] \in Rows
      BY <2>1 DEF TypeOK
    <3>2. QED
      BY <3>1 DEF Rows
  <2>2. QED
    BY <1>12, <2>1 DEF NewPersistentManager, CatalogCurrent, Row
<1>13. CASE UNCHANGED vars
  BY <1>13 DEF vars, whVars, dbVars, CatalogCurrent, Row
<1>14. QED
  BY <1>1, <1>2, <1>3, <1>4, <1>5, <1>6, <1>7, <1>8, <1>10, <1>11, <1>12, <1>13 DEF Next

\* A restart loads what memory held, for every warehouse whose last write
\* succeeded (manager.go:391-409).
THEOREM WarehouseCatalogCurrent == Spec => []CatalogCurrent
<1>1. Init => CatalogCurrent
  BY DEF Init, CatalogCurrent, Row
<1>2. QED
  BY <1>1, NextPreservesCatalogCurrent, WarehouseTypeOK, PTL DEF Spec
-----------------------------------------------------------------------------
\* The loop of admit stops at the capacity, counted from what the step leaves
\* running before it.
LEMMA AdmitWithinCapacity ==
    ASSUME TypeOK, NEW w \in Warehouses, NEW st \in States, NEW cfg \in Settings,
           NEW run \in Nat, run <= running[w], NEW answered,
           admit(w, st, cfg, run, answered),
           settings' = [settings EXCEPT ![w] = cfg]
    PROVE  \A v \in Warehouses : running'[v] > running[v] =>
                                    running'[v] <= Capacity[settings'[v].size]
<1> DEFINE n == Admissible(w, st, cfg, run)
<1>1. n \in 0..Len(queue[w]) /\ (n > 0 => run + n <= Capacity[cfg.size])
  BY AdmissibleProperties DEF TypeOK
<1>2. running' = [running EXCEPT ![w] = run + n]
  BY DEF admit
<1> HIDE DEF n
<1>3. n \in Nat /\ running[w] \in Nat
  BY <1>1, LenProperties DEF TypeOK
<1>4. ASSUME NEW v \in Warehouses, running'[v] > running[v]
      PROVE  running'[v] <= Capacity[settings'[v].size]
  <2>1. CASE v = w
    <3>1. running'[v] = run + n /\ settings'[v] = cfg
      BY <1>2, <2>1 DEF TypeOK
    <3>2. n > 0
      BY <1>3, <1>4, <2>1, <3>1
    <3>3. QED
      BY <1>1, <3>1, <3>2
  <2>2. CASE v # w
    <3>1. running'[v] = running[v] /\ running[v] \in Nat
      BY <1>2, <2>2 DEF TypeOK
    <3>2. QED
      BY <1>4, <3>1
  <2>3. QED
    BY <2>1, <2>2
<1>5. QED
  BY <1>4

\* Running grows only by admission, and admission stops at the capacity
\* (manager.go:252, 354-365).
THEOREM WarehouseNeverOverAdmits == Spec => NeverOverAdmits
<1> DEFINE Within == \A w \in Warehouses : running'[w] > running[w] =>
                                              running'[w] <= Capacity[settings'[w].size]
<1>1. WInv /\ [Next]_vars => [Within]_vars
  <2> SUFFICES ASSUME WInv, Next
               PROVE  Within
    BY DEF vars
  <2>1. TypeOK
    BY DEF WInv
  <2>2. CASE running' = running
    BY <2>1, <2>2 DEF TypeOK
  <2>3. ASSUME NEW w \in Warehouses, NEW answered, releaseLocked(w, answered), running[w] > 0
        PROVE  Within
    <3> DEFINE run == running[w] - 1
               st == IF state[w] = "SUSPENDING" /\ run = 0 THEN "SUSPENDED" ELSE state[w]
    <3>1. run \in Nat /\ run <= running[w] /\ st \in States /\ settings[w] \in Settings
      BY <2>1, <2>3 DEF TypeOK, States
    <3>2. admit(w, st, settings[w], run, answered) /\ settings' = [settings EXCEPT ![w] = settings[w]]
      BY <2>1, <2>3 DEF releaseLocked, TypeOK
    <3> HIDE DEF run, st
    <3>3. QED
      BY <2>1, <3>1, <3>2, AdmitWithinCapacity
  <2>4. ASSUME NEW w \in Warehouses, NEW cfg \in Settings, AlterWarehouse(w, cfg)
        PROVE  Within
    <3>1. running[w] \in Nat /\ running[w] <= running[w] /\ state[w] \in States
      BY <2>1 DEF TypeOK
    <3>2. admit(w, state[w], cfg, running[w], ready) /\ settings' = [settings EXCEPT ![w] = cfg]
      BY <2>4 DEF AlterWarehouse
    <3>3. QED
      BY <2>1, <3>1, <3>2, AdmitWithinCapacity
  <2>5. ASSUME NEW w \in Warehouses, NEW cfg \in Settings, CreateWarehouseWithSettings(w, cfg)
        PROVE  Within
    <3>1. \A v \in Warehouses : ~(running'[v] > running[v])
      BY <2>1, <2>5 DEF CreateWarehouseWithSettings, TypeOK
    <3>2. QED
      BY <3>1
  <2>6. ASSUME NEW s \in Statements, NEW w \in Warehouses, Acquire(s, w)
        PROVE  Within
    <3>1. CASE Enter(s, w)
      <4>1. CASE running' = [running EXCEPT ![w] = @ + 1] /\ running[w] < Capacity[settings[w].size]
        <5>1. Capacity[settings[w].size] \in Nat /\ settings' = settings
          BY <2>1, <3>1, CapacityAssumption DEF Enter, TypeOK, Settings
        <5>2. QED
          BY <2>1, <4>1, <5>1 DEF TypeOK
      <4>2. QED
        BY <2>2, <3>1, <4>1 DEF Enter
    <3>2. QED
      BY <2>2, <2>6, <3>1 DEF Acquire
  <2>7. ASSUME NEW s \in Statements, GiveUp(s)
        PROVE  Within
    <3>1. target[s] \in Warehouses
      BY <2>1, <2>7 DEF GiveUp, TypeOK
    <3>2. QED
      BY <2>2, <2>3, <2>7, <3>1 DEF GiveUp, whVars
  <2>8. ASSUME NEW s \in Statements, Release(s)
        PROVE  Within
    <3>1. target[s] \in Warehouses
      BY <2>1, <2>8 DEF Release, TypeOK
    <3>2. QED
      BY <2>2, <2>3, <2>8, <3>1 DEF Release, whVars
  <2>9. CASE NewPersistentManager
    <3>1. \A v \in Warehouses : ~(running'[v] > running[v])
      BY <2>1, <2>9 DEF NewPersistentManager, TypeOK
    <3>2. QED
      BY <3>1
  <2>10. ASSUME NEW w \in Warehouses, ResumeWarehouse(w) \/ SuspendWarehouse(w) \/ DropWarehouse(w)
         PROVE  Within
    BY <2>2, <2>10 DEF ResumeWarehouse, SuspendWarehouse, suspendLifecycle, DropWarehouse
  <2>11. ASSUME NEW due \in SUBSET Warehouses, CheckAutoSuspend(due)
         PROVE  Within
    BY <2>2, <2>11 DEF CheckAutoSuspend
  <2>12. ASSUME NEW s \in Statements, CancelContext(s) \/ PickUp(s)
         PROVE  Within
    BY <2>2, <2>12 DEF CancelContext, PickUp, whVars
  <2>13. QED
    BY <2>4, <2>5, <2>6, <2>7, <2>8, <2>9, <2>10, <2>11, <2>12 DEF Next
<1>2. QED
  BY <1>1, WarehouseInvariant, PTL DEF Spec, NeverOverAdmits
-----------------------------------------------------------------------------
(***************************************************************************)
(* Warehouse implements SlotPool: every step maps to a step of the pools   *)
(* or leaves them alone.                                                   *)
(***************************************************************************)

\* The slots of warehouse v and their owners stay as they are.
Unmoved(v) ==
    /\ (state'[v] = "ACTIVE") <=> (state[v] = "ACTIVE")
    /\ Capacity[settings'[v].size] = Capacity[settings[v].size]
    /\ Holders(v)' = Holders(v)
    /\ queue'[v] = queue[v]

\* The instance counts as this module does.
LEMMA PoolCardinality == \A S : Pool!Cardinality(S) = Cardinality(S)
  BY DEF Pool!Cardinality, Cardinality

\* What a step of warehouse w alone leaves of the pools.
LEMMA OneMoves ==
    ASSUME WInv, WInv', NEW w \in Warehouses,
           \A v \in Warehouses : v # w => Unmoved(v)
    PROVE  /\ queue' = [queue EXCEPT ![w] = queue'[w]]
           /\ [v \in Warehouses |-> Holders(v)]' =
                 [[v \in Warehouses |-> Holders(v)] EXCEPT ![w] = Holders(w)']
           /\ [v \in Warehouses |-> Capacity[settings[v].size]]' =
                 [[v \in Warehouses |-> Capacity[settings[v].size]]
                     EXCEPT ![w] = Capacity[settings'[w].size]]
           /\ [v \in Warehouses |-> state[v] = "ACTIVE"]' =
                 [[v \in Warehouses |-> state[v] = "ACTIVE"] EXCEPT ![w] = state'[w] = "ACTIVE"]
<1>1. queue' = [queue EXCEPT ![w] = queue'[w]]
  BY DEF WInv, TypeOK, Unmoved
<1>2. [v \in Warehouses |-> Holders(v)]' =
         [[v \in Warehouses |-> Holders(v)] EXCEPT ![w] = Holders(w)']
  BY DEF Unmoved
<1>3. [v \in Warehouses |-> Capacity[settings[v].size]]' =
         [[v \in Warehouses |-> Capacity[settings[v].size]]
             EXCEPT ![w] = Capacity[settings'[w].size]]
  BY DEF Unmoved
<1>4. [v \in Warehouses |-> state[v] = "ACTIVE"]' =
         [[v \in Warehouses |-> state[v] = "ACTIVE"] EXCEPT ![w] = state'[w] = "ACTIVE"]
  BY DEF Unmoved
<1> QED
  BY <1>1, <1>2, <1>3, <1>4

\* A step that closes the warehouses in ps is what SlotPool!Close says.
LEMMA CloseIntro ==
    ASSUME WInv, WInv', NEW ps \in SUBSET Warehouses,
           \A v \in Warehouses :
              /\ (state'[v] = "ACTIVE") <=> (state[v] = "ACTIVE" /\ v \notin ps)
              /\ queue'[v] = IF v \in ps THEN <<>> ELSE queue[v]
              /\ Holders(v)' = Holders(v)
              /\ settings'[v] # settings[v] => v \in ps /\ Holders(v) = {}
    PROVE  Pool!Close(ps)
<1>1. queue' = [v \in Warehouses |-> IF v \in ps THEN <<>> ELSE queue[v]]
  BY DEF WInv, TypeOK
<1>2. [v \in Warehouses |-> state[v] = "ACTIVE"]' =
         [v \in Warehouses |-> [u \in Warehouses |-> state[u] = "ACTIVE"][v] /\ v \notin ps]
  OBVIOUS
<1>3. [v \in Warehouses |-> Capacity[settings[v].size]]'
         \in [Warehouses -> {Capacity[z] : z \in Sizes}]
  BY DEF WInv, TypeOK, Settings
<1>4. UNCHANGED [v \in Warehouses |-> Holders(v)]
  OBVIOUS
<1> QED
  BY <1>1, <1>2, <1>3, <1>4 DEF Pool!Close

\* No slot moves and nobody joins or leaves a queue.
LEMMA UnmovedStutters ==
    ASSUME WInv, WInv', \A v \in Warehouses : Unmoved(v)
    PROVE  UNCHANGED Pool!vars
<1>1. queue' = queue
  BY DEF WInv, TypeOK, Unmoved
<1>2. UNCHANGED [v \in Warehouses |-> Holders(v)]
  BY DEF Unmoved
<1>3. UNCHANGED [v \in Warehouses |-> Capacity[settings[v].size]]
  BY DEF Unmoved
<1>4. UNCHANGED [v \in Warehouses |-> state[v] = "ACTIVE"]
  BY DEF Unmoved
<1> QED
  BY <1>1, <1>2, <1>3, <1>4 DEF Pool!vars

\* Running counts the owners, so nothing runs where nobody owns a slot.
LEMMA OwnersRun ==
    ASSUME WInv, NEW w \in Warehouses
    PROVE  /\ running[w] = 0 <=> Holders(w) = {}
           /\ Holders(w) # {} => running[w] > 0 /\ state[w] # "ABSENT"
<1>1. running[w] \in Nat /\ running[w] = Cardinality(Holders(w))
  BY DEF WInv, TypeOK, SlotAccounting
<1>2. Cardinality(Holders(w)) = 0 <=> Holders(w) = {}
  BY HoldersFinite, FS_EmptySet
<1> QED
  BY <1>1, <1>2 DEF WInv, LifecycleMatchesLoad

\* With the settings and owners that admit starts from, Admissible is the
\* number of clients that SlotPool!Settle lets in.
LEMMA AdmitSettles ==
    ASSUME WInv, WInv',
           NEW w \in Warehouses, NEW st \in States, NEW cfg \in Settings,
           NEW gone \in SUBSET Holders(w),
           NEW run \in Nat, run = running[w] - Cardinality(gone),
           NEW answered,
           admit(w, st, cfg, run, answered),
           state' = [state EXCEPT ![w] = st],
           settings' = [settings EXCEPT ![w] = cfg],
           Leaving(gone, answered)
    PROVE  Pool!Settle(w, st = "ACTIVE", Capacity[cfg.size], Holders(w) \ gone, queue[w])
<1> DEFINE n == Admissible(w, st, cfg, run)
           open == st = "ACTIVE"
           c == Capacity[cfg.size]
           H == Holders(w) \ gone
<1>1. /\ \A v \in Warehouses : v # w => Holders(v)' = Holders(v)
      /\ Holders(w)' = H \cup Pool!Front(queue[w], n)
      /\ Cardinality(H) = run
  BY AdmitHolders
<1>2. c \in Nat /\ Len(queue[w]) \in Nat
  BY CapacityAssumption, LenProperties DEF Settings, WInv, TypeOK
<1>3. n = Pool!Fits(open, c, H, queue[w])
  BY <1>1, <1>2, PoolCardinality DEF Admissible, Room, Pool!Fits
<1>4. queue' = [queue EXCEPT ![w] = SubSeq(queue[w], n + 1, Len(queue[w]))]
  BY DEF admit, WInv, TypeOK
<1>5. /\ \A v \in Warehouses : v # w => Unmoved(v)
      /\ open <=> state'[w] = "ACTIVE"
      /\ c = Capacity[settings'[w].size]
  BY <1>1, <1>4 DEF Unmoved, WInv, TypeOK
<1>6. queue'[w] = SubSeq(queue[w], n + 1, Len(queue[w]))
  BY <1>4 DEF WInv, TypeOK
<1> HIDE DEF n
<1> QED
  BY <1>1, <1>3, <1>5, <1>6, OneMoves DEF Pool!Settle

\* ALTER WAREHOUSE resizes the pool.
LEMMA AlterResizes ==
    ASSUME WInv, WInv', NEW w \in Warehouses, NEW cfg \in Settings, AlterWarehouse(w, cfg)
    PROVE  Pool!Resize(w, Capacity[cfg.size])
<1> USE DEF AlterWarehouse
<1>1. PICK st \in States : st = state[w]
  BY DEF WInv, TypeOK
<1>2. PICK run \in Nat : run = running[w]
  BY DEF WInv, TypeOK
<1>3. PICK answered : answered = ready
  OBVIOUS
<1>4. {} \in SUBSET Holders(w) /\ run = running[w] - Cardinality({})
  BY <1>2, FS_EmptySet
<1>5. Leaving({}, answered)
  BY <1>3 DEF Leaving
<1>6. /\ admit(w, st, cfg, run, answered)
      /\ state' = [state EXCEPT ![w] = st]
      /\ settings' = [settings EXCEPT ![w] = cfg]
  BY <1>1, <1>2, <1>3 DEF WInv, TypeOK
<1>7. Pool!Settle(w, st = "ACTIVE", Capacity[cfg.size], Holders(w) \ {}, queue[w])
  BY <1>4, <1>5, <1>6, AdmitSettles
<1> QED
  BY <1>1, <1>7 DEF Pool!Resize, Pool!Settle

\* A statement that gives its slot back leaves the pool.
LEMMA ReleaseLeaves ==
    ASSUME WInv, WInv', NEW s \in Statements, NEW w \in Warehouses, w = target[s],
           s \in Holders(w),
           Return(s),
           releaseLocked(target[s], [ready EXCEPT ![s] = "empty"])
    PROVE  Pool!Leave(s, w)
<1>1. w = target[s] /\ releaseLocked(w, [ready EXCEPT ![s] = "empty"])
  OBVIOUS
<1>2. running[w] \in Nat /\ running[w] > 0 /\ state[w] \in States /\ settings[w] \in Settings
  BY <1>1, OwnersRun DEF WInv, TypeOK
<1>3. PICK run \in Nat : run = running[w] - 1
  BY <1>2
<1>4. PICK st \in States :
         /\ st = IF state[w] = "SUSPENDING" /\ run = 0 THEN "SUSPENDED" ELSE state[w]
         /\ st = "ACTIVE" <=> state[w] = "ACTIVE"
  BY <1>2 DEF States
<1>5. PICK cfg \in Settings : cfg = settings[w]
  BY <1>2
<1>6. PICK answered : answered = [ready EXCEPT ![s] = "empty"]
  OBVIOUS
<1>7. {s} \in SUBSET Holders(w) /\ run = running[w] - Cardinality({s})
  BY <1>1, <1>3, FS_Singleton
<1>8. Leaving({s}, answered)
  BY <1>6 DEF Leaving, Return, WInv, TypeOK
<1>9. /\ admit(w, st, cfg, run, answered)
      /\ state' = [state EXCEPT ![w] = st]
      /\ settings' = [settings EXCEPT ![w] = cfg]
  BY <1>1, <1>3, <1>4, <1>5, <1>6 DEF releaseLocked, WInv, TypeOK
<1>10. Pool!Settle(w, st = "ACTIVE", Capacity[cfg.size], Holders(w) \ {s}, queue[w])
  BY <1>7, <1>8, <1>9, AdmitSettles
<1> QED
  BY <1>1, <1>4, <1>5, <1>10 DEF Pool!Leave, Pool!Settle

\* The lifecycle statements: CREATE, SUSPEND and DROP close a pool, the first
\* and the last while nobody owns a slot of it; RESUME opens one.
LEMMA LifecycleSteps ==
    ASSUME WInv, WInv', NEW w \in Warehouses
    PROVE  /\ \A cfg \in Settings : CreateWarehouseWithSettings(w, cfg) => Pool!Close({w})
           /\ SuspendWarehouse(w) => Pool!Close({w})
           /\ DropWarehouse(w) => Pool!Close({w})
<1>1. ASSUME NEW cfg \in Settings, CreateWarehouseWithSettings(w, cfg)
      PROVE  Pool!Close({w})
  <2>1. \A v \in Warehouses : Holders(v)' = Holders(v)
    BY <1>1 DEF CreateWarehouseWithSettings, stVars, Holders
  <2>2. Holders(w) = {}
    BY <1>1, OwnersRun DEF CreateWarehouseWithSettings
  <2>3. \A v \in Warehouses :
              /\ (state'[v] = "ACTIVE") <=> (state[v] = "ACTIVE" /\ v \notin {w})
              /\ queue'[v] = IF v \in {w} THEN <<>> ELSE queue[v]
              /\ settings'[v] # settings[v] => v \in {w}
    BY <1>1 DEF CreateWarehouseWithSettings, WInv, TypeOK
  <2> QED
    BY <2>1, <2>2, <2>3, CloseIntro
<1>2. ASSUME SuspendWarehouse(w)
      PROVE  Pool!Close({w})
  <2>1. \A v \in Warehouses : Holders(v)' = Holders(v)
    BY <1>2 DEF SuspendWarehouse, suspendLifecycle, rejectQueue, Holders, WInv, QueueIsWaiters
  <2>2. \A v \in Warehouses :
              /\ (state'[v] = "ACTIVE") <=> (state[v] = "ACTIVE" /\ v \notin {w})
              /\ queue'[v] = IF v \in {w} THEN <<>> ELSE queue[v]
              /\ settings'[v] = settings[v]
    BY <1>2 DEF SuspendWarehouse, suspendLifecycle, WInv, TypeOK
  <2> QED
    BY <2>1, <2>2, CloseIntro
<1>3. ASSUME DropWarehouse(w)
      PROVE  Pool!Close({w})
  <2>1. \A v \in Warehouses : Holders(v)' = Holders(v)
    BY <1>3 DEF DropWarehouse, stVars, Holders
  <2>2. Holders(w) = {}
    BY <1>3, OwnersRun DEF DropWarehouse
  <2>3. \A v \in Warehouses :
              /\ (state'[v] = "ACTIVE") <=> (state[v] = "ACTIVE" /\ v \notin {w})
              /\ queue'[v] = IF v \in {w} THEN <<>> ELSE queue[v]
              /\ settings'[v] # settings[v] => v \in {w}
    BY <1>3 DEF DropWarehouse, WInv, TypeOK
  <2> QED
    BY <2>1, <2>2, <2>3, CloseIntro
<1> QED
  BY <1>1, <1>2, <1>3

\* Auto-suspension closes idle pools.
LEMMA AutoSuspendCloses ==
    ASSUME WInv, WInv', NEW due \in SUBSET Warehouses, CheckAutoSuspend(due)
    PROVE  Pool!Close(due)
<1>1. \A v \in Warehouses : Holders(v)' = Holders(v)
  BY DEF CheckAutoSuspend, stVars, Holders
<1>2. \A v \in due : queue[v] = <<>>
  BY IdleQueueEmpty DEF CheckAutoSuspend
<1>3. \A v \in Warehouses :
            /\ (state'[v] = "ACTIVE") <=> (state[v] = "ACTIVE" /\ v \notin due)
            /\ queue'[v] = IF v \in due THEN <<>> ELSE queue[v]
            /\ settings'[v] = settings[v]
  BY <1>2 DEF CheckAutoSuspend
<1> QED
  BY <1>1, <1>3, CloseIntro

\* A suspended warehouse has neither owners nor a queue, and may be opened.
LEMMA ResumeOpens ==
    ASSUME WInv, WInv', NEW w \in Warehouses, state[w] = "SUSPENDED",
           state' = [state EXCEPT ![w] = "ACTIVE"],
           UNCHANGED <<settings, running, queued, queue, stVars>>
    PROVE  Pool!Open(w)
<1>1. Holders(w) = {} /\ queue[w] = <<>> /\ Len(queue[w]) = 0
  BY OwnersRun, IdleQueueEmpty, EmptySeq DEF WInv, LifecycleMatchesLoad
<1>2. \A v \in Warehouses : Holders(v)' = Holders(v)
  BY DEF stVars, Holders
<1>3. /\ \A v \in Warehouses : v # w => Unmoved(v)
      /\ state'[w] = "ACTIVE" /\ settings'[w] = settings[w] /\ queue'[w] = queue[w]
  BY <1>2 DEF Unmoved, WInv, TypeOK
<1>4. Capacity[settings[w].size] \in Nat \ {0}
  BY CapacityAssumption DEF Settings, WInv, TypeOK
<1>5. Pool!Fits(TRUE, Capacity[settings[w].size], {}, queue[w]) = 0
  BY <1>1, <1>4, PoolCardinality, FS_EmptySet DEF Pool!Fits
<1>6. Pool!Front(queue[w], 0) = {} /\ SubSeq(queue[w], 0 + 1, Len(queue[w])) = <<>>
  BY <1>1, SubSeqEmpty DEF Pool!Front
<1>7. Pool!Settle(w, TRUE, Capacity[settings[w].size], {}, queue[w])
  <2> DEFINE n == Pool!Fits(TRUE, Capacity[settings[w].size], {}, queue[w])
  <2>1. /\ Holders(w)' = {} \cup Pool!Front(queue[w], n)
        /\ queue'[w] = SubSeq(queue[w], n + 1, Len(queue[w]))
    BY <1>1, <1>2, <1>3, <1>5, <1>6
  <2> HIDE DEF n
  <2> QED
    BY <1>3, <2>1, OneMoves DEF Pool!Settle, n
<1> QED
  BY <1>1, <1>7 DEF Pool!Open, Pool!Settle

\* Acquire joins the pool: with a free slot the statement is the whole line and
\* goes straight through it, otherwise it stays at the end.
LEMMA EnterJoins ==
    ASSUME WInv, WInv', NEW s \in Statements, NEW w \in Warehouses, pc[s] = "idle",
           state[w] \in {"ACTIVE", "SUSPENDED"},
           state' = [state EXCEPT ![w] = "ACTIVE"],
           Enter(s, w)
    PROVE  Pool!Join(s, w)
<1> DEFINE c == Capacity[settings[w].size]
           L == Append(queue[w], s)
           n == Pool!Fits(TRUE, c, Holders(w), L)
<1>1. /\ c \in Nat \ {0} /\ running[w] \in Nat /\ running[w] = Cardinality(Holders(w))
      /\ queue[w] \in Seq(Statements) /\ Len(queue[w]) \in Nat
      /\ target[s] = None
  BY CapacityAssumption, LenProperties DEF Settings, WInv, TypeOK, SlotAccounting
<1>2. L \in Seq(Statements) /\ Len(L) = Len(queue[w]) + 1 /\ L[Len(queue[w]) + 1] = s
  BY <1>1, AppendProperties
<1>3. n = LET free == IF c > running[w] THEN c - running[w] ELSE 0
          IN  IF free < Len(L) THEN free ELSE Len(L)
  BY <1>1, PoolCardinality DEF Pool!Fits
<1> HIDE DEF n, L
<1>4. \A v \in Warehouses : s \notin Holders(v) /\ ~InLine(s, v)
  BY <1>1, NoneAssumption DEF Holders, WInv, TypeOK, QueueIsWaiters
<1>5. state[w] = "ACTIVE" \/ Holders(w) = {}
  BY OwnersRun DEF WInv, LifecycleMatchesLoad
<1>6. target' = [target EXCEPT ![s] = w] /\ settings' = settings /\ ready' = ready
  BY DEF Enter
<1>7. /\ \A v \in Warehouses : v # w => Holders(v)' = Holders(v) /\ queue'[v] = queue[v]
      /\ Holders(w)' = Holders(w) \cup Pool!Front(L, n)
      /\ queue'[w] = SubSeq(L, n + 1, Len(L))
  <2>1. CASE /\ queue[w] = <<>> /\ running[w] < c
             /\ pc' = [pc EXCEPT ![s] = "holding"] /\ queue' = queue
    <3>1. n = 1 /\ Len(L) = 1 /\ L[1] = s
      BY <1>1, <1>2, <1>3, <2>1, EmptySeq
    <3>2. Pool!Front(L, n) = {s} /\ SubSeq(L, n + 1, Len(L)) = <<>>
      BY <3>1, SubSeqEmpty DEF Pool!Front
    <3>3. Holders(w)' = Holders(w) \cup {s}
      BY <1>6, <2>1 DEF Holders, WInv, TypeOK
    <3>4. \A v \in Warehouses : v # w => Holders(v)' = Holders(v)
      BY <1>1, <1>6, <2>1, NoneAssumption DEF Holders, WInv, TypeOK
    <3> QED
      BY <2>1, <3>2, <3>3, <3>4
  <2>2. CASE /\ ~(queue[w] = <<>> /\ running[w] < c)
             /\ queue' = [queue EXCEPT ![w] = L]
             /\ pc' = [pc EXCEPT ![s] = "waiting"]
    <3>1. running[w] >= c
      BY <1>1, <2>2 DEF WInv, WorkConserving
    <3>2. n = 0
      BY <1>1, <1>2, <1>3, <3>1
    <3>3. Pool!Front(L, n) = {} /\ SubSeq(L, n + 1, Len(L)) = L
      BY <1>2, <3>2, SubSeqFull DEF Pool!Front
    <3>4. \A v \in Warehouses : Holders(v)' = Holders(v)
      BY <1>1, <1>6, <2>2, NoneAssumption DEF Holders, WInv, TypeOK
    <3> QED
      BY <2>2, <3>3, <3>4 DEF WInv, TypeOK
  <2> QED
    BY <2>1, <2>2 DEF Enter, L, WInv, TypeOK
<1>8. /\ \A v \in Warehouses : v # w => Unmoved(v)
      /\ state'[w] = "ACTIVE"
  BY <1>6, <1>7 DEF Unmoved, WInv, TypeOK
<1>9. Pool!Settle(w, TRUE, c, Holders(w), L)
  BY <1>6, <1>7, <1>8, OneMoves DEF Pool!Settle, n
<1>10. \A v \in Warehouses : \A i \in DOMAIN queue[v] : queue[v][i] # s
  BY <1>4, LenProperties DEF InLine, WInv, TypeOK
<1> QED
  BY <1>4, <1>5, <1>9, <1>10 DEF Pool!Join, Pool!Settle, L

\* An automatic resumption whose row cannot be written opens the pool, and the
\* statement does not come in.
LEMMA AcquireSteps ==
    ASSUME WInv, WInv', NEW s \in Statements, NEW w \in Warehouses, Acquire(s, w)
    PROVE  Pool!Join(s, w) \/ Pool!Open(w)
<1>1. CASE state[w] = "ACTIVE" /\ Enter(s, w) /\ UNCHANGED <<state, dbVars>>
  <2>1. state' = [state EXCEPT ![w] = "ACTIVE"]
    BY <1>1 DEF WInv, TypeOK
  <2> QED
    BY <1>1, <2>1, EnterJoins DEF Acquire
<1>2. CASE /\ state[w] = "SUSPENDED" /\ state' = [state EXCEPT ![w] = "ACTIVE"]
           /\ Enter(s, w)
  BY <1>2, EnterJoins DEF Acquire
<1>3. CASE /\ state[w] = "SUSPENDED" /\ state' = [state EXCEPT ![w] = "ACTIVE"]
           /\ UNCHANGED <<settings, running, queued, queue, stVars>>
  BY <1>3, ResumeOpens
<1> QED
  BY <1>1, <1>2, <1>3 DEF Acquire

\* A statement that learns of its answer, or whose context ends, was in the
\* pool already.
LEMMA AnswersStutter ==
    ASSUME WInv, WInv', NEW s \in Statements, CancelContext(s) \/ PickUp(s)
    PROVE  UNCHANGED Pool!vars
<1>1. UNCHANGED <<state, settings, queue>>
  BY DEF CancelContext, PickUp, whVars
<1>2. ASSUME NEW v \in Warehouses
      PROVE  Holders(v)' = Holders(v)
  <2>1. CASE CancelContext(s)
    BY <2>1 DEF CancelContext, Holders
  <2>2. CASE PickUp(s) /\ ready[s] = "granted"
    BY <2>2 DEF PickUp, Holders, WInv, TypeOK
  <2>3. CASE PickUp(s) /\ ready[s] = "rejected"
    BY <2>3, NoneAssumption DEF PickUp, Return, Holders, WInv, TypeOK
  <2> QED
    BY <2>1, <2>2, <2>3 DEF PickUp
<1> QED
  BY <1>1, <1>2, UnmovedStutters DEF Unmoved

\* append(queue[:i], queue[i+1:]...) is what SlotPool withdraws.
LEMMA WithoutWithdraws ==
    ASSUME NEW q \in Seq(Statements), NEW i \in 1..Len(q)
    PROVE  Without(q, i) = SubSeq(q, 1, i - 1) \o SubSeq(q, i + 1, Len(q))
<1> DEFINE a == SubSeq(q, 1, i - 1)
           b == SubSeq(q, i + 1, Len(q))
<1>1. Len(q) \in Nat /\ \A j \in 1..Len(q) : q[j] \in Statements
  BY LenProperties, ElementOfSeq
<1>2. /\ a \in Seq(Statements)
      /\ Len(a) = i - 1
      /\ \A j \in 1..(i - 1) : a[j] = q[j]
  <2>1. \A j \in 1..(i - 1) : q[j] \in Statements
    BY <1>1
  <2>2. /\ a \in Seq(Statements)
        /\ Len(a) = IF 1 <= i - 1 THEN (i - 1) - 1 + 1 ELSE 0
        /\ \A j \in 1..((i - 1) - 1 + 1) : a[j] = q[1 + j - 1]
    BY <1>1, <2>1, SubSeqProperties
  <2> QED
    BY <1>1, <2>2
<1>3. /\ b \in Seq(Statements)
      /\ Len(b) = Len(q) - i
      /\ \A j \in 1..(Len(q) - i) : b[j] = q[i + j]
  BY <1>1, SuffixOfQueue
<1> HIDE DEF a, b
<1>4. /\ a \o b \in Seq(Statements)
      /\ Len(a \o b) = Len(q) - 1
      /\ \A j \in 1..(Len(q) - 1) : (a \o b)[j] = IF j < i THEN q[j] ELSE q[j + 1]
  <2>1. /\ a \o b \in Seq(Statements)
        /\ Len(a \o b) = Len(a) + Len(b)
        /\ \A j \in 1..(Len(a) + Len(b)) : (a \o b)[j] = IF j <= Len(a) THEN a[j] ELSE b[j - Len(a)]
    BY <1>2, <1>3, ConcatProperties
  <2> QED
    <3>1. ASSUME NEW j \in 1..(Len(q) - 1)
          PROVE  (a \o b)[j] = IF j < i THEN q[j] ELSE q[j + 1]
      <4>1. CASE j < i
        BY <1>1, <1>2, <1>3, <2>1, <4>1
      <4>2. CASE ~(j < i)
        <5>1. j - (i - 1) \in 1..(Len(q) - i) /\ i + (j - (i - 1)) = j + 1
          BY <1>1, <4>2
        <5>2. b[j - (i - 1)] = q[j + 1]
          BY <1>3, <5>1
        <5> QED
          BY <1>1, <1>2, <1>3, <2>1, <4>2, <5>2
      <4> QED
        BY <4>1, <4>2
    <3> QED
      BY <1>1, <1>2, <1>3, <2>1, <3>1
<1>5. /\ Without(q, i) \in Seq(Statements)
      /\ Len(Without(q, i)) = Len(q) - 1
      /\ \A j \in 1..(Len(q) - 1) : Without(q, i)[j] = IF j < i THEN q[j] ELSE q[j + 1]
  BY WithoutProperties
<1>6. Without(q, i) = a \o b
  BY <1>1, <1>4, <1>5, SeqEqual
<1> QED
  BY <1>6 DEF a, b

\* Giving up withdraws from the line, leaves the pool, or changes nothing of it
\* because the statement had been turned away.
LEMMA GiveUpSteps ==
    ASSUME WInv, WInv', NEW s \in Statements, GiveUp(s)
    PROVE  \/ \E p \in Warehouses : \E i \in DOMAIN queue[p] : Pool!Withdraw(p, i)
           \/ \E p \in Warehouses : Pool!Leave(s, p)
           \/ UNCHANGED Pool!vars
<1> DEFINE w == target[s]
<1> USE DEF GiveUp
<1>1. w \in Warehouses /\ pc[s] = "waiting" /\ Return(s)
  BY DEF WInv, TypeOK
<1>2. /\ queue[w] \in Seq(Statements)
      /\ DOMAIN queue[w] = 1..Len(queue[w])
  BY <1>1, LenProperties DEF WInv, TypeOK
<1>3. ASSUME ready[s] # "granted", UNCHANGED <<state, settings>>, 
             UNCHANGED ready \/ ready' = [ready EXCEPT ![s] = "empty"]
      PROVE  \A v \in Warehouses : Holders(v)' = Holders(v)
  BY <1>1, <1>3, NoneAssumption DEF Return, Holders, WInv, TypeOK
<1>4. ASSUME NEW i \in 1..Len(queue[w]), queue[w][i] = s,
             queue' = [queue EXCEPT ![w] = Without(@, i)],
             UNCHANGED <<state, settings, running, dbVars, ready>>
      PROVE  Pool!Withdraw(w, i)
  <2>1. ready[s] = "empty"
    BY <1>1, <1>4 DEF WInv, QueueIsWaiters, InLine
  <2>2. \A v \in Warehouses : Holders(v)' = Holders(v)
    BY <1>3, <1>4, <2>1
  <2>3. queue' = [queue EXCEPT ![w] = SubSeq(@, 1, i - 1) \o SubSeq(@, i + 1, Len(@))]
    <3>1. Without(queue[w], i) = SubSeq(queue[w], 1, i - 1) \o SubSeq(queue[w], i + 1, Len(queue[w]))
      BY <1>2, WithoutWithdraws
    <3> QED
      BY <1>1, <1>4, <3>1 DEF WInv, TypeOK
  <2>4. /\ UNCHANGED [v \in Warehouses |-> Holders(v)]
        /\ UNCHANGED [v \in Warehouses |-> Capacity[settings[v].size]]
        /\ UNCHANGED [v \in Warehouses |-> state[v] = "ACTIVE"]
    BY <1>4, <2>2
  <2> QED
    BY <1>2, <2>3, <2>4 DEF Pool!Withdraw
<1>5. CASE ready[s] = "granted" /\ releaseLocked(w, [ready EXCEPT ![s] = "empty"])
  <2>1. s \in Holders(w)
    BY <1>1, <1>5 DEF Holders
  <2> QED
    <3>1. PICK p \in Warehouses : p = target[s]
      BY <1>1
    <3>2. Pool!Leave(s, p)
      BY <1>1, <1>5, <2>1, <3>1, ReleaseLeaves
    <3> QED
      BY <3>2
<1>6. CASE /\ ~InLine(s, w)
           /\ ~(ready[s] = "granted" /\ state[w] # "ABSENT" /\ running[w] > 0)
           /\ ready' = [ready EXCEPT ![s] = "empty"]
           /\ UNCHANGED <<whVars, dbVars>>
  <2>1. ready[s] # "granted"
    BY <1>1, <1>6, OwnersRun DEF Holders
  <2>2. UNCHANGED <<state, settings, queue>>
    BY <1>6 DEF whVars
  <2>3. \A v \in Warehouses : Holders(v)' = Holders(v)
    BY <1>3, <1>6, <2>1, <2>2
  <2> QED
    BY <2>2, <2>3, UnmovedStutters DEF Unmoved
<1> QED
  BY <1>1, <1>2, <1>4, <1>5, <1>6

\* The end of a lease leaves the pool.
LEMMA ReleaseSteps ==
    ASSUME WInv, WInv', NEW s \in Statements, Release(s)
    PROVE  \E p \in Warehouses : Pool!Leave(s, p)
<1>1. /\ target[s] \in Warehouses /\ s \in Holders(target[s])
      /\ ready = [ready EXCEPT ![s] = "empty"]
  BY DEF Release, WInv, TypeOK, Holders
<1>2. Return(s) /\ releaseLocked(target[s], ready)
  BY <1>1, OwnersRun DEF Release
<1> QED
  <2>1. PICK p \in Warehouses : p = target[s]
    BY <1>1
  <2>2. Pool!Leave(s, p)
    BY <1>1, <1>2, <2>1, ReleaseLeaves
  <2> QED
    BY <2>2

\* A restart empties every pool.
LEMMA RestartResets ==
    ASSUME WInv', NewPersistentManager
    PROVE  Pool!Reset
<1>1. [v \in Warehouses |-> Holders(v)]' = [v \in Warehouses |-> {}]
  BY DEF NewPersistentManager, Holders
<1>2. [v \in Warehouses |-> state[v] = "ACTIVE"]' = [v \in Warehouses |-> FALSE]
  BY DEF NewPersistentManager
<1>3. [v \in Warehouses |-> Capacity[settings[v].size]]'
         \in [Warehouses -> {Capacity[z] : z \in Sizes}]
  BY DEF WInv, TypeOK, Settings
<1>4. queue' = [v \in Warehouses |-> <<>>]
  BY DEF NewPersistentManager
<1> QED
  BY <1>1, <1>2, <1>3, <1>4 DEF Pool!Reset
-----------------------------------------------------------------------------
\* Initially no pool is open and nobody is in it.
LEMMA InitPool == Init => Pool!Init
<1> SUFFICES ASSUME Init
             PROVE  Pool!Init
  OBVIOUS
<1>1. [v \in Warehouses |-> Holders(v)] = [v \in Warehouses |-> {}]
  BY DEF Init, Holders
<1>2. [v \in Warehouses |-> state[v] = "ACTIVE"] = [v \in Warehouses |-> FALSE]
  BY DEF Init
<1>3. [v \in Warehouses |-> Capacity[settings[v].size]]
         \in [Warehouses -> {Capacity[z] : z \in Sizes}]
  BY NoSettingsType DEF Init, Settings
<1>4. queue = [v \in Warehouses |-> <<>>]
  BY DEF Init
<1> QED
  BY <1>1, <1>2, <1>3, <1>4 DEF Pool!Init

\* Every step of the warehouses is a step of the pools, or none.
LEMMA NextImplementsPool == WInv /\ WInv' /\ [Next]_vars => [Pool!Next]_(Pool!vars)
<1> SUFFICES ASSUME WInv, WInv', [Next]_vars
             PROVE  Pool!Next \/ UNCHANGED Pool!vars
  OBVIOUS
<1>1. ASSUME NEW w \in Warehouses, NEW cfg \in Settings, CreateWarehouseWithSettings(w, cfg)
      PROVE  Pool!Next
  BY <1>1, LifecycleSteps DEF Pool!Next
<1>2. ASSUME NEW w \in Warehouses, ResumeWarehouse(w)
      PROVE  Pool!Next
  BY <1>2, ResumeOpens DEF ResumeWarehouse, Pool!Next
<1>3. ASSUME NEW w \in Warehouses, SuspendWarehouse(w) \/ DropWarehouse(w)
      PROVE  Pool!Next
  BY <1>3, LifecycleSteps DEF Pool!Next
<1>4. ASSUME NEW w \in Warehouses, NEW cfg \in Settings, AlterWarehouse(w, cfg)
      PROVE  Pool!Next
  <2>1. Capacity[cfg.size] \in {Capacity[z] : z \in Sizes}
    BY DEF Settings
  <2> QED
    BY <1>4, <2>1, AlterResizes DEF Pool!Next
<1>5. ASSUME NEW due \in SUBSET Warehouses, CheckAutoSuspend(due)
      PROVE  Pool!Next
  BY <1>5, AutoSuspendCloses DEF Pool!Next
<1>6. ASSUME NEW s \in Statements, NEW w \in Warehouses, Acquire(s, w)
      PROVE  Pool!Next
  BY <1>6, AcquireSteps DEF Pool!Next
<1>7. ASSUME NEW s \in Statements, CancelContext(s) \/ PickUp(s)
      PROVE  UNCHANGED Pool!vars
  BY <1>7, AnswersStutter
<1>8. ASSUME NEW s \in Statements, GiveUp(s)
      PROVE  Pool!Next \/ UNCHANGED Pool!vars
  BY <1>8, GiveUpSteps DEF Pool!Next
<1>9. ASSUME NEW s \in Statements, Release(s)
      PROVE  Pool!Next
  BY <1>9, ReleaseSteps DEF Pool!Next
<1>10. CASE NewPersistentManager
  BY <1>10, RestartResets DEF Pool!Next
<1>11. CASE UNCHANGED vars
  <2>1. UNCHANGED <<state, settings, queue, pc, target, ready>>
    BY <1>11 DEF vars, whVars, stVars
  <2>2. \A v \in Warehouses : Holders(v)' = Holders(v)
    BY <2>1 DEF Holders
  <2> QED
    BY <2>1, <2>2, UnmovedStutters DEF Unmoved
<1> QED
  BY <1>1, <1>2, <1>3, <1>4, <1>5, <1>6, <1>7, <1>8, <1>9, <1>10, <1>11 DEF Next

\* The warehouses implement the abstract pools of slots, whatever the numbers of
\* warehouses, statements and sizes: first come, first served, nobody let in
\* over capacity, no free slot while somebody waits (manager.go:230-365).
THEOREM WarehouseImplementsSlotPool == Spec => ImplementsSlotPool
<1>1. Spec => []WInv
  BY WarehouseInvariant
<1> QED
  BY <1>1, InitPool, NextImplementsPool, PTL DEF Spec, ImplementsSlotPool, Pool!Spec
=============================================================================
