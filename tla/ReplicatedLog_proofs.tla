------------------------ MODULE ReplicatedLog_proofs ------------------------
(***************************************************************************)
(* Proofs about the hybrid logical clock and the replicated message log,   *)
(* for any set of nodes, any capacity and any system times, in a build     *)
(* that traps integer overflow and in one that wraps.                      *)
(***************************************************************************)
EXTENDS ReplicatedLog, FiniteSetTheorems, TLAPS

-----------------------------------------------------------------------------
(* The order of stamps.                                                    *)

\* The fields of a stamp are numbers.
LEMMA StampFields ==
  ASSUME NEW a \in Stamp
  PROVE  /\ a.wall \in Nat /\ a.counter \in Nat /\ a.node \in Nat
         /\ a.node \in Nodes /\ a.counter <= CounterMax /\ CounterMax \in Nat
         /\ a = [wall |-> a.wall, counter |-> a.counter, node |-> a.node]
<1>1. Nodes \subseteq Nat /\ CounterMax \in Nat
  BY HlcAssumption
<1>2. a.wall \in Nat /\ a.counter \in 0..CounterMax /\ a.node \in Nodes
      /\ a = [wall |-> a.wall, counter |-> a.counter, node |-> a.node]
  BY DEF Stamp
<1> QED
  BY <1>1, <1>2

\* Ord for Hlc is irreflexive.
LEMMA LessIrreflexive == ASSUME NEW a \in Stamp PROVE ~Less(a, a)
  BY StampFields DEF Less, Before

\* Ord for Hlc is transitive.
LEMMA LessTransitive ==
  ASSUME NEW a \in Stamp, NEW b \in Stamp, NEW c \in Stamp,
         Less(a, b), Less(b, c)
  PROVE  Less(a, c)
  BY StampFields DEF Less, Before

\* Ord for Hlc is total: two different stamps are ordered one way or the other.
THEOREM LessTotal ==
  ASSUME NEW a \in Stamp, NEW b \in Stamp, a # b
  PROVE  Less(a, b) \/ Less(b, a)
  BY StampFields DEF Less, Before

\* tick moves the clock forward and keeps the node.
LEMMA TickAdvances ==
  ASSUME NEW h \in Stamp, NEW now \in Nat, ~TickPanics(h, now)
  PROVE  /\ Tick(h, now) \in Stamp
         /\ Tick(h, now).node = h.node
         /\ Before(h, Tick(h, now))
  BY StampFields DEF Stamp, Tick, TickPanics, Before

\* merge, when it neither panics nor wraps, moves the clock past both stamps.
LEMMA MergeAdvances ==
  ASSUME NEW h \in Stamp, NEW r \in Stamp, NEW now \in Nat,
         ~MergePanics(h, r, now)
  PROVE  /\ Merge(h, r, now) \in Stamp
         /\ Merge(h, r, now).node = h.node
         /\ ~MergeWraps(h, r, now) => /\ Before(h, Merge(h, r, now))
                                      /\ Before(r, Merge(h, r, now))
<1> DEFINE wall == Largest(now, Largest(h.wall, r.wall))
           base == MergeBase(h, r, now)
<1>1. h.wall \in Nat /\ r.wall \in Nat /\ h.counter \in 0..CounterMax
      /\ r.counter \in 0..CounterMax /\ CounterMax \in Nat
  BY StampFields
<1>2. wall \in Nat /\ wall >= h.wall /\ wall >= r.wall /\ wall >= now
  BY <1>1 DEF Largest
<1>3. base \in -1..CounterMax
  BY <1>1, <1>2 DEF MergeBase, Largest
<1>4. wall = h.wall => base >= h.counter
  BY <1>1, <1>2 DEF MergeBase, Largest
<1>5. wall = r.wall => base >= r.counter
  BY <1>1, <1>2 DEF MergeBase, Largest
<1> DEFINE g == Merge(h, r, now)
<1>6. g = [wall |-> wall, counter |-> IF base = CounterMax THEN 0 ELSE base + 1,
           node |-> h.node]
  BY DEF Merge
<1>7. g.wall = wall /\ g.node = h.node
      /\ g.counter = IF base = CounterMax THEN 0 ELSE base + 1
  BY <1>6
<1>8. g \in Stamp
  BY <1>1, <1>2, <1>3, <1>6, StampFields DEF Stamp
<1>9. ~MergeWraps(h, r, now) => base # CounterMax
  BY DEF MergePanics, MergeWraps
<1> HIDE DEF g, wall, base
<1>10. base # CounterMax => Before(h, g) /\ Before(r, g)
  BY <1>1, <1>2, <1>3, <1>4, <1>5, <1>7 DEF Before
<1> QED
  BY <1>7, <1>8, <1>9, <1>10 DEF g

\* A clock that moves forward stays past every stamp it was past.
LEMMA StaysPast ==
  ASSUME NEW h \in Stamp, NEW g \in Stamp, NEW e \in Stamp,
         Before(h, g), ~Before(h, e)
  PROVE  ~Before(g, e)
  BY StampFields DEF Before

\* A merged log holds nothing but entries of the two logs.
LEMMA MergeLogsWithin ==
  ASSUME NEW a, NEW b
  PROVE  MergeLogs(a, b) \subseteq a \cup b
  BY DEF MergeLogs, Fitting, Missing

-----------------------------------------------------------------------------
(* The inductive invariant: no clock that has not wrapped has fallen behind *)
(* a stamp it issued, which is what makes its next stamp a new one.         *)

IssuedBehind ==
  /\ \A n \in Nodes : clock[n].node = n
  /\ \A e \in issued : e.hlc.node \notin wrapped =>
                         ~Before(clock[e.hlc.node], e.hlc)

FinitelyIssued == IsFiniteSet(issued)

LogInv == TypeOK /\ FinitelyIssued /\ StampsUnique /\ IssuedBehind /\ ClockDominates

LEMMA TimesNat == Times \subseteq Nat
  BY LogAssumption DEF Times

LEMMA InitLogInv == Init => LogInv
<1> SUFFICES ASSUME Init PROVE LogInv
  OBVIOUS
<1>1. TypeOK
  <2>1. [wall : Times, counter : {0}, node : Nodes] \subseteq Stamp
    <3>1. {0} \subseteq 0..CounterMax
      BY HlcAssumption
    <3> QED
      BY <3>1, TimesNat DEF Stamp
  <2> QED
    BY <2>1 DEF Init, TypeOK
<1>2. FinitelyIssued
  BY FS_EmptySet DEF Init, FinitelyIssued
<1>3. StampsUnique /\ IssuedBehind /\ ClockDominates
  BY DEF Init, StampsUnique, IssuedBehind, ClockDominates
<1> QED
  BY <1>1, <1>2, <1>3 DEF LogInv

\* What a step of node n alone does to the clocks: n's moves forward, unless it
\* wraps.
ClockStep(n) ==
  /\ clock'[n] \in Stamp /\ clock'[n].node = n
  /\ n \notin wrapped' => Before(clock[n], clock'[n])
  /\ clock' = [clock EXCEPT ![n] = clock'[n]]
  /\ wrapped \subseteq wrapped' /\ wrapped' \subseteq wrapped \cup {n}

\* Clocks that move forward keep every issued stamp behind them.
LEMMA ClockStepKeeps ==
  ASSUME LogInv, NEW n \in Nodes, ClockStep(n)
  PROVE  /\ clock' \in [Nodes -> Stamp] /\ wrapped' \subseteq Nodes
         /\ \A k \in Nodes : clock'[k].node = k
         /\ \A k \in Nodes : \A e \in Stamp :
              k \notin wrapped' /\ ~Before(clock[k], e) => ~Before(clock'[k], e)
<1>1. /\ clock \in [Nodes -> Stamp] /\ \A k \in Nodes : clock[k].node = k
      /\ wrapped \subseteq Nodes
  BY DEF LogInv, TypeOK, IssuedBehind
<1>2. clock' \in [Nodes -> Stamp] /\ wrapped' \subseteq Nodes
  BY <1>1 DEF ClockStep
<1>3. \A k \in Nodes : k # n => clock'[k] = clock[k]
  BY <1>1 DEF ClockStep
<1>4. \A e \in Stamp :
        n \notin wrapped' /\ ~Before(clock[n], e) => ~Before(clock'[n], e)
  BY <1>1, <1>2, StaysPast DEF ClockStep
<1> QED
  BY <1>1, <1>2, <1>3, <1>4 DEF ClockStep

\* What an append does: a tick, and a new entry or none.
LEMMA AppendEffect ==
  ASSUME LogInv, NEW n \in Nodes, NEW now \in Times, Append(n, now)
  PROVE  /\ ClockStep(n) /\ wrapped' = wrapped /\ Before(clock[n], clock'[n])
         /\ \/ log' = log /\ issued' = issued
            \/ \E e \in Entry :
                 /\ e.hlc = clock'[n]
                 /\ log' = [log EXCEPT ![n] = Insert(@, e)]
                 /\ issued' = issued \cup {e}
<1>1. /\ clock \in [Nodes -> Stamp] /\ clock[n].node = n /\ now \in Nat
  BY TimesNat DEF LogInv, TypeOK, IssuedBehind
<1>2. /\ clock'[n] = Tick(clock[n], now) /\ ~TickPanics(clock[n], now)
      /\ clock' = [clock EXCEPT ![n] = clock'[n]] /\ wrapped' = wrapped
  BY <1>1 DEF Append
<1>3. ClockStep(n) /\ Before(clock[n], clock'[n])
  BY <1>1, <1>2, TickAdvances DEF ClockStep
<1> DEFINE e == [hlc |-> clock'[n], data |-> Cardinality(issued) + 1]
<1>4. Cardinality(issued) + 1 \in Nat
  BY FS_CardinalityType DEF LogInv, FinitelyIssued
<1>5. e \in Entry /\ e.hlc = clock'[n]
  BY <1>3, <1>4 DEF ClockStep, Entry
<1>6. \/ log' = [log EXCEPT ![n] = Insert(@, e)] /\ issued' = issued \cup {e}
      \/ log' = log /\ issued' = issued
  BY DEF Append
<1> QED
  BY <1>2, <1>3, <1>5, <1>6

LEMMA AppendLogInv ==
  ASSUME LogInv, NEW n \in Nodes, NEW now \in Times, Append(n, now)
  PROVE  LogInv'
<1>1. /\ clock \in [Nodes -> Stamp] /\ clock[n].node = n
      /\ log \in [Nodes -> SUBSET Entry] /\ issued \subseteq Entry
  BY DEF LogInv, TypeOK, IssuedBehind
<1>2. ClockStep(n) /\ wrapped' = wrapped /\ Before(clock[n], clock'[n])
  BY AppendEffect
<1>3. /\ clock' \in [Nodes -> Stamp] /\ wrapped' \subseteq Nodes
      /\ \A k \in Nodes : clock'[k].node = k
      /\ \A k \in Nodes : \A e \in Stamp :
           k \notin wrapped' /\ ~Before(clock[k], e) => ~Before(clock'[k], e)
  BY <1>2, ClockStepKeeps
<1>3a. \A f \in issued : f.hlc \in Stamp /\ f.hlc.node \in Nodes
  BY <1>1 DEF Entry, Stamp
<1>3b. \A f \in issued : f.hlc.node \notin wrapped' =>
                           ~Before(clock'[f.hlc.node], f.hlc)
  BY <1>2, <1>3, <1>3a DEF LogInv, IssuedBehind
<1>3c. \A k \in Nodes \ wrapped' : \A f \in log[k] : ~Before(clock'[k], f.hlc)
  <2> SUFFICES ASSUME NEW k \in Nodes \ wrapped', NEW f \in log[k]
               PROVE  ~Before(clock'[k], f.hlc)
    OBVIOUS
  <2>1. f.hlc \in Stamp /\ ~Before(clock[k], f.hlc)
    BY <1>1, <1>2 DEF LogInv, ClockDominates, Entry
  <2> QED
    BY <2>1, <1>3
<1>4. CASE log' = log /\ issued' = issued
  BY <1>1, <1>2, <1>3, <1>3b, <1>3c, <1>4
     DEF LogInv, TypeOK, FinitelyIssued, StampsUnique, IssuedBehind, ClockDominates
<1>5. ASSUME NEW e \in Entry, e.hlc = clock'[n],
             log' = [log EXCEPT ![n] = Insert(@, e)], issued' = issued \cup {e}
      PROVE  LogInv'
  <2>1. e.hlc \in Stamp /\ e.hlc.node = n
    BY <1>3, <1>5
  <2>2. \A f \in issued : f.hlc = e.hlc => f.hlc.node \in wrapped
    <3> SUFFICES ASSUME NEW f \in issued, f.hlc = e.hlc, f.hlc.node \notin wrapped
                 PROVE  FALSE
      OBVIOUS
    <3>1. ~Before(clock[n], f.hlc)
      BY <2>1 DEF LogInv, IssuedBehind
    <3> QED
      BY <3>1, <1>2, <1>5
  <2>3. \A k \in Nodes : log'[k] \subseteq log[k] \cup {e}
    BY <1>1, <1>5 DEF Insert
  <2>4. \A k \in Nodes : k # n => log'[k] = log[k]
    BY <1>1, <1>5
  <2>5. TypeOK' /\ FinitelyIssued'
    <3>1. log' \in [Nodes -> SUBSET Entry]
      BY <1>1, <1>5 DEF Insert
    <3>2. IsFiniteSet(issued')
      BY <1>5, FS_AddElement DEF LogInv, FinitelyIssued
    <3> QED
      BY <1>1, <1>3, <1>5, <3>1, <3>2 DEF TypeOK, FinitelyIssued
  <2>6. StampsUnique'
    <3>1. \A f, g \in issued' : f.hlc = g.hlc /\ f.hlc.node \notin wrapped' => f = g
      BY <1>2, <1>5, <2>2 DEF LogInv, StampsUnique
    <3>2. \A k \in Nodes : log'[k] \subseteq issued'
      BY <1>5, <2>3 DEF LogInv, StampsUnique
    <3> QED
      BY <3>1, <3>2 DEF StampsUnique
  <2>7. ~Before(clock'[n], e.hlc)
    BY <1>5, <2>1, StampFields DEF Before
  <2>8. IssuedBehind'
    BY <1>3, <1>3b, <1>5, <2>1, <2>7 DEF IssuedBehind
  <2>9. ClockDominates'
    <3> SUFFICES ASSUME NEW k \in Nodes \ wrapped', NEW f \in log'[k]
                 PROVE  ~Before(clock'[k], f.hlc)
      BY DEF ClockDominates
    <3>1. CASE f \in log[k]
      BY <3>1, <1>3c
    <3>2. CASE f \notin log[k]
      <4>1. k = n /\ f = e
        BY <3>2, <2>3, <2>4
      <4> QED
        BY <4>1, <2>7
    <3> QED
      BY <3>1, <3>2
  <2> QED
    BY <2>5, <2>6, <2>8, <2>9 DEF LogInv
<1> QED
  BY <1>4, <1>5, AppendEffect

\* Taking over entries of another replica's log, all of them or a delta.
LEMMA TakeLogInv ==
  ASSUME LogInv, NEW n \in Nodes, NEW m \in Nodes, NEW now \in Times,
         NEW given \in SUBSET log[m], Take(n, given, now)
  PROVE  LogInv'
<1>1. /\ clock \in [Nodes -> Stamp] /\ clock[n].node = n /\ now \in Nat
      /\ log \in [Nodes -> SUBSET Entry] /\ issued \subseteq Entry
  BY TimesNat DEF LogInv, TypeOK, IssuedBehind
<1>2. PICK e \in given :
        /\ IsLatest(e, given)
        /\ ~MergePanics(clock[n], e.hlc, now)
        /\ clock' = [clock EXCEPT ![n] = Merge(@, e.hlc, now)]
        /\ wrapped' = IF MergeWraps(clock[n], e.hlc, now) THEN wrapped \cup {n}
                      ELSE wrapped
  BY DEF Take
<1>3. e.hlc \in Stamp
  BY <1>1 DEF Entry
<1>4. clock'[n] = Merge(clock[n], e.hlc, now)
  BY <1>1, <1>2
<1>5. ClockStep(n) /\ (n \notin wrapped' => Before(e.hlc, clock'[n]))
  <2>1. clock[n] \in Stamp /\ clock' = [clock EXCEPT ![n] = clock'[n]]
    BY <1>1, <1>2, <1>4
  <2>2. /\ clock'[n] \in Stamp /\ clock'[n].node = n
        /\ ~MergeWraps(clock[n], e.hlc, now) =>
             Before(clock[n], clock'[n]) /\ Before(e.hlc, clock'[n])
    BY <1>1, <1>2, <1>3, <1>4, <2>1, MergeAdvances
  <2>3. n \notin wrapped' => ~MergeWraps(clock[n], e.hlc, now)
    BY <1>2
  <2>4. wrapped \subseteq wrapped' /\ wrapped' \subseteq wrapped \cup {n}
    BY <1>2
  <2> QED
    BY <2>1, <2>2, <2>3, <2>4 DEF ClockStep
<1>6. log' = [log EXCEPT ![n] = MergeLogs(@, given)] /\ issued' = issued
  BY DEF Take
<1>7. log'[n] \subseteq log[n] \cup given /\ \A k \in Nodes : k # n => log'[k] = log[k]
  BY <1>1, <1>6, MergeLogsWithin
<1>7a. /\ clock' \in [Nodes -> Stamp] /\ wrapped' \subseteq Nodes
       /\ \A k \in Nodes : clock'[k].node = k
       /\ \A k \in Nodes : \A f \in Stamp :
            k \notin wrapped' /\ ~Before(clock[k], f) => ~Before(clock'[k], f)
       /\ wrapped \subseteq wrapped'
  BY <1>5, ClockStepKeeps DEF ClockStep
<1>8. TypeOK' /\ FinitelyIssued'
  <2>1. log' \in [Nodes -> SUBSET Entry]
    BY <1>1, <1>6, MergeLogsWithin
  <2> QED
    BY <1>1, <1>6, <1>7a, <2>1 DEF TypeOK, LogInv, FinitelyIssued
<1>9. StampsUnique'
  BY <1>6, <1>7, <1>7a DEF LogInv, StampsUnique
<1>10. IssuedBehind'
  <2>1. \A f \in issued : f.hlc \in Stamp /\ f.hlc.node \in Nodes
    BY <1>1 DEF Entry, Stamp
  <2> QED
    BY <2>1, <1>6, <1>7a DEF LogInv, IssuedBehind
<1>11. ClockDominates'
  <2> SUFFICES ASSUME NEW k \in Nodes \ wrapped', NEW f \in log'[k]
               PROVE  ~Before(clock'[k], f.hlc)
    BY DEF ClockDominates
  <2>1. CASE f \in log[k]
    <3>1. f.hlc \in Stamp /\ ~Before(clock[k], f.hlc)
      BY <1>1, <1>7a, <2>1 DEF LogInv, ClockDominates, Entry
    <3> QED
      BY <3>1, <1>7a
  <2>2. CASE f \notin log[k]
    <3>1. k = n /\ f \in given
      BY <2>2, <1>7
    <3>2. f.hlc \in Stamp /\ ~Less(e.hlc, f.hlc)
      BY <1>1, <1>2, <3>1 DEF Entry, IsLatest
    <3>3. clock'[n] \in Stamp
      BY <1>5 DEF ClockStep
    <3> QED
      BY <1>3, <1>5, <3>1, <3>2, <3>3, StampFields DEF Less, Before
  <2> QED
    BY <2>1, <2>2
<1> QED
  BY <1>8, <1>9, <1>10, <1>11 DEF LogInv

\* A step is an append, the taking over of entries of another log, or a stutter.
LEMMA LogSteps ==
  ASSUME [Next]_vars
  PROVE  \/ \E n \in Nodes, now \in Times : Append(n, now)
         \/ \E n, m \in Nodes, now \in Times :
              \E given \in SUBSET log[m] : Take(n, given, now)
         \/ UNCHANGED vars
<1>1. ASSUME NEW n \in Nodes, NEW m \in Nodes, NEW now \in Times,
             Receive(n, m, now) \/ ReceiveDelta(n, m, now)
      PROVE  \E given \in SUBSET log[m] : Take(n, given, now)
  <2>1. EntriesAfter(log[m], log[n]) \subseteq log[m]
    BY DEF EntriesAfter
  <2> QED
    BY <1>1, <2>1 DEF Receive, ReceiveDelta
<1>2. CASE UNCHANGED vars
  BY <1>2
<1>3. CASE Next
  <2>1. PICK n \in Nodes, now \in Times :
          \/ Append(n, now)
          \/ \E m \in Nodes \ {n} : Receive(n, m, now)
          \/ \E m \in Nodes \ {n} : ReceiveDelta(n, m, now)
    BY <1>3 DEF Next
  <2> QED
    BY <1>1, <2>1
<1> QED
  BY <1>2, <1>3

\* The invariant holds in every reachable state of either build.
LEMMA SpecLogInv == Spec => []LogInv
<1>1. Init => LogInv
  BY InitLogInv
<1>2. LogInv /\ [Next]_vars => LogInv'
  <2> SUFFICES ASSUME LogInv, [Next]_vars PROVE LogInv'
    OBVIOUS
  <2>1. CASE UNCHANGED vars
    BY <2>1 DEF vars, LogInv, TypeOK, FinitelyIssued, StampsUnique, IssuedBehind,
                ClockDominates
  <2> QED
    BY <2>1, LogSteps, AppendLogInv, TakeLogInv
<1> QED
  BY <1>1, <1>2, PTL DEF Spec

-----------------------------------------------------------------------------
\* Clocks, logs and entries keep their types, also when counters wrap (hlc.rs,
\* message_log.rs).
THEOREM LogTypeOK == Spec => []TypeOK
<1>1. LogInv => TypeOK
  BY DEF LogInv
<1> QED
  BY <1>1, SpecLogInv, PTL

\* No two messages get one stamp, whatever the system times of the machines do,
\* but for the messages of a node whose counter wrapped in a merge.
THEOREM LogStampsUnique == Spec => []StampsUnique
<1>1. LogInv => StampsUnique
  BY DEF LogInv
<1> QED
  BY <1>1, SpecLogInv, PTL

\* The clock of a replica whose counter has not wrapped never falls behind an
\* entry it holds: what it sends next is ordered after everything it received.
THEOREM LogClockDominates == Spec => []ClockDominates
<1>1. LogInv => ClockDominates
  BY DEF LogInv
<1> QED
  BY <1>1, SpecLogInv, PTL

NoneWrapped == wrapped = {}

\* A build that traps overflow has no clock that wraps, so that the theorems
\* above hold of it without exception.
THEOREM TrapsNeverWrap == ASSUME OverflowChecks PROVE Spec => []NoneWrapped
<1>1. Init => NoneWrapped
  BY DEF Init, NoneWrapped
<1>2. NoneWrapped /\ [Next]_vars => NoneWrapped'
  BY DEF Next, vars, Append, Receive, ReceiveDelta, Take, MergeWraps, NoneWrapped
<1> QED
  BY <1>1, <1>2, PTL DEF Spec

-----------------------------------------------------------------------------
(* The refinement: every step of the logs is a step of GrowOnly on keys.   *)

\* What n takes over it adds to its own keys, and another replica holds it.
LEMMA TakeLearns ==
  ASSUME LogInv, NEW n \in Nodes, NEW m \in Nodes, NEW now \in Times,
         NEW given \in SUBSET log[m], Take(n, given, now)
  PROVE  Abstract!Learn(n)
<1> DEFINE new == Keys(MergeLogs(log[n], given)) \ Keys(log[n])
           known == [k \in Nodes |-> Keys(log[k])]
<1>1. log \in [Nodes -> SUBSET Entry] /\ log' = [log EXCEPT ![n] = MergeLogs(@, given)]
  BY DEF LogInv, TypeOK, Take
<1>2. Keys(log[n]) \subseteq Keys(MergeLogs(log[n], given))
  BY DEF MergeLogs, Keys
<1>3. [k \in Nodes |-> Keys(log'[k])] = [known EXCEPT ![n] = @ \cup new]
  BY <1>1, <1>2
<1>4. new \in SUBSET Abstract!Everywhere
  BY MergeLogsWithin DEF Abstract!Everywhere, Keys
<1> QED
  BY <1>3, <1>4 DEF Abstract!Learn, Keys

\* A local message adds the clock's stamp to the keys, a new one or one that
\* exists (after a wrap), or nothing when the log is full.
LEMMA AppendIssues ==
  ASSUME LogInv, NEW n \in Nodes, NEW now \in Times, Append(n, now)
  PROVE  Abstract!Issue(n) \/ Abstract!Learn(n) \/ log' = log
<1> DEFINE known == [k \in Nodes |-> Keys(log[k])]
<1>1. log \in [Nodes -> SUBSET Entry] /\ clock'[n].node = n
  BY AppendEffect DEF LogInv, TypeOK, ClockStep
<1>2. ASSUME NEW e \in Entry, e.hlc = clock'[n],
             log' = [log EXCEPT ![n] = Insert(@, e)]
      PROVE  Abstract!Issue(n) \/ Abstract!Learn(n)
  <2> DEFINE s == e.hlc
  <2>1. Keys(Insert(log[n], e)) = Keys(log[n]) \cup {s}
    BY DEF Insert, Keys
  <2>2. [k \in Nodes |-> Keys(log'[k])] = [known EXCEPT ![n] = @ \cup {s}]
    BY <1>1, <1>2, <2>1
  <2>3. StampOwner(s) = n /\ s \in Keys(log'[n])
    BY <1>1, <1>2, <2>1 DEF StampOwner
  <2> HIDE DEF s
  <2>4. CASE s \in Abstract!Everywhere
    <3>1. {s} \in SUBSET Abstract!Everywhere
      BY <2>4
    <3> QED
      BY <2>2, <3>1 DEF Abstract!Learn, Keys
  <2>5. CASE s \notin Abstract!Everywhere
    BY <2>2, <2>3, <2>5 DEF Abstract!Issue, Keys
  <2> QED
    BY <2>4, <2>5
<1> QED
  BY <1>2, AppendEffect

\* The logs are append-only, whatever the clocks do, however full the logs are
\* and even when a counter wraps: their keys implement GrowOnly.
THEOREM LogAppendOnly == Spec => AppendOnly
<1>1. Init => Abstract!Init
  <2> SUFFICES ASSUME Init PROVE [n \in Nodes |-> Keys(log[n])] = [n \in Nodes |-> {}]
    BY DEF Abstract!Init, Keys
  <2> QED
    BY DEF Init, Keys
<1>2. LogInv /\ [Next]_vars => [Abstract!Next]_([n \in Nodes |-> Keys(log[n])])
  <2> SUFFICES ASSUME LogInv, [Next]_vars PROVE Abstract!Next \/ log' = log
    BY DEF Keys
  <2>1. CASE UNCHANGED vars
    BY <2>1 DEF vars
  <2> QED
    BY <2>1, LogSteps, AppendIssues, TakeLearns DEF Abstract!Next
<1> QED
  BY <1>1, <1>2, SpecLogInv, PTL DEF Spec, AppendOnly, Abstract!Spec

-----------------------------------------------------------------------------
(* The laws of Mergeable: within the capacity a merge is a union, because  *)
(* no key stands for two entries and so nothing that is missing is skipped.*)

\* Only what the log lacks under its key is missing, and that is all of it.
LEMMA MissingIsRest ==
  ASSUME NEW S, \A e, f \in S : e.hlc = f.hlc => e = f,
         NEW a \in SUBSET S, NEW b \in SUBSET S
  PROVE  Missing(a, b) = b \ a
  BY DEF Missing

\* An entry has fewer missing entries before it than are missing.
LEMMA FittingAll ==
  ASSUME NEW new \in SUBSET Entry, IsFiniteSet(new), NEW room \in Int,
         Cardinality(new) <= room
  PROVE  Fitting(new, room) = new
<1> SUFFICES ASSUME NEW e \in new
             PROVE  Cardinality({f \in new : Less(f.hlc, e.hlc)}) < room
  BY DEF Fitting
<1> DEFINE before == {f \in new : Less(f.hlc, e.hlc)}
<1>1. e.hlc \in Stamp
  BY DEF Entry
<1>2. e \notin before
  BY <1>1, LessIrreflexive
<1>3. before \in SUBSET new
  OBVIOUS
<1> HIDE DEF before
<1>4. before # new
  BY <1>2
<1>5. Cardinality(before) <= Cardinality(new) /\ Cardinality(before) # Cardinality(new)
  BY <1>3, <1>4, FS_Subset
<1>6. IsFiniteSet(before)
  BY <1>3, FS_Subset
<1>7. Cardinality(before) \in Nat /\ Cardinality(new) \in Nat
  BY <1>6, FS_CardinalityType
<1>8. Cardinality(before) < room
  BY <1>5, <1>7
<1> QED
  BY <1>8 DEF before

\* A merge of logs that fit together is their union.
LEMMA MergeIsUnion ==
  ASSUME NEW S \in SUBSET Entry, IsFiniteSet(S),
         \A e, f \in S : e.hlc = f.hlc => e = f,
         NEW a \in SUBSET S, NEW b \in SUBSET S, Fits(a \cup b)
  PROVE  MergeLogs(a, b) = a \cup b
<1> DEFINE rest == b \ a
           room == MaxLog - Cardinality(a)
<1>1. Missing(a, b) = rest
  BY MissingIsRest
<1>2. rest \in SUBSET S /\ rest \in SUBSET Entry /\ a \cap rest = {}
      /\ a \cup rest = a \cup b
  OBVIOUS
<1> HIDE DEF rest
<1>3. IsFiniteSet(a) /\ IsFiniteSet(rest)
  BY <1>2, FS_Subset
<1>4. Cardinality(a \cup rest)
        = Cardinality(a) + Cardinality(rest) - Cardinality(a \cap rest)
  BY <1>3, FS_Union
<1>5. Cardinality(a \cap rest) = 0
  BY <1>2, FS_EmptySet
<1>6. Cardinality(a) \in Nat /\ Cardinality(rest) \in Nat /\ MaxLog \in Nat
  BY <1>3, FS_CardinalityType, LogAssumption
<1>7. Cardinality(a \cup rest) <= MaxLog
  BY <1>2 DEF Fits
<1>8. room \in Int /\ Cardinality(rest) <= room
  BY <1>4, <1>5, <1>6, <1>7
<1> HIDE DEF room
<1>9. Fitting(rest, room) = rest
  BY <1>2, <1>3, <1>8, FittingAll
<1>10. MergeLogs(a, b) = a \cup Fitting(rest, room)
  BY <1>1 DEF MergeLogs, room
<1> QED
  BY <1>2, <1>9, <1>10

\* A part of what fits into one log fits too.
LEMMA PartFits ==
  ASSUME NEW S, IsFiniteSet(S), Fits(S), NEW a \in SUBSET S
  PROVE  Fits(a)
<1>1. IsFiniteSet(a) /\ Cardinality(a) <= Cardinality(S)
  BY FS_Subset
<1>2. Cardinality(a) \in Nat /\ Cardinality(S) \in Nat /\ MaxLog \in Nat
  BY <1>1, FS_CardinalityType, LogAssumption
<1> QED
  BY <1>1, <1>2 DEF Fits

\* merge of MessageLog is commutative, associative and idempotent on all logs
\* that replicas hold, as long as these fit into one and come from clocks that
\* have not wrapped: the laws that traits.rs asks of Mergeable, and what
\* convergence of the replicas rests on.
THEOREM LogMergeLaws == Spec => []MergeLaws
<1>1. LogInv => MergeLaws
  <2> SUFFICES ASSUME LogInv, NEW i \in Nodes, NEW j \in Nodes,
                      NEW k \in Nodes, Fits(log[i] \cup log[j] \cup log[k]),
                      Reliable(log[i] \cup log[j] \cup log[k])
               PROVE  /\ MergeLogs(log[i], log[j]) = MergeLogs(log[j], log[i])
                      /\ MergeLogs(MergeLogs(log[i], log[j]), log[k])
                           = MergeLogs(log[i], MergeLogs(log[j], log[k]))
                      /\ MergeLogs(log[i], log[i]) = log[i]
    BY DEF MergeLaws
  <2> DEFINE a == log[i]
             b == log[j]
             c == log[k]
             all == a \cup b \cup c
  <2>1. issued \in SUBSET Entry /\ IsFiniteSet(issued)
    BY DEF LogInv, TypeOK, FinitelyIssued
  <2>2. a \in SUBSET issued /\ b \in SUBSET issued /\ c \in SUBSET issued
    BY DEF LogInv, StampsUnique
  <2>3. Fits(all) /\ Reliable(all)
    OBVIOUS
  <2> HIDE DEF a, b, c
  <2>4. all \in SUBSET issued /\ all \in SUBSET Entry
    BY <2>1, <2>2
  <2>5. IsFiniteSet(all)
    BY <2>1, <2>4, FS_Subset
  <2>5a. \A e, f \in all : e.hlc = f.hlc => e = f
    BY <2>3, <2>4 DEF LogInv, StampsUnique, Reliable
  <2>6. \A x, y \in SUBSET all : MergeLogs(x, y) = x \cup y
    <3> SUFFICES ASSUME NEW x \in SUBSET all, NEW y \in SUBSET all
                 PROVE  MergeLogs(x, y) = x \cup y
      OBVIOUS
    <3>1. x \cup y \in SUBSET all
      OBVIOUS
    <3> HIDE DEF all
    <3>2. Fits(x \cup y)
      BY <2>3, <2>5, <3>1, PartFits
    <3> QED
      BY <2>4, <2>5, <2>5a, <3>2, MergeIsUnion
  <2>7. a \in SUBSET all /\ b \in SUBSET all /\ c \in SUBSET all
        /\ a \cup b \in SUBSET all /\ b \cup c \in SUBSET all
    OBVIOUS
  <2> HIDE DEF all
  <2>8. MergeLogs(a, b) = a \cup b /\ MergeLogs(b, a) = b \cup a
        /\ MergeLogs(b, c) = b \cup c /\ MergeLogs(a, a) = a \cup a
        /\ MergeLogs(a \cup b, c) = a \cup b \cup c
        /\ MergeLogs(a, b \cup c) = a \cup (b \cup c)
    BY <2>6, <2>7
  <2>9. /\ MergeLogs(a, b) = MergeLogs(b, a)
        /\ MergeLogs(MergeLogs(a, b), c) = MergeLogs(a, MergeLogs(b, c))
        /\ MergeLogs(a, a) = a
    BY <2>8
  <2> QED
    BY <2>9 DEF a, b, c
<1> QED
  BY <1>1, SpecLogInv, PTL

=============================================================================
