---------------------------- MODULE Crdts_proofs ----------------------------
(***************************************************************************)
(* Proofs about the OR-set, the register and the counter, for any set of   *)
(* replicas, any reactions and values, and states that arrive late, again  *)
(* or never.                                                               *)
(***************************************************************************)
EXTENDS Crdts, TLAPS

\* What a replica holds and sends.
ReplicaState ==
  [tags : SUBSET Tag, next_seq : [Nodes -> Nat], name : Register, counts : [Nodes -> Nat]]

-----------------------------------------------------------------------------
(* The operators of the three data types.                                  *)

LEMMA CrdtConstants ==
  Nodes \subseteq Nat /\ CounterMax \in Nat /\ 0 \in Nodes /\ MaxUpdates \in Nat
  BY HlcAssumption, CrdtAssumption

LEMMA StampFields ==
  ASSUME NEW a \in Stamp
  PROVE  /\ a.wall \in Nat /\ a.counter \in 0..CounterMax /\ a.node \in Nodes
         /\ a = [wall |-> a.wall, counter |-> a.counter, node |-> a.node]
  BY DEF Stamp

\* The slots of two counters are merged to their maximum.
LEMMA MergeCountsIs ==
  ASSUME NEW c \in [Nodes -> Nat], NEW d \in [Nodes -> Nat]
  PROVE  /\ MergeCounts(c, d) \in [Nodes -> Nat]
         /\ \A m \in Nodes : /\ MergeCounts(c, d)[m] \in {c[m], d[m]}
                             /\ c[m] <= MergeCounts(c, d)[m]
                             /\ d[m] <= MergeCounts(c, d)[m]
  BY DEF MergeCounts, Largest

\* merge and set return one of the two registers.
LEMMA NewerIs ==
  ASSUME NEW r \in Register, NEW q \in Register
  PROVE  Newer(r, q) \in Register /\ Newer(r, q) \in {r, q}
  BY DEF Newer

LEMMA TickStamp ==
  ASSUME NEW h \in Stamp, ~TickPanics(h, 0)
  PROVE  Tick(h, 0) \in Stamp /\ Before(h, Tick(h, 0))
  BY StampFields, CrdtConstants DEF Stamp, Tick, TickPanics, Before

LEMMA MergeStamp ==
  ASSUME NEW h \in Stamp, NEW r \in Stamp
  PROVE  /\ Merge(h, r, 0) \in Stamp
         /\ OverflowChecks /\ ~MergePanics(h, r, 0) =>
              Before(h, Merge(h, r, 0)) /\ Before(r, Merge(h, r, 0))
<1> DEFINE wall == Largest(0, Largest(h.wall, r.wall))
           base == MergeBase(h, r, 0)
           g == Merge(h, r, 0)
<1>1. /\ h.wall \in Nat /\ h.counter \in 0..CounterMax /\ h.node \in Nodes
      /\ r.wall \in Nat /\ r.counter \in 0..CounterMax /\ CounterMax \in Nat
  BY StampFields, CrdtConstants
<1>2. wall \in Nat /\ wall >= h.wall /\ wall >= r.wall
  BY <1>1 DEF Largest
<1>3. base \in -1..CounterMax
  BY <1>1 DEF MergeBase, Largest
<1>4. (wall = h.wall => base >= h.counter) /\ (wall = r.wall => base >= r.counter)
  BY <1>1 DEF MergeBase, Largest
<1>5. g = [wall |-> wall, counter |-> IF base = CounterMax THEN 0 ELSE base + 1,
           node |-> h.node]
  BY DEF Merge
<1>6. OverflowChecks /\ ~MergePanics(h, r, 0) => base # CounterMax
  BY DEF MergePanics
<1> HIDE DEF wall, base, g
<1>7. g \in Stamp
  BY <1>1, <1>2, <1>3, <1>5 DEF Stamp
<1>8. base # CounterMax => Before(h, g) /\ Before(r, g)
  BY <1>1, <1>2, <1>3, <1>4, <1>5 DEF Before
<1> QED
  BY <1>6, <1>7, <1>8 DEF g

-----------------------------------------------------------------------------
(* Types.  Copies are states that some replica had.                        *)

FullTypeOK == TypeOK /\ copies \subseteq ReplicaState

LEMMA StateType ==
  ASSUME FullTypeOK, NEW n \in Nodes
  PROVE  State(n) \in ReplicaState
  BY DEF FullTypeOK, TypeOK, State, ReplicaState

\* A merge keeps the types whatever state comes in.
LEMMA MergesType ==
  ASSUME FullTypeOK, NEW n \in Nodes, NEW s \in ReplicaState, Merges(n, s)
  PROVE  FullTypeOK'
<1>1. s.tags \in SUBSET Tag /\ s.next_seq \in [Nodes -> Nat] /\ s.name \in Register
      /\ s.counts \in [Nodes -> Nat]
  BY DEF ReplicaState
<1>2. s.name.timestamp \in Stamp
  BY <1>1 DEF Register
<1>3. tags' \in [Nodes -> SUBSET Tag]
  BY <1>1 DEF FullTypeOK, TypeOK, Merges, MergeSets
<1>4. next_seq' \in [Nodes -> [Nodes -> Nat]] /\ counts' \in [Nodes -> [Nodes -> Nat]]
  BY <1>1, MergeCountsIs DEF FullTypeOK, TypeOK, Merges
<1>5. name' \in [Nodes -> Register]
  BY <1>1, NewerIs DEF FullTypeOK, TypeOK, Merges
<1>6. clock' \in [Nodes -> Stamp]
  BY <1>2, MergeStamp DEF FullTypeOK, TypeOK, Merges
<1> QED
  BY <1>3, <1>4, <1>5, <1>6 DEF FullTypeOK, TypeOK, Merges

LEMMA TypeStep == FullTypeOK /\ [Next]_vars => FullTypeOK'
<1> SUFFICES ASSUME FullTypeOK, [Next]_vars PROVE FullTypeOK'
  OBVIOUS
<1> USE DEF FullTypeOK, TypeOK
<1>0. Update => updates' \in 0..MaxUpdates
  BY CrdtConstants DEF Update
<1>1. ASSUME NEW n \in Nodes, NEW r \in Reaction, AddReaction(n, r) PROVE FullTypeOK'
  <2>1. next_seq[n][n] + 1 \in Nat \ {0}
    OBVIOUS
  <2>2. [value |-> r, dot |-> NextDot(tags[n], next_seq[n], n)] \in Tag
    BY <2>1 DEF Tag, Dot, NextDot
  <2>3. tags' \in [Nodes -> SUBSET Tag]
    BY <1>1, <2>2 DEF AddReaction
  <2>4. next_seq' \in [Nodes -> [Nodes -> Nat]]
    BY <1>1, <2>1 DEF AddReaction, NextDot
  <2> QED
    BY <1>0, <1>1, <2>3, <2>4 DEF AddReaction
<1>2. ASSUME NEW n \in Nodes, NEW r \in Reaction, RemoveReaction(n, r) PROVE FullTypeOK'
  BY <1>0, <1>2 DEF RemoveReaction, TagsOf
<1>3. ASSUME NEW n \in Nodes, NEW v \in Names, SetName(n, v) PROVE FullTypeOK'
  <2>1. clock' \in [Nodes -> Stamp] /\ clock'[n] \in Stamp
    BY <1>3, TickStamp DEF SetName
  <2>2. [value |-> v, timestamp |-> clock'[n]] \in Register
    BY <2>1 DEF Register
  <2>3. name' \in [Nodes -> Register]
    BY <1>3, <2>2, NewerIs DEF SetName
  <2> QED
    BY <1>0, <1>3, <2>1, <2>3 DEF SetName
<1>4. ASSUME NEW n \in Nodes, Increment(n) PROVE FullTypeOK'
  BY <1>0, <1>4 DEF Increment
<1>5. ASSUME NEW n \in Nodes, Send(n) PROVE FullTypeOK'
  BY <1>5, StateType DEF Send
<1>6. ASSUME NEW n \in Nodes, NEW m \in Nodes, Exchange(n, m) PROVE FullTypeOK'
  BY <1>6, StateType, MergesType DEF Exchange
<1>7. ASSUME NEW n \in Nodes, NEW s \in copies, Receive(n, s) PROVE FullTypeOK'
  BY <1>7, MergesType DEF Receive
<1>8. CASE UNCHANGED vars
  BY <1>8 DEF vars
<1> QED
  BY <1>1, <1>2, <1>3, <1>4, <1>5, <1>6, <1>7, <1>8 DEF Next

LEMMA TypeInit == Init => FullTypeOK
<1> SUFFICES ASSUME Init PROVE FullTypeOK
  OBVIOUS
<1>1. \A n \in Nodes : [wall |-> 0, counter |-> 0, node |-> n] \in Stamp
  BY CrdtConstants DEF Stamp
<1>2. NewRegister \in Register
  BY <1>1, CrdtConstants DEF NewRegister, Register
<1>3. NewCounter \in [Nodes -> Nat]
  BY DEF NewCounter
<1> QED
  BY <1>1, <1>2, <1>3, CrdtConstants DEF Init, FullTypeOK, TypeOK

LEMMA SpecTypeOK == Spec => []FullTypeOK
  BY TypeInit, TypeStep, PTL DEF Spec

\* Tags, registers, counters and clocks of all replicas keep their types, over
\* every merge (orset.rs, lww_register.rs, gcounter.rs, hlc.rs).
THEOREM CrdtTypeOK == Spec => []TypeOK
<1>1. FullTypeOK => TypeOK
  BY DEF FullTypeOK
<1> QED
  BY <1>1, SpecTypeOK, PTL

-----------------------------------------------------------------------------
(* The inductive invariant of the set and the counter.  What a state knows *)
(* of the adds and increments of node m, m itself has counted; its tags    *)
(* are numbered among the adds it knows of, and of these it holds all that *)
(* nobody has removed.  Late copies are such states too, which is why a    *)
(* merge with one cannot bring a number back into use.                     *)

Sound(s, seqs, incs, gone) ==
  /\ \A m \in Nodes : s.next_seq[m] <= seqs[m][m] /\ s.counts[m] <= incs[m][m]
  /\ \A t \in s.tags : t.dot.seq <= s.next_seq[t.dot.node]
  /\ \A m \in Nodes : \A k \in 1..s.next_seq[m] :
       \E t \in s.tags \cup gone : t.dot = [node |-> m, seq |-> k]

AllSound == \A s \in AllStates : Sound(s, next_seq, counts, removed)
RemovedKnown == \A t \in removed : t.dot.seq <= next_seq[t.dot.node][t.dot.node]
CountsBounded == \A m \in Nodes : counts[m][m] <= updates

CrdtInv == FullTypeOK /\ AllSound /\ RemovedKnown /\ CountsBounded /\ DotsUnique

\* Every tag there is, in a replica, a copy or a removal, has the number of an
\* add that its node has counted.
AllTags == removed \cup UNION {s.tags : s \in AllStates}

LEMMA AllStatesType == ASSUME FullTypeOK PROVE AllStates \subseteq ReplicaState
  BY StateType DEF AllStates, FullTypeOK

LEMMA TagsNumbered ==
  ASSUME CrdtInv, NEW t \in AllTags
  PROVE  t \in Tag /\ t.dot.seq <= next_seq[t.dot.node][t.dot.node]
<1>1. CASE t \in removed
  BY <1>1 DEF CrdtInv, RemovedKnown, FullTypeOK, TypeOK
<1>2. CASE \E s \in AllStates : t \in s.tags
  <2>1. PICK s \in AllStates : t \in s.tags
    BY <1>2
  <2>2. s \in ReplicaState /\ Sound(s, next_seq, counts, removed)
    BY AllStatesType DEF CrdtInv, AllSound
  <2>3. t \in Tag /\ t.dot.node \in Nodes /\ t.dot.seq \in Nat
        /\ s.next_seq \in [Nodes -> Nat]
    BY <2>1, <2>2 DEF ReplicaState, Tag, Dot
  <2>4. next_seq[t.dot.node][t.dot.node] \in Nat
    BY <2>3 DEF CrdtInv, FullTypeOK, TypeOK
  <2> QED
    BY <2>1, <2>2, <2>3, <2>4 DEF Sound
<1> QED
  BY <1>1, <1>2 DEF AllTags

\* A state stays sound while nodes count further and more is removed.
LEMMA SoundKeeps ==
  ASSUME NEW s \in ReplicaState,
         NEW seqs \in [Nodes -> [Nodes -> Nat]], NEW seqs2 \in [Nodes -> [Nodes -> Nat]],
         NEW incs \in [Nodes -> [Nodes -> Nat]], NEW incs2 \in [Nodes -> [Nodes -> Nat]],
         NEW gone, NEW gone2, gone \subseteq gone2,
         \A m \in Nodes : seqs[m][m] <= seqs2[m][m] /\ incs[m][m] <= incs2[m][m],
         Sound(s, seqs, incs, gone)
  PROVE  Sound(s, seqs2, incs2, gone2)
<1>1. s.next_seq \in [Nodes -> Nat] /\ s.counts \in [Nodes -> Nat]
  BY DEF ReplicaState
<1>2. \A m \in Nodes : s.next_seq[m] <= seqs2[m][m] /\ s.counts[m] <= incs2[m][m]
  <2> SUFFICES ASSUME NEW m \in Nodes
               PROVE  s.next_seq[m] <= seqs2[m][m] /\ s.counts[m] <= incs2[m][m]
    OBVIOUS
  <2>1. /\ s.next_seq[m] \in Nat /\ s.counts[m] \in Nat
        /\ seqs[m][m] \in Nat /\ seqs2[m][m] \in Nat
        /\ incs[m][m] \in Nat /\ incs2[m][m] \in Nat
    BY <1>1
  <2> QED
    BY <2>1 DEF Sound
<1> QED
  BY <1>2 DEF Sound

\* What a step needs to show: only the state of n is new, or no state is, and it
\* is sound; nodes count on, removals are remembered, and no dot is used twice.
LEMMA CrdtInvStep ==
  ASSUME CrdtInv, FullTypeOK', NEW n \in Nodes,
         AllStates' \subseteq AllStates \cup {State(n)'},
         removed \subseteq removed',
         \A m \in Nodes : next_seq[m][m] <= next_seq'[m][m] /\ counts[m][m] <= counts'[m][m],
         Sound(State(n)', next_seq', counts', removed'),
         RemovedKnown', CountsBounded', DotsUnique'
  PROVE  CrdtInv'
<1>1. AllSound'
  <2> SUFFICES ASSUME NEW s \in AllStates' PROVE Sound(s, next_seq', counts', removed')
    BY DEF AllSound
  <2>1. CASE s \in AllStates
    <3>1. s \in ReplicaState /\ Sound(s, next_seq, counts, removed)
      BY <2>1, AllStatesType DEF CrdtInv, AllSound
    <3>2. next_seq \in [Nodes -> [Nodes -> Nat]] /\ counts \in [Nodes -> [Nodes -> Nat]]
          /\ next_seq' \in [Nodes -> [Nodes -> Nat]] /\ counts' \in [Nodes -> [Nodes -> Nat]]
      BY DEF CrdtInv, FullTypeOK, TypeOK
    <3> QED
      BY <3>1, <3>2, SoundKeeps
  <2> QED
    BY <2>1
<1> QED
  BY <1>1 DEF CrdtInv

\* A step that leaves the other replicas alone, and sends nothing but states
\* there are, brings at most the new state of n into being.
LEMMA OnlyReplica ==
  ASSUME NEW n \in Nodes,
         \A k \in Nodes \ {n} : /\ tags'[k] = tags[k] /\ next_seq'[k] = next_seq[k]
                                /\ name'[k] = name[k] /\ counts'[k] = counts[k],
         copies' \subseteq AllStates
  PROVE  AllStates' \subseteq AllStates \cup {State(n)'}
<1> SUFFICES ASSUME NEW s \in AllStates' PROVE s \in AllStates \cup {State(n)'}
  OBVIOUS
<1>1. CASE s \in copies'
  BY <1>1
<1>2. CASE \E k \in Nodes : s = State(k)'
  <2>1. PICK k \in Nodes : s = State(k)'
    BY <1>2
  <2>2. CASE k # n
    <3>1. State(k)' = State(k)
      BY <2>2 DEF State
    <3> QED
      BY <2>1, <3>1 DEF AllStates
  <2> QED
    BY <2>1, <2>2
<1> QED
  BY <1>1, <1>2 DEF AllStates

\* The dots stay unique while no tag comes into being.
LEMMA NoNewTags ==
  ASSUME CrdtInv, NEW n \in Nodes, AllStates' \subseteq AllStates \cup {State(n)'},
         removed' \subseteq AllTags, tags'[n] \subseteq AllTags
  PROVE  DotsUnique'
<1>1. \A s \in AllStates' : s.tags \subseteq AllTags
  BY DEF AllTags, State
<1>2. removed' \cup UNION {s.tags : s \in AllStates'} \subseteq AllTags
  BY <1>1
<1> QED
  BY <1>2 DEF DotsUnique, AllTags, CrdtInv

LEMMA ReplicaTags ==
  ASSUME NEW n \in Nodes
  PROVE  State(n) \in AllStates /\ tags[n] \subseteq AllTags
  BY DEF AllStates, AllTags, State

\* add_reaction: the new dot is one more than every dot of n there is.
LEMMA AddInv ==
  ASSUME CrdtInv, FullTypeOK', NEW n \in Nodes, NEW r \in Reaction, AddReaction(n, r)
  PROVE  CrdtInv'
<1> DEFINE t == [value |-> r, dot |-> [node |-> n, seq |-> next_seq[n][n] + 1]]
<1>1. /\ tags \in [Nodes -> SUBSET Tag] /\ next_seq \in [Nodes -> [Nodes -> Nat]]
      /\ counts \in [Nodes -> [Nodes -> Nat]] /\ updates \in Nat
      /\ next_seq[n] \in [Nodes -> Nat] /\ next_seq[n][n] \in Nat
  BY DEF CrdtInv, FullTypeOK, TypeOK
<1>2. /\ tags' = [tags EXCEPT ![n] = @ \cup {t}]
      /\ next_seq' = [next_seq EXCEPT ![n][n] = next_seq[n][n] + 1]
      /\ UNCHANGED <<name, counts, clock, copies, removed>> /\ updates' = updates + 1
  BY DEF AddReaction, NextDot, Update
<1>3. /\ tags'[n] = tags[n] \cup {t}
      /\ next_seq'[n] = [next_seq[n] EXCEPT ![n] = @ + 1]
      /\ \A k \in Nodes \ {n} : tags'[k] = tags[k] /\ next_seq'[k] = next_seq[k]
  BY <1>1, <1>2
<1>4. AllStates' \subseteq AllStates \cup {State(n)'}
  BY <1>2, <1>3, OnlyReplica DEF AllStates
<1>5. \A m \in Nodes : next_seq[m][m] <= next_seq'[m][m] /\ counts[m][m] <= counts'[m][m]
  BY <1>1, <1>2, <1>3
<1>6. \A u \in AllTags : u.dot # t.dot
  <2> SUFFICES ASSUME NEW u \in AllTags, u.dot = t.dot PROVE FALSE
    OBVIOUS
  <2>1. u.dot.node = n /\ u.dot.seq = next_seq[n][n] + 1
    OBVIOUS
  <2> QED
    BY <1>1, <2>1, TagsNumbered
<1>7. t.dot.node = n /\ t.dot.seq = next_seq[n][n] + 1
  OBVIOUS
<1>8. Sound(State(n)', next_seq', counts', removed')
  <2>1. Sound(State(n), next_seq, counts, removed)
    BY ReplicaTags DEF CrdtInv, AllSound
  <2>2. /\ State(n)' = [tags |-> tags'[n], next_seq |-> next_seq'[n], name |-> name'[n],
                        counts |-> counts'[n]]
        /\ State(n) = [tags |-> tags[n], next_seq |-> next_seq[n], name |-> name[n],
                       counts |-> counts[n]]
    BY DEF State
  <2>3. \A m \in Nodes : next_seq'[n][m] <= next_seq'[m][m] /\ counts'[n][m] <= counts'[m][m]
    BY <1>1, <1>2, <1>3, <2>1, <2>2 DEF Sound
  <2>4. \A u \in tags'[n] : u.dot.seq <= next_seq'[n][u.dot.node]
    <3> SUFFICES ASSUME NEW u \in tags'[n] PROVE u.dot.seq <= next_seq'[n][u.dot.node]
      OBVIOUS
    <3>1. CASE u \in tags[n]
      <4>1. u.dot.node \in Nodes /\ u.dot.seq \in Nat
        BY <1>1, <3>1 DEF Tag, Dot
      <4>2. u.dot.seq <= next_seq[n][u.dot.node]
        BY <3>1, <2>1, <2>2 DEF Sound
      <4> QED
        BY <1>1, <1>3, <4>1, <4>2
    <3>2. CASE u = t
      BY <1>1, <1>3, <3>2
    <3> QED
      BY <1>3, <3>1, <3>2
  <2>5. \A m \in Nodes : \A k \in 1..next_seq'[n][m] :
          \E u \in tags'[n] \cup removed' : u.dot = [node |-> m, seq |-> k]
    <3> SUFFICES ASSUME NEW m \in Nodes, NEW k \in 1..next_seq'[n][m]
                 PROVE  \E u \in tags'[n] \cup removed' : u.dot = [node |-> m, seq |-> k]
      OBVIOUS
    <3>1. CASE k \in 1..next_seq[n][m]
      BY <3>1, <2>1, <2>2, <1>2, <1>3 DEF Sound
    <3>2. CASE k \notin 1..next_seq[n][m]
      <4>1. m = n /\ k = next_seq[n][n] + 1
        BY <3>2, <1>1, <1>3
      <4>2. t.dot = [node |-> m, seq |-> k] /\ t \in tags'[n]
        BY <4>1, <1>3
      <4> QED
        BY <4>2
    <3> QED
      BY <3>1, <3>2
  <2> QED
    BY <2>2, <2>3, <2>4, <2>5 DEF Sound
<1> HIDE DEF t
<1>9. DotsUnique'
  <2>1. \A s \in AllStates' : s.tags \subseteq AllTags \cup {t}
    <3>1. State(n).tags' = tags'[n]
      BY DEF State
    <3> QED
      BY <1>3, <1>4, <3>1, ReplicaTags DEF AllTags
  <2>2. removed' \cup UNION {s.tags : s \in AllStates'} \subseteq AllTags \cup {t}
    BY <2>1, <1>2 DEF AllTags
  <2>3. \A u, v \in AllTags : u.dot = v.dot => u = v
    BY DEF CrdtInv, DotsUnique, AllTags
  <2> QED
    BY <2>2, <2>3, <1>6 DEF DotsUnique
<1>10. RemovedKnown'
  <2>1. \A u \in removed : u.dot.node \in Nodes /\ u.dot.seq \in Nat
    BY DEF CrdtInv, FullTypeOK, TypeOK, Tag, Dot
  <2>2. next_seq' \in [Nodes -> [Nodes -> Nat]]
    BY DEF FullTypeOK, TypeOK
  <2>3. \A u \in removed : u.dot.seq <= next_seq'[u.dot.node][u.dot.node]
    <3> SUFFICES ASSUME NEW u \in removed
                 PROVE  u.dot.seq <= next_seq'[u.dot.node][u.dot.node]
      OBVIOUS
    <3>1. u.dot.seq <= next_seq[u.dot.node][u.dot.node]
      BY DEF CrdtInv, RemovedKnown
    <3>2. next_seq[u.dot.node][u.dot.node] <= next_seq'[u.dot.node][u.dot.node]
      BY <1>5, <2>1
    <3>3. next_seq[u.dot.node][u.dot.node] \in Nat /\ next_seq'[u.dot.node][u.dot.node] \in Nat
      BY <1>1, <2>1, <2>2
    <3> QED
      BY <2>1, <3>1, <3>2, <3>3
  <2> QED
    BY <2>3, <1>2 DEF RemovedKnown
<1>11. CountsBounded'
  BY <1>1, <1>2 DEF CrdtInv, CountsBounded
<1> QED
  BY <1>2, <1>4, <1>5, <1>8, <1>9, <1>10, <1>11, CrdtInvStep

\* remove_reaction: a removed dot is remembered in the history, so that no add
\* the replica knows of is unaccounted for.
LEMMA RemoveInv ==
  ASSUME CrdtInv, FullTypeOK', NEW n \in Nodes, NEW r \in Reaction, RemoveReaction(n, r)
  PROVE  CrdtInv'
<1> DEFINE dead == TagsOf(tags[n], r)
<1>1. /\ tags \in [Nodes -> SUBSET Tag] /\ next_seq \in [Nodes -> [Nodes -> Nat]]
      /\ counts \in [Nodes -> [Nodes -> Nat]] /\ updates \in Nat
  BY DEF CrdtInv, FullTypeOK, TypeOK
<1>2. /\ tags' = [tags EXCEPT ![n] = @ \ dead] /\ removed' = removed \cup dead
      /\ UNCHANGED <<next_seq, name, counts, clock, copies>> /\ updates' = updates + 1
  BY DEF RemoveReaction, Update
<1>3. dead \subseteq tags[n]
  BY DEF TagsOf
<1> HIDE DEF dead
<1>4. tags'[n] = tags[n] \ dead /\ \A k \in Nodes \ {n} : tags'[k] = tags[k]
  BY <1>1, <1>2
<1>5. AllStates' \subseteq AllStates \cup {State(n)'}
  BY <1>2, <1>4, OnlyReplica DEF AllStates
<1>6. \A m \in Nodes : next_seq[m][m] <= next_seq'[m][m] /\ counts[m][m] <= counts'[m][m]
  BY <1>1, <1>2
<1>7. Sound(State(n)', next_seq', counts', removed')
  <2>1. Sound(State(n), next_seq, counts, removed)
    BY ReplicaTags DEF CrdtInv, AllSound
  <2>2. /\ State(n)' = [tags |-> tags'[n], next_seq |-> next_seq[n], name |-> name[n],
                        counts |-> counts[n]]
        /\ State(n) = [tags |-> tags[n], next_seq |-> next_seq[n], name |-> name[n],
                       counts |-> counts[n]]
    BY <1>2 DEF State
  <2>3. tags[n] \cup removed = tags'[n] \cup removed \cup (tags[n] \cap dead)
    BY <1>4
  <2>4. tags[n] \cup removed \subseteq tags'[n] \cup removed'
    BY <1>2, <2>3
  <2> QED
    BY <1>2, <1>4, <2>1, <2>2, <2>4 DEF Sound
<1>8. DotsUnique'
  <2>1. removed' \subseteq AllTags /\ tags'[n] \subseteq AllTags
    BY <1>2, <1>3, <1>4, ReplicaTags DEF AllTags
  <2> QED
    BY <1>5, <2>1, NoNewTags
<1>9. RemovedKnown'
  <2>1. removed' \subseteq AllTags
    BY <1>2, <1>3, ReplicaTags DEF AllTags
  <2> QED
    BY <1>2, <2>1, TagsNumbered DEF RemovedKnown
<1>10. CountsBounded'
  BY <1>1, <1>2 DEF CrdtInv, CountsBounded
<1> QED
  BY <1>2, <1>5, <1>6, <1>7, <1>8, <1>9, <1>10, CrdtInvStep

\* increment: the slot of n, which n alone writes, is the largest of its kind.
LEMMA IncrementInv ==
  ASSUME CrdtInv, FullTypeOK', NEW n \in Nodes, Increment(n)
  PROVE  CrdtInv'
<1>1. /\ tags \in [Nodes -> SUBSET Tag] /\ next_seq \in [Nodes -> [Nodes -> Nat]]
      /\ counts \in [Nodes -> [Nodes -> Nat]] /\ updates \in Nat
      /\ counts[n] \in [Nodes -> Nat] /\ counts[n][n] \in Nat
  BY DEF CrdtInv, FullTypeOK, TypeOK
<1>2. /\ counts' = [counts EXCEPT ![n][n] = @ + 1] /\ updates' = updates + 1
      /\ UNCHANGED <<tags, next_seq, name, clock, copies, removed>>
  BY DEF Increment, Update
<1>3. /\ counts'[n] = [counts[n] EXCEPT ![n] = @ + 1]
      /\ \A k \in Nodes \ {n} : counts'[k] = counts[k]
  BY <1>1, <1>2
<1>4. AllStates' \subseteq AllStates \cup {State(n)'}
  BY <1>2, <1>3, OnlyReplica DEF AllStates
<1>5. \A m \in Nodes : next_seq[m][m] <= next_seq'[m][m] /\ counts[m][m] <= counts'[m][m]
  BY <1>1, <1>2, <1>3
<1>6. Sound(State(n)', next_seq', counts', removed')
  <2>1. Sound(State(n), next_seq, counts, removed)
    BY ReplicaTags DEF CrdtInv, AllSound
  <2>2. /\ State(n)' = [tags |-> tags[n], next_seq |-> next_seq[n], name |-> name[n],
                        counts |-> counts'[n]]
        /\ State(n) = [tags |-> tags[n], next_seq |-> next_seq[n], name |-> name[n],
                       counts |-> counts[n]]
    BY <1>2 DEF State
  <2>3. \A m \in Nodes : counts[n][m] <= counts[m][m]
    BY <2>1, <2>2 DEF Sound
  <2>4. ASSUME NEW m \in Nodes PROVE counts'[n][m] <= counts'[m][m]
    <3>0. counts'[n][n] = counts[n][n] + 1
      BY <1>1, <1>3
    <3>1. CASE m = n
      BY <1>1, <3>0, <3>1
    <3>2. CASE m # n
      BY <1>1, <1>3, <2>3, <3>2
    <3> QED
      BY <3>1, <3>2
  <2> QED
    BY <1>2, <2>1, <2>2, <2>4 DEF Sound
<1>7. DotsUnique'
  <2>1. removed' \subseteq AllTags /\ tags'[n] \subseteq AllTags
    BY <1>2, ReplicaTags DEF AllTags
  <2> QED
    BY <1>4, <2>1, NoNewTags
<1>8. RemovedKnown'
  BY <1>2 DEF CrdtInv, RemovedKnown
<1>9. CountsBounded'
  BY <1>1, <1>2, <1>3 DEF CrdtInv, CountsBounded
<1> QED
  BY <1>2, <1>4, <1>5, <1>6, <1>7, <1>8, <1>9, CrdtInvStep

\* merge, with any state that a replica has or had.
LEMMA MergesInv ==
  ASSUME CrdtInv, FullTypeOK', NEW n \in Nodes, NEW s \in AllStates, Merges(n, s)
  PROVE  CrdtInv'
<1>1. /\ tags \in [Nodes -> SUBSET Tag] /\ next_seq \in [Nodes -> [Nodes -> Nat]]
      /\ counts \in [Nodes -> [Nodes -> Nat]] /\ updates \in Nat
      /\ next_seq[n] \in [Nodes -> Nat] /\ counts[n] \in [Nodes -> Nat]
      /\ tags[n] \in SUBSET Tag
  BY DEF CrdtInv, FullTypeOK, TypeOK
<1>2. /\ s.tags \in SUBSET Tag
      /\ s.next_seq \in [Nodes -> Nat] /\ s.counts \in [Nodes -> Nat]
  BY AllStatesType DEF CrdtInv, ReplicaState
<1>3. /\ tags'[n] = tags[n] \cup s.tags
      /\ next_seq'[n] = MergeCounts(next_seq[n], s.next_seq)
      /\ counts'[n] = MergeCounts(counts[n], s.counts)
      /\ \A k \in Nodes \ {n} : /\ tags'[k] = tags[k] /\ next_seq'[k] = next_seq[k]
                                /\ name'[k] = name[k] /\ counts'[k] = counts[k]
      /\ UNCHANGED <<copies, updates, removed>>
  BY DEF Merges, MergeSets, CrdtInv, FullTypeOK, TypeOK
<1>4. AllStates' \subseteq AllStates \cup {State(n)'}
  BY <1>3, OnlyReplica DEF AllStates
<1>5. /\ Sound(s, next_seq, counts, removed)
      /\ Sound(State(n), next_seq, counts, removed)
  BY ReplicaTags DEF CrdtInv, AllSound
<1>6. State(n) = [tags |-> tags[n], next_seq |-> next_seq[n], name |-> name[n],
                  counts |-> counts[n]]
  BY DEF State
\* What n knows of the others, and they of themselves.
<1>7. \A m \in Nodes :
        /\ next_seq'[n][m] \in {next_seq[n][m], s.next_seq[m]}
        /\ next_seq[n][m] <= next_seq'[n][m] /\ s.next_seq[m] <= next_seq'[n][m]
        /\ counts'[n][m] \in {counts[n][m], s.counts[m]}
        /\ counts[n][m] <= counts'[n][m] /\ s.counts[m] <= counts'[n][m]
  BY <1>1, <1>2, <1>3, MergeCountsIs
<1>8. \A m \in Nodes : next_seq'[m][m] = next_seq[m][m] /\ counts'[m][m] = counts[m][m]
  <2> SUFFICES ASSUME NEW m \in Nodes
               PROVE  next_seq'[m][m] = next_seq[m][m] /\ counts'[m][m] = counts[m][m]
    OBVIOUS
  <2>1. CASE m = n
    <3>1. s.next_seq[n] <= next_seq[n][n] /\ s.counts[n] <= counts[n][n]
      BY <1>5 DEF Sound
    <3>2. /\ s.next_seq[n] \in Nat /\ next_seq[n][n] \in Nat
          /\ s.counts[n] \in Nat /\ counts[n][n] \in Nat
      BY <1>1, <1>2
    <3> QED
      BY <2>1, <3>1, <3>2, <1>7
  <2>2. CASE m # n
    BY <2>2, <1>3
  <2> QED
    BY <2>1, <2>2
<1>9. Sound(State(n)', next_seq', counts', removed')
  <2>1. State(n)' = [tags |-> tags'[n], next_seq |-> next_seq'[n], name |-> name'[n],
                     counts |-> counts'[n]]
    BY DEF State
  <2>2. \A m \in Nodes : next_seq'[n][m] <= next_seq'[m][m] /\ counts'[n][m] <= counts'[m][m]
    <3> SUFFICES ASSUME NEW m \in Nodes
                 PROVE  next_seq'[n][m] <= next_seq[m][m] /\ counts'[n][m] <= counts[m][m]
      BY <1>8
    <3>1. /\ next_seq[n][m] <= next_seq[m][m] /\ s.next_seq[m] <= next_seq[m][m]
          /\ counts[n][m] <= counts[m][m] /\ s.counts[m] <= counts[m][m]
      BY <1>5, <1>6 DEF Sound
    <3> QED
      BY <3>1, <1>7
  <2>3. \A t \in tags'[n] : t.dot.seq <= next_seq'[n][t.dot.node]
    <3> SUFFICES ASSUME NEW t \in tags'[n] PROVE t.dot.seq <= next_seq'[n][t.dot.node]
      OBVIOUS
    <3>1. t.dot.node \in Nodes /\ t.dot.seq \in Nat
      BY <1>1, <1>2, <1>3 DEF Tag, Dot
    <3>2. t.dot.seq <= next_seq[n][t.dot.node] \/ t.dot.seq <= s.next_seq[t.dot.node]
      BY <1>3, <1>5, <1>6 DEF Sound
    <3>3. next_seq'[n][t.dot.node] \in Nat /\ next_seq[n][t.dot.node] \in Nat
          /\ s.next_seq[t.dot.node] \in Nat
      BY <1>1, <1>2, <1>7, <3>1
    <3> QED
      BY <3>1, <3>2, <3>3, <1>7
  <2>4. \A m \in Nodes : \A k \in 1..next_seq'[n][m] :
          \E t \in tags'[n] \cup removed' : t.dot = [node |-> m, seq |-> k]
    <3> SUFFICES ASSUME NEW m \in Nodes, NEW k \in 1..next_seq'[n][m]
                 PROVE  \E t \in tags'[n] \cup removed' : t.dot = [node |-> m, seq |-> k]
      OBVIOUS
    <3>1. k \in 1..next_seq[n][m] \/ k \in 1..s.next_seq[m]
      BY <1>7
    <3>2. CASE k \in 1..next_seq[n][m]
      BY <3>2, <1>3, <1>5, <1>6 DEF Sound
    <3>3. CASE k \in 1..s.next_seq[m]
      BY <3>3, <1>3, <1>5 DEF Sound
    <3> QED
      BY <3>1, <3>2, <3>3
  <2> QED
    BY <2>1, <2>2, <2>3, <2>4 DEF Sound
<1>10. DotsUnique'
  <2>1. removed' \subseteq AllTags /\ tags'[n] \subseteq AllTags
    BY <1>3, ReplicaTags DEF AllTags
  <2> QED
    BY <1>4, <2>1, NoNewTags
<1>11. RemovedKnown'
  <2>1. \A t \in removed : t.dot.node \in Nodes
    BY DEF CrdtInv, FullTypeOK, TypeOK, Tag, Dot
  <2> QED
    BY <2>1, <1>3, <1>8 DEF CrdtInv, RemovedKnown
<1>12. CountsBounded'
  BY <1>3, <1>8 DEF CrdtInv, CountsBounded
<1>13. \A m \in Nodes : next_seq[m][m] <= next_seq'[m][m] /\ counts[m][m] <= counts'[m][m]
  BY <1>1, <1>8
<1> QED
  BY <1>3, <1>4, <1>9, <1>10, <1>11, <1>12, <1>13, CrdtInvStep

\* A step that neither touches the set and the counter nor sends anything but a
\* state there is.
LEMMA QuietInv ==
  ASSUME CrdtInv, FullTypeOK', NEW n \in Nodes,
         UNCHANGED <<tags, next_seq, counts, removed>>, copies' \subseteq AllStates,
         \A k \in Nodes \ {n} : name'[k] = name[k], updates <= updates'
  PROVE  CrdtInv'
<1>1. /\ next_seq \in [Nodes -> [Nodes -> Nat]] /\ counts \in [Nodes -> [Nodes -> Nat]]
      /\ updates \in Nat /\ updates' \in Nat
  BY DEF CrdtInv, FullTypeOK, TypeOK
<1>2. AllStates' \subseteq AllStates \cup {State(n)'}
  BY OnlyReplica
<1>3. Sound(State(n)', next_seq', counts', removed')
  <2>1. Sound(State(n), next_seq, counts, removed)
    BY ReplicaTags DEF CrdtInv, AllSound
  <2> QED
    BY <2>1 DEF Sound, State
<1>4. DotsUnique'
  <2>1. removed' \subseteq AllTags /\ tags'[n] \subseteq AllTags
    BY ReplicaTags DEF AllTags
  <2> QED
    BY <1>2, <2>1, NoNewTags
<1>5. RemovedKnown' /\ CountsBounded'
  BY <1>1 DEF CrdtInv, RemovedKnown, CountsBounded
<1>6. \A m \in Nodes : next_seq[m][m] <= next_seq'[m][m] /\ counts[m][m] <= counts'[m][m]
  BY <1>1
<1> QED
  BY <1>2, <1>3, <1>4, <1>5, <1>6, CrdtInvStep

LEMMA CrdtInvInit == Init => CrdtInv
<1> SUFFICES ASSUME Init PROVE CrdtInv
  OBVIOUS
<1>1. FullTypeOK
  BY TypeInit
<1>2. \A s \in AllStates : s.tags = {} /\ s.next_seq = NewCounter /\ s.counts = NewCounter
  BY DEF Init, AllStates, State
<1>3. \A m \in Nodes : NewCounter[m] = 0
  BY DEF NewCounter
<1>4. AllSound
  BY <1>2, <1>3 DEF AllSound, Sound, Init
<1>5. RemovedKnown /\ CountsBounded
  BY <1>3 DEF Init, RemovedKnown, CountsBounded
<1>6. DotsUnique
  BY <1>2 DEF Init, DotsUnique
<1> QED
  BY <1>1, <1>4, <1>5, <1>6 DEF CrdtInv

LEMMA CrdtInvNext == CrdtInv /\ [Next]_vars => CrdtInv'
<1> SUFFICES ASSUME CrdtInv, [Next]_vars PROVE CrdtInv'
  OBVIOUS
<1>0. FullTypeOK' /\ updates \in Nat
  BY TypeStep DEF CrdtInv, FullTypeOK, TypeOK
<1>1. ASSUME NEW n \in Nodes, NEW r \in Reaction, AddReaction(n, r) PROVE CrdtInv'
  BY <1>0, <1>1, AddInv
<1>2. ASSUME NEW n \in Nodes, NEW r \in Reaction, RemoveReaction(n, r) PROVE CrdtInv'
  BY <1>0, <1>2, RemoveInv
<1>3. ASSUME NEW n \in Nodes, NEW v \in Names, SetName(n, v) PROVE CrdtInv'
  <2>1. \A k \in Nodes \ {n} : name'[k] = name[k]
    BY <1>3 DEF SetName, CrdtInv, FullTypeOK, TypeOK
  <2> QED
    BY <1>0, <1>3, <2>1, QuietInv DEF SetName, Update, AllStates
<1>4. ASSUME NEW n \in Nodes, Increment(n) PROVE CrdtInv'
  BY <1>0, <1>4, IncrementInv
<1>5. ASSUME NEW n \in Nodes, Send(n) PROVE CrdtInv'
  BY <1>0, <1>5, QuietInv DEF Send, AllStates
<1>6. ASSUME NEW n \in Nodes, NEW m \in Nodes, Exchange(n, m) PROVE CrdtInv'
  BY <1>0, <1>6, MergesInv, ReplicaTags DEF Exchange
<1>7. ASSUME NEW n \in Nodes, NEW s \in copies, Receive(n, s) PROVE CrdtInv'
  BY <1>0, <1>7, MergesInv DEF Receive, AllStates
<1>8. CASE UNCHANGED vars
  BY <1>8, QuietInv, CrdtConstants, <1>0 DEF vars, AllStates
<1> QED
  BY <1>1, <1>2, <1>3, <1>4, <1>5, <1>6, <1>7, <1>8 DEF Next

LEMMA SpecCrdtInv == Spec => []CrdtInv
  BY CrdtInvInit, CrdtInvNext, PTL DEF Spec

\* No dot tags two reactions (orset.rs:6), however late and often states are
\* merged and whatever was removed in between.
THEOREM CrdtDotsUnique == Spec => []DotsUnique
<1>1. CrdtInv => DotsUnique
  BY DEF CrdtInv
<1> QED
  BY <1>1, SpecCrdtInv, PTL

\* "Add wins" (orset.rs:14): a replica holds every add it knows of that no
\* replica has removed.
THEOREM CrdtAddWins == Spec => []AddWins
<1>1. CrdtInv => AddWins
  <2> SUFFICES ASSUME CrdtInv PROVE AddWins
    OBVIOUS
  <2>1. \A k \in Nodes : Sound(State(k), next_seq, counts, removed)
    BY ReplicaTags DEF CrdtInv, AllSound
  <2> QED
    BY <2>1 DEF Sound, State, AddWins
<1> QED
  BY <1>1, SpecCrdtInv, PTL

-----------------------------------------------------------------------------
(* The register: a clock is never behind the timestamp of its register.    *)

ClockPast == \A n \in Nodes : ~Before(clock[n], name[n].timestamp)
ClockInv == FullTypeOK /\ ClockPast

\* What comes after a clock comes after everything the clock has passed.
LEMMA AfterPassed ==
  ASSUME NEW h \in Stamp, NEW g \in Stamp, NEW e \in Stamp, Before(h, g), ~Before(h, e)
  PROVE  Before(e, g) /\ ~Before(g, e)
  BY StampFields, CrdtConstants DEF Before

LEMMA ClockInvMerges ==
  ASSUME OverflowChecks, ClockInv, FullTypeOK', NEW n \in Nodes, NEW s \in ReplicaState,
         Merges(n, s)
  PROVE  ClockPast'
<1>1. clock \in [Nodes -> Stamp] /\ name \in [Nodes -> Register] /\ s.name \in Register
  BY DEF ClockInv, FullTypeOK, TypeOK, ReplicaState
<1>2. clock[n] \in Stamp /\ name[n].timestamp \in Stamp /\ s.name.timestamp \in Stamp
  BY <1>1 DEF Register
<1>3. clock'[n] = Merge(clock[n], s.name.timestamp, 0) /\ name'[n] \in {name[n], s.name}
  BY <1>1, NewerIs DEF Merges
<1>4. /\ clock'[n] \in Stamp
      /\ Before(clock[n], clock'[n]) /\ Before(s.name.timestamp, clock'[n])
  BY <1>2, <1>3, MergeStamp DEF Merges
<1>5. ~Before(clock'[n], name[n].timestamp)
  BY <1>2, <1>4, AfterPassed DEF ClockInv, ClockPast
<1>6. ~Before(clock'[n], s.name.timestamp)
  BY <1>2, <1>4, StampFields, CrdtConstants DEF Before
<1>7. \A k \in Nodes \ {n} : clock'[k] = clock[k] /\ name'[k] = name[k]
  BY <1>1 DEF Merges
<1> QED
  BY <1>3, <1>5, <1>6, <1>7 DEF ClockInv, ClockPast

\* set: the tick takes the clock past the register, so the write is newer.
LEMMA SetNameTakesEffect ==
  ASSUME ClockInv, FullTypeOK', NEW n \in Nodes, NEW v \in Names, SetName(n, v)
  PROVE  /\ name'[n] = [value |-> v, timestamp |-> clock'[n]]
         /\ ClockPast'
<1>1. clock \in [Nodes -> Stamp] /\ name \in [Nodes -> Register]
  BY DEF ClockInv, FullTypeOK, TypeOK
<1>2. clock[n] \in Stamp /\ name[n].timestamp \in Stamp
  BY <1>1 DEF Register
<1>3. clock'[n] \in Stamp /\ Before(clock[n], clock'[n])
  BY <1>1, <1>2, TickStamp DEF SetName
<1>4. Before(name[n].timestamp, clock'[n])
  BY <1>2, <1>3, AfterPassed DEF ClockInv, ClockPast
<1> DEFINE w == [value |-> v, timestamp |-> clock'[n]]
<1>5. Newer(name[n], w) = w
  BY <1>4 DEF Newer, Less
<1>6. name'[n] = w /\ \A k \in Nodes \ {n} : name'[k] = name[k] /\ clock'[k] = clock[k]
  BY <1>1, <1>5 DEF SetName
<1>7. ~Before(clock'[n], clock'[n])
  BY <1>3, StampFields, CrdtConstants DEF Before
<1> QED
  BY <1>6, <1>7 DEF ClockInv, ClockPast

LEMMA SpecClockInv == ASSUME OverflowChecks PROVE Spec => []ClockInv
<1>1. Init => ClockInv
  BY TypeInit DEF Init, ClockInv, ClockPast, NewRegister, Before
<1>2. ClockInv /\ [Next]_vars => ClockInv'
  <2> SUFFICES ASSUME ClockInv, [Next]_vars PROVE ClockInv'
    OBVIOUS
  <2>0. FullTypeOK'
    BY TypeStep DEF ClockInv
  <2>1. CASE UNCHANGED <<clock, name>>
    BY <2>0, <2>1 DEF ClockInv, ClockPast
  <2>2. ASSUME NEW n \in Nodes, NEW v \in Names, SetName(n, v) PROVE ClockInv'
    BY <2>0, <2>2, SetNameTakesEffect DEF ClockInv
  <2>3. ASSUME NEW n \in Nodes, NEW m \in Nodes, Exchange(n, m) PROVE ClockInv'
    BY <2>0, <2>3, StateType, ClockInvMerges DEF ClockInv, Exchange
  <2>4. ASSUME NEW n \in Nodes, NEW s \in copies, Receive(n, s) PROVE ClockInv'
    BY <2>0, <2>4, ClockInvMerges DEF ClockInv, FullTypeOK, Receive
  <2> QED
    BY <2>1, <2>2, <2>3, <2>4 DEF Next, vars, AddReaction, RemoveReaction, Increment, Send
<1> QED
  BY <1>1, <1>2, PTL DEF Spec

\* A write of the register is seen at once where it was made, whatever the
\* replica has merged before, in a build that traps overflow (lww_register.rs).
THEOREM CrdtReadYourWrites == ASSUME OverflowChecks PROVE Spec => ReadYourWrites
<1>1. ClockInv /\ [Next]_vars =>
        [\A n \in Nodes, v \in Names : SetName(n, v) => name'[n].value = v]_vars
  <2> SUFFICES ASSUME ClockInv, [Next]_vars, NEW n \in Nodes, NEW v \in Names, SetName(n, v)
               PROVE  name'[n].value = v
    OBVIOUS
  <2>1. FullTypeOK'
    BY TypeStep DEF ClockInv
  <2>2. name'[n] = [value |-> v, timestamp |-> clock'[n]]
    BY <2>1, SetNameTakesEffect
  <2> QED
    BY <2>2
<1> QED
  BY <1>1, SpecClockInv, PTL DEF Spec, ReadYourWrites

-----------------------------------------------------------------------------
(* The refinement of the counter: an increment is an item that nobody had, *)
(* a merge takes over items that their owners have.                        *)

KnownCounts == [n \in Nodes |-> Counted(counts[n])]

\* The owner of a slot has counted whatever another replica knows of it.
LEMMA CountedExists ==
  ASSUME CrdtInv, NEW s \in AllStates
  PROVE  Counted(s.counts) \subseteq Counter!Everywhere
<1> SUFFICES ASSUME NEW item \in Counted(s.counts) PROVE item \in Counter!Everywhere
  OBVIOUS
<1>1. item \in Nodes \X (1..MaxUpdates) /\ item[2] <= s.counts[item[1]]
  BY DEF Counted
<1>2. item[1] \in Nodes /\ item[2] \in 1..MaxUpdates
  BY <1>1
<1>3. s.counts[item[1]] <= counts[item[1]][item[1]]
  BY <1>2 DEF CrdtInv, AllSound, Sound
<1>4. s.counts[item[1]] \in Nat /\ counts[item[1]][item[1]] \in Nat
  BY <1>2, AllStatesType DEF CrdtInv, FullTypeOK, TypeOK, ReplicaState
<1>5. item[2] <= counts[item[1]][item[1]]
  BY <1>1, <1>2, <1>3, <1>4, CrdtConstants
<1>6. item \in Counted(counts[item[1]])
  BY <1>1, <1>5 DEF Counted
<1> QED
  BY <1>2, <1>6 DEF Counter!Everywhere

\* A merge of two counters counts what one of them has counted.
LEMMA CountedMerge ==
  ASSUME NEW c \in [Nodes -> Nat], NEW d \in [Nodes -> Nat]
  PROVE  Counted(MergeCounts(c, d)) = Counted(c) \cup Counted(d)
<1> SUFFICES ASSUME NEW item \in Nodes \X (1..MaxUpdates)
             PROVE  item[2] <= MergeCounts(c, d)[item[1]] <=>
                      (item[2] <= c[item[1]] \/ item[2] <= d[item[1]])
  BY DEF Counted
<1>1. item[1] \in Nodes /\ item[2] \in Nat
  BY CrdtConstants
<1>2. c[item[1]] \in Nat /\ d[item[1]] \in Nat
  BY <1>1
<1> QED
  BY <1>1, <1>2 DEF MergeCounts, Largest

LEMMA MergesLearns ==
  ASSUME CrdtInv, NEW n \in Nodes, NEW s \in AllStates, Merges(n, s)
  PROVE  Counter!Learn(n)
<1>1. s.counts \in [Nodes -> Nat] /\ counts \in [Nodes -> [Nodes -> Nat]]
  BY AllStatesType DEF CrdtInv, FullTypeOK, TypeOK, ReplicaState
<1>2. counts' = [counts EXCEPT ![n] = MergeCounts(@, s.counts)]
  BY DEF Merges
<1>3. Counted(counts'[n]) = Counted(counts[n]) \cup Counted(s.counts)
  BY <1>1, <1>2, CountedMerge
<1>4. KnownCounts' = [KnownCounts EXCEPT ![n] = @ \cup Counted(s.counts)]
  BY <1>1, <1>2, <1>3 DEF KnownCounts
<1>5. Counted(s.counts) \in SUBSET Counter!Everywhere
  BY CountedExists
<1> QED
  BY <1>4, <1>5 DEF Counter!Learn, KnownCounts

LEMMA IncrementIssues ==
  ASSUME CrdtInv, NEW n \in Nodes, Increment(n)
  PROVE  Counter!Issue(n)
<1> DEFINE c == counts[n][n] + 1
           item == <<n, c>>
<1>1. /\ counts \in [Nodes -> [Nodes -> Nat]] /\ counts[n] \in [Nodes -> Nat]
      /\ counts[n][n] \in Nat /\ updates \in Nat /\ MaxUpdates \in Nat
  BY CrdtConstants DEF CrdtInv, FullTypeOK, TypeOK
<1>2. c \in 1..MaxUpdates
  BY <1>1 DEF Increment, Update, CrdtInv, CountsBounded
<1>3. counts' = [counts EXCEPT ![n] = [counts[n] EXCEPT ![n] = c]]
  BY <1>1 DEF Increment
<1>4. item \notin Counter!Everywhere
  <2> SUFFICES ASSUME NEW k \in Nodes, item \in Counted(counts[k]) PROVE FALSE
    BY DEF Counter!Everywhere
  <2>1. c <= counts[k][n]
    BY DEF Counted
  <2>2. Sound(State(k), next_seq, counts, removed) /\ State(k).counts = counts[k]
    BY ReplicaTags DEF CrdtInv, AllSound, State
  <2>3. counts[k][n] <= counts[n][n]
    BY <2>2 DEF Sound
  <2> QED
    BY <1>1, <2>1, <2>3
<1>5. Counted(counts'[n]) = Counted(counts[n]) \cup {item}
  <2> SUFFICES ASSUME NEW i \in Nodes \X (1..MaxUpdates)
               PROVE  i[2] <= counts'[n][i[1]] <=> (i[2] <= counts[n][i[1]] \/ i = item)
    BY <1>2 DEF Counted
  <2>1. i[1] \in Nodes /\ i[2] \in Nat /\ i = <<i[1], i[2]>>
    BY <1>1
  <2>2. CASE i[1] = n
    <3>1. counts'[n][i[1]] = c
      BY <1>1, <1>3, <2>2
    <3>2. i = item <=> i[2] = c
      BY <2>1, <2>2
    <3>3. i[2] <= c <=> (i[2] <= counts[n][n] \/ i[2] = c)
      <4>1. \A a, b \in Nat : a <= b + 1 <=> (a <= b \/ a = b + 1)
        OBVIOUS
      <4>2. i[2] \in Nat /\ counts[n][n] \in Nat
        BY <1>1, <2>1
      <4> QED
        BY <4>1, <4>2
    <3> QED
      BY <2>2, <3>1, <3>2, <3>3
  <2>3. CASE i[1] # n
    BY <1>1, <1>3, <2>1, <2>3
  <2> QED
    BY <2>2, <2>3
<1>6. KnownCounts' = [KnownCounts EXCEPT ![n] = @ \cup {item}]
  BY <1>1, <1>3, <1>5 DEF KnownCounts
<1>7. item \in Counted(counts'[n])
  BY <1>5
<1>8. SlotOwner(item) = n
  BY DEF SlotOwner
<1> HIDE DEF item
<1> QED
  BY <1>4, <1>6, <1>7, <1>8 DEF Counter!Issue, KnownCounts

\* The counter implements GrowOnly: no increment is counted that was not made,
\* none twice and none is forgotten, with late and repeated states.
THEOREM CrdtCounterSpec == Spec => CounterSpec
<1>1. Init => Counter!Init
  <2> SUFFICES ASSUME Init, NEW n \in Nodes PROVE Counted(counts[n]) = {}
    BY DEF Counter!Init
  <2>1. \A m \in Nodes : counts[n][m] = 0
    BY DEF Init, NewCounter
  <2> QED
    BY <2>1, CrdtConstants DEF Counted
<1>2. CrdtInv /\ [Next]_vars => [Counter!Next]_KnownCounts
  <2> SUFFICES ASSUME CrdtInv, [Next]_vars
               PROVE  Counter!Next \/ KnownCounts' = KnownCounts
    OBVIOUS
  <2>1. CASE counts' = counts
    BY <2>1 DEF KnownCounts
  <2>2. ASSUME NEW n \in Nodes, Increment(n) PROVE Counter!Next
    BY <2>2, IncrementIssues DEF Counter!Next
  <2>3. ASSUME NEW n \in Nodes, NEW m \in Nodes, Exchange(n, m) PROVE Counter!Next
    BY <2>3, MergesLearns, ReplicaTags DEF Counter!Next, Exchange
  <2>4. ASSUME NEW n \in Nodes, NEW s \in copies, Receive(n, s) PROVE Counter!Next
    BY <2>4, MergesLearns DEF Counter!Next, Receive, AllStates
  <2> QED
    BY <2>1, <2>2, <2>3, <2>4 DEF Next, vars, AddReaction, RemoveReaction, SetName, Send
<1> QED
  BY <1>1, <1>2, SpecCrdtInv, PTL DEF Spec, CounterSpec, Counter!Spec, KnownCounts

=============================================================================
