------------------------------- MODULE Crdts --------------------------------
(***************************************************************************)
(* Replicas that each hold one CRDT of every other kind in mercury-crdt: a *)
(* ReactionMap (an ORSet of pairs of user and emoji), an LwwRegister and a *)
(* GCounter, with the Hlc that stamps the register's writes.  States reach *)
(* other replicas at once or as copies that are late, repeated or lost.    *)
(***************************************************************************)
EXTENDS Hlc, FiniteSets, Functions

CONSTANTS
  Users, Emojis,   \* who reacts, and how
  Names,           \* values of the register
  NoName,          \* the register's first value
  MaxUpdates,      \* bound: local updates over all replicas
  MaxCopies        \* bound: copies of states on their way

ASSUME CrdtAssumption ==
  /\ 0 \in Nodes /\ IsFiniteSet(Nodes)
  /\ NoName \notin Names
  /\ MaxUpdates \in Nat /\ MaxCopies \in Nat

VARIABLES
  tags,      \* tags[n]: ORSet.entries of n, as a set of tagged pairs
  next_seq,  \* next_seq[n]: ORSet.next_seq of n
  name,      \* name[n]: the LwwRegister of n
  counts,    \* counts[n]: GCounter.counts of n, 0 where there is no key
  clock,     \* clock[n]: the Hlc of n
  copies,    \* copies of states on their way
  updates,   \* number of local updates so far
  removed    \* history: the tags that a removal on some replica deleted

vars == <<tags, next_seq, name, counts, clock, copies, updates, removed>>

Reaction == Users \X Emojis
Dot == [node : Nodes, seq : Nat \ {0}]
Tag == [value : Reaction, dot : Dot]
Register == [value : Names \cup {NoName}, timestamp : Stamp]

-----------------------------------------------------------------------------
\* LwwRegister::new, on node 0; GCounter::new.
NewRegister == [value |-> NoName, timestamp |-> [wall |-> 0, counter |-> 0, node |-> 0]]
NewCounter == [m \in Nodes |-> 0]

\* ORSet::contains, elements and len.
Elements(entries) == {t.value : t \in entries}

\* ReactionMap::counts and user_reactions.
EmojiCount(entries, emoji) ==
  Cardinality({r \in Elements(entries) : r[2] = emoji})
UserReactions(entries, user) ==
  {r[2] : r \in {x \in Elements(entries) : x[1] = user}}

\* Mutant: the number is taken from what the set holds at present.
DotOfPresent(entries, seqs, n) ==
  [node |-> n, seq |-> Cardinality({t \in entries : t.dot.node = n}) + 1]

\* ORSet::add: the dot of the next add on n.
NextDot(entries, seqs, n) == [node |-> n, seq |-> seqs[n] + 1]

\* ORSet::remove: the dots that go.
TagsOf(entries, value) == {t \in entries : t.value = value}

\* Mutant: the dots of a value are replaced instead of united.
MergeSetsReplacing(entries, other) ==
  {t \in entries : t.value \notin Elements(other)} \cup other

\* ORSet::merge, the entries; ReactionMap::merge.
MergeSets(entries, other) == entries \cup other

\* Mutant: timestamps are compared without the node.
NewerByTime(reg, other) ==
  IF Before(reg.timestamp, other.timestamp) THEN other ELSE reg

\* LwwRegister::set and merge: a value replaces one with a smaller timestamp.
Newer(reg, other) == IF Less(reg.timestamp, other.timestamp) THEN other ELSE reg

\* Mutant: the slots are added up.
MergeCountsAdding(c, d) == [m \in Nodes |-> c[m] + d[m]]

\* GCounter::merge, and ORSet::merge of next_seq: the larger of each slot.
MergeCounts(c, d) == [m \in Nodes |-> Largest(c[m], d[m])]

\* GCounter::value.
Value(c) == SumFunction(c)

-----------------------------------------------------------------------------
State(n) ==
  [tags |-> tags[n], next_seq |-> next_seq[n], name |-> name[n], counts |-> counts[n]]

\* ReactionMap::new and ORSet::new; every replica starts from one register.
Init ==
  /\ tags = [n \in Nodes |-> {}]
  /\ next_seq = [n \in Nodes |-> NewCounter]
  /\ name = [n \in Nodes |-> NewRegister]
  /\ counts = [n \in Nodes |-> NewCounter]
  /\ clock = [n \in Nodes |-> [wall |-> 0, counter |-> 0, node |-> n]]
  /\ copies = {}
  /\ updates = 0
  /\ removed = {}

Update == updates < MaxUpdates /\ updates' = updates + 1

\* ReactionMap::add_reaction on replica n.
AddReaction(n, reaction) ==
  /\ Update
  /\ LET dot == NextDot(tags[n], next_seq[n], n)
     IN  /\ tags' = [tags EXCEPT ![n] = @ \cup {[value |-> reaction, dot |-> dot]}]
         /\ next_seq' = [next_seq EXCEPT ![n][n] = dot.seq]
  /\ UNCHANGED <<name, counts, clock, copies, removed>>

\* ReactionMap::remove_reaction on replica n.
RemoveReaction(n, reaction) ==
  /\ Update
  /\ LET dead == TagsOf(tags[n], reaction)
     IN  /\ dead # {}
         /\ tags' = [tags EXCEPT ![n] = @ \ dead]
         /\ removed' = removed \cup dead
  /\ UNCHANGED <<next_seq, name, counts, clock, copies>>

\* n ticks its clock and calls LwwRegister::set.
SetName(n, v) ==
  /\ Update
  /\ ~TickPanics(clock[n], 0)
  /\ clock' = [clock EXCEPT ![n] = Tick(@, 0)]
  /\ name' = [name EXCEPT ![n] = Newer(@, [value |-> v, timestamp |-> clock'[n]])]
  /\ UNCHANGED <<tags, next_seq, counts, copies, removed>>

\* GCounter::increment on replica n.
Increment(n) ==
  /\ Update
  /\ counts' = [counts EXCEPT ![n][n] = @ + 1]
  /\ UNCHANGED <<tags, next_seq, name, clock, copies, removed>>

\* A copy of n's state sets out.
Send(n) ==
  /\ Cardinality(copies) < MaxCopies
  /\ copies' = copies \cup {State(n)}
  /\ UNCHANGED <<tags, next_seq, name, counts, clock, updates, removed>>

\* n merges a state, and its clock with the timestamp that came along.
Merges(n, s) ==
  /\ ~MergePanics(clock[n], s.name.timestamp, 0)
  /\ clock' = [clock EXCEPT ![n] = Merge(@, s.name.timestamp, 0)]
  /\ tags' = [tags EXCEPT ![n] = MergeSets(@, s.tags)]
  /\ next_seq' = [next_seq EXCEPT ![n] = MergeCounts(@, s.next_seq)]
  /\ name' = [name EXCEPT ![n] = Newer(@, s.name)]
  /\ counts' = [counts EXCEPT ![n] = MergeCounts(@, s.counts)]
  /\ UNCHANGED <<copies, updates, removed>>

\* A state brings news if merging it changes something.
News(n, s) ==
  \/ MergeSets(tags[n], s.tags) # tags[n]
  \/ MergeCounts(next_seq[n], s.next_seq) # next_seq[n]
  \/ Newer(name[n], s.name) # name[n]
  \/ MergeCounts(counts[n], s.counts) # counts[n]

Exchange(n, m) == News(n, State(m)) /\ Merges(n, State(m))
Receive(n, s) == News(n, s) /\ Merges(n, s)

Next ==
  \/ \E n \in Nodes, r \in Reaction : AddReaction(n, r)
  \/ \E n \in Nodes, r \in Reaction : RemoveReaction(n, r)
  \/ \E n \in Nodes, v \in Names : SetName(n, v)
  \/ \E n \in Nodes : Increment(n)
  \/ \E n \in Nodes : Send(n)
  \/ \E n, m \in Nodes : Exchange(n, m)
  \/ \E n \in Nodes, s \in copies : Receive(n, s)

Spec == Init /\ [][Next]_vars

\* Every replica keeps exchanging its state with every other one.
FairSpec == Spec /\ \A n, m \in Nodes : WF_vars(Exchange(n, m))

-----------------------------------------------------------------------------
AllStates == {State(n) : n \in Nodes} \cup copies

\* Type correctness of the replicas and of the copies.
TypeOK ==
  /\ tags \in [Nodes -> SUBSET Tag]
  /\ next_seq \in [Nodes -> [Nodes -> Nat]]
  /\ name \in [Nodes -> Register]
  /\ counts \in [Nodes -> [Nodes -> Nat]]
  /\ clock \in [Nodes -> Stamp]
  /\ updates \in 0..MaxUpdates
  /\ removed \subseteq Tag

\* "A unique tag for each add operation" (orset.rs:6): whatever was removed and
\* merged in between, no dot tags two reactions, in replicas, copies or removals.
DotsUnique ==
  \A t, u \in removed \cup UNION {s.tags : s \in AllStates} :
    t.dot = u.dot => t = u

\* "Add wins over concurrent remove" (orset.rs:14): of the adds a replica has
\* heard of, by the numbers in next_seq, it holds each one that nobody removed.
AddWins ==
  \A n, m \in Nodes : \A k \in 1..next_seq[n][m] :
    \E t \in tags[n] \cup removed : t.dot = [node |-> m, seq |-> k]

\* A user's own write takes effect on the replica it is made on: the clock has
\* passed every timestamp that the register can hold by then.
ReadYourWrites ==
  [][\A n \in Nodes, v \in Names : SetName(n, v) => name'[n].value = v]_vars

\* A replica counts no increment that its node did not make, makes none twice
\* and loses none, with late and repeated states: the counter implements
\* GrowOnly with the k-th increment of m as an item.
SlotOwner(item) == item[1]
Counted(c) == {item \in Nodes \X (1..MaxUpdates) : item[2] <= c[item[1]]}
Counter == INSTANCE GrowOnly WITH
  Owner <- SlotOwner,
  known <- [n \in Nodes |-> Counted(counts[n])]
CounterSpec == Counter!Spec

\* What a client is shown of replica n.
Shown(n) ==
  [emojis |-> [e \in Emojis |-> EmojiCount(tags[n], e)],
   users  |-> [u \in Users |-> UserReactions(tags[n], u)],
   name   |-> name[n].value]

\* Replicas that keep exchanging their states end up showing the same reactions
\* and the same name, and a total that counts every increment.
Converges ==
  <>[](/\ \A n, m \in Nodes : Shown(n) = Shown(m)
       /\ \A n \in Nodes : Value(counts[n]) = Value([m \in Nodes |-> counts[m][m]]))

=============================================================================
