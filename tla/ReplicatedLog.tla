--------------------------- MODULE ReplicatedLog ----------------------------
(***************************************************************************)
(* Replicas that each hold a MessageLog and an Hlc, used the way the crate *)
(* documents them: tick the clock and append under its stamp for a local   *)
(* message; merge log and clock on receiving another replica's state.      *)
(* Every call reads the system time of its machine anew: these times may   *)
(* be apart by any amount and step back.                                   *)
(***************************************************************************)
EXTENDS Hlc, FiniteSets

CONSTANTS
  MaxLog,       \* MAX_LOG_ENTRIES
  MaxAppends,   \* bound: local messages over all replicas
  MaxTime       \* bound on the system time

ASSUME LogAssumption ==
  MaxLog \in Nat \ {0} /\ MaxAppends \in Nat /\ MaxTime \in Nat

VARIABLES
  clock,   \* clock[n]: the Hlc of n
  log,     \* log[n]: the entries of n's MessageLog
  issued,  \* history: every entry appended anywhere
  wrapped  \* history: the nodes whose counter wrapped to 0 in a merge

vars == <<clock, log, issued, wrapped>>

Times == 0..MaxTime   \* what system_time_ms may return

\* Payloads are all different: the number of the message stands for its bytes.
Entry == [hlc : Stamp, data : Nat]

-----------------------------------------------------------------------------
\* BTreeMap::insert: one entry per key, the new value wins.
Insert(entries, e) == {f \in entries : f.hlc # e.hlc} \cup {e}

\* MessageLog::append, when the log is not full.
CanAppend(entries) == Cardinality(entries) < MaxLog

\* The keys of other that entries lacks, in HLC order, as far as there is room.
Missing(entries, other) ==
  {e \in other : \A f \in entries : f.hlc # e.hlc}
Fitting(new, room) ==
  {e \in new : Cardinality({f \in new : Less(f.hlc, e.hlc)}) < room}

\* Mutants of merge: only entries after the latest own one are taken over; the
\* loop breaks at the first key it already has; a full log drops its oldest
\* entries to take newer ones.
MergeTail(entries, other) ==
  entries \cup {e \in other : \A f \in entries : Less(f.hlc, e.hlc)}
MergeStopsAtKnown(entries, other) ==
  LET new == Missing(entries, other)
  IN  entries \cup {e \in new : \A f \in other \ new : Less(e.hlc, f.hlc)}
MergeNewest(entries, other) ==
  LET all == entries \cup Missing(entries, other)
  IN  {e \in all : Cardinality({f \in all : Less(e.hlc, f.hlc)}) < MaxLog}

\* MessageLog::merge: keeps its own value under a key both have and breaks off
\* when it is full.
MergeLogs(entries, other) ==
  entries \cup Fitting(Missing(entries, other), MaxLog - Cardinality(entries))

\* MessageLog::latest_hlc of a log with entries.
IsLatest(e, entries) == \A f \in entries : ~Less(e.hlc, f.hlc)

\* MessageLog::entries_after, asked with the latest_hlc of the own entries.
EntriesAfter(entries, own) ==
  {e \in entries : \A f \in own : Less(f.hlc, e.hlc)}

-----------------------------------------------------------------------------
\* Hlc::now and MessageLog::new.
Init ==
  /\ clock \in [Nodes -> [wall : Times, counter : {0}, node : Nodes]]
  /\ \A n \in Nodes : clock[n].node = n
  /\ log = [n \in Nodes |-> {}]
  /\ issued = {} /\ wrapped = {}

\* A local message: the clock ticks, whether or not the log takes the entry.
Append(n, now) ==
  /\ Cardinality(issued) < MaxAppends
  /\ ~TickPanics(clock[n], now)
  /\ clock' = [clock EXCEPT ![n] = Tick(@, now)]
  /\ LET e == [hlc |-> clock'[n], data |-> Cardinality(issued) + 1]
     IN  \/ /\ CanAppend(log[n])
            /\ log' = [log EXCEPT ![n] = Insert(@, e)]
            /\ issued' = issued \cup {e}
         \/ /\ ~CanAppend(log[n])
            /\ UNCHANGED <<log, issued>>
  /\ UNCHANGED wrapped

\* n merges entries into its log, and their latest stamp into its clock.
Take(n, entries, now) ==
  /\ \E e \in entries :
       /\ IsLatest(e, entries)
       /\ ~MergePanics(clock[n], e.hlc, now)
       /\ clock' = [clock EXCEPT ![n] = Merge(@, e.hlc, now)]
       /\ wrapped' = IF MergeWraps(clock[n], e.hlc, now) THEN wrapped \cup {n}
                     ELSE wrapped
  /\ log' = [log EXCEPT ![n] = MergeLogs(@, entries)]
  /\ UNCHANGED issued

\* n receives the whole log of m, or what entries_after gives of it: these are
\* appended one by one, which comes to the same as a merge.
Receive(n, m, now) == Take(n, log[m], now)
ReceiveDelta(n, m, now) == Take(n, EntriesAfter(log[m], log[n]), now)

Next ==
  \E n \in Nodes, now \in Times :
    \/ Append(n, now)
    \/ \E m \in Nodes \ {n} : Receive(n, m, now)
    \/ \E m \in Nodes \ {n} : ReceiveDelta(n, m, now)

Spec == Init /\ [][Next]_vars

\* A delivery that brings n something new.
ReceiveNew(n, m) ==
  /\ MergeLogs(log[n], log[m]) # log[n]
  /\ \E now \in Times : Receive(n, m, now)

\* Every replica keeps exchanging state with every other one.
FairSpec == Spec /\ \A n \in Nodes : \A m \in Nodes \ {n} : WF_vars(ReceiveNew(n, m))

-----------------------------------------------------------------------------
\* Type correctness of clocks and logs.
TypeOK ==
  /\ clock \in [Nodes -> Stamp]
  /\ log \in [Nodes -> SUBSET Entry]
  /\ issued \subseteq Entry
  /\ wrapped \subseteq Nodes

\* "Messages keyed by HLC - total order guaranteed": no two messages get one
\* stamp, so any two replicas agree on what is stored under a key, whatever
\* their system times do.  A counter that wraps (hlc.rs:44) costs this only the
\* stamps of the node it happened on.
StampsUnique ==
  /\ \A e, f \in issued :
       e.hlc = f.hlc /\ e.hlc.node \notin wrapped => e = f
  /\ \A n \in Nodes : log[n] \subseteq issued

\* Causality: a replica's clock is not before any entry it holds, so that its
\* next message is ordered after everything it had seen, unless its own counter
\* has wrapped; the wrapped clocks of others do it no harm.
ClockDominates ==
  \A n \in Nodes \ wrapped : \A e \in log[n] : ~Before(clock[n], e.hlc)

Fits(entries) == Cardinality(entries) <= MaxLog
Reliable(entries) == \A e \in entries : e.hlc.node \notin wrapped

\* The laws of Mergeable (traits.rs), commutative, associative and idempotent,
\* over the logs the replicas really hold, as long as these fit into one log and
\* hold no stamp of a node whose counter has wrapped.
MergeLaws ==
  \A a, b, c \in Nodes :
    LET all == log[a] \cup log[b] \cup log[c]
    IN  Fits(all) /\ Reliable(all) =>
          /\ MergeLogs(log[a], log[b]) = MergeLogs(log[b], log[a])
          /\ MergeLogs(MergeLogs(log[a], log[b]), log[c])
               = MergeLogs(log[a], MergeLogs(log[b], log[c]))
          /\ MergeLogs(log[a], log[a]) = log[a]

\* Replicas that keep exchanging their logs end up with the same keys, and with
\* the same entries but for those of nodes whose counter has wrapped, unless one
\* is full or the counter of its clock has run out.
Converges ==
  <>[](\A n, m \in Nodes :
         \/ /\ Missing(log[n], log[m]) = {}
            /\ \A e \in log[m] : e \in log[n] \/ e.hlc.node \in wrapped
         \/ ~CanAppend(log[n])
         \/ \E e \in log[m] : \A now \in Times : MergePanics(clock[n], e.hlc, now))

\* "Append-only CRDT" (message_log.rs:11): the keys of the logs implement
\* GrowOnly.  Every key is created on the replica whose node it names, replicas
\* take over only such keys, and none is dropped, not by a merge into a full log
\* and not by a wrapped counter either.
Keys(entries) == {e.hlc : e \in entries}
StampOwner(stamp) == stamp.node
Abstract == INSTANCE GrowOnly WITH
  Owner <- StampOwner,
  known <- [n \in Nodes |-> Keys(log[n])]
AppendOnly == Abstract!Spec

=============================================================================
