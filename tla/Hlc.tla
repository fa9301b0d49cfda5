-------------------------------- MODULE Hlc ---------------------------------
(***************************************************************************)
(* The hybrid logical clock of mercury-crdt.  A stamp is a record of the   *)
(* wall clock in milliseconds, a u32 counter and the node; node ids are    *)
(* byte strings compared as such, here numbers.                            *)
(***************************************************************************)
EXTENDS Integers

CONSTANTS
  Nodes,           \* node ids
  CounterMax,      \* u32::MAX
  OverflowChecks   \* whether the build traps integer overflow (debug) or wraps

ASSUME HlcAssumption ==
  /\ Nodes \subseteq Nat
  /\ CounterMax \in Nat \ {0}
  /\ OverflowChecks \in BOOLEAN

Stamp == [wall : Nat, counter : 0..CounterMax, node : Nodes]

\* Ord for Hlc, without and with the node as the last key.
Before(a, b) == a.wall < b.wall \/ (a.wall = b.wall /\ a.counter < b.counter)
Less(a, b) ==
  Before(a, b) \/ (a.wall = b.wall /\ a.counter = b.counter /\ a.node < b.node)

Largest(a, b) == IF a > b THEN a ELSE b

\* Mutants of tick: without the overflow check; and a counter that stays put
\* when the wall clock has not moved.
TickNeverPanics(h, now) == FALSE
TickStalled(h, now) ==
  [wall |-> Largest(now, h.wall), counter |-> h.counter, node |-> h.node]

\* tick: advance for a local event at the time now; checked_add panics.
TickPanics(h, now) == now <= h.wall /\ h.counter = CounterMax
Tick(h, now) ==
  IF now > h.wall THEN [wall |-> now, counter |-> 0, node |-> h.node]
  ELSE [wall |-> h.wall, counter |-> h.counter + 1, node |-> h.node]

\* merge: the counter that the new one is computed from by a plain "+ 1",
\* or -1 when the wall clock is ahead of both and the counter restarts at 0.
MergeBase(h, remote, now) ==
  LET wall == Largest(now, Largest(h.wall, remote.wall))
  IN  CASE wall = h.wall /\ wall = remote.wall ->
             Largest(h.counter, remote.counter)
        [] wall = h.wall /\ wall # remote.wall -> h.counter
        [] wall # h.wall /\ wall = remote.wall -> remote.counter
        [] OTHER -> -1

\* A plain "+ 1" on a u32 at its maximum: a panic or a wrap to 0.
MergePanics(h, remote, now) ==
  OverflowChecks /\ MergeBase(h, remote, now) = CounterMax
MergeWraps(h, remote, now) ==
  ~OverflowChecks /\ MergeBase(h, remote, now) = CounterMax

\* Mutant: a merge only ticks the local clock.
MergeLocal(h, remote, now) ==
  [wall |-> Largest(now, h.wall),
   counter |-> IF now > h.wall \/ h.counter = CounterMax THEN 0 ELSE h.counter + 1,
   node |-> h.node]

Merge(h, remote, now) ==
  LET base == MergeBase(h, remote, now)
  IN  [wall |-> Largest(now, Largest(h.wall, remote.wall)),
       counter |-> IF base = CounterMax THEN 0 ELSE base + 1,
       node |-> h.node]

=============================================================================
