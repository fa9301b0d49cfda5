--------------------------- MODULE MCOfflineQueue ---------------------------
(***************************************************************************)
(* Instances of OfflineQueue for TLC, and mutants of its definitions.      *)
(***************************************************************************)
EXTENDS OfflineQueue, TLC

\* Bound: time passes once every message is composed, for the properties of this
\* instance tell no times of messages apart (those of MCDeltaSync do).
Composed == now = 0 \/ Cardinality(added) = Cardinality(Msgs)

Symmetry == Permutations(Channels) \cup Permutations(Msgs) \cup Permutations(Slots)

=============================================================================
