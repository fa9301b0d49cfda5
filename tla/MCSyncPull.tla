----------------------------- MODULE MCSyncPull -----------------------------
(***************************************************************************)
(* Instances of SyncPull for TLC, and mutants of its definitions.          *)
(***************************************************************************)
EXTENDS SyncPull, TLC

\* Only the slots: message ids are ordered.
Symmetry == Permutations(Slots)

=============================================================================
