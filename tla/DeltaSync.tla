----------------------------- MODULE DeltaSync ------------------------------
(***************************************************************************)
(* What the two halves of SyncEngine.syncChannel share: the outbound one   *)
(* (OfflineQueue) and the inbound one (SyncPull) are calls of the same     *)
(* browser tab under one clock, against the same table on the server.      *)
(***************************************************************************)
EXTENDS MessageStore

CONSTANTS
  Msgs,      \* message ids (random 16 bytes: unique)
  Slots,     \* bound: syncs of a channel that may overlap
  MaxTime    \* bound on the clock

ASSUME DeltaSyncAssumption == MaxTime \in Nat

VARIABLES
  now,       \* the wall clock
  rows       \* the server's mercury.messages

Times == 0..MaxTime

\* A call of a set of calls goes on.
Replace(set, old, new) == (set \ {old}) \cup {new}

=============================================================================
