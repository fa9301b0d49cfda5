-------------------------- MODULE MCReplicatedLog ---------------------------
(***************************************************************************)
(* Instances of ReplicatedLog for TLC, and mutants of its definitions.     *)
(***************************************************************************)
EXTENDS ReplicatedLog, TLC

=============================================================================
