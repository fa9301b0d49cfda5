------------------------------ MODULE MCStores ------------------------------
(***************************************************************************)
(* An instance of Stores for TLC: an admin and a member, each with a       *)
(* socket process, on a channel that exists or is created on the way.      *)
(***************************************************************************)
EXTENDS Stores

CONSTANTS a1, m1, adm, mem

MCUserOf == [p \in Procs |-> IF p = a1 THEN adm ELSE mem]
MCName == Bytes("general", 2)

=============================================================================
