------------------------------ MODULE MCCrdts -------------------------------
(***************************************************************************)
(* An instance of Crdts for TLC.                                           *)
(***************************************************************************)
EXTENDS Crdts

=============================================================================
