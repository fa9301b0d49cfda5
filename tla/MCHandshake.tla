---------------------------- MODULE MCHandshake -----------------------------
(***************************************************************************)
(* An instance of Handshake for TLC.                                       *)
(***************************************************************************)
EXTENDS Handshake

=============================================================================
