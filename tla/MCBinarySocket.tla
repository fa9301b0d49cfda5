--------------------------- MODULE MCBinarySocket ---------------------------
(***************************************************************************)
(* An instance of BinarySocket for TLC: an admin and a member, each with a *)
(* process, a channel, its presence topic or a lobby, and a channel that   *)
(* is created on the way.                                                  *)
(***************************************************************************)
EXTENDS BinarySocket, TLC

CONSTANTS adm, mem, a1, m1, general, fresh

MCUserOf == [c \in Conns |-> IF c = a1 THEN adm ELSE mem]
MCChannelOf == [t \in Channels \cup Presences |-> IF t = fresh THEN fresh ELSE general]
MCMembers == {<<adm, general>>, <<mem, general>>}
MCAdmins == {<<adm, general>>}

=============================================================================
