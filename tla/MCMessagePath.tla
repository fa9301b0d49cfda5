--------------------------- MODULE MCMessagePath ----------------------------
(***************************************************************************)
(* An instance of MessagePath for TLC, in three parts.  Either the two     *)
(* connections of one user send one message after the other while the      *)
(* clock ticks; or a connection of each of two users sends messages at     *)
(* every limit; or these send ordinary messages and all other events.      *)
(***************************************************************************)
EXTENDS MessagePath

CONSTANTS a1, a2, b1, ann, bob

VARIABLE part
MCvars == <<vars, part>>

MCUserOf == [c \in Conns |-> IF c = b1 THEN bob ELSE ann]

\* An ordinary message, an empty one, one whose bucket is no int and one whose
\* bucket is no u32, one that is small enough for the validators but not for a
\* frame, and one that is too large for both.
Ordinary == <<2, 1>>
MCDrafts == {Ordinary, <<0, 1>>, <<2, 2>>, <<2, 4>>, <<3, 1>>, <<5, 1>>}

MCInit ==
  /\ Init
  /\ \/ part = "rate" /\ open = {a1, a2}
     \/ part \in {"limits", "events"} /\ open = {a1, b1}

RateNext ==
  \/ \E c \in Conns : Send(c, Ordinary[1], Ordinary[2]) \/ Receive(c)
  \/ Tick

Write == \E r \in tasks : WriteMessage(r) \/ WriteFails(r)

LimitsNext ==
  \/ /\ sends < 2
     /\ \E c \in Conns, d \in Drafts : Send(c, d[1], d[2])
  \/ \E c \in Conns : History(c) \/ Receive(c)
  \/ Write

EventsNext ==
  \/ /\ sends < 2
     /\ \E c \in Conns : Send(c, Ordinary[1], Ordinary[2])
  \/ \E c \in Conns :
       \/ \E data \in {Garbage, TypingEncode(Mine(c))} : SendOther(c, data)
       \/ \E f \in shown[c] : f.ev = "msg:new" /\ MarkRead(c, f.message)
       \/ SendTyping(c) \/ SendCommit(c) \/ UploadKeyPackage(c)
       \/ \E u \in Users \ {UserOf[c]} : SendWelcome(c, u) \/ FetchKeyPackages(c, u)
       \/ History(c) \/ Receive(c)
  \/ Write

MCNext == /\ \/ part = "rate" /\ RateNext
             \/ part = "limits" /\ LimitsNext
             \/ part = "events" /\ EventsNext
          /\ UNCHANGED part

MCSpec ==
  MCInit /\ [][MCNext]_MCvars /\ \A c \in Conns : WF_vars(Receive(c))

=============================================================================
