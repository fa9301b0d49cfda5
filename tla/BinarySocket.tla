---------------------------- MODULE BinarySocket ----------------------------
(***************************************************************************)
(* Topics, subscriptions and broadcasts of the gateway's socket processes. *)
(*                                                                         *)
(* Every process keeps three maps between topic names, the 16-bit ids the  *)
(* client uses for them and PubSub topics, and handles one frame or one    *)
(* message at a time.  A broadcast is a message to every process that is   *)
(* subscribed at that moment; it is handled later, when that process may   *)
(* have left the topic or joined it again.                                 *)
(***************************************************************************)
EXTENDS Integers, FiniteSets

CONSTANTS
  Conns,       \* the open socket processes
  Users,
  UserOf,      \* the user a process serves
  Channels,    \* topics "channel:...": joined by members only
  Presences,   \* topics "presence:...": joined by anybody
  Lobbies,     \* topics "lobby:...": no PubSub topic, no channel
  ChannelOf,   \* the channel a topic with a PubSub topic is about
  Members,     \* the pairs <<user, channel>> of channel_members at the start
  Admins,      \* those of them with a role of at least 1
  MaxId,       \* 0xFFFF
  MaxSent,     \* bound: broadcasts
  DbFaults     \* whether the membership check may fail

Topics == Channels \cup Presences \cup Lobbies
Routed == Channels \cup Presences

ASSUME SocketAssumption ==
  /\ UserOf \in [Conns -> Users]
  /\ Channels \cap (Presences \cup Lobbies) = {} /\ Presences \cap Lobbies = {}
  /\ ChannelOf \in [Channels \cup Presences -> Channels]
  /\ \A t \in Channels : ChannelOf[t] = t
  /\ Members \subseteq Users \X Channels /\ Admins \subseteq Members
  /\ MaxId \in Nat \ {0} /\ MaxSent \in Nat /\ DbFaults \in BOOLEAN

VARIABLES
  topics,     \* topics[c]: topic -> id, 0 when absent
  topicIds,   \* topicIds[c]: set of <<id, topic>>
  pubsub,     \* pubsub[c]: pubsub_topics, topic -> id, 0 when absent
  nextId,     \* nextId[c]: next_topic_id
  subs,       \* subs[c]: topic -> how often c is subscribed to it
  inbox,      \* inbox[c]: broadcasts waiting in c's mailbox
  members,    \* the rows of channel_members, with Admins as the roles
  sent,       \* how many broadcasts there were
  granted,    \* history: granted[c]: the <<id, topic>> of join replies
  got         \* history: got[c]: the frames c's client was sent

maps == <<topics, topicIds, pubsub, nextId>>
vars == <<maps, subs, inbox, members, sent, granted, got>>

\* Messages: the broadcast's number, topic and copy (a process subscribed twice
\* gets two copies); frames: what the client sees of it.
Message == [n : 1..MaxSent, topic : Routed, copy : Nat \ {0}]
Frame == [n : 1..MaxSent, topic : Routed, copy : Nat \ {0}, id : 1..MaxId]

-----------------------------------------------------------------------------
Init ==
  /\ topics = [c \in Conns |-> [t \in Topics |-> 0]]
  /\ topicIds = [c \in Conns |-> {}]
  /\ pubsub = [c \in Conns |-> [t \in Routed |-> 0]]
  /\ nextId = [c \in Conns |-> 1]
  /\ subs = [c \in Conns |-> [t \in Routed |-> 0]]
  /\ inbox = [c \in Conns |-> {}]
  /\ members = Members
  /\ sent = 0
  /\ granted = [c \in Conns |-> {}]
  /\ got = [c \in Conns |-> {}]

\* Mutant: the smallest id that is free now.
SmallestFreeId(c) ==
  CHOOSE i \in 1..(MaxId + 1) :
    /\ \A p \in topicIds[c] : p[1] # i
    /\ \A j \in 1..(i - 1) : \E p \in topicIds[c] : p[1] = j

\* allocate_topic_id: ids are handed out once.
AllocateTopicId(c) == nextId[c]

\* PubSub.broadcast to the processes in to: one copy per subscription.
Broadcast(t, to) ==
  /\ sent < MaxSent
  /\ sent' = sent + 1
  /\ inbox' = [c \in Conns |->
       IF c \in to
       THEN inbox[c] \cup {[n |-> sent', topic |-> t, copy |-> k] :
                             k \in 1..subs'[c][t]}
       ELSE inbox[c]]

\* The membership check of do_join for a channel; other topics have none.
MayJoin(c, t) == t \in Channels => <<UserOf[c], t>> \in members

\* do_join and handle_join: bookkeeping, subscription, and for a channel the
\* news to the others.  A refused join changes nothing, not even next_topic_id.
HandleJoin(c, t) ==
  LET id == AllocateTopicId(c)
  IN  /\ id <= MaxId
      /\ MayJoin(c, t)
      /\ nextId' = [nextId EXCEPT ![c] = id + 1]
      /\ topics' = [topics EXCEPT ![c][t] = id]
      /\ topicIds' = [topicIds EXCEPT ![c] = @ \cup {<<id, t>>}]
      /\ granted' = [granted EXCEPT ![c] = @ \cup {<<id, t>>}]
      /\ IF t \in Routed
         THEN /\ pubsub' = [pubsub EXCEPT ![c][t] = id]
              /\ subs' = [subs EXCEPT ![c][t] = @ + 1]
         ELSE UNCHANGED <<pubsub, subs>>
      /\ IF t \in Channels THEN Broadcast(t, Conns \ {c})
         ELSE UNCHANGED <<sent, inbox>>
      /\ UNCHANGED <<members, got>>

\* Mutants of leave: the subscription is kept; the route is kept.
HandleLeaveSubscribed(c, id, t) ==
  /\ topics' = [topics EXCEPT ![c][t] = 0]
  /\ topicIds' = [topicIds EXCEPT ![c] = @ \ {<<id, t>>}]
  /\ pubsub' = IF t \in Routed THEN [pubsub EXCEPT ![c][t] = 0] ELSE pubsub
  /\ UNCHANGED <<nextId, subs, inbox, members, sent, granted, got>>
HandleLeaveRouted(c, id, t) ==
  /\ topics' = [topics EXCEPT ![c][t] = 0]
  /\ topicIds' = [topicIds EXCEPT ![c] = @ \ {<<id, t>>}]
  /\ subs' = IF t \in Routed THEN [subs EXCEPT ![c][t] = 0] ELSE subs
  /\ UNCHANGED <<nextId, pubsub, inbox, members, sent, granted, got>>

\* handle_leave: unsubscribe drops every subscription of the process to the
\* topic; the maps lose the name and the route whatever id they point to.
HandleLeave(c, id, t) ==
  /\ topics' = [topics EXCEPT ![c][t] = 0]
  /\ topicIds' = [topicIds EXCEPT ![c] = @ \ {<<id, t>>}]
  /\ IF t \in Routed
     THEN /\ subs' = [subs EXCEPT ![c][t] = 0]
          /\ pubsub' = [pubsub EXCEPT ![c][t] = 0]
     ELSE UNCHANGED <<subs, pubsub>>
  /\ UNCHANGED <<nextId, inbox, members, sent, granted, got>>

-----------------------------------------------------------------------------
\* The events on a topic with a channel id that are sent on to everybody
\* subscribed, the sender included (msg:send, mls:key_package, mls:welcome,
\* mls:cek), and to everybody else (msg:typing, msg:read, mls:commit).
DispatchToAll(c, t) ==
  /\ t \in Routed
  /\ UNCHANGED subs
  /\ Broadcast(t, Conns)
  /\ UNCHANGED <<maps, members, granted, got>>

DispatchToOthers(c, t) ==
  /\ t \in Routed
  /\ UNCHANGED subs
  /\ Broadcast(t, Conns \ {c})
  /\ UNCHANGED <<maps, members, granted, got>>

\* mls:remove_member by an admin: the row goes, if there is one and the
\* database agrees, and the commit is sent on in any case.  The processes of
\* the removed user keep their topic.
MlsRemove(c, t, u) ==
  /\ t \in Routed /\ <<UserOf[c], ChannelOf[t]>> \in Admins \cap members
  /\ \/ members' = members \ {<<u, ChannelOf[t]>>}
     \/ DbFaults /\ UNCHANGED members
  /\ UNCHANGED subs
  /\ Broadcast(t, Conns \ {c})
  /\ UNCHANGED <<maps, granted, got>>

\* ch:create: a channel nobody is a member of gets its first one; the reply is
\* positive even when the insert fails.
ChCreate(c, t) ==
  /\ t \in Channels /\ \A u \in Users : <<u, t>> \notin members \cup Members
  /\ members' = members \cup {<<UserOf[c], t>>}
  /\ UNCHANGED <<maps, subs, inbox, sent, granted, got>>

\* handle_info({:binary_broadcast, ...}): dropped when the route is gone.
HandleBroadcast(c, m) ==
  /\ inbox' = [inbox EXCEPT ![c] = @ \ {m}]
  /\ got' = IF pubsub[c][m.topic] = 0 THEN got
            ELSE [got EXCEPT ![c] = @ \cup
                   {[n |-> m.n, topic |-> m.topic, copy |-> m.copy,
                     id |-> pubsub[c][m.topic]]}]
  /\ UNCHANGED <<maps, subs, members, sent, granted>>

\* A push names an id of topic_ids; on a lobby it only reaches ch:create.
Next ==
  \E c \in Conns :
    \/ \E t \in Topics : HandleJoin(c, t)
    \/ \E p \in topicIds[c] :
         \/ HandleLeave(c, p[1], p[2])
         \/ DispatchToAll(c, p[2])
         \/ DispatchToOthers(c, p[2])
         \/ \E u \in Users : MlsRemove(c, p[2], u)
         \/ \E t \in Channels : ChCreate(c, t)
    \/ \E m \in inbox[c] : HandleBroadcast(c, m)

Spec == Init /\ [][Next]_vars

-----------------------------------------------------------------------------
\* Type correctness.
TypeOK ==
  /\ topics \in [Conns -> [Topics -> 0..MaxId]]
  /\ topicIds \in [Conns -> SUBSET ((1..MaxId) \X Topics)]
  /\ pubsub \in [Conns -> [Routed -> 0..MaxId]]
  /\ nextId \in [Conns -> 1..(MaxId + 1)]
  /\ subs \in [Conns -> [Routed -> 0..MaxId]]
  /\ inbox \in [Conns -> SUBSET Message] /\ got \in [Conns -> SUBSET Frame]
  /\ members \subseteq Users \X Channels
  /\ sent \in 0..MaxSent
  /\ granted \in [Conns -> SUBSET ((1..MaxId) \X Topics)]

\* The ids under which c holds t.
Held(c, t) == {p \in topicIds[c] : p[2] = t}

\* The maps, which leave and join update each in its own way, and PubSub agree:
\* a process is subscribed exactly to the topics it has a route for, never more
\* often than it holds ids for them (or the client would get duplicates), and
\* names and routes lead to ids under which the topic is really held.
RoutesAgree ==
  \A c \in Conns :
    /\ \A t \in Routed :
         /\ subs[c][t] > 0 <=> pubsub[c][t] # 0
         /\ pubsub[c][t] # 0 => <<pubsub[c][t], t>> \in topicIds[c]
         /\ subs[c][t] <= Cardinality(Held(c, t))
    /\ \A t \in Topics : topics[c][t] # 0 => <<topics[c][t], t>> \in topicIds[c]

\* A client can tell from the id alone which topic a frame belongs to, over any
\* number of joins and leaves: an id was granted for one topic only, and every
\* frame carries an id granted for its topic.
FramesLabelled ==
  \A c \in Conns :
    /\ \A p, q \in granted[c] : p[1] = q[1] => p = q
    /\ \A f \in got[c] : <<f.id, f.topic>> \in granted[c]

\* A broadcast that was in the mailbox when the client left the topic is not
\* delivered under an id the client has given up.
NothingAfterLeave ==
  [][\A c \in Conns : \A f \in got'[c] \ got[c] :
        <<f.id, f.topic>> \in topicIds[c]]_vars

=============================================================================
