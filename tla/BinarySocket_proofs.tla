------------------------ MODULE BinarySocket_proofs -------------------------
(***************************************************************************)
(* Proofs about the topic maps of the socket processes, for any number of  *)
(* processes, topics, ids and broadcasts.                                  *)
(***************************************************************************)
EXTENDS BinarySocket, FiniteSetTheorems, TLAPS

\* What RoutesAgree and FramesLabelled rest on: an id a process holds was
\* granted to it, every id granted is smaller than the next one, and a process
\* has subscribed at most once per id.
IdsInv ==
  \A c \in Conns :
    /\ topicIds[c] \subseteq granted[c] /\ IsFiniteSet(topicIds[c])
    /\ \A p \in granted[c] : p[1] < nextId[c]
    /\ \A t \in Routed : subs[c][t] < nextId[c]

SocketInv == TypeOK /\ IdsInv /\ RoutesAgree /\ FramesLabelled

-----------------------------------------------------------------------------
LEMMA SocketConstants ==
  /\ UserOf \in [Conns -> Users] /\ MaxId \in Nat \ {0} /\ MaxSent \in Nat
  /\ Channels \subseteq Routed /\ Routed \subseteq Topics
  BY SocketAssumption DEF Routed, Topics

LEMMA HeldFinite ==
  ASSUME NEW S, IsFiniteSet(S), NEW t
  PROVE  /\ IsFiniteSet({p \in S : p[2] = t})
         /\ Cardinality({p \in S : p[2] = t}) \in Nat
<1>1. {p \in S : p[2] = t} \in SUBSET S
  OBVIOUS
<1> QED
  BY <1>1, FS_Subset, FS_CardinalityType

\* A new id for a topic is one id more.
LEMMA HeldGrows ==
  ASSUME NEW S, IsFiniteSet(S), NEW id, NEW t, <<id, t>> \notin S
  PROVE  Cardinality({p \in S \cup {<<id, t>>} : p[2] = t})
           = Cardinality({p \in S : p[2] = t}) + 1
<1> DEFINE H == {p \in S : p[2] = t}
<1>1. {p \in S \cup {<<id, t>>} : p[2] = t} = H \cup {<<id, t>>}
  OBVIOUS
<1>2. IsFiniteSet(H) /\ <<id, t>> \notin H
  BY HeldFinite
<1>3. Cardinality(H \cup {<<id, t>>}) = Cardinality(H) + 1
  <2> HIDE DEF H
  <2> QED BY <1>2, FS_AddElement
<1> QED
  BY <1>1, <1>3

\* An id for a topic that comes or goes is no id of another topic.
LEMMA HeldOther ==
  ASSUME NEW S, NEW id, NEW t, NEW u, u # t
  PROVE  /\ {p \in S \cup {<<id, t>>} : p[2] = u} = {p \in S : p[2] = u}
         /\ {p \in S \ {<<id, t>>} : p[2] = u} = {p \in S : p[2] = u}
  OBVIOUS

LEMMA EntryType ==
  ASSUME NEW S, NEW f \in [Conns -> [Routed -> S]],
         NEW c \in Conns, NEW t \in Routed, NEW v \in S
  PROVE  [f EXCEPT ![c][t] = v] \in [Conns -> [Routed -> S]]
  OBVIOUS

LEMMA BroadcastType ==
  ASSUME TypeOK, NEW t \in Routed, NEW to \in SUBSET Conns,
         subs' \in [Conns -> [Routed -> Nat]], Broadcast(t, to)
  PROVE  inbox' \in [Conns -> SUBSET Message] /\ sent' \in 0..MaxSent
<1>1. sent' \in 1..MaxSent
  BY SocketConstants DEF TypeOK, Broadcast
<1>2. \A c \in Conns : {[n |-> sent', topic |-> t, copy |-> k] :
                          k \in 1..subs'[c][t]} \subseteq Message
  BY <1>1 DEF Message
<1>3. \A c \in Conns : inbox[c] \subseteq Message
  BY DEF TypeOK
<1> QED
  BY <1>1, <1>2, <1>3 DEF Broadcast

-----------------------------------------------------------------------------
LEMMA SocketInit == Init => SocketInv
<1> SUFFICES ASSUME Init PROVE SocketInv
  OBVIOUS
<1>1. TypeOK
  BY SocketConstants, SocketAssumption DEF Init, TypeOK
<1>2. IdsInv
  BY FS_EmptySet DEF Init, IdsInv
<1>3. RoutesAgree
  <2>1. ASSUME NEW c \in Conns, NEW t \in Routed
        PROVE  subs[c][t] <= Cardinality(Held(c, t))
    <3>1. topicIds[c] = {} /\ subs[c][t] = 0
      BY DEF Init
    <3>2. Held(c, t) = {}
      BY <3>1 DEF Held
    <3> QED
      BY <3>1, <3>2, FS_EmptySet
  <2> QED
    BY <2>1 DEF Init, RoutesAgree
<1>4. FramesLabelled
  BY DEF Init, FramesLabelled
<1> QED
  BY <1>1, <1>2, <1>3, <1>4 DEF SocketInv

\* A step that leaves the maps, the subscriptions and the frames alone.
LEMMA MapsKept ==
  ASSUME SocketInv, TypeOK', UNCHANGED <<maps, subs, granted, got>>
  PROVE  SocketInv'
<1>1. IdsInv' /\ FramesLabelled'
  BY DEF SocketInv, IdsInv, FramesLabelled, maps
<1>2. \A c, t : Held(c, t)' = Held(c, t)
  BY DEF Held, maps
<1>3. RoutesAgree'
  BY <1>2 DEF SocketInv, RoutesAgree, maps
<1> QED
  BY <1>1, <1>3 DEF SocketInv

\* Join: the new id is larger than every id before it.
LEMMA JoinKeeps ==
  ASSUME SocketInv, NEW c \in Conns, NEW t \in Topics, HandleJoin(c, t)
  PROVE  SocketInv'
<1> DEFINE id == nextId[c]
<1>1. TypeOK /\ IdsInv /\ RoutesAgree /\ FramesLabelled
  BY DEF SocketInv
<1>2. /\ id \in 1..MaxId /\ MaxId \in Nat
      /\ nextId' = [nextId EXCEPT ![c] = id + 1]
      /\ topics' = [topics EXCEPT ![c][t] = id]
      /\ topicIds' = [topicIds EXCEPT ![c] = topicIds[c] \cup {<<id, t>>}]
      /\ granted' = [granted EXCEPT ![c] = granted[c] \cup {<<id, t>>}]
      /\ members' = members /\ got' = got
  BY <1>1, SocketConstants DEF HandleJoin, AllocateTopicId, TypeOK
<1>3. /\ nextId \in [Conns -> 1..(MaxId + 1)] /\ nextId' \in [Conns -> 1..(MaxId + 1)]
      /\ topicIds \in [Conns -> SUBSET ((1..MaxId) \X Topics)]
      /\ topicIds' \in [Conns -> SUBSET ((1..MaxId) \X Topics)]
      /\ granted \in [Conns -> SUBSET ((1..MaxId) \X Topics)]
      /\ granted' \in [Conns -> SUBSET ((1..MaxId) \X Topics)]
      /\ topics' \in [Conns -> [Topics -> 0..MaxId]]
  BY <1>1, <1>2 DEF TypeOK
<1>4. /\ \A d \in Conns \ {c} : /\ topicIds'[d] = topicIds[d] /\ granted'[d] = granted[d]
                                /\ nextId'[d] = nextId[d] /\ topics'[d] = topics[d]
      /\ topicIds'[c] = topicIds[c] \cup {<<id, t>>}
      /\ granted'[c] = granted[c] \cup {<<id, t>>}
      /\ nextId'[c] = id + 1
      /\ \A u \in Topics : topics'[c][u] = IF u = t THEN id ELSE topics[c][u]
  BY <1>1, <1>2, <1>3 DEF TypeOK
<1>5. /\ t \in Routed => /\ pubsub' = [pubsub EXCEPT ![c][t] = id]
                         /\ subs' = [subs EXCEPT ![c][t] = subs[c][t] + 1]
      /\ t \notin Routed => pubsub' = pubsub /\ subs' = subs
  BY <1>1 DEF HandleJoin, AllocateTopicId, TypeOK
<1>6. /\ \A d \in Conns \ {c} : pubsub'[d] = pubsub[d] /\ subs'[d] = subs[d]
      /\ \A u \in Routed :
           /\ u = t => pubsub'[c][u] = id /\ subs'[c][u] = subs[c][u] + 1
           /\ u # t => pubsub'[c][u] = pubsub[c][u] /\ subs'[c][u] = subs[c][u]
  BY <1>1, <1>5 DEF TypeOK
<1>7. \A u \in Routed : subs[c][u] \in Nat /\ subs[c][u] < id
  BY <1>1 DEF TypeOK, IdsInv
<1>8. /\ pubsub' \in [Conns -> [Routed -> 0..MaxId]]
      /\ subs' \in [Conns -> [Routed -> 0..MaxId]]
  <2>1. CASE t \in Routed
    <3>1. subs[c][t] + 1 \in 0..MaxId
      BY <1>2, <1>7, <2>1
    <3>2. id \in 0..MaxId
      BY <1>2
    <3>3. /\ pubsub \in [Conns -> [Routed -> 0..MaxId]]
          /\ subs \in [Conns -> [Routed -> 0..MaxId]]
      BY <1>1 DEF TypeOK
    <3>4. /\ [pubsub EXCEPT ![c][t] = id] \in [Conns -> [Routed -> 0..MaxId]]
          /\ [subs EXCEPT ![c][t] = subs[c][t] + 1] \in [Conns -> [Routed -> 0..MaxId]]
      BY <2>1, <3>1, <3>2, <3>3, EntryType
    <3> QED
      BY <1>5, <2>1, <3>4
  <2>2. CASE t \notin Routed
    BY <1>1, <1>5, <2>2 DEF TypeOK
  <2> QED
    BY <2>1, <2>2
<1>9. inbox' \in [Conns -> SUBSET Message] /\ sent' \in 0..MaxSent
  <2>1. CASE t \in Channels
    <3>1. Broadcast(t, Conns \ {c}) /\ t \in Routed
      BY <2>1, SocketConstants DEF HandleJoin
    <3>2. subs' \in [Conns -> [Routed -> Nat]]
      BY <1>2, <1>8
    <3> QED
      BY <1>1, <3>1, <3>2, BroadcastType
  <2>2. CASE t \notin Channels
    BY <1>1, <2>2 DEF HandleJoin, TypeOK
  <2> QED
    BY <2>1, <2>2
<1>10. TypeOK'
  BY <1>1, <1>2, <1>3, <1>8, <1>9 DEF TypeOK
<1>11. <<id, t>> \notin granted[c] /\ <<id, t>> \notin topicIds[c]
  BY <1>1, <1>2 DEF IdsInv
<1>12. IdsInv'
  <2>1. ASSUME NEW d \in Conns, d # c
        PROVE  /\ topicIds'[d] \subseteq granted'[d] /\ IsFiniteSet(topicIds'[d])
               /\ \A p \in granted'[d] : p[1] < nextId'[d]
               /\ \A u \in Routed : subs'[d][u] < nextId'[d]
    BY <1>1, <1>4, <1>6, <2>1 DEF IdsInv
  <2>2. topicIds'[c] \subseteq granted'[c] /\ IsFiniteSet(topicIds'[c])
    <3>1. topicIds[c] \subseteq granted[c] /\ IsFiniteSet(topicIds[c])
      BY <1>1 DEF IdsInv
    <3>2. IsFiniteSet(topicIds[c] \cup {<<id, t>>})
      BY <3>1, FS_AddElement
    <3> QED
      BY <1>4, <3>1, <3>2
  <2>3. ASSUME NEW p \in granted'[c]
        PROVE  p[1] < nextId'[c]
    <3>1. CASE p \in granted[c]
      <4>1. p[1] \in Nat /\ p[1] < id
        BY <1>1, <1>3, <3>1 DEF IdsInv
      <4> QED
        BY <1>2, <1>4, <4>1
    <3>2. CASE p = <<id, t>>
      BY <1>2, <1>4, <3>2
    <3> QED
      BY <1>4, <3>1, <3>2
  <2>4. ASSUME NEW u \in Routed
        PROVE  subs'[c][u] < nextId'[c]
    BY <1>2, <1>4, <1>6, <1>7
  <2> QED
    BY <2>1, <2>2, <2>3, <2>4 DEF IdsInv
<1>13. RoutesAgree'
  <2>1. ASSUME NEW d \in Conns, d # c
        PROVE  /\ \A u \in Routed :
                    /\ subs'[d][u] > 0 <=> pubsub'[d][u] # 0
                    /\ pubsub'[d][u] # 0 => <<pubsub'[d][u], u>> \in topicIds'[d]
                    /\ subs'[d][u] <= Cardinality(Held(d, u)')
               /\ \A u \in Topics : topics'[d][u] # 0 => <<topics'[d][u], u>> \in topicIds'[d]
    <3>1. \A u : Held(d, u)' = Held(d, u)
      BY <1>4, <2>1 DEF Held
    <3>2. /\ topicIds'[d] = topicIds[d] /\ topics'[d] = topics[d]
          /\ pubsub'[d] = pubsub[d] /\ subs'[d] = subs[d]
      BY <1>4, <1>6, <2>1
    <3> QED
      BY <1>1, <3>1, <3>2 DEF RoutesAgree
  <2>2. ASSUME NEW u \in Routed
        PROVE  /\ subs'[c][u] > 0 <=> pubsub'[c][u] # 0
               /\ pubsub'[c][u] # 0 => <<pubsub'[c][u], u>> \in topicIds'[c]
               /\ subs'[c][u] <= Cardinality(Held(c, u)')
    <3>1. CASE u = t
      <4>1. Cardinality(Held(c, t)')
              = Cardinality(Held(c, t)) + 1
        BY <1>1, <1>4, <1>11, HeldGrows DEF IdsInv, Held
      <4>2. Cardinality(Held(c, t)) \in Nat
        BY <1>1, HeldFinite DEF IdsInv, Held
      <4>3. subs[c][t] <= Cardinality(Held(c, t))
        BY <1>1, <3>1 DEF RoutesAgree
      <4>4. subs'[c][t] = subs[c][t] + 1 /\ pubsub'[c][t] = id
        BY <1>6, <3>1
      <4>5. subs[c][t] \in Nat
        BY <1>7, <3>1
      <4> QED
        BY <1>2, <1>4, <3>1, <4>1, <4>2, <4>3, <4>4, <4>5
    <3>2. CASE u # t
      <4>1. Held(c, u)' = Held(c, u)
        BY <1>4, <3>2, HeldOther DEF Held
      <4> QED
        BY <1>1, <1>4, <1>6, <3>2, <4>1 DEF RoutesAgree
    <3> QED
      BY <3>1, <3>2
  <2>3. ASSUME NEW u \in Topics, topics'[c][u] # 0
        PROVE  <<topics'[c][u], u>> \in topicIds'[c]
    BY <1>1, <1>4, <2>3 DEF RoutesAgree
  <2> QED
    BY <2>1, <2>2, <2>3 DEF RoutesAgree
<1>14. FramesLabelled'
  <2>1. ASSUME NEW d \in Conns, NEW p \in granted'[d], NEW q \in granted'[d], p[1] = q[1]
        PROVE  p = q
    <3>1. CASE p \in granted[d] /\ q \in granted[d]
      BY <1>1, <2>1, <3>1 DEF FramesLabelled
    <3>2. CASE d = c /\ (p = <<id, t>> \/ q = <<id, t>>)
      <4>1. \A r \in granted[c] : r[1] \in Nat /\ r[1] < id
        BY <1>1, <1>3 DEF IdsInv
      <4> QED
        BY <1>2, <1>4, <2>1, <3>2, <4>1
    <3> QED
      BY <1>4, <3>1, <3>2
  <2>2. ASSUME NEW d \in Conns, NEW f \in got'[d]
        PROVE  <<f.id, f.topic>> \in granted'[d]
    BY <1>1, <1>2, <1>4 DEF FramesLabelled
  <2> QED
    BY <2>1, <2>2 DEF FramesLabelled
<1> QED
  BY <1>10, <1>12, <1>13, <1>14 DEF SocketInv

\* Leave: the topic has no route, no name and no subscription any more.
LEMMA LeaveKeeps ==
  ASSUME SocketInv, NEW c \in Conns, NEW p \in topicIds[c],
         HandleLeave(c, p[1], p[2])
  PROVE  SocketInv'
<1> DEFINE t == p[2]
<1>1. TypeOK /\ IdsInv /\ RoutesAgree /\ FramesLabelled
  BY DEF SocketInv
<1>2. p = <<p[1], t>> /\ t \in Topics
  BY <1>1 DEF TypeOK
<1>3. /\ nextId' = nextId /\ inbox' = inbox /\ members' = members /\ sent' = sent
      /\ granted' = granted /\ got' = got
      /\ topics' = [topics EXCEPT ![c][t] = 0]
      /\ topicIds' = [topicIds EXCEPT ![c] = topicIds[c] \ {<<p[1], t>>}]
      /\ t \in Routed => /\ pubsub' = [pubsub EXCEPT ![c][t] = 0]
                         /\ subs' = [subs EXCEPT ![c][t] = 0]
      /\ t \notin Routed => pubsub' = pubsub /\ subs' = subs
  BY <1>1 DEF HandleLeave, TypeOK
<1>4. /\ \A d \in Conns \ {c} : /\ topicIds'[d] = topicIds[d] /\ topics'[d] = topics[d]
                                /\ pubsub'[d] = pubsub[d] /\ subs'[d] = subs[d]
      /\ topicIds'[c] = topicIds[c] \ {<<p[1], t>>}
      /\ \A u \in Topics : topics'[c][u] = IF u = t THEN 0 ELSE topics[c][u]
      /\ \A u \in Routed :
           /\ pubsub'[c][u] = IF u = t THEN 0 ELSE pubsub[c][u]
           /\ subs'[c][u] = IF u = t THEN 0 ELSE subs[c][u]
  BY <1>1, <1>2, <1>3 DEF TypeOK
<1>5. TypeOK'
  <2>1. /\ topics' \in [Conns -> [Topics -> 0..MaxId]]
        /\ topicIds' \in [Conns -> SUBSET ((1..MaxId) \X Topics)]
    BY <1>1, <1>2, <1>3, SocketConstants DEF TypeOK
  <2>2. /\ pubsub' \in [Conns -> [Routed -> 0..MaxId]]
        /\ subs' \in [Conns -> [Routed -> 0..MaxId]]
    <3>1. CASE t \in Routed
      <4>1. 0 \in 0..MaxId
        BY SocketConstants
      <4>2. /\ pubsub \in [Conns -> [Routed -> 0..MaxId]]
            /\ subs \in [Conns -> [Routed -> 0..MaxId]]
        BY <1>1 DEF TypeOK
      <4>3. /\ [pubsub EXCEPT ![c][t] = 0] \in [Conns -> [Routed -> 0..MaxId]]
            /\ [subs EXCEPT ![c][t] = 0] \in [Conns -> [Routed -> 0..MaxId]]
        BY <3>1, <4>1, <4>2, EntryType
      <4> QED
        BY <1>3, <3>1, <4>3
    <3>2. CASE t \notin Routed
      BY <1>1, <1>3, <3>2 DEF TypeOK
    <3> QED
      BY <3>1, <3>2
  <2> QED
    BY <1>1, <1>3, <2>1, <2>2 DEF TypeOK
<1>6. IdsInv'
  <2>1. \A d \in Conns : topicIds'[d] \subseteq topicIds[d]
    BY <1>4
  <2>2. \A d \in Conns : IsFiniteSet(topicIds'[d])
    BY <1>1, <2>1, FS_Subset DEF IdsInv
  <2>3. ASSUME NEW d \in Conns, NEW u \in Routed
        PROVE  subs'[d][u] < nextId'[d]
    <3>1. nextId[d] \in Nat \ {0} /\ subs[d][u] < nextId[d] /\ subs[d][u] \in Nat
      BY <1>1, SocketConstants DEF TypeOK, IdsInv
    <3>2. subs'[d][u] \in {0, subs[d][u]}
      BY <1>4
    <3> QED
      BY <1>3, <3>1, <3>2
  <2> QED
    BY <1>1, <1>3, <2>1, <2>2, <2>3 DEF IdsInv
<1>7. RoutesAgree'
  <2>1. ASSUME NEW d \in Conns, d # c
        PROVE  /\ \A u \in Routed :
                    /\ subs'[d][u] > 0 <=> pubsub'[d][u] # 0
                    /\ pubsub'[d][u] # 0 => <<pubsub'[d][u], u>> \in topicIds'[d]
                    /\ subs'[d][u] <= Cardinality(Held(d, u)')
               /\ \A u \in Topics : topics'[d][u] # 0 => <<topics'[d][u], u>> \in topicIds'[d]
    <3>1. \A u : Held(d, u)' = Held(d, u)
      BY <1>4, <2>1 DEF Held
    <3>2. /\ topicIds'[d] = topicIds[d] /\ topics'[d] = topics[d]
          /\ pubsub'[d] = pubsub[d] /\ subs'[d] = subs[d]
      BY <1>4, <2>1
    <3> QED
      BY <1>1, <3>1, <3>2 DEF RoutesAgree
  <2>2. ASSUME NEW u \in Routed
        PROVE  /\ subs'[c][u] > 0 <=> pubsub'[c][u] # 0
               /\ pubsub'[c][u] # 0 => <<pubsub'[c][u], u>> \in topicIds'[c]
               /\ subs'[c][u] <= Cardinality(Held(c, u)')
    <3>1. CASE u = t
      <4>1. IsFiniteSet(topicIds'[c])
        BY <1>6 DEF IdsInv
      <4>2. Cardinality(Held(c, u)') \in Nat
        BY <4>1, HeldFinite DEF Held
      <4> QED
        BY <1>4, <3>1, <4>2
    <3>2. CASE u # t
      <4>1. Held(c, u)' = Held(c, u)
        BY <1>4, <3>2, HeldOther DEF Held
      <4> QED
        BY <1>1, <1>4, <3>2, <4>1 DEF RoutesAgree
    <3> QED
      BY <3>1, <3>2
  <2>3. ASSUME NEW u \in Topics, topics'[c][u] # 0
        PROVE  <<topics'[c][u], u>> \in topicIds'[c]
    BY <1>1, <1>4, <2>3 DEF RoutesAgree
  <2> QED
    BY <2>1, <2>2, <2>3 DEF RoutesAgree
<1>8. FramesLabelled'
  BY <1>1, <1>3 DEF FramesLabelled
<1> QED
  BY <1>5, <1>6, <1>7, <1>8 DEF SocketInv

\* A frame carries the id of the route, which the client holds.
LEMMA BroadcastRouted ==
  ASSUME SocketInv, NEW c \in Conns, NEW m \in inbox[c], HandleBroadcast(c, m)
  PROVE  /\ m \in Message
         /\ \A d \in Conns : \A f \in got'[d] \ got[d] :
              <<f.id, f.topic>> \in topicIds[d] /\ f \in Frame
<1>1. TypeOK /\ RoutesAgree /\ m \in Message
  BY DEF SocketInv, TypeOK
<1>2. SUFFICES ASSUME NEW d \in Conns, NEW f \in got'[d] \ got[d]
               PROVE  <<f.id, f.topic>> \in topicIds[d] /\ f \in Frame
  BY <1>1
<1>3. /\ d = c /\ pubsub[c][m.topic] # 0
      /\ f = [n |-> m.n, topic |-> m.topic, copy |-> m.copy,
              id |-> pubsub[c][m.topic]]
  BY <1>1, <1>2 DEF HandleBroadcast, TypeOK
<1>4. m.topic \in Routed /\ m.n \in 1..MaxSent /\ m.copy \in Nat \ {0}
  BY <1>1 DEF Message
<1>5. pubsub[c][m.topic] \in 1..MaxId
  BY <1>1, <1>3, <1>4, SocketConstants DEF TypeOK
<1> QED
  BY <1>1, <1>3, <1>4, <1>5 DEF RoutesAgree, Frame

LEMMA HandleBroadcastKeeps ==
  ASSUME SocketInv, NEW c \in Conns, NEW m \in inbox[c], HandleBroadcast(c, m)
  PROVE  SocketInv'
<1>1. TypeOK /\ IdsInv /\ RoutesAgree /\ FramesLabelled
  BY DEF SocketInv
<1>2. /\ \A d \in Conns : \A f \in got'[d] \ got[d] :
              <<f.id, f.topic>> \in topicIds[d] /\ f \in Frame
  BY BroadcastRouted
<1>3. UNCHANGED <<maps, subs, members, sent, granted>>
  BY DEF HandleBroadcast
<1>4. inbox' \in [Conns -> SUBSET Message]
  BY <1>1 DEF TypeOK, HandleBroadcast
<1>5. got' \in [Conns -> SUBSET Frame]
  <2>1. DOMAIN got' = Conns /\ got' = [d \in Conns |-> got'[d]]
    BY <1>1 DEF TypeOK, HandleBroadcast
  <2>2. \A d \in Conns : got'[d] \subseteq Frame
    BY <1>1, <1>2 DEF TypeOK
  <2> QED
    BY <2>1, <2>2
<1>6. TypeOK'
  BY <1>1, <1>3, <1>4, <1>5 DEF TypeOK, maps
<1>7. IdsInv' /\ RoutesAgree'
  <2>1. \A d, t : Held(d, t)' = Held(d, t)
    BY <1>3 DEF Held, maps
  <2>2. IdsInv'
    BY <1>1, <1>3 DEF IdsInv, maps
  <2> QED
    BY <1>1, <1>3, <2>1, <2>2 DEF RoutesAgree, maps
<1>8. FramesLabelled'
  BY <1>1, <1>2, <1>3 DEF FramesLabelled, IdsInv
<1> QED
  BY <1>6, <1>7, <1>8 DEF SocketInv

LEMMA DispatchKeeps ==
  ASSUME SocketInv, NEW c \in Conns, NEW t \in Topics, NEW u \in Users,
         DispatchToAll(c, t) \/ DispatchToOthers(c, t) \/ MlsRemove(c, t, u)
  PROVE  SocketInv'
<1>1. TypeOK
  BY DEF SocketInv
<1>2. /\ t \in Routed /\ subs' = subs /\ UNCHANGED <<maps, granted, got>>
      /\ \E to \in SUBSET Conns : Broadcast(t, to)
  BY DEF DispatchToAll, DispatchToOthers, MlsRemove
<1>3. members' \subseteq members
  BY DEF DispatchToAll, DispatchToOthers, MlsRemove
<1>4. subs' \in [Conns -> [Routed -> Nat]]
  BY <1>1, <1>2 DEF TypeOK
<1>5. inbox' \in [Conns -> SUBSET Message] /\ sent' \in 0..MaxSent
  BY <1>1, <1>2, <1>4, BroadcastType
<1>6. TypeOK'
  BY <1>1, <1>2, <1>3, <1>5 DEF TypeOK, maps
<1> QED
  BY <1>2, <1>6, MapsKept

LEMMA CreateKeeps ==
  ASSUME SocketInv, NEW c \in Conns, NEW t \in Channels, ChCreate(c, t)
  PROVE  SocketInv'
<1>1. TypeOK'
  BY SocketConstants DEF SocketInv, TypeOK, ChCreate, maps
<1> QED
  BY <1>1, MapsKept DEF ChCreate

LEMMA SocketNext == SocketInv /\ [Next]_vars => SocketInv'
<1> SUFFICES ASSUME SocketInv, [Next]_vars PROVE SocketInv'
  OBVIOUS
<1>1. CASE UNCHANGED vars
  <2>1. TypeOK'
    BY <1>1 DEF SocketInv, TypeOK, vars, maps
  <2> QED
    BY <1>1, <2>1, MapsKept DEF vars
<1>2. ASSUME NEW c \in Conns, NEW t \in Topics, HandleJoin(c, t)
      PROVE  SocketInv'
  BY <1>2, JoinKeeps
<1>3. ASSUME NEW c \in Conns, NEW p \in topicIds[c], HandleLeave(c, p[1], p[2])
      PROVE  SocketInv'
  BY <1>3, LeaveKeeps
<1>4. ASSUME NEW c \in Conns, NEW p \in topicIds[c],
             \/ DispatchToAll(c, p[2]) \/ DispatchToOthers(c, p[2])
             \/ \E u \in Users : MlsRemove(c, p[2], u)
      PROVE  SocketInv'
  <2>1. p[2] \in Topics /\ UserOf[c] \in Users
    BY SocketConstants DEF SocketInv, TypeOK
  <2> QED
    BY <1>4, <2>1, DispatchKeeps
<1>5. ASSUME NEW c \in Conns, NEW t \in Channels, ChCreate(c, t)
      PROVE  SocketInv'
  BY <1>5, CreateKeeps
<1>6. ASSUME NEW c \in Conns, NEW m \in inbox[c], HandleBroadcast(c, m)
      PROVE  SocketInv'
  BY <1>6, HandleBroadcastKeeps
<1> QED
  BY <1>1, <1>2, <1>3, <1>4, <1>5, <1>6 DEF Next

-----------------------------------------------------------------------------
LEMMA SocketInvariant == Spec => []SocketInv
  BY SocketInit, SocketNext, PTL DEF Spec

\* Type correctness of the maps, the mailboxes and the frames.
THEOREM SocketTypeOK == Spec => []TypeOK
<1>1. SocketInv => TypeOK
  BY DEF SocketInv
<1> QED
  BY <1>1, SocketInvariant, PTL

\* handle_join and handle_leave keep the three maps and the subscriptions of a
\* process in agreement, whatever it joins and leaves and how often.
THEOREM SocketRoutesAgree == Spec => []RoutesAgree
<1>1. SocketInv => RoutesAgree
  BY DEF SocketInv
<1> QED
  BY <1>1, SocketInvariant, PTL

\* A frame of handle_info({:binary_broadcast, ...}) carries an id that
\* allocate_topic_id granted for its topic and for no other one.
THEOREM SocketFramesLabelled == Spec => []FramesLabelled
<1>1. SocketInv => FramesLabelled
  BY DEF SocketInv
<1> QED
  BY <1>1, SocketInvariant, PTL

\* A broadcast that waited in the mailbox is delivered under an id the client
\* holds at that moment, or not at all.
THEOREM SocketNothingAfterLeave == Spec => NothingAfterLeave
<1> DEFINE LabelHeld == \A c \in Conns : \A f \in got'[c] \ got[c] :
                      <<f.id, f.topic>> \in topicIds[c]
<1>1. SocketInv /\ [Next]_vars => [LabelHeld]_vars
  <2> SUFFICES ASSUME SocketInv, Next PROVE LabelHeld
    OBVIOUS
  <2>1. CASE got' = got
    BY <2>1
  <2>2. CASE \E c \in Conns : \E m \in inbox[c] : HandleBroadcast(c, m)
    BY <2>2, BroadcastRouted
  <2> QED
    BY <2>1, <2>2 DEF Next, HandleJoin, HandleLeave, DispatchToAll,
                      DispatchToOthers, MlsRemove, ChCreate
<1> QED
  BY <1>1, SocketInvariant, PTL DEF Spec, NothingAfterLeave

=============================================================================
