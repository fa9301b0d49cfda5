-------------------------- MODULE Transport_proofs --------------------------
(***************************************************************************)
(* Proofs about the two ends of a connection: BinaryTransport in the SDK   *)
(* (Transport), for any number of topics, sockets and calls, and below it  *)
(* the socket processes, the registry and the sync consumer of the gateway *)
(* (Connections), for any number of processes, devices and users and any   *)
(* order of their ends.                                                    *)
(***************************************************************************)
EXTENDS Transport, Connections, SequenceTheorems, TLAPS

Frame == [kind : {"join", "push"}, ref : Nat, topic : Topics, id : Nat]
Answer == [ref : Nat, id : Nat, ok : BOOLEAN]
Waiting == [ref : Nat, kind : {"join", "push"}, topic : Topics, byUser : BOOLEAN]
Socket == [state : {"connecting", "open", "closing", "aborted", "gone"}, auto : BOOLEAN]

\* The references of the frames that wait for the gateway or for the client.
OnWire(s) == {f.ref : f \in Range(up[s])} \cup {f.ref : f \in Range(down[s])}

\* Only an open socket carries anything; this.ws is the socket opened last, or
\* nothing when the transport is closed or was never connected.
Lone ==
  /\ \A s \in Sockets : ~IsOpen(s) => up[s] = <<>> /\ down[s] = <<>> /\ served[s] = <<>>
  /\ ws # 0 => ws = Len(socks)
  /\ closed => ws = 0
  /\ ws = 0 => closed \/ socks = <<>>

\* What waits for an answer is told apart by its reference.
Refs ==
  /\ \A c \in pending : c.ref < nextRef
  /\ \A c, d \in pending : c.ref = d.ref => c = d
  /\ \A s \in Sockets : \A r \in OnWire(s) : r < nextRef
  /\ closedRef <= nextRef

\* Frames belong to the calls with their references, over every socket.
FramesMatch ==
  \A s \in Sockets : \A f \in Range(up[s]) : \A c \in pending :
    c.ref = f.ref => c.kind = f.kind /\ c.topic = f.topic

\* What is not stale is what the next reconnect looks up: an id and the handlers
\* under it belong to a joined topic.
Tracked ==
  /\ \A b \in bindings : b \notin stale =>
       b[1] # 0 /\ nameToId[b[2]] = b[1] /\ b[2] \in Range(joined)
  /\ \A t \in Topics : nameToId[t] # 0 /\ <<nameToId[t], t>> \notin stale =>
       t \in Range(joined)

\* Over the open socket the ids of the client mean what the gateway means by them.
IdsMean ==
  \A t \in Topics : nameToId[t] # 0 /\ <<nameToId[t], t>> \notin stale =>
    nameToId[t] \in 1..Len(served[ws]) /\ served[ws][nameToId[t]] = t
PushesMean ==
  \A f \in Range(up[ws]) : f.kind = "push" /\ <<f.id, f.topic>> \notin stale =>
    f.id \in 1..Len(served[ws]) /\ served[ws][f.id] = f.topic

\* Nothing is left of an earlier connection but what is stale.
Blank == (\A t \in Topics : nameToId[t] = 0) /\ bindings \subseteq stale

\* What holds of the client as long as sockets do not overlap.
Single ==
  /\ \A s \in 1..Len(socks) : Alive(s) => s = ws
  /\ \A s \in 1..Len(socks) : socks[s].state \in {"closing", "aborted"} => closed
  /\ heart <=> IsConnected
  /\ ~leaked
  /\ closed \/ socks = <<>> \/ timers > 0 \/ Alive(ws)
  /\ closed \/ socks = <<>> => Blank
  /\ ws # 0 /\ socks[ws].state = "connecting" /\ ~socks[ws].auto => Blank
  /\ IsConnected => IdsMean /\ PushesMean

\* The inductive invariant; TopicsKept and OneHeartbeat follow from Single, the
\* rest are conjuncts of it.
LinkInv ==
  TypeOK /\ Lone /\ Refs /\ FramesMatch /\ AnswersMatch /\ NobodyWaits /\ Tracked
    /\ (~overlap => Single)


-----------------------------------------------------------------------------
\* Sequences and what is in them.
LEMMA RangeEmpty == Range(<<>>) = {}
  BY DEF Range

LEMMA RangeAppend ==
  ASSUME NEW S, NEW q \in Seq(S), NEW x \in S
  PROVE  Append(q, x) \in Seq(S) /\ Range(Append(q, x)) = Range(q) \cup {x}
<1>1. /\ Append(q, x) \in Seq(S) /\ Len(Append(q, x)) = Len(q) + 1 /\ Len(q) \in Nat
      /\ \A i \in 1..Len(q) : Append(q, x)[i] = q[i]
      /\ Append(q, x)[Len(q) + 1] = x
  BY AppendProperties, LenProperties
<1>2. DOMAIN q = 1..Len(q) /\ DOMAIN Append(q, x) = 1..(Len(q) + 1)
  BY <1>1, LenProperties
<1>3. \A y : y \in Range(Append(q, x)) <=> \E i \in 1..(Len(q) + 1) : Append(q, x)[i] = y
  BY <1>2 DEF Range
<1>4. \A y : y \in Range(q) <=> \E i \in 1..Len(q) : q[i] = y
  BY <1>2 DEF Range
<1>5. ASSUME NEW y \in Range(Append(q, x)) PROVE y \in Range(q) \cup {x}
  BY <1>1, <1>3, <1>4, <1>5
<1>6. ASSUME NEW y \in Range(q) \cup {x} PROVE y \in Range(Append(q, x))
  BY <1>1, <1>3, <1>4, <1>6
<1> QED
  BY <1>1, <1>5, <1>6

\* The frames of one socket change.
LEMMA WireChanges ==
  ASSUME NEW D, NEW S, NEW w \in [D -> Seq(S)], NEW d \in D, NEW q \in Seq(S)
  PROVE  /\ [w EXCEPT ![d] = q] \in [D -> Seq(S)] /\ [w EXCEPT ![d] = q][d] = q
         /\ \A e \in D : e # d => [w EXCEPT ![d] = q][e] = w[e]
  OBVIOUS

LEMMA NothingSent == \A S : <<>> \in Seq(S)
  OBVIOUS

LEMMA RangeTail ==
  ASSUME NEW S, NEW q \in Seq(S), q # <<>>
  PROVE  /\ Head(q) \in S /\ Head(q) \in Range(q)
         /\ Tail(q) \in Seq(S) /\ Range(Tail(q)) \subseteq Range(q)
<1>1. Len(q) \in Nat /\ Len(q) # 0 /\ DOMAIN q = 1..Len(q) /\ Head(q) = q[1]
  BY EmptySeq, LenProperties, HeadTailProperties
<1>2. /\ Tail(q) \in Seq(S) /\ Len(Tail(q)) = Len(q) - 1
      /\ \A i \in 1..Len(Tail(q)) : Tail(q)[i] = q[i + 1]
  BY HeadTailProperties
<1>3. DOMAIN Tail(q) = 1..(Len(q) - 1)
  BY <1>2, LenProperties
<1> QED
  BY <1>1, <1>2, <1>3, ElementOfSeq DEF Range

LEMMA RangeMember ==
  ASSUME NEW S, NEW q \in Seq(S)
  PROVE  /\ Range(q) \subseteq S
         /\ \A x \in Range(q) : \E k \in 1..Len(q) : q[k] = x
         /\ \A k \in 1..Len(q) : q[k] \in Range(q)
  BY LenProperties, ElementOfSeq DEF Range

LEMMA RangeConcat ==
  ASSUME NEW S, NEW p \in Seq(S), NEW q \in Seq(S)
  PROVE  p \o q \in Seq(S) /\ Range(p \o q) \subseteq Range(p) \cup Range(q)
<1>1. /\ p \o q \in Seq(S) /\ Len(p \o q) = Len(p) + Len(q)
      /\ \A i \in 1..(Len(p) + Len(q)) : (p \o q)[i] = IF i <= Len(p) THEN p[i] ELSE q[i - Len(p)]
      /\ Len(p) \in Nat /\ Len(q) \in Nat
  BY ConcatProperties, LenProperties
<1>2. PICK w : w = p \o q
  OBVIOUS
<1>3. \A x \in Range(w) : \E i \in 1..(Len(p) + Len(q)) : w[i] = x
  <2>1. w \in Seq(S) /\ Len(w) = Len(p) + Len(q)
    BY <1>1, <1>2
  <2>2. \A x \in Range(w) : \E i \in 1..Len(w) : w[i] = x
    BY <2>1, RangeMember
  <2> QED
    BY <2>1, <2>2
<1>4. ASSUME NEW x \in Range(w) PROVE x \in Range(p) \cup Range(q)
  <2>1. PICK i \in 1..(Len(p) + Len(q)) : w[i] = x
    BY <1>3
  <2>2. CASE i <= Len(p)
    <3>1. i \in 1..Len(p) /\ x = p[i]
      BY <1>1, <1>2, <2>1, <2>2
    <3> QED
      BY <3>1, RangeMember
  <2>3. CASE ~(i <= Len(p))
    <3>1. (i - Len(p)) \in 1..Len(q) /\ x = q[i - Len(p)]
      BY <1>1, <1>2, <2>1, <2>3
    <3> QED
      BY <3>1, RangeMember
  <2> QED
    BY <2>2, <2>3
<1> QED
  BY <1>1, <1>2, <1>4

LEMMA StaysInjective ==
  ASSUME NEW S, NEW q \in Seq(S), NEW x \in S, IsInjective(q), x \notin Range(q),
         NEW p, p = Append(q, x)
  PROVE  IsInjective(p)
<1>1. /\ Len(Append(q, x)) = Len(q) + 1 /\ Len(q) \in Nat
      /\ \A i \in 1..Len(q) : Append(q, x)[i] = q[i]
      /\ Append(q, x)[Len(q) + 1] = x
      /\ DOMAIN q = 1..Len(q)
  BY AppendProperties, LenProperties
<1>2. DOMAIN Append(q, x) = 1..(Len(q) + 1)
  BY <1>1, LenProperties, AppendProperties
<1>3. \A i \in 1..Len(q) : q[i] # x
  BY <1>1 DEF Range
<1>5. \A a, b \in 1..(Len(q) + 1) : p[a] = p[b] => a = b
  <2> SUFFICES ASSUME NEW a \in 1..(Len(q) + 1), NEW b \in 1..(Len(q) + 1), p[a] = p[b]
               PROVE  a = b
    OBVIOUS
  <2>1. (a \in 1..Len(q) \/ a = Len(q) + 1) /\ (b \in 1..Len(q) \/ b = Len(q) + 1)
    BY <1>1
  <2> QED
    BY <2>1, <1>1, <1>3 DEF IsInjective
<1>6. DOMAIN p = 1..(Len(q) + 1)
  BY <1>2
<1> QED
  BY <1>5, <1>6 DEF IsInjective

\* joinedTopics.delete removes one topic and keeps the order of the others.
LEMMA WithoutKeeps ==
  ASSUME NEW S, NEW q \in Seq(S), IsInjective(q), NEW t
  PROVE  /\ Without(q, t) \in Seq(S) /\ IsInjective(Without(q, t))
         /\ Range(Without(q, t)) = Range(q) \ {t}
<1>1. CASE t \notin Range(q)
  BY <1>1 DEF Without
<1>2. CASE t \in Range(q)
  <2>1. \E k \in 1..Len(q) : q[k] = t
    BY <1>2, RangeMember
  <2>2. PICK i : i = CHOOSE k \in 1..Len(q) : q[k] = t
    OBVIOUS
  <2>3. i \in 1..Len(q) /\ q[i] = t
    BY <2>1, <2>2
  <2>4. Len(q) \in Nat /\ DOMAIN q = 1..Len(q) /\ (\A k \in 1..Len(q) : q[k] \in S)
    BY LenProperties, ElementOfSeq
  <2>a. i \in Int /\ 1 <= i /\ i <= Len(q) /\ Len(q) \in Int
    BY <2>3, <2>4
  <2> DEFINE w == SubSeq(q, 1, i - 1) \o SubSeq(q, i + 1, Len(q))
  <2>5. Without(q, t) = w
    BY <1>2, <2>2 DEF Without, RemoveAt
  <2>6. /\ w \in Seq(S) /\ Len(w) = Len(q) - 1
        /\ \A k \in 1..(i - 1) : w[k] = q[k]
        /\ \A k \in i..(Len(q) - 1) : w[k] = q[k + 1]
    <3>1. /\ SubSeq(q, 1, i - 1) \in Seq(S) /\ Len(SubSeq(q, 1, i - 1)) = i - 1
          /\ \A k \in 1..(i - 1) : SubSeq(q, 1, i - 1)[k] = q[k]
      <4>1. \A k \in 1..(i - 1) : q[k] \in S
        BY <2>3, <2>4
      <4> QED
        BY <4>1, <2>3, <2>4, SubSeqProperties
    <3>2. /\ SubSeq(q, i + 1, Len(q)) \in Seq(S) /\ Len(SubSeq(q, i + 1, Len(q))) = Len(q) - i
          /\ \A k \in 1..(Len(q) - i) : SubSeq(q, i + 1, Len(q))[k] = q[k + i]
      <4>1. \A k \in (i + 1)..Len(q) : q[k] \in S
        BY <2>3, <2>4
      <4>2. /\ SubSeq(q, i + 1, Len(q)) \in Seq(S)
            /\ Len(SubSeq(q, i + 1, Len(q))) = IF i + 1 <= Len(q) THEN Len(q) - (i + 1) + 1 ELSE 0
            /\ \A k \in 1..(Len(q) - (i + 1) + 1) : SubSeq(q, i + 1, Len(q))[k] = q[(i + 1) + k - 1]
        <5> i + 1 \in Int /\ Len(q) \in Int
          BY <2>3, <2>4
        <5> QED
          BY <4>1, SubSeqProperties
      <4>3. \A k \in 1..(Len(q) - i) : (i + 1) + k - 1 = k + i /\ k \in 1..(Len(q) - (i + 1) + 1)
        BY <2>3, <2>4
      <4>4. (IF i + 1 <= Len(q) THEN Len(q) - (i + 1) + 1 ELSE 0) = Len(q) - i
        BY <2>a
      <4> QED
        BY <4>2, <4>3, <4>4
    <3>3. /\ w \in Seq(S)
          /\ Len(w) = Len(SubSeq(q, 1, i - 1)) + Len(SubSeq(q, i + 1, Len(q)))
          /\ \A k \in 1..(Len(SubSeq(q, 1, i - 1)) + Len(SubSeq(q, i + 1, Len(q)))) :
               w[k] = IF k <= Len(SubSeq(q, 1, i - 1)) THEN SubSeq(q, 1, i - 1)[k]
                      ELSE SubSeq(q, i + 1, Len(q))[k - Len(SubSeq(q, 1, i - 1))]
      BY <3>1, <3>2, ConcatProperties
    <3> HIDE DEF w
    <3>4. \A k \in 1..(Len(q) - 1) :
            w[k] = IF k <= i - 1 THEN SubSeq(q, 1, i - 1)[k] ELSE SubSeq(q, i + 1, Len(q))[k - (i - 1)]
      <4>1. Len(SubSeq(q, 1, i - 1)) = i - 1 /\ Len(SubSeq(q, i + 1, Len(q))) = Len(q) - i
        BY <3>1, <3>2
      <4>2. (i - 1) + (Len(q) - i) = Len(q) - 1
        BY <2>a
      <4> QED
        BY <4>1, <4>2, <3>3
    <3>5. \A k \in i..(Len(q) - 1) : k - (i - 1) \in 1..(Len(q) - i) /\ (k - (i - 1)) + i = k + 1
      BY <2>3, <2>4
    <3>6. \A k \in 1..(i - 1) : w[k] = q[k]
      BY <2>3, <2>4, <3>1, <3>4
    <3>7. \A k \in i..(Len(q) - 1) : w[k] = SubSeq(q, i + 1, Len(q))[k - (i - 1)]
      BY <2>3, <2>4, <3>4
    <3>8. \A k \in i..(Len(q) - 1) : w[k] = q[k + 1]
      BY <3>2, <3>5, <3>7
    <3>9. Len(w) = Len(q) - 1
      <4>1. Len(w) = (i - 1) + (Len(q) - i)
        BY <3>1, <3>2, <3>3
      <4> QED
        BY <4>1, <2>a
    <3> QED
      BY <3>3, <3>6, <3>8, <3>9
  <2>7. DOMAIN w = 1..(Len(q) - 1)
    BY <2>6, <2>4, LenProperties
  <2> HIDE DEF w
  <2>8. IsInjective(w)
    <3> SUFFICES ASSUME NEW a \in 1..(Len(q) - 1), NEW b \in 1..(Len(q) - 1), w[a] = w[b]
                 PROVE  a = b
      BY <2>7 DEF IsInjective
    <3>1. \A k \in 1..(Len(q) - 1) : w[k] = q[IF k < i THEN k ELSE k + 1]
      BY <2>3, <2>4, <2>6
    <3> QED
      BY <3>1, <2>3, <2>4 DEF IsInjective
  <2>9. Range(w) = Range(q) \ {t}
    <3>1. ASSUME NEW x \in Range(w) PROVE x \in Range(q) \ {t}
      BY <2>3, <2>4, <2>6, <2>7, <3>1 DEF Range, IsInjective
    <3>2. ASSUME NEW x \in Range(q) \ {t} PROVE x \in Range(w)
      <4>1. PICK k \in 1..Len(q) : q[k] = x
        BY <2>4, <3>2 DEF Range
      <4>2. k < i => k \in 1..(Len(q) - 1) /\ w[k] = x
        BY <4>1, <2>3, <2>4, <2>6
      <4>3. k > i => (k - 1) \in 1..(Len(q) - 1) /\ w[k - 1] = x
        BY <4>1, <2>3, <2>4, <2>6
      <4>4. k # i
        BY <4>1, <2>3, <3>2
      <4> QED
        BY <4>2, <4>3, <4>4, <2>3, <2>4, <2>7 DEF Range
    <3> QED
      BY <3>1, <3>2
  <2> QED
    BY <2>5, <2>6, <2>8, <2>9
<1> QED
  BY <1>1, <1>2

-----------------------------------------------------------------------------
LEMMA LinkInit == ASSUME MaxSockets \in Nat PROVE Init => LinkInv
<1> SUFFICES ASSUME Init PROVE LinkInv
  OBVIOUS
<1>1. TypeOK
  <2>1. socks \in Seq(Socket) /\ Len(socks) <= MaxSockets /\ ws \in 0..Len(socks)
    BY DEF Init
  <2>2. {closed, heart, leaked, overlap} \subseteq BOOLEAN
    BY DEF Init
  <2>3. joined \in Seq(Topics) /\ IsInjective(joined)
    BY DEF Init, IsInjective
  <2> QED
    BY <2>1, <2>2, <2>3 DEF Init, TypeOK, Socket
<1>2. Lone /\ Refs /\ NobodyWaits
  BY RangeEmpty DEF Init, Lone, Refs, NobodyWaits, OnWire, IsOpen, Sockets
<1>3. FramesMatch /\ AnswersMatch /\ Tracked
  BY RangeEmpty DEF Init, FramesMatch, AnswersMatch, Tracked
<1>4. Single
  <2>1. ~IsConnected
    BY DEF Init, IsConnected, IsOpen
  <2>2. /\ \A s \in 1..Len(socks) : Alive(s) => s = ws
        /\ \A s \in 1..Len(socks) : socks[s].state \in {"closing", "aborted"} => closed
    BY DEF Init
  <2>3. Blank
    BY DEF Init, Blank
  <2> QED
    BY <2>1, <2>2, <2>3 DEF Init, Single
<1> QED
  BY <1>1, <1>2, <1>3, <1>4 DEF LinkInv


\* TypeOK in the form the steps use.
LEMMA TypeKept ==
  ASSUME TypeOK
  PROVE  /\ closed \in BOOLEAN /\ heart \in BOOLEAN /\ leaked \in BOOLEAN /\ overlap \in BOOLEAN
         /\ socks \in Seq(Socket) /\ Len(socks) \in Nat /\ DOMAIN socks = 1..Len(socks)
         /\ \A s \in 1..Len(socks) : socks[s] \in Socket
         /\ ws \in Nat /\ up \in [Sockets -> Seq(Frame)] /\ down \in [Sockets -> Seq(Answer)]
         /\ Len(joined) \in Nat /\ DOMAIN joined = 1..Len(joined)
<1>1. closed \in BOOLEAN /\ heart \in BOOLEAN /\ leaked \in BOOLEAN /\ overlap \in BOOLEAN
  BY DEF TypeOK
<1>2. socks \in Seq(Socket) /\ joined \in Seq(Topics) /\ ws \in 0..Len(socks)
  BY DEF TypeOK, Socket
<1>3. Len(socks) \in Nat /\ DOMAIN socks = 1..Len(socks)
  BY <1>2, LenProperties
<1>4. \A s \in 1..Len(socks) : socks[s] \in Socket
  BY <1>2, ElementOfSeq
<1>5. Len(joined) \in Nat /\ DOMAIN joined = 1..Len(joined)
  BY <1>2, LenProperties
<1>6. up \in [Sockets -> Seq(Frame)] /\ down \in [Sockets -> Seq(Answer)]
  BY DEF TypeOK, Frame, Answer
<1>7. ws \in Nat
  BY <1>2, <1>3
<1> QED
  BY <1>1, <1>2, <1>3, <1>4, <1>5, <1>6, <1>7

\* The flags after a step.
LEMMA FlagsKept ==
  ASSUME closed' \in BOOLEAN, heart' \in BOOLEAN, leaked' \in BOOLEAN, overlap' \in BOOLEAN
  PROVE  {closed, heart, leaked, overlap}' \subseteq BOOLEAN
  OBVIOUS

\* One socket ends, opens or closes.
LEMMA SocketChanges ==
  ASSUME TypeOK, NEW s \in 1..Len(socks),
         NEW st \in {"connecting", "open", "closing", "aborted", "gone"},
         socks' = [socks EXCEPT ![s].state = st]
  PROVE  /\ socks' \in Seq(Socket) /\ Len(socks') = Len(socks)
         /\ socks'[s].state = st /\ socks'[s].auto = socks[s].auto
         /\ \A r \in 1..Len(socks) : r # s => socks'[r] = socks[r]
         /\ \A r \in 1..Len(socks) : socks'[r].auto = socks[r].auto
<1>1. socks \in Seq(Socket) /\ Len(socks) \in Nat /\ DOMAIN socks = 1..Len(socks) /\ socks[s] \in Socket
  BY TypeKept
<1>2. PICK e : e = [socks[s] EXCEPT !.state = st]
  OBVIOUS
<1>3. e \in Socket /\ e.state = st /\ e.auto = socks[s].auto
  BY <1>1, <1>2 DEF Socket
<1>4. socks' = [socks EXCEPT ![s] = e]
  BY <1>2
<1>5. socks' \in Seq(Socket) /\ Len(socks') = Len(socks) /\ DOMAIN socks' = 1..Len(socks)
  BY <1>1, <1>3, <1>4, ExceptSeq
<1>6. socks'[s] = e /\ \A r \in 1..Len(socks) : r # s => socks'[r] = socks[r]
  BY <1>1, <1>4
<1> QED
  BY <1>3, <1>5, <1>6

LEMMA SocketAdded ==
  ASSUME TypeOK, NEW auto \in BOOLEAN, NewSocket(auto)
  PROVE  /\ socks' \in Seq(Socket) /\ Len(socks') = Len(socks) + 1 /\ ws' = Len(socks) + 1
         /\ Len(socks') <= MaxSockets
         /\ \A s \in 1..Len(socks) : socks'[s] = socks[s]
         /\ socks'[Len(socks) + 1].state = "connecting" /\ socks'[Len(socks) + 1].auto = auto
<1>1. socks \in Seq(Socket) /\ [state |-> "connecting", auto |-> auto] \in Socket
  BY TypeKept DEF Socket
<1>2. PICK x \in Socket : x = [state |-> "connecting", auto |-> auto]
  BY <1>1
<1>3. /\ socks' = Append(socks, x) /\ ws' = Len(socks') /\ Len(socks) < MaxSockets
  BY <1>2 DEF NewSocket
<1>4. /\ socks' \in Seq(Socket) /\ Len(socks') = Len(socks) + 1 /\ Len(socks) \in Nat
      /\ \A s \in 1..Len(socks) : socks'[s] = socks[s]
      /\ socks'[Len(socks) + 1] = x
  BY <1>1, <1>3, AppendProperties, LenProperties
<1>5. x.state = "connecting" /\ x.auto = auto
  BY <1>2
<1>6. Len(socks) + 1 <= MaxSockets
  BY <1>3, <1>4, TransportAssumption
<1> QED
  BY <1>3, <1>4, <1>5, <1>6


\* A step that leaves the client's maps alone, over wires that at most lose all
\* they carry.
LEMMA ClientKept ==
  ASSUME LinkInv, UNCHANGED client, closedRef' \in {0, closedRef},
         \A r \in Sockets :
           \/ up'[r] = up[r] /\ down'[r] = down[r] /\ served'[r] = served[r]
           \/ up'[r] = <<>> /\ down'[r] = <<>>
  PROVE  Refs' /\ FramesMatch' /\ AnswersMatch' /\ Tracked'
<1>1. TypeOK /\ Refs /\ FramesMatch /\ AnswersMatch /\ Tracked
  BY DEF LinkInv
<1>2. UNCHANGED <<pending, nextRef, joined, nameToId, bindings, stale>>
  BY DEF client
<1>3. \A r \in Sockets : OnWire(r)' \subseteq OnWire(r)
  BY RangeEmpty DEF OnWire
<1>4. closedRef' <= nextRef
  BY <1>1 DEF TypeOK, Refs
<1>5. Refs'
  BY <1>1, <1>2, <1>3, <1>4 DEF Refs
<1>6. FramesMatch'
  BY <1>1, <1>2, RangeEmpty DEF FramesMatch
<1>7. AnswersMatch'
  <2> SUFFICES ASSUME NEW r \in Sockets, NEW f \in Range(down'[r]), NEW c \in pending,
                      c.ref = f.ref, c.kind = "join", f.ok
               PROVE  f.id \in 1..Len(served'[r]) /\ served'[r][f.id] = c.topic
    BY <1>2 DEF AnswersMatch
  <2>1. down'[r] = down[r] /\ served'[r] = served[r]
    BY RangeEmpty
  <2> QED
    BY <1>1, <2>1 DEF AnswersMatch
<1>8. Tracked'
  BY <1>1, <1>2 DEF Tracked
<1> QED
  BY <1>5, <1>6, <1>7, <1>8

\* connect: whatever is not over before it makes the sockets overlap.
LEMMA NewSocketKeeps ==
  ASSUME LinkInv, NEW auto \in BOOLEAN, NewSocket(auto), closed' = FALSE,
         closedRef' \in {0, closedRef}, timers' \in Nat, calls' \in Nat,
         UNCHANGED <<heart, leaked, client, wires>>
  PROVE  LinkInv'
<1> USE TransportAssumption
<1>1. TypeOK /\ Lone /\ (~overlap => Single)
  BY DEF LinkInv
<1>2. /\ socks' \in Seq(Socket) /\ Len(socks') = Len(socks) + 1 /\ ws' = Len(socks) + 1
      /\ Len(socks') <= MaxSockets /\ Len(socks) \in Nat
      /\ \A s \in 1..Len(socks) : socks'[s] = socks[s]
      /\ socks'[Len(socks) + 1].state = "connecting" /\ socks'[Len(socks) + 1].auto = auto
  BY <1>1, SocketAdded, TypeKept
<1>3. UNCHANGED <<heart, leaked, pending, nextRef, joined, nameToId, bindings, stale,
                  up, down, served>>
  BY DEF client, wires
<1>4. overlap' = (overlap \/ (~auto /\ timers > 0) \/ \E s \in 1..Len(socks) : socks[s].state # "gone")
  BY DEF NewSocket
<1>5. TypeOK'
  <2>1. {closed, heart, leaked, overlap}' \subseteq BOOLEAN
    BY <1>1, <1>3, <1>4, TypeKept, FlagsKept
  <2>2. ws' \in 0..Len(socks') /\ closedRef' \in Nat
    BY <1>1, <1>2 DEF TypeOK
  <2> QED
    BY <1>1, <1>2, <1>3, <2>1, <2>2 DEF TypeOK, Socket
<1>6. \A s \in Sockets : IsOpen(s)' <=> IsOpen(s)
  BY <1>2 DEF IsOpen
<1>7. Lone'
  <2>1. \A s \in Sockets : ~IsOpen(s)' => up'[s] = <<>> /\ down'[s] = <<>> /\ served'[s] = <<>>
    BY <1>1, <1>3, <1>6 DEF Lone
  <2> QED
    BY <1>2, <2>1 DEF Lone
<1>8. Refs' /\ FramesMatch' /\ AnswersMatch' /\ Tracked'
  BY <1>3, ClientKept
<1>9. ASSUME ~overlap' PROVE Single'
  <2>1. ~overlap /\ Single /\ (auto \/ ~(timers > 0)) /\ \A s \in 1..Len(socks) : socks[s].state = "gone"
    BY <1>1, <1>4, <1>9
  <2>2. ~IsConnected /\ ~IsConnected'
    BY <1>2, <2>1 DEF IsConnected, IsOpen
  <2>3. \A s \in 1..Len(socks') : Alive(s)' => s = ws'
    BY <1>2, <2>1 DEF Alive
  <2>4. \A s \in 1..Len(socks') : socks'[s].state \notin {"closing", "aborted"}
    BY <1>2, <2>1
  <2>5. Alive(ws)' /\ socks' # <<>>
    BY <1>2 DEF Alive
  <2>6. ~auto => Blank
    <3>1. ws = 0 => closed \/ socks = <<>>
      BY <1>1 DEF Lone
    <3>2. ws # 0 => ~Alive(ws)
      <4>1. ws \in 0..Len(socks)
        BY <1>1 DEF TypeOK
      <4> QED
        BY <4>1, <1>2, <2>1 DEF Alive
    <3> QED
      BY <2>1, <3>1, <3>2 DEF Single
  <2>7. ~socks'[ws'].auto => Blank'
    BY <1>2, <1>3, <2>6 DEF Blank
  <2>8. (heart <=> IsConnected)' /\ ~leaked'
    BY <1>3, <2>1, <2>2 DEF Single
  <2> QED
    BY <2>2, <2>3, <2>4, <2>5, <2>7, <2>8 DEF Single
<1> QED
  BY <1>5, <1>7, <1>8, <1>9 DEF LinkInv, NobodyWaits

LEMMA ConnectStep == LinkInv /\ Connect => LinkInv'
<1> SUFFICES ASSUME LinkInv, Connect PROVE LinkInv'
  OBVIOUS
<1>1. timers' \in Nat /\ calls' \in Nat
  BY DEF LinkInv, TypeOK, Connect
<1> QED
  BY <1>1, NewSocketKeeps DEF Connect

\* Steps that change nothing but a timer.
LEMMA NothingElse ==
  ASSUME LinkInv, timers' \in Nat, closed \/ timers' = timers,
         UNCHANGED <<socks, ws, closed, heart, leaked, client, wires, calls, overlap, closedRef>>
  PROVE  LinkInv'
<1>1. UNCHANGED <<socks, ws, closed, heart, leaked, pending, nextRef, joined, nameToId, bindings,
                  stale, up, down, served, calls, overlap, closedRef>>
  BY DEF client, wires
<1>2. TypeOK'
  BY <1>1 DEF LinkInv, TypeOK
<1>3. Lone' /\ NobodyWaits'
  BY <1>1 DEF LinkInv, Lone, NobodyWaits, IsOpen
<1>4. Refs' /\ FramesMatch' /\ AnswersMatch' /\ Tracked'
  BY <1>1, ClientKept
<1>5. ~overlap => Single'
  BY <1>1 DEF LinkInv, Single, IsConnected, IsOpen, Alive, IdsMean, PushesMean, Blank
<1> QED
  BY <1>1, <1>2, <1>3, <1>4, <1>5 DEF LinkInv

LEMMA FireTimerStep == LinkInv /\ FireTimer => LinkInv'
<1> SUFFICES ASSUME LinkInv, FireTimer PROVE LinkInv'
  OBVIOUS
<1>1. timers' \in Nat /\ calls' \in Nat /\ closed \in BOOLEAN
  <2>1. timers \in Nat /\ calls \in Nat /\ closed \in BOOLEAN
    BY TypeKept DEF LinkInv, TypeOK
  <2> QED
    BY <2>1 DEF FireTimer
<1>2. CASE ~closed
  BY <1>1, <1>2, NewSocketKeeps DEF FireTimer
<1>3. CASE closed
  BY <1>1, <1>3, NothingElse DEF FireTimer
<1> QED
  BY <1>2, <1>3

LEMMA FailStep ==
  ASSUME LinkInv, NEW s \in 1..Len(socks), Fail(s)
  PROVE  LinkInv'
<1> USE TransportAssumption
<1>1. TypeOK /\ Lone /\ NobodyWaits /\ (~overlap => Single)
  BY DEF LinkInv
<1>2. /\ socks' \in Seq(Socket) /\ Len(socks') = Len(socks) /\ Len(socks) \in Nat
      /\ socks'[s].state = "gone"
      /\ \A r \in 1..Len(socks) : r # s => socks'[r] = socks[r]
  BY <1>1, SocketChanges, TypeKept DEF Fail
<1>3. UNCHANGED <<ws, closed, pending, nextRef, joined, nameToId, bindings, stale, calls,
                  overlap, leaked, closedRef>>
  BY DEF Fail, client, OnClose, StopHeartbeat
<1>4. heart' = FALSE /\ timers' = timers + Reconnects(s) /\ timers \in Nat
  BY <1>1 DEF Fail, OnClose, StopHeartbeat, TypeOK
<1>5. s \in Sockets
  BY <1>1, <1>2 DEF TypeOK, Sockets
<1>6. /\ up' = [up EXCEPT ![s] = <<>>] /\ down' = [down EXCEPT ![s] = <<>>]
      /\ served' = [served EXCEPT ![s] = <<>>]
  BY DEF Fail, Cut
<1>7. TypeOK'
  <2>1. {closed, heart, leaked, overlap}' \subseteq BOOLEAN
    BY <1>1, <1>3, <1>4, TypeKept, FlagsKept
  <2>2. timers' \in Nat
    BY <1>4 DEF Reconnects
  <2>3. up' \in [Sockets -> Seq(Frame)] /\ down' \in [Sockets -> Seq(Answer)]
    BY <1>1, <1>6, <1>5, TypeKept, NothingSent, WireChanges
  <2>4. served' \in [Sockets -> Seq(Topics)]
    BY <1>1, <1>6, <1>5, NothingSent, WireChanges DEF TypeOK
  <2> QED
    BY <1>1, <1>2, <1>3, <2>1, <2>2, <2>3, <2>4 DEF TypeOK, Socket, Frame, Answer
<1>8. /\ up \in [Sockets -> Seq(Frame)] /\ down \in [Sockets -> Seq(Answer)]
      /\ served \in [Sockets -> Seq(Topics)]
  BY <1>1, TypeKept DEF TypeOK
<1>9. \A r \in Sockets : /\ r # s => up'[r] = up[r] /\ down'[r] = down[r] /\ served'[r] = served[r]
                         /\ r = s => up'[r] = <<>> /\ down'[r] = <<>> /\ served'[r] = <<>>
  BY <1>5, <1>6, <1>8
<1>10. \A r \in Sockets : r # s => (IsOpen(r)' <=> IsOpen(r))
  BY <1>2 DEF IsOpen
<1>11. Lone'
  <2>1. \A r \in Sockets : ~IsOpen(r)' => up'[r] = <<>> /\ down'[r] = <<>> /\ served'[r] = <<>>
    BY <1>1, <1>9, <1>10 DEF Lone
  <2>2. socks # <<>>
    BY <1>2
  <2> QED
    BY <1>1, <1>2, <1>3, <2>1, <2>2 DEF Lone
<1>12. Refs' /\ FramesMatch' /\ AnswersMatch' /\ Tracked'
  BY <1>3, <1>9, ClientKept DEF client
<1>13. NobodyWaits'
  BY <1>1, <1>3 DEF NobodyWaits
<1>14. ASSUME ~overlap' PROVE Single'
  <2>1. Single /\ s = ws
    BY <1>1, <1>3, <1>14 DEF Single, Fail
  <2>2. \A r \in 1..Len(socks') : ~Alive(r)'
    BY <1>2, <2>1 DEF Single, Alive
  <2>3. ~IsConnected' /\ socks'[ws'].state = "gone"
    BY <1>2, <1>3, <2>1 DEF IsConnected, IsOpen
  <2>4. \A r \in 1..Len(socks') : socks'[r].state \in {"closing", "aborted"} => closed'
    BY <1>2, <1>3, <2>1 DEF Single
  <2>5. closed' \/ timers' > 0
    BY <1>1, <1>3, <1>4, TypeKept DEF Reconnects
  <2>6. closed' \/ socks' = <<>> => Blank'
    <3>1. socks' # <<>>
      BY <1>2
    <3> QED
      BY <1>3, <2>1, <3>1 DEF Single, Blank
  <2> QED
    BY <1>3, <1>4, <2>1, <2>2, <2>3, <2>4, <2>5, <2>6 DEF Single
<1> QED
  BY <1>7, <1>11, <1>12, <1>13, <1>14 DEF LinkInv

LEMMA ClosedStep ==
  ASSUME LinkInv, NEW s \in 1..Len(socks), Closed(s)
  PROVE  LinkInv'
<1> USE TransportAssumption
<1>1. TypeOK /\ Lone /\ NobodyWaits /\ (~overlap => Single)
  BY DEF LinkInv
<1>2. /\ socks' \in Seq(Socket) /\ Len(socks') = Len(socks) /\ Len(socks) \in Nat
      /\ socks'[s].state = "gone"
      /\ \A r \in 1..Len(socks) : r # s => socks'[r] = socks[r]
  BY <1>1, SocketChanges, TypeKept DEF Closed
<1>3. UNCHANGED <<ws, closed, pending, nextRef, joined, nameToId, bindings, stale, calls,
                  overlap, leaked, up, down, served, closedRef>>
  BY DEF Closed, client, wires, OnClose, StopHeartbeat
<1>4. heart' = FALSE /\ timers' = timers + Reconnects(s)
  BY DEF Closed, OnClose, StopHeartbeat
<1>5. socks[s].state \in {"closing", "aborted"}
  BY DEF Closed
<1>6. TypeOK'
  <2>1. {closed, heart, leaked, overlap}' \subseteq BOOLEAN
    BY <1>1, <1>3, <1>4, TypeKept, FlagsKept
  <2>2. timers' \in Nat
    BY <1>1, <1>4 DEF TypeOK, Reconnects
  <2> QED
    BY <1>1, <1>2, <1>3, <2>1, <2>2 DEF TypeOK, Socket
<1>7. \A r \in Sockets : IsOpen(r)' <=> IsOpen(r)
  BY <1>2, <1>5 DEF IsOpen
<1>8. Lone'
  <2>1. \A r \in Sockets : ~IsOpen(r)' => up'[r] = <<>> /\ down'[r] = <<>> /\ served'[r] = <<>>
    BY <1>1, <1>3, <1>7 DEF Lone
  <2>2. socks # <<>>
    BY <1>2
  <2> QED
    BY <1>1, <1>2, <1>3, <2>1, <2>2 DEF Lone
<1>9. Refs' /\ FramesMatch' /\ AnswersMatch' /\ Tracked'
  BY <1>3, ClientKept DEF client
<1>10. NobodyWaits'
  BY <1>1, <1>3 DEF NobodyWaits
<1>11. ASSUME ~overlap' PROVE Single'
  <2>1. Single /\ closed /\ ws = 0
    BY <1>1, <1>3, <1>5, <1>11 DEF Single, Lone
  <2>2. \A r \in 1..Len(socks') : Alive(r)' => r = ws'
    BY <1>2, <1>3, <2>1 DEF Single, Alive
  <2>3. ~IsConnected'
    BY <1>3, <2>1 DEF IsConnected, IsOpen
  <2>4. Blank'
    BY <1>3, <2>1 DEF Single, Blank
  <2> QED
    BY <1>3, <1>4, <2>1, <2>2, <2>3, <2>4 DEF Single
<1> QED
  BY <1>6, <1>8, <1>9, <1>10, <1>11 DEF LinkInv

LEMMA DisconnectStep == LinkInv /\ Disconnect => LinkInv'
<1> SUFFICES ASSUME LinkInv, Disconnect PROVE LinkInv'
  OBVIOUS
<1> USE TransportAssumption
<1>1. TypeOK /\ Lone /\ Refs /\ (~overlap => Single)
  BY DEF LinkInv
<1>2. Len(socks) \in Nat /\ (ws # 0 => ws \in 1..Len(socks) /\ ws \in Sockets)
  <2>1. ws \in Nat /\ Len(socks) \in Nat
    BY <1>1, TypeKept
  <2>2. ws <= Len(socks) /\ Len(socks) <= MaxSockets
    BY <1>1, <2>1 DEF TypeOK
  <2> QED
    BY <2>1, <2>2 DEF Sockets
<1>3. /\ socks' \in Seq(Socket) /\ Len(socks') = Len(socks)
      /\ ws # 0 => socks'[ws].state \in {"closing", "aborted", "gone"}
      /\ \A r \in 1..Len(socks) : r # ws => socks'[r] = socks[r]
  <2>1. CASE ws = 0 \/ ~Alive(ws)
    <3>1. socks' = socks /\ socks \in Seq(Socket)
      BY <1>1, <2>1, TypeKept DEF Disconnect
    <3>2. ws # 0 => socks[ws] \in Socket
      BY <1>1, <1>2, TypeKept
    <3> QED
      BY <1>2, <2>1, <3>1, <3>2 DEF Alive, Socket
  <2>2. CASE ~(ws = 0 \/ ~Alive(ws))
    <3>1. PICK st \in {"closing", "aborted"} :
            st = IF socks[ws].state = "open" THEN "closing" ELSE "aborted"
      OBVIOUS
    <3>2. socks' = [socks EXCEPT ![ws].state = st]
      BY <2>2, <3>1 DEF Disconnect
    <3> QED
      BY <1>1, <1>2, <2>2, <3>2, SocketChanges
  <2> QED
    BY <2>1, <2>2
<1>4. /\ UNCHANGED <<timers, nextRef, bindings, calls, overlap, leaked>>
      /\ heart' = FALSE /\ closed' = TRUE /\ ws' = 0 /\ joined' = <<>> /\ pending' = {}
      /\ nameToId' = [t \in Topics |-> 0] /\ stale' = stale \cup bindings /\ closedRef' = nextRef
  BY DEF Disconnect, StopHeartbeat, ClearState
<1>5. /\ up \in [Sockets -> Seq(Frame)] /\ down \in [Sockets -> Seq(Answer)]
      /\ served \in [Sockets -> Seq(Topics)]
  BY <1>1, TypeKept DEF TypeOK
<1>6. /\ up' \in [Sockets -> Seq(Frame)] /\ down' \in [Sockets -> Seq(Answer)]
      /\ served' \in [Sockets -> Seq(Topics)]
      /\ \A r \in Sockets : r # ws => up'[r] = up[r] /\ down'[r] = down[r] /\ served'[r] = served[r]
      /\ ws # 0 => up'[ws] = <<>> /\ down'[ws] = <<>> /\ served'[ws] = <<>>
  <2>1. CASE ws = 0
    BY <1>5, <2>1 DEF Disconnect, wires
  <2>2. CASE ws # 0
    <3>1. /\ up' = [up EXCEPT ![ws] = <<>>] /\ down' = [down EXCEPT ![ws] = <<>>]
          /\ served' = [served EXCEPT ![ws] = <<>>]
      BY <2>2 DEF Disconnect, Cut
    <3> QED
      BY <1>2, <1>5, <2>2, <3>1, NothingSent, WireChanges
  <2> QED
    BY <2>1, <2>2
<1>7. TypeOK'
  <2>1. {closed, heart, leaked, overlap}' \subseteq BOOLEAN
    BY <1>1, <1>4, TypeKept, FlagsKept
  <2>2. joined' \in Seq(Topics) /\ IsInjective(joined') /\ ws' \in 0..Len(socks')
    BY <1>2, <1>3, <1>4 DEF IsInjective
  <2>3. nameToId' \in [Topics -> Nat] /\ stale' \subseteq Nat \X Topics
    BY <1>1, <1>4 DEF TypeOK
  <2> QED
    BY <1>1, <1>3, <1>4, <1>6, <2>1, <2>2, <2>3 DEF TypeOK, Socket, Frame, Answer
<1>a. \A r \in Sockets : r = ws => up'[r] = <<>> /\ down'[r] = <<>> /\ served'[r] = <<>>
  <2>1. \A r \in Sockets : r # 0
    BY DEF Sockets
  <2> QED
    BY <1>6, <2>1
<1>8. \A r \in Sockets : r # ws => (IsOpen(r)' <=> IsOpen(r))
  BY <1>3 DEF IsOpen
<1>9. Lone'
  <2>1. \A r \in Sockets : ~IsOpen(r)' => up'[r] = <<>> /\ down'[r] = <<>> /\ served'[r] = <<>>
    BY <1>1, <1>a, <1>6, <1>8 DEF Lone
  <2> QED
    BY <1>4, <2>1 DEF Lone
<1>10. \A r \in Sockets : OnWire(r)' \subseteq OnWire(r)
  BY <1>a, <1>6, RangeEmpty DEF OnWire
<1>11. Refs'
  BY <1>1, <1>4, <1>10 DEF Refs, TypeOK
<1>12. FramesMatch' /\ AnswersMatch' /\ NobodyWaits'
  BY <1>4 DEF FramesMatch, AnswersMatch, NobodyWaits
<1>13. Tracked' /\ Blank'
  BY <1>4 DEF Tracked, Blank
<1>14. ASSUME ~overlap' PROVE Single'
  <2>1. Single
    BY <1>1, <1>4, <1>14
  <2>2. \A r \in 1..Len(socks') : ~Alive(r)'
    BY <1>2, <1>3, <2>1 DEF Single, Alive
  <2>3. ~IsConnected'
    BY <1>4 DEF IsConnected, IsOpen
  <2> QED
    BY <1>4, <1>13, <2>1, <2>2, <2>3 DEF Single
<1> QED
  BY <1>7, <1>9, <1>11, <1>12, <1>13, <1>14 DEF LinkInv

\* join and push: a frame is sent if the socket is open, and a call waits.
LEMMA FrameSent ==
  ASSUME LinkInv, NEW f \in Frame, NEW c \in Waiting,
         f.ref = nextRef, c.ref = nextRef, c.kind = f.kind, c.topic = f.topic,
         up' = IF IsConnected THEN [up EXCEPT ![ws] = Append(@, f)] ELSE up,
         pending' = pending \cup {c}, nextRef' = nextRef + 1,
         UNCHANGED <<down, served, socks, ws, closed, closedRef>>
  PROVE  /\ up' \in [Sockets -> Seq(Frame)] /\ pending' \subseteq Waiting
         /\ Lone' /\ Refs' /\ FramesMatch' /\ AnswersMatch' /\ NobodyWaits'
         /\ IsConnected' <=> IsConnected
         /\ IsConnected => ws \in Sockets /\ Range(up'[ws]) = Range(up[ws]) \cup {f}
<1>a. TypeOK /\ Lone /\ Refs /\ FramesMatch /\ AnswersMatch /\ NobodyWaits
  BY DEF LinkInv
<1>1. /\ up \in [Sockets -> Seq(Frame)] /\ nextRef \in Nat /\ Len(socks) \in Nat
      /\ pending \subseteq Waiting /\ closedRef \in Nat /\ closedRef <= nextRef
  BY <1>a, TypeKept DEF TypeOK, Waiting, Refs
<1>2. /\ \A r \in Sockets : IsOpen(r)' <=> IsOpen(r)
      /\ IsConnected' <=> IsConnected
      /\ IsConnected <=> IsOpen(ws)
  BY DEF IsOpen, IsConnected
<1>3. IsConnected => ws \in Sockets
  BY <1>a, <1>1, TransportAssumption DEF IsConnected, IsOpen, TypeOK, Sockets
<1>4. IsConnected => /\ Append(up[ws], f) \in Seq(Frame)
                     /\ Range(Append(up[ws], f)) = Range(up[ws]) \cup {f}
  BY <1>1, <1>3, RangeAppend
<1>5. /\ up' \in [Sockets -> Seq(Frame)]
      /\ IsConnected => up'[ws] = Append(up[ws], f)
      /\ \A r \in Sockets : r # ws \/ ~IsConnected => up'[r] = up[r]
  <2>1. CASE IsConnected
    BY <1>1, <1>3, <1>4, <2>1, WireChanges
  <2>2. CASE ~IsConnected
    BY <1>1, <2>2
  <2> QED
    BY <2>1, <2>2
<1>6. \A r \in Sockets : ~IsOpen(r)' => up'[r] = <<>> /\ down'[r] = <<>> /\ served'[r] = <<>>
  BY <1>a, <1>2, <1>5 DEF Lone
<1>7. Lone'
  BY <1>a, <1>6 DEF Lone
<1>8. \A r \in Sockets : Range(up'[r]) \subseteq Range(up[r]) \cup {f}
  BY <1>4, <1>5
<1>9. \A r \in Sockets : OnWire(r)' \subseteq OnWire(r) \cup {nextRef}
  BY <1>8 DEF OnWire
<1>10. \A r \in Sockets : OnWire(r) \subseteq Nat /\ nextRef \notin OnWire(r)
  <2> SUFFICES ASSUME NEW r \in Sockets PROVE OnWire(r) \subseteq Nat /\ nextRef \notin OnWire(r)
    OBVIOUS
  <2>1. Range(up[r]) \subseteq Frame /\ Range(down[r]) \subseteq Answer
    BY <1>a, RangeMember, TypeKept
  <2>2. OnWire(r) \subseteq Nat
    BY <2>1 DEF OnWire, Frame, Answer
  <2>3. \A x \in OnWire(r) : x < nextRef
    BY <1>a DEF Refs
  <2> QED
    BY <1>1, <2>2, <2>3
<1>11. \A d \in pending : d.ref \in Nat /\ d.ref < nextRef /\ d.ref # nextRef
  BY <1>a, <1>1 DEF Refs, Waiting
<1>12. Refs'
  <2>2. \A d \in pending' : d.ref < nextRef'
    BY <1>1, <1>11
  <2>3. \A d, e \in pending' : d.ref = e.ref => d = e
    BY <1>a, <1>1, <1>11 DEF Refs
  <2>4. \A r \in Sockets : \A x \in OnWire(r)' : x < nextRef'
    <3> SUFFICES ASSUME NEW r \in Sockets, NEW x \in OnWire(r)' PROVE x < nextRef + 1
      OBVIOUS
    <3>1. x = nextRef \/ (x \in Nat /\ x < nextRef)
      BY <1>a, <1>9, <1>10 DEF Refs
    <3> QED
      BY <1>1, <3>1
  <2>5. closedRef' <= nextRef'
    BY <1>1
  <2> QED
    BY <2>2, <2>3, <2>4, <2>5 DEF Refs
<1>13. FramesMatch'
  <2> SUFFICES ASSUME NEW r \in Sockets, NEW g \in Range(up'[r]), NEW d \in pending', d.ref = g.ref
               PROVE  d.kind = g.kind /\ d.topic = g.topic
    BY DEF FramesMatch
  <2>1. g \in Range(up[r]) => g.ref # nextRef
    BY <1>10 DEF OnWire
  <2>2. CASE g \in Range(up[r])
    BY <1>a, <2>1, <2>2 DEF FramesMatch
  <2>3. CASE g = f
    BY <1>11, <2>3
  <2> QED
    BY <1>8, <2>2, <2>3
<1>14. AnswersMatch'
  <2>1. \A r \in Sockets : \A g \in Range(down[r]) : g.ref # nextRef
    BY <1>10 DEF OnWire
  <2> QED
    BY <1>a, <2>1 DEF AnswersMatch
<1>15. NobodyWaits'
  BY <1>a, <1>1 DEF NobodyWaits
<1> QED
  BY <1>1, <1>2, <1>3, <1>4, <1>5, <1>7, <1>12, <1>13, <1>14, <1>15

LEMMA JoinStep ==
  ASSUME LinkInv, NEW t \in Topics, Join(t)
  PROVE  LinkInv'
<1> USE TransportAssumption
<1>1. TypeOK /\ Tracked /\ (~overlap => Single)
  BY DEF LinkInv
<1>2. PICK f, c : f = JoinFrame(nextRef, t) /\ c = Call(nextRef, "join", t, TRUE)
  OBVIOUS
<1>3. /\ f \in Frame /\ f.ref = nextRef /\ f.kind = "join" /\ f.topic = t
      /\ c \in Waiting /\ c.ref = nextRef /\ c.kind = "join" /\ c.topic = t
      /\ nextRef \in Nat
  BY <1>1, <1>2 DEF TypeOK, Frame, Waiting, JoinFrame, Call
<1>4. /\ up' = IF IsConnected THEN [up EXCEPT ![ws] = Append(@, f)] ELSE up
      /\ pending' = pending \cup {c} /\ nextRef' = nextRef + 1
      /\ UNCHANGED <<socks, ws, closed, timers, heart, leaked, nameToId, bindings,
                     stale, down, served, overlap, closedRef>>
      /\ joined' = IF t \in Range(joined) THEN joined ELSE Append(joined, t)
  BY <1>2 DEF Join
<1>5. /\ up' \in [Sockets -> Seq(Frame)] /\ pending' \subseteq Waiting
      /\ Lone' /\ Refs' /\ FramesMatch' /\ AnswersMatch' /\ NobodyWaits'
      /\ IsConnected' <=> IsConnected
      /\ IsConnected => ws \in Sockets /\ Range(up'[ws]) = Range(up[ws]) \cup {f}
  BY <1>3, <1>4, FrameSent
<1>6. /\ joined' \in Seq(Topics) /\ IsInjective(joined')
      /\ Range(joined) \subseteq Range(joined')
  <2>1. joined \in Seq(Topics) /\ IsInjective(joined)
    BY <1>1 DEF TypeOK
  <2>2. PICK p : p = Append(joined, t)
    OBVIOUS
  <2>3. CASE t \notin Range(joined)
    <3>1. IsInjective(p)
      BY <2>1, <2>2, <2>3, StaysInjective
    <3>2. joined' = p
      BY <1>4, <2>2, <2>3
    <3>3. IsInjective(joined')
      BY <3>1, <3>2, Zenon
    <3> QED
      BY <2>1, <2>2, <3>2, <3>3, RangeAppend
  <2>4. CASE t \in Range(joined)
    <3>1. joined' = joined
      BY <1>4, <2>4
    <3> QED
      BY <2>1, <3>1, Zenon
  <2> QED
    BY <2>3, <2>4
<1>7. TypeOK'
  <2>1. calls' \in Nat
    BY <1>1 DEF TypeOK, Join
  <2>2. nextRef' \in Nat
    BY <1>3, <1>4
  <2> QED
    BY <1>1, <1>4, <1>5, <1>6, <2>1, <2>2 DEF TypeOK, Frame, Waiting
<1>8. Tracked'
  BY <1>1, <1>4, <1>6 DEF Tracked
<1>9. ASSUME ~overlap' PROVE Single'
  <2>1. Single
    BY <1>1, <1>4, <1>9
  <2>2. IsConnected => IdsMean' /\ PushesMean'
    BY <1>3, <1>4, <1>5, <2>1 DEF Single, IdsMean, PushesMean
  <2>3. /\ \A s \in 1..Len(socks') : Alive(s)' => s = ws'
        /\ Blank' <=> Blank
        /\ Alive(ws)' <=> Alive(ws)
    BY <1>4, <2>1 DEF Single, Alive, Blank
  <2> QED
    BY <1>4, <1>5, <2>1, <2>2, <2>3 DEF Single
<1> QED
  BY <1>5, <1>7, <1>8, <1>9 DEF LinkInv

LEMMA PushStep ==
  ASSUME LinkInv, NEW t \in Topics, Push(t)
  PROVE  LinkInv'
<1> USE TransportAssumption
<1>1. TypeOK /\ Tracked /\ (~overlap => Single)
  BY DEF LinkInv
<1>2. PICK f, c : f = PushFrame(nextRef, t, nameToId[t]) /\ c = Call(nextRef, "push", t, TRUE)
  OBVIOUS
<1>3. /\ f \in Frame /\ f.ref = nextRef /\ f.kind = "push" /\ f.topic = t /\ f.id = nameToId[t]
      /\ c \in Waiting /\ c.ref = nextRef /\ c.kind = "push" /\ c.topic = t
      /\ nextRef \in Nat /\ nameToId[t] \in Nat
  BY <1>1, <1>2 DEF TypeOK, Frame, Waiting, PushFrame, Call
<1>4. /\ up' = IF IsConnected THEN [up EXCEPT ![ws] = Append(@, f)] ELSE up
      /\ pending' = pending \cup {c} /\ nextRef' = nextRef + 1
      /\ UNCHANGED <<socks, ws, closed, timers, heart, leaked, joined, nameToId, bindings,
                     stale, down, served, overlap, closedRef>>
      /\ nameToId[t] # 0 /\ IsConnected
  BY <1>2 DEF Push
<1>5. /\ up' \in [Sockets -> Seq(Frame)] /\ pending' \subseteq Waiting
      /\ Lone' /\ Refs' /\ FramesMatch' /\ AnswersMatch' /\ NobodyWaits'
      /\ IsConnected' <=> IsConnected
      /\ ws \in Sockets /\ Range(up'[ws]) = Range(up[ws]) \cup {f}
  BY <1>3, <1>4, FrameSent
<1>6. TypeOK'
  <2>1. calls' \in Nat
    BY <1>1 DEF TypeOK, Push
  <2>2. nextRef' \in Nat
    BY <1>3, <1>4
  <2> QED
    BY <1>1, <1>4, <1>5, <2>1, <2>2 DEF TypeOK, Frame, Waiting
<1>7. Tracked'
  BY <1>1, <1>4 DEF Tracked
<1>8. ASSUME ~overlap' PROVE Single'
  <2>1. Single /\ IdsMean /\ PushesMean
    BY <1>1, <1>4, <1>8 DEF Single
  <2>2. IdsMean'
    BY <1>4, <2>1 DEF IdsMean
  <2>3. PushesMean'
    BY <1>3, <1>4, <1>5, <2>1 DEF PushesMean, IdsMean
  <2>4. /\ \A s \in 1..Len(socks') : Alive(s)' => s = ws'
        /\ Blank' <=> Blank
        /\ Alive(ws)' <=> Alive(ws)
    BY <1>4, <2>1 DEF Single, Alive, Blank
  <2> QED
    BY <1>4, <1>5, <2>1, <2>2, <2>3, <2>4 DEF Single
<1> QED
  BY <1>5, <1>6, <1>7, <1>8 DEF LinkInv

LEMMA ServeStep ==
  ASSUME LinkInv, NEW s \in 1..Len(socks), Serve(s)
  PROVE  LinkInv'
<1> USE TransportAssumption
<1>1. TypeOK /\ Lone /\ Refs /\ FramesMatch /\ AnswersMatch /\ NobodyWaits /\ Tracked /\ (~overlap => Single)
  BY DEF LinkInv
<1>2. /\ UNCHANGED <<socks, ws, closed, timers, heart, leaked, pending, nextRef, joined,
                     nameToId, bindings, stale, calls, overlap, closedRef>>
      /\ up' = [up EXCEPT ![s] = Tail(@)]
      /\ IsOpen(s) /\ up[s] # <<>>
  BY DEF Serve, client
<1>3. /\ Len(socks) \in Nat /\ up \in [Sockets -> Seq(Frame)] /\ down \in [Sockets -> Seq(Answer)]
      /\ served \in [Sockets -> Seq(Topics)] /\ s \in Sockets
  <2>1. Len(socks) \in Nat /\ up \in [Sockets -> Seq(Frame)] /\ down \in [Sockets -> Seq(Answer)]
    BY <1>1, TypeKept
  <2>2. s \in Sockets
    BY <1>1, <2>1 DEF TypeOK, Sockets
  <2> QED
    BY <1>1, <2>1, <2>2 DEF TypeOK
<1>4. PICK f, n : f = Head(up[s]) /\ n = Len(served[s])
  OBVIOUS
<1>5. /\ f \in Frame /\ f \in Range(up[s])
      /\ Tail(up[s]) \in Seq(Frame) /\ Range(Tail(up[s])) \subseteq Range(up[s])
  BY <1>2, <1>3, <1>4, RangeTail
<1>6. n \in Nat /\ served[s] \in Seq(Topics)
  BY <1>3, <1>4, LenProperties
<1>7. PICK a, q :
        /\ a \in Answer /\ a.ref = f.ref
        /\ down' = [down EXCEPT ![s] = Append(@, a)]
        /\ served' = [served EXCEPT ![s] = q]
        /\ \/ q = served[s] /\ (f.kind = "push" \/ ~a.ok)
           \/ q = Append(served[s], f.topic) /\ f.kind = "join" /\ a.id = n + 1
  <2>1. f.ref \in Nat /\ f.id \in Nat /\ f.topic \in Topics
    BY <1>5 DEF Frame
  <2>2. CASE /\ f.kind = "join"
             /\ served' = [served EXCEPT ![s] = Append(@, f.topic)]
             /\ down' = [down EXCEPT ![s] = Append(@, Reply(f.ref, n + 1, TRUE))]
    <3> WITNESS Reply(f.ref, n + 1, TRUE), Append(served[s], f.topic)
    <3> QED
      BY <2>1, <2>2, <1>6 DEF Reply, Answer
  <2>3. CASE /\ f.kind = "join"
             /\ down' = [down EXCEPT ![s] = Append(@, Reply(f.ref, 0, FALSE))]
             /\ UNCHANGED served
    <3> WITNESS Reply(f.ref, 0, FALSE), served[s]
    <3>1. served' = [served EXCEPT ![s] = served[s]]
      BY <1>3, <2>3
    <3> QED
      BY <2>1, <2>3, <3>1 DEF Reply, Answer
  <2>4. CASE /\ f.kind = "push"
             /\ down' = [down EXCEPT ![s] = Append(@, Reply(f.ref, f.id, f.id < n + 1))]
             /\ UNCHANGED served
    <3> WITNESS Reply(f.ref, f.id, f.id < n + 1), served[s]
    <3>1. served' = [served EXCEPT ![s] = served[s]]
      BY <1>3, <2>4
    <3>2. (f.id < n + 1) \in BOOLEAN
      OBVIOUS
    <3> QED
      BY <2>1, <2>4, <3>1, <3>2 DEF Reply, Answer
  <2> QED
    BY <1>4, <2>2, <2>3, <2>4 DEF Serve
<1>8. /\ q \in Seq(Topics) /\ Len(q) \in Nat /\ n <= Len(q)
      /\ \A i \in 1..n : q[i] = served[s][i]
      /\ q # served[s] => Len(q) = n + 1 /\ q[n + 1] = f.topic
  <2>1. f.topic \in Topics
    BY <1>5 DEF Frame
  <2>2. CASE q = served[s]
    BY <1>4, <1>6, <2>2
  <2>3. CASE q = Append(served[s], f.topic)
    BY <1>4, <1>6, <2>1, <2>3, AppendProperties
  <2> QED
    BY <1>7, <2>2, <2>3
<1>9. Append(down[s], a) \in Seq(Answer) /\ Range(Append(down[s], a)) = Range(down[s]) \cup {a}
  BY <1>3, <1>7, RangeAppend
<1>10. /\ up' \in [Sockets -> Seq(Frame)] /\ up'[s] = Tail(up[s])
       /\ \A r \in Sockets : r # s => up'[r] = up[r]
  BY <1>2, <1>3, <1>5, WireChanges
<1>11. /\ down' \in [Sockets -> Seq(Answer)] /\ down'[s] = Append(down[s], a)
       /\ \A r \in Sockets : r # s => down'[r] = down[r]
  BY <1>3, <1>7, <1>9, WireChanges
<1>12. /\ served' \in [Sockets -> Seq(Topics)] /\ served'[s] = q
       /\ \A r \in Sockets : r # s => served'[r] = served[r]
  BY <1>3, <1>7, <1>8, WireChanges
<1>13. TypeOK'
  BY <1>1, <1>2, <1>10, <1>11, <1>12 DEF TypeOK, Frame, Answer
<1>14. \A r \in Sockets : IsOpen(r)' <=> IsOpen(r)
  BY <1>2 DEF IsOpen
<1>15. Lone'
  <2>1. \A r \in Sockets : ~IsOpen(r)' => up'[r] = <<>> /\ down'[r] = <<>> /\ served'[r] = <<>>
    BY <1>1, <1>2, <1>10, <1>11, <1>12, <1>14 DEF Lone
  <2> QED
    BY <1>1, <1>2, <2>1 DEF Lone
<1>17. \A r \in Sockets : OnWire(r)' \subseteq OnWire(r)
  <2> SUFFICES ASSUME NEW r \in Sockets PROVE OnWire(r)' \subseteq OnWire(r)
    OBVIOUS
  <2>1. CASE r = s
    BY <1>5, <1>7, <1>9, <1>10, <1>11, <2>1 DEF OnWire
  <2>2. CASE r # s
    BY <1>10, <1>11, <2>2 DEF OnWire
  <2> QED
    BY <2>1, <2>2
<1>18. Refs'
  BY <1>1, <1>2, <1>17 DEF Refs
<1>19. \A r \in Sockets : Range(up'[r]) \subseteq Range(up[r])
  BY <1>5, <1>10
<1>20. FramesMatch' /\ NobodyWaits' /\ Tracked'
  BY <1>1, <1>2, <1>19 DEF FramesMatch, NobodyWaits, Tracked
<1>21. AnswersMatch'
  <2> SUFFICES ASSUME NEW r \in Sockets, NEW g \in Range(down'[r]), NEW c \in pending,
                      c.ref = g.ref, c.kind = "join", g.ok
               PROVE  g.id \in 1..Len(served'[r]) /\ served'[r][g.id] = c.topic
    BY <1>2 DEF AnswersMatch
  <2>1. CASE r # s
    <3>1. down'[r] = down[r] /\ served'[r] = served[r]
      BY <1>11, <1>12, <2>1
    <3>2. g \in Range(down[r])
      BY <3>1
    <3> QED
      BY <1>1, <3>1, <3>2 DEF AnswersMatch
  <2>2. CASE r = s /\ g \in Range(down[s])
    <3>1. g.id \in 1..n /\ served[s][g.id] = c.topic
      BY <1>1, <1>3, <1>4, <2>2 DEF AnswersMatch
    <3> QED
      BY <3>1, <1>6, <1>8, <1>12, <2>2
  <2>3. CASE r = s /\ g = a
    <3>1. c.kind = f.kind /\ c.topic = f.topic
      BY <1>1, <1>3, <1>5, <1>7, <2>3 DEF FramesMatch
    <3>2. q = Append(served[s], f.topic) /\ a.id = n + 1
      BY <1>7, <2>3, <3>1
    <3>3. Len(q) = n + 1 /\ q[n + 1] = f.topic
      <4>1. f.topic \in Topics
        BY <1>5 DEF Frame
      <4> QED
        BY <1>4, <1>6, <3>2, <4>1, AppendProperties
    <3> QED
      BY <1>6, <1>12, <2>3, <3>1, <3>2, <3>3
  <2>4. r = s => g \in Range(down[s]) \/ g = a
    <3>1. r = s => g \in Range(down[s]) \cup {a}
      BY <1>9, <1>11
    <3> QED
      BY <3>1
  <2> QED
    BY <2>1, <2>2, <2>3, <2>4
<1>22. ASSUME ~overlap' PROVE Single'
  <2>1. Single /\ s = ws
    BY <1>1, <1>2, <1>22 DEF Single, IsOpen, Alive
  <2>2. IsConnected' /\ IsConnected /\ IdsMean /\ PushesMean
    BY <1>2, <2>1 DEF Single, IsConnected, IsOpen
  <2>3. \A i \in 1..n : i \in 1..Len(q) /\ q[i] = served[s][i]
    BY <1>6, <1>8
  <2>4. IdsMean'
    BY <1>2, <1>4, <1>12, <2>1, <2>2, <2>3 DEF IdsMean
  <2>5. PushesMean'
    BY <1>2, <1>3, <1>4, <1>12, <1>19, <2>1, <2>2, <2>3 DEF PushesMean
  <2>6. /\ \A r \in 1..Len(socks') : Alive(r)' => r = ws'
        /\ Blank' <=> Blank
        /\ Alive(ws)' <=> Alive(ws)
    BY <1>2, <2>1 DEF Single, Alive, Blank
  <2> QED
    BY <1>2, <2>1, <2>2, <2>4, <2>5, <2>6 DEF Single
<1> QED
  BY <1>13, <1>15, <1>18, <1>20, <1>21, <1>22 DEF LinkInv

\* What an answer leaves in the maps.
LEMMA AnswerKeeps ==
  ASSUME LinkInv, NEW s \in Sockets, NEW f \in Range(down[s]), f \in Answer,
         NEW c \in pending, c.ref = f.ref, HandleReply(s, c, f)
  PROVE  /\ nameToId' \in [Topics -> Nat] /\ bindings' \subseteq Nat \X Topics
         /\ stale' \subseteq Nat \X Topics
         /\ joined' \in Seq(Topics) /\ IsInjective(joined')
         /\ pending' \subseteq pending
         /\ Tracked'
         /\ \A t \in Topics : nameToId'[t] # 0 /\ <<nameToId'[t], t>> \notin stale' =>
              \/ nameToId'[t] = nameToId[t] /\ <<nameToId[t], t>> \notin stale
              \/ nameToId'[t] \in 1..Len(served[s]) /\ served[s][nameToId'[t]] = t
         /\ \A i \in Nat, t \in Topics : <<i, t>> \in stale =>
              \/ <<i, t>> \in stale'
              \/ i \in 1..Len(served[s]) /\ served[s][i] = t
<1>1. TypeOK /\ Tracked /\ AnswersMatch
  BY DEF LinkInv
<1>2. /\ nameToId \in [Topics -> Nat] /\ bindings \subseteq Nat \X Topics /\ stale \subseteq Nat \X Topics
      /\ joined \in Seq(Topics) /\ IsInjective(joined) /\ c.topic \in Topics /\ f.id \in Nat
      /\ served \in [Sockets -> Seq(Topics)] /\ c.kind \in {"join", "push"}
  BY <1>1 DEF TypeOK, Answer
<1>3. PICK t, i : t = c.topic /\ i = nameToId[c.topic]
  OBVIOUS
<1>4. t \in Topics /\ i \in Nat /\ nameToId[t] = i /\ pending' = pending \ {c}
  BY <1>2, <1>3 DEF HandleReply
<1>5. \A b \in bindings : b = <<b[1], b[2]>> /\ b[1] \in Nat /\ b[2] \in Topics
  BY <1>2
<1>6. \A b \in bindings : b \notin stale /\ b # <<i, t>> =>
        b[1] # 0 /\ nameToId[b[2]] = b[1] /\ b[2] \in Range(joined) /\ b[2] # t
  BY <1>1, <1>4, <1>5 DEF Tracked
<1>7. \A u \in Topics : nameToId[u] # 0 /\ <<nameToId[u], u>> \notin stale => u \in Range(joined)
  BY <1>1 DEF Tracked
<1>8. CASE c.kind # "join"
  <2>1. UNCHANGED <<nameToId, bindings, joined, stale>>
    BY <1>8 DEF HandleReply
  <2>2. Tracked'
    BY <1>1, <2>1 DEF Tracked
  <2>3. joined' \in Seq(Topics) /\ IsInjective(joined')
    BY <1>2, <2>1, Zenon
  <2> QED
    BY <1>2, <1>4, <2>1, <2>2, <2>3
<1>9. CASE c.kind = "join" /\ f.ok
  <2>1. /\ nameToId' = [nameToId EXCEPT ![t] = f.id] /\ joined' = joined
        /\ bindings' \subseteq bindings \cup {<<f.id, t>>}
    BY <1>3, <1>9 DEF HandleReply
  <2>2. nameToId'[t] = f.id /\ \A u \in Topics : u # t => nameToId'[u] = nameToId[u]
    BY <1>2, <1>4, <2>1
  <2>3. /\ stale' \subseteq stale \cup {<<i, t>>, <<f.id, t>>}
        /\ \A b : b \in stale \cup {<<i, t>>} /\ b # <<f.id, t>> => b \in stale'
        /\ t \notin Range(joined) => <<f.id, t>> \in stale'
    BY <1>3, <1>9, <2>1, <2>2 DEF HandleReply, LeftBehind
  <2>4. f.id \in 1..Len(served[s]) /\ served[s][f.id] = t
    BY <1>1, <1>3, <1>9 DEF AnswersMatch
  <2>5. f.id # 0
    BY <2>4, <1>2
  <2>6. joined' \in Seq(Topics) /\ IsInjective(joined')
    BY <1>2, <2>1, Zenon
  <2>7. nameToId' \in [Topics -> Nat] /\ bindings' \subseteq Nat \X Topics /\ stale' \subseteq Nat \X Topics
    BY <1>2, <1>4, <2>1, <2>3
  <2>8. ASSUME NEW b \in bindings', b \notin stale'
        PROVE  b[1] # 0 /\ nameToId'[b[2]] = b[1] /\ b[2] \in Range(joined')
    <3>1. CASE b = <<f.id, t>>
      BY <2>1, <2>2, <2>3, <2>5, <2>8, <3>1
    <3>2. CASE b # <<f.id, t>>
      <4>1. b \in bindings /\ b \notin stale /\ b # <<i, t>>
        BY <2>1, <2>3, <2>8, <3>2
      <4> QED
        BY <1>5, <1>6, <2>1, <2>2, <4>1
    <3> QED
      BY <3>1, <3>2
  <2>9. ASSUME NEW u \in Topics, nameToId'[u] # 0, <<nameToId'[u], u>> \notin stale'
        PROVE  /\ u \in Range(joined')
               /\ \/ nameToId'[u] = nameToId[u] /\ <<nameToId[u], u>> \notin stale
                  \/ nameToId'[u] \in 1..Len(served[s]) /\ served[s][nameToId'[u]] = u
    <3>1. CASE u = t
      BY <2>1, <2>2, <2>3, <2>4, <2>9, <3>1
    <3>2. CASE u # t
      <4>1. nameToId'[u] = nameToId[u] /\ <<nameToId[u], u>> # <<f.id, t>>
        BY <2>2, <3>2
      <4>2. <<nameToId[u], u>> \notin stale
        BY <2>3, <2>9, <4>1
      <4> QED
        BY <1>7, <2>1, <2>9, <4>1, <4>2
    <3> QED
      BY <3>1, <3>2
  <2>10. Tracked'
    BY <2>8, <2>9 DEF Tracked
  <2>11. ASSUME NEW j \in Nat, NEW u \in Topics, <<j, u>> \in stale
         PROVE  <<j, u>> \in stale' \/ (j \in 1..Len(served[s]) /\ served[s][j] = u)
    <3>1. CASE <<j, u>> = <<f.id, t>>
      BY <2>4, <3>1
    <3>2. CASE <<j, u>> # <<f.id, t>>
      BY <2>3, <2>11, <3>2
    <3> QED
      BY <3>1, <3>2
  <2> QED
    BY <1>4, <2>6, <2>7, <2>9, <2>10, <2>11
<1>10. CASE c.kind = "join" /\ ~f.ok
  <2>1. nameToId' = nameToId /\ bindings' = bindings /\ joined' = Without(joined, t)
    BY <1>3, <1>10 DEF HandleReply
  <2>2. PICK w : w = Without(joined, t)
    OBVIOUS
  <2>3. w \in Seq(Topics) /\ IsInjective(w) /\ Range(w) = Range(joined) \ {t}
    BY <1>2, <2>2, WithoutKeeps
  <2>4. joined' = w
    BY <2>1, <2>2
  <2>5. joined' \in Seq(Topics) /\ IsInjective(joined') /\ Range(joined') = Range(joined) \ {t}
    BY <2>3, <2>4, Zenon
  <2>6. stale' = stale \cup {<<i, t>>}
    BY <1>3, <1>10, <2>1, <2>5 DEF HandleReply, LeftBehind
  <2>7. \A b \in bindings' : b \notin stale' =>
          b[1] # 0 /\ nameToId'[b[2]] = b[1] /\ b[2] \in Range(joined')
    BY <1>6, <2>1, <2>5, <2>6
  <2>8. \A u \in Topics : nameToId'[u] # 0 /\ <<nameToId'[u], u>> \notin stale' =>
          u \in Range(joined') /\ <<nameToId[u], u>> \notin stale
    BY <1>4, <1>7, <2>1, <2>5, <2>6
  <2>9. Tracked'
    BY <2>7, <2>8 DEF Tracked
  <2> QED
    BY <1>2, <1>4, <2>1, <2>5, <2>6, <2>8, <2>9
<1> QED
  BY <1>8, <1>9, <1>10

LEMMA HandleMessageStep ==
  ASSUME LinkInv, NEW s \in 1..Len(socks), HandleMessage(s)
  PROVE  LinkInv'
<1> USE TransportAssumption
<1>1. TypeOK /\ Lone /\ Refs /\ FramesMatch /\ AnswersMatch /\ NobodyWaits /\ Tracked /\ (~overlap => Single)
  BY DEF LinkInv
<1>2. /\ UNCHANGED <<socks, ws, closed, timers, heart, leaked, nextRef, up, served, calls, overlap,
                     closedRef>>
      /\ down' = [down EXCEPT ![s] = Tail(@)]
      /\ IsOpen(s) /\ down[s] # <<>>
  BY DEF HandleMessage
<1>3. /\ Len(socks) \in Nat /\ down \in [Sockets -> Seq(Answer)] /\ s \in Sockets
      /\ up \in [Sockets -> Seq(Frame)]
  <2>1. /\ Len(socks) \in Nat /\ down \in [Sockets -> Seq(Answer)]
        /\ up \in [Sockets -> Seq(Frame)]
    BY <1>1, TypeKept
  <2>2. s \in Sockets
    BY <1>1, <2>1 DEF TypeOK, Sockets
  <2> QED
    BY <2>1, <2>2
<1>4. PICK f : f = Head(down[s])
  OBVIOUS
<1>5. /\ f \in Answer /\ f \in Range(down[s])
      /\ Tail(down[s]) \in Seq(Answer) /\ Range(Tail(down[s])) \subseteq Range(down[s])
  BY <1>2, <1>3, <1>4, RangeTail
<1>6. /\ down' \in [Sockets -> Seq(Answer)] /\ down'[s] = Tail(down[s])
      /\ \A r \in Sockets : r # s => down'[r] = down[r]
  BY <1>2, <1>3, <1>5, WireChanges
<1>7. \/ \E c \in pending : c.ref = f.ref /\ HandleReply(s, c, f)
      \/ UNCHANGED <<pending, nameToId, bindings, joined, stale>>
  BY <1>4 DEF HandleMessage
<1>8. /\ nameToId' \in [Topics -> Nat] /\ bindings' \subseteq Nat \X Topics
      /\ stale' \subseteq Nat \X Topics
      /\ joined' \in Seq(Topics) /\ IsInjective(joined')
      /\ pending' \subseteq pending
      /\ Tracked'
      /\ \A t \in Topics : nameToId'[t] # 0 /\ <<nameToId'[t], t>> \notin stale' =>
           \/ nameToId'[t] = nameToId[t] /\ <<nameToId[t], t>> \notin stale
           \/ nameToId'[t] \in 1..Len(served[s]) /\ served[s][nameToId'[t]] = t
      /\ \A i \in Nat, t \in Topics : <<i, t>> \in stale =>
           \/ <<i, t>> \in stale'
           \/ i \in 1..Len(served[s]) /\ served[s][i] = t
  <2>1. CASE UNCHANGED <<pending, nameToId, bindings, joined, stale>>
    <3>1. joined' \in Seq(Topics) /\ IsInjective(joined')
      BY <1>1, <2>1 DEF TypeOK
    <3>2. Tracked'
      BY <1>1, <2>1 DEF Tracked
    <3> QED
      BY <1>1, <2>1, <3>1, <3>2 DEF TypeOK
  <2>2. CASE \E c \in pending : c.ref = f.ref /\ HandleReply(s, c, f)
    <3>1. PICK c \in pending : c.ref = f.ref /\ HandleReply(s, c, f)
      BY <2>2
    <3> QED
      BY <1>3, <1>5, <3>1, AnswerKeeps
  <2> QED
    BY <1>7, <2>1, <2>2
<1>9. TypeOK'
  BY <1>1, <1>2, <1>6, <1>8 DEF TypeOK, Answer
<1>10. \A r \in Sockets : IsOpen(r)' <=> IsOpen(r)
  BY <1>2 DEF IsOpen
<1>11. Lone'
  <2>1. \A r \in Sockets : ~IsOpen(r)' => up'[r] = <<>> /\ down'[r] = <<>> /\ served'[r] = <<>>
    BY <1>1, <1>2, <1>6, <1>10 DEF Lone
  <2> QED
    BY <1>1, <1>2, <2>1 DEF Lone
<1>12. \A r \in Sockets : Range(down'[r]) \subseteq Range(down[r])
  BY <1>5, <1>6
<1>13. \A r \in Sockets : OnWire(r)' \subseteq OnWire(r)
  BY <1>2, <1>12 DEF OnWire
<1>14. Refs' /\ NobodyWaits'
  BY <1>1, <1>2, <1>8, <1>13 DEF Refs, NobodyWaits
<1>15. FramesMatch'
  BY <1>1, <1>2, <1>8 DEF FramesMatch
<1>16. AnswersMatch'
  <2> SUFFICES ASSUME NEW r \in Sockets, NEW g \in Range(down'[r]), NEW c \in pending',
                      c.ref = g.ref, c.kind = "join", g.ok
               PROVE  g.id \in 1..Len(served[r]) /\ served[r][g.id] = c.topic
    BY <1>2 DEF AnswersMatch
  <2>1. g \in Range(down[r]) /\ c \in pending
    BY <1>8, <1>12
  <2> QED
    BY <1>1, <2>1 DEF AnswersMatch
<1>17. ASSUME ~overlap' PROVE Single'
  <2>1. Single /\ s = ws
    BY <1>1, <1>2, <1>17 DEF Single, IsOpen, Alive
  <2>2. IsConnected' /\ IsConnected /\ IdsMean /\ PushesMean
    BY <1>2, <2>1 DEF Single, IsConnected, IsOpen
  <2>3. ~closed /\ socks # <<>> /\ socks[ws].state = "open"
    BY <1>1, <1>2, <1>3, <2>1 DEF Lone, IsOpen
  <2>4. IdsMean'
    BY <1>2, <1>8, <2>1, <2>2 DEF IdsMean
  <2>5. PushesMean'
    <3> SUFFICES ASSUME NEW g \in Range(up[ws]), g.kind = "push", <<g.id, g.topic>> \notin stale'
                 PROVE  g.id \in 1..Len(served[ws]) /\ served[ws][g.id] = g.topic
      BY <1>2 DEF PushesMean
    <3>1. g \in Frame
      BY <1>3, <2>1, RangeMember
    <3>2. g.id \in Nat /\ g.topic \in Topics
      BY <3>1 DEF Frame
    <3> QED
      BY <1>8, <2>1, <2>2, <3>2 DEF PushesMean
  <2>6. (\A r \in 1..Len(socks') : Alive(r)' => r = ws') /\ (Alive(ws)' <=> Alive(ws))
    BY <1>2, <2>1 DEF Single, Alive
  <2> QED
    BY <1>2, <2>1, <2>2, <2>3, <2>4, <2>5, <2>6 DEF Single
<1> QED
  BY <1>8, <1>9, <1>11, <1>14, <1>15, <1>16, <1>17 DEF LinkInv

\* The joins that a reconnect sends.
Rejoins == [k \in 1..Len(joined) |-> JoinFrame(nextRef + k - 1, joined[k])]

LEMMA RejoinsMean ==
  ASSUME TypeOK
  PROVE  /\ Rejoins \in Seq(Frame)
         /\ \A g \in Range(Rejoins) :
              /\ g.kind = "join" /\ g.topic \in Range(joined)
              /\ g.ref \in Nat /\ nextRef <= g.ref /\ g.ref < nextRef + Len(joined)
         /\ \A g, h \in Range(Rejoins) : g.ref = h.ref \/ g.topic = h.topic => g = h
<1>1. /\ Len(joined) \in Nat /\ DOMAIN joined = 1..Len(joined) /\ nextRef \in Nat
      /\ IsInjective(joined) /\ joined \in Seq(Topics)
  BY TypeKept DEF TypeOK
<1>2. \A k \in 1..Len(joined) : joined[k] \in Topics /\ joined[k] \in Range(joined)
  BY <1>1, ElementOfSeq, RangeMember
<1>3. \A k \in 1..Len(joined) :
        /\ Rejoins[k] \in Frame /\ Rejoins[k].kind = "join" /\ Rejoins[k].topic = joined[k]
        /\ Rejoins[k].ref = nextRef + k - 1
  BY <1>1, <1>2 DEF Rejoins, JoinFrame, Frame
<1>4. DOMAIN Rejoins = 1..Len(joined)
  BY DEF Rejoins
<1>5. Rejoins \in [1..Len(joined) -> Frame]
  BY <1>3 DEF Rejoins
<1>6. Rejoins \in Seq(Frame)
  BY <1>1, <1>5, IsASeq
<1>7. \A g \in Range(Rejoins) : \E k \in 1..Len(joined) : Rejoins[k] = g
  BY <1>4 DEF Range
<1>8. ASSUME NEW g \in Range(Rejoins)
      PROVE  /\ g.kind = "join" /\ g.topic \in Range(joined)
             /\ g.ref \in Nat /\ nextRef <= g.ref /\ g.ref < nextRef + Len(joined)
  <2>1. PICK k \in 1..Len(joined) : Rejoins[k] = g
    BY <1>7
  <2>2. g.kind = "join" /\ g.topic = joined[k] /\ g.ref = nextRef + k - 1
    BY <1>3, <2>1
  <2> QED
    BY <1>1, <1>2, <2>2
<1>9. ASSUME NEW g \in Range(Rejoins), NEW h \in Range(Rejoins), g.ref = h.ref \/ g.topic = h.topic
      PROVE  g = h
  <2>1. PICK k \in 1..Len(joined) : Rejoins[k] = g
    BY <1>7
  <2>2. PICK l \in 1..Len(joined) : Rejoins[l] = h
    BY <1>7
  <2>3. /\ g.topic = joined[k] /\ g.ref = nextRef + k - 1
        /\ h.topic = joined[l] /\ h.ref = nextRef + l - 1
    BY <1>3, <2>1, <2>2
  <2>4. k = l
    BY <1>1, <1>9, <2>3 DEF IsInjective
  <2> QED
    BY <2>1, <2>2, <2>4
<1> QED
  BY <1>6, <1>8, <1>9

LEMMA OnOpenStep ==
  ASSUME LinkInv, NEW s \in 1..Len(socks), OnOpen(s)
  PROVE  LinkInv'
<1> USE TransportAssumption
<1>1. TypeOK /\ Lone /\ Refs /\ FramesMatch /\ AnswersMatch /\ NobodyWaits /\ Tracked /\ (~overlap => Single)
  BY DEF LinkInv
<1>2. /\ socks' \in Seq(Socket) /\ Len(socks') = Len(socks) /\ Len(socks) \in Nat
      /\ socks'[s].state = "open"
      /\ \A r \in 1..Len(socks) : r # s => socks'[r] = socks[r]
      /\ \A r \in 1..Len(socks) : socks'[r].auto = socks[r].auto
  BY <1>1, SocketChanges, TypeKept DEF OnOpen
<1>3. /\ UNCHANGED <<ws, closed, timers, joined, stale, down, served, calls, overlap, closedRef>>
      /\ heart' = TRUE /\ leaked' = (leaked \/ heart)
      /\ socks[s].state = "connecting"
      /\ (socks[s].auto /\ Rejoin) \/ (~socks[s].auto /\ UNCHANGED <<pending, nextRef, nameToId, bindings, up>>)
  BY DEF OnOpen, StartHeartbeat
<1>4. PICK js : js = Rejoins
  OBVIOUS
<1>5. /\ js \in Seq(Frame)
      /\ \A g \in Range(js) :
           /\ g.kind = "join" /\ g.topic \in Range(joined)
           /\ g.ref \in Nat /\ nextRef <= g.ref /\ g.ref < nextRef + Len(joined)
      /\ \A g, h \in Range(js) : g.ref = h.ref \/ g.topic = h.topic => g = h
  BY <1>1, <1>4, RejoinsMean
<1>6. /\ up \in [Sockets -> Seq(Frame)] /\ nextRef \in Nat /\ Len(joined) \in Nat
      /\ nameToId \in [Topics -> Nat] /\ pending \subseteq Waiting /\ ws \in Nat
      /\ down \in [Sockets -> Seq(Answer)] /\ bindings \subseteq Nat \X Topics
      /\ joined \in Seq(Topics) /\ closedRef \in Nat /\ closedRef <= nextRef
  BY <1>1, TypeKept DEF TypeOK, Waiting, Refs
<1>7. ASSUME socks[s].auto
      PROVE  /\ nameToId' = [t \in Topics |-> IF t \in Range(joined) THEN 0 ELSE nameToId[t]]
             /\ bindings' = {b \in bindings : \A t \in Range(joined) : nameToId[t] # b[1]}
             /\ pending' = pending \cup {Call(g.ref, "join", g.topic, FALSE) : g \in Range(js)}
             /\ nextRef' = nextRef + Len(joined)
             /\ up' = IF ws # 0 /\ socks'[ws].state = "open"
                      THEN [up EXCEPT ![ws] = @ \o js] ELSE up
  BY <1>3, <1>4, <1>7 DEF Rejoin, ClearOldMapping, Rejoins
<1>8. /\ up' \in [Sockets -> Seq(Frame)]
      /\ \A r \in Sockets : r # ws \/ ~IsOpen(ws)' => up'[r] = up[r]
      /\ \A r \in Sockets : Range(up'[r]) \subseteq Range(up[r]) \cup Range(js)
      /\ ~socks[s].auto => up' = up
  <2>1. CASE up' = up
    BY <1>6, <2>1
  <2>2. CASE up' # up
    <3>1. ws # 0 /\ socks'[ws].state = "open" /\ up' = [up EXCEPT ![ws] = @ \o js] /\ socks[s].auto
      BY <1>3, <1>7, <2>2
    <3>2. ws \in Sockets /\ ws \in 1..Len(socks)
      <4>1. ws <= Len(socks) /\ Len(socks) <= MaxSockets
        BY <1>1, <1>2 DEF TypeOK
      <4> QED
        BY <1>2, <1>6, <3>1, <4>1 DEF Sockets
    <3>3. up[ws] \o js \in Seq(Frame) /\ Range(up[ws] \o js) \subseteq Range(up[ws]) \cup Range(js)
      BY <1>5, <1>6, <3>2, RangeConcat
    <3>4. PICK w : w = up[ws] \o js
      OBVIOUS
    <3>5. /\ up' \in [Sockets -> Seq(Frame)] /\ up'[ws] = w
          /\ \A r \in Sockets : r # ws => up'[r] = up[r]
      BY <1>6, <3>1, <3>2, <3>3, <3>4, WireChanges
    <3>6. IsOpen(ws)'
      BY <1>2, <1>3, <3>1, <3>2 DEF IsOpen
    <3> QED
      BY <3>1, <3>3, <3>4, <3>5, <3>6
  <2> QED
    BY <2>1, <2>2
<1>9. /\ \A c \in pending' : c \in pending \/ \E g \in Range(js) : c = Call(g.ref, "join", g.topic, FALSE)
      /\ nextRef' \in Nat /\ nextRef <= nextRef' /\ nameToId' \in [Topics -> Nat]
      /\ bindings' \subseteq bindings
      /\ joined = <<>> => pending' = pending
      /\ socks[s].auto => nextRef' = nextRef + Len(joined)
      /\ ~socks[s].auto => pending' = pending /\ nextRef' = nextRef /\ nameToId' = nameToId /\ bindings' = bindings
  <2>1. CASE ~socks[s].auto
    <3>1. UNCHANGED <<pending, nextRef, nameToId, bindings>>
      BY <1>3, <2>1
    <3>2. nextRef <= nextRef'
      BY <1>6, <3>1
    <3> QED
      BY <1>6, <2>1, <3>1, <3>2
  <2>2. CASE socks[s].auto
    <3>1. joined = <<>> => Range(js) = {}
      BY <1>5, RangeEmpty
    <3>2. nextRef' \in Nat /\ nextRef <= nextRef' /\ nextRef' = nextRef + Len(joined)
      BY <1>6, <1>7, <2>2
    <3>3. nameToId' \in [Topics -> Nat] /\ bindings' \subseteq bindings
      BY <1>6, <1>7, <2>2
    <3> QED
      BY <1>7, <2>2, <3>1, <3>2, <3>3
  <2> QED
    BY <2>1, <2>2
<1>10. ASSUME NEW c, NEW g \in Range(js), c = Call(g.ref, "join", g.topic, FALSE)
       PROVE  c \in Waiting /\ c.ref = g.ref /\ c.topic = g.topic /\ c.kind = "join"
  <2>1. g.ref \in Nat /\ g.topic \in Topics
    BY <1>5, <1>6, RangeMember
  <2> QED
    BY <1>10, <2>1 DEF Call, Waiting
<1>a. ASSUME NEW c \in pending', c \notin pending
      PROVE  /\ c \in Waiting /\ c.kind = "join"
             /\ \E g \in Range(js) : /\ c = Call(g.ref, "join", g.topic, FALSE)
                                     /\ c.ref = g.ref /\ c.topic = g.topic
  <2>1. PICK g \in Range(js) : c = Call(g.ref, "join", g.topic, FALSE)
    BY <1>9, <1>a
  <2>2. c \in Waiting /\ c.ref = g.ref /\ c.topic = g.topic /\ c.kind = "join"
    BY <1>10, <2>1
  <2> QED
    BY <2>1, <2>2
<1>11. TypeOK'
  <2>1. {closed, heart, leaked, overlap}' \subseteq BOOLEAN
    BY <1>1, <1>3, TypeKept, FlagsKept
  <2>2. pending' \subseteq Waiting
    BY <1>6, <1>a
  <2> QED
    BY <1>1, <1>2, <1>3, <1>8, <1>9, <2>1, <2>2 DEF TypeOK, Socket, Frame, Waiting
<1>12. \A r \in Sockets : /\ r # s => (IsOpen(r)' <=> IsOpen(r))
                          /\ r = s => IsOpen(r)'
  BY <1>2 DEF IsOpen
<1>13. Lone'
  <2>1. \A r \in Sockets : ~IsOpen(r)' => up'[r] = <<>> /\ down'[r] = <<>> /\ served'[r] = <<>>
    BY <1>1, <1>3, <1>8, <1>12 DEF Lone
  <2>2. socks # <<>>
    BY <1>2
  <2> QED
    BY <1>1, <1>2, <1>3, <2>1, <2>2 DEF Lone
<1>15. \A r \in Sockets : OnWire(r)' \subseteq OnWire(r) \cup {g.ref : g \in Range(js)}
  BY <1>3, <1>8 DEF OnWire
<1>16. \A r \in Sockets : OnWire(r) \subseteq Nat
  <2> SUFFICES ASSUME NEW r \in Sockets PROVE OnWire(r) \subseteq Nat
    OBVIOUS
  <2>1. Range(up[r]) \subseteq Frame /\ Range(down[r]) \subseteq Answer
    BY <1>6, RangeMember
  <2> QED
    BY <2>1 DEF OnWire, Frame, Answer
<1>17. \A c \in pending : c.ref \in Nat /\ c.ref < nextRef
  BY <1>1, <1>6 DEF Refs, Waiting
<1>18. Refs'
  <2>1. CASE ~socks[s].auto
    BY <1>1, <1>3, <1>8, <1>9, <2>1 DEF Refs, OnWire
  <2>2. CASE socks[s].auto
    <3>1. \A c \in pending' : c.ref < nextRef'
      <4> SUFFICES ASSUME NEW c \in pending' PROVE c.ref < nextRef'
        OBVIOUS
      <4>1. CASE c \in pending
        BY <1>6, <1>9, <1>17, <4>1
      <4>2. CASE c \notin pending
        <5>1. PICK g \in Range(js) : c.ref = g.ref
          BY <1>a, <4>2
        <5> QED
          BY <1>5, <1>9, <2>2, <5>1
      <4> QED
        BY <4>1, <4>2
    <3>2. ASSUME NEW c \in pending', NEW d \in pending', c.ref = d.ref PROVE c = d
      <4>1. CASE c \in pending /\ d \in pending
        BY <1>1, <3>2, <4>1 DEF Refs
      <4>2. CASE c \in pending /\ d \notin pending
        <5>1. PICK g \in Range(js) : d.ref = g.ref
          BY <1>a, <4>2
        <5> QED
          BY <1>5, <1>6, <1>17, <3>2, <4>2, <5>1
      <4>3. CASE c \notin pending /\ d \in pending
        <5>1. PICK g \in Range(js) : c.ref = g.ref
          BY <1>a, <4>3
        <5>2. d.ref \in Nat /\ d.ref < nextRef /\ nextRef <= d.ref
          BY <1>5, <1>17, <3>2, <4>3, <5>1
        <5> QED
          BY <1>6, <5>2
      <4>4. CASE c \notin pending /\ d \notin pending
        <5>1. PICK g \in Range(js) : c = Call(g.ref, "join", g.topic, FALSE) /\ c.ref = g.ref
          BY <1>a, <4>4
        <5>2. PICK h \in Range(js) : d = Call(h.ref, "join", h.topic, FALSE) /\ d.ref = h.ref
          BY <1>a, <4>4
        <5>3. g = h
          BY <1>5, <3>2, <5>1, <5>2
        <5> QED
          BY <5>1, <5>2, <5>3
      <4> QED
        BY <4>1, <4>2, <4>3, <4>4
    <3>3. \A r \in Sockets : \A x \in OnWire(r)' : x < nextRef'
      <4> SUFFICES ASSUME NEW r \in Sockets, NEW x \in OnWire(r)' PROVE x < nextRef'
        OBVIOUS
      <4>1. (x \in Nat /\ x < nextRef) \/ \E g \in Range(js) : x = g.ref
        BY <1>1, <1>15, <1>16 DEF Refs
      <4> QED
        BY <1>5, <1>6, <1>9, <2>2, <4>1
    <3>4. closedRef' <= nextRef'
      BY <1>3, <1>6, <1>9
    <3> QED
      BY <3>1, <3>2, <3>3, <3>4 DEF Refs
  <2> QED
    BY <2>1, <2>2
<1>19. \A r \in Sockets : \A x \in OnWire(r) : x \in Nat /\ x < nextRef
  BY <1>1, <1>16 DEF Refs
<1>20. FramesMatch'
  <2> SUFFICES ASSUME NEW r \in Sockets, NEW g \in Range(up'[r]), NEW c \in pending', c.ref = g.ref
               PROVE  c.kind = g.kind /\ c.topic = g.topic
    BY DEF FramesMatch
  <2>1. CASE g \in Range(up[r])
    <3>1. g.ref \in Nat /\ g.ref < nextRef
      BY <1>19, <2>1 DEF OnWire
    <3>2. c \in pending
      <4>1. c \notin pending => \E h \in Range(js) : c.ref = h.ref
        BY <1>a
      <4> QED
        BY <1>5, <1>6, <3>1, <4>1
    <3> QED
      BY <1>1, <2>1, <3>2 DEF FramesMatch
  <2>2. CASE g \in Range(js)
    <3>1. c \notin pending
      BY <1>5, <1>6, <1>17, <2>2
    <3>2. PICK h \in Range(js) : c.ref = h.ref /\ c.topic = h.topic /\ c.kind = "join"
      BY <1>a, <3>1
    <3>3. g = h
      BY <1>5, <2>2, <3>2
    <3> QED
      BY <1>5, <2>2, <3>2, <3>3
  <2> QED
    BY <1>8, <2>1, <2>2
<1>21. AnswersMatch'
  <2> SUFFICES ASSUME NEW r \in Sockets, NEW g \in Range(down[r]), NEW c \in pending',
                      c.ref = g.ref, c.kind = "join", g.ok
               PROVE  g.id \in 1..Len(served[r]) /\ served[r][g.id] = c.topic
    BY <1>3 DEF AnswersMatch
  <2>1. g.ref \in Nat /\ g.ref < nextRef
    BY <1>19 DEF OnWire
  <2>2. c \in pending
    <3>1. c \notin pending => \E h \in Range(js) : c.ref = h.ref
      BY <1>a
    <3> QED
      BY <1>5, <1>6, <2>1, <3>1
  <2> QED
    BY <1>1, <2>2 DEF AnswersMatch
<1>22. NobodyWaits'
  <2> SUFFICES ASSUME closed, NEW c \in pending' PROVE c.ref >= closedRef
    BY <1>3 DEF NobodyWaits
  <2>1. CASE c \in pending
    BY <1>1, <2>1 DEF NobodyWaits
  <2>2. CASE c \notin pending
    <3>1. PICK g \in Range(js) : c.ref = g.ref
      BY <1>a, <2>2
    <3> QED
      BY <1>5, <1>6, <3>1
  <2> QED
    BY <2>1, <2>2
<1>23. /\ Tracked'
       /\ socks[s].auto => \A t \in Topics : nameToId'[t] # 0 => <<nameToId'[t], t>> \in stale
  <2>1. CASE ~socks[s].auto
    BY <1>1, <1>3, <1>9, <2>1 DEF Tracked
  <2>2. CASE socks[s].auto
    <3>1. \A t \in Topics : nameToId'[t] # 0 => <<nameToId'[t], t>> \in stale
      <4> SUFFICES ASSUME NEW t \in Topics, nameToId'[t] # 0 PROVE <<nameToId'[t], t>> \in stale
        OBVIOUS
      <4>1. t \notin Range(joined) /\ nameToId'[t] = nameToId[t]
        BY <1>7, <2>2
      <4> QED
        BY <1>1, <4>1 DEF Tracked
    <3>2. \A b \in bindings' : b \in stale
      BY <1>1, <1>7, <2>2 DEF Tracked
    <3> QED
      BY <1>3, <3>1, <3>2 DEF Tracked
  <2> QED
    BY <2>1, <2>2
<1>24. ASSUME ~overlap' PROVE Single'
  <2>1. Single /\ s = ws /\ ~closed
    <3>1. Single /\ s = ws
      BY <1>1, <1>3, <1>24 DEF Single, Alive
    <3> QED
      BY <1>1, <1>2, <3>1 DEF Lone
  <2>2. ~IsConnected /\ IsConnected' /\ ~heart
    <3>1. ~IsConnected /\ IsConnected'
      BY <1>2, <1>3, <2>1 DEF IsConnected, IsOpen
    <3> QED
      BY <2>1, <3>1 DEF Single
  <2>3. s \in Sockets /\ up[s] = <<>>
    <3>1. s \in Sockets
      BY <1>1, <1>2 DEF TypeOK, Sockets
    <3> QED
      BY <1>1, <2>1, <2>2, <3>1 DEF Lone, IsConnected
  <2>4. Range(up'[ws]) \subseteq Range(js)
    BY <1>8, <2>1, <2>3, RangeEmpty
  <2>5. PushesMean'
    BY <1>3, <1>5, <2>4 DEF PushesMean
  <2>6. IdsMean'
    <3>1. CASE ~socks[s].auto
      <4>1. Blank
        BY <1>2, <1>3, <2>1, <3>1 DEF Single
      <4> QED
        BY <1>9, <3>1, <4>1 DEF Blank, IdsMean
    <3>2. CASE socks[s].auto
      BY <1>3, <1>23, <3>2 DEF IdsMean
    <3> QED
      BY <3>1, <3>2
  <2>7. /\ \A r \in 1..Len(socks') : Alive(r)' => r = ws'
        /\ \A r \in 1..Len(socks') : socks'[r].state \in {"closing", "aborted"} => closed'
        /\ Alive(ws)' /\ socks'[ws'].state = "open"
    BY <1>2, <1>3, <2>1 DEF Single, Alive
  <2>8. ~leaked'
    BY <1>3, <2>1, <2>2 DEF Single
  <2>9. socks' # <<>> /\ ~closed'
    BY <1>2, <1>3, <2>1
  <2> QED
    BY <1>3, <2>2, <2>5, <2>6, <2>7, <2>8, <2>9 DEF Single
<1> QED
  BY <1>11, <1>13, <1>18, <1>20, <1>21, <1>22, <1>23, <1>24 DEF LinkInv

LEMMA LinkNext == LinkInv /\ [Next]_vars => LinkInv'
<1> SUFFICES ASSUME LinkInv, [Next]_vars PROVE LinkInv'
  OBVIOUS
<1>1. CASE Connect
  BY <1>1, ConnectStep
<1>2. CASE FireTimer
  BY <1>2, FireTimerStep
<1>3. CASE Disconnect
  BY <1>3, DisconnectStep
<1>4. ASSUME NEW s \in 1..Len(socks),
             OnOpen(s) \/ Fail(s) \/ Closed(s) \/ HandleMessage(s) \/ Serve(s)
      PROVE  LinkInv'
  BY <1>4, OnOpenStep, FailStep, ClosedStep, HandleMessageStep, ServeStep
<1>5. ASSUME NEW t \in Topics, Join(t) \/ Push(t) PROVE LinkInv'
  BY <1>5, JoinStep, PushStep
<1>6. CASE UNCHANGED vars
  <2>1. timers' \in Nat
    BY <1>6 DEF LinkInv, TypeOK, vars
  <2> QED
    BY <1>6, <2>1, NothingElse DEF vars
<1> QED
  BY <1>1, <1>2, <1>3, <1>4, <1>5, <1>6 DEF Next

-----------------------------------------------------------------------------
LEMMA LinkInvariant == Spec => []LinkInv
  BY LinkInit, LinkNext, TransportAssumption, PTL DEF Spec

\* Type correctness of BinaryTransport: its sockets, maps, pending calls and the
\* frames on the wires, and no topic twice in joinedTopics.
THEOREM LinkTypeOK == Spec => []TypeOK
<1>1. LinkInv => TypeOK
  BY DEF LinkInv
<1> QED
  BY <1>1, LinkInvariant, PTL

\* disconnect rejects every waiting call: whatever is left of the sockets, timers
\* and frames, of a closed transport only calls wait that were made since.
THEOREM LinkNobodyWaits == Spec => []NobodyWaits
<1>1. LinkInv => NobodyWaits
  BY DEF LinkInv
<1> QED
  BY <1>1, LinkInvariant, PTL

\* However sockets overlap, and over any sequence of connects, disconnects and
\* repeated joins, an answer that settles a join grants an id of that topic on
\* the socket it comes from.
THEOREM LinkAnswersMatch == Spec => []AnswersMatch
<1>1. LinkInv => AnswersMatch
  BY DEF LinkInv
<1> QED
  BY <1>1, LinkInvariant, PTL

\* Until sockets overlap, startHeartbeat and stopHeartbeat keep one interval
\* exactly while this.ws is open, also over a disconnect and a later connect.
THEOREM LinkOneHeartbeat == Spec => []OneHeartbeat
<1>1. ASSUME LinkInv, ~overlap PROVE heart = IsConnected /\ ~leaked
  <2>1. heart \in BOOLEAN /\ Single
    BY <1>1, TypeKept DEF LinkInv
  <2>2. IsConnected \in BOOLEAN
    BY DEF IsConnected, IsOpen
  <2> QED
    BY <2>1, <2>2 DEF Single
<1>2. LinkInv => OneHeartbeat
  BY <1>1 DEF OneHeartbeat
<1> QED
  BY <1>2, LinkInvariant, PTL

\* Until sockets overlap, pushes and handlers keep to the topic that the gateway
\* means by the id on the connection that is open, over any number of reconnects
\* and of disconnects with a later connect, except for what those left behind.
THEOREM LinkTopicsKept == Spec => []TopicsKept
<1>1. ASSUME LinkInv, ~overlap, NEW s \in Sockets
      PROVE  /\ \A f \in Range(up[s]) :
                  f.kind = "push" /\ <<f.id, f.topic>> \notin stale /\ f.id <= Len(served[s])
                    => served[s][f.id] = f.topic
             /\ IsOpen(s) => \A b \in bindings \ stale :
                  b[1] <= Len(served[s]) => served[s][b[1]] = b[2]
  <2>1. TypeOK /\ Lone /\ Tracked /\ Single
    BY <1>1 DEF LinkInv
  <2>2. CASE ~IsOpen(s)
    BY <2>1, <2>2, RangeEmpty DEF Lone
  <2>3. CASE IsOpen(s)
    <3>1. s = ws
      BY <2>1, <2>3 DEF Single, IsOpen, Alive
    <3>2. IdsMean /\ PushesMean
      BY <2>1, <2>3, <3>1 DEF Single, IsConnected
    <3>3. \A b \in bindings : b[2] \in Topics /\ b = <<b[1], b[2]>>
      BY <2>1 DEF TypeOK
    <3>4. \A b \in bindings \ stale : served[ws][b[1]] = b[2]
      <4> SUFFICES ASSUME NEW b \in bindings, b \notin stale PROVE served[ws][b[1]] = b[2]
        OBVIOUS
      <4>1. b[1] # 0 /\ nameToId[b[2]] = b[1] /\ b[2] \in Topics /\ <<b[1], b[2]>> \notin stale
        BY <2>1, <3>3 DEF Tracked
      <4> QED
        BY <3>2, <4>1 DEF IdsMean
    <3> QED
      BY <3>1, <3>2, <3>4 DEF PushesMean
  <2> QED
    BY <2>2, <2>3
<1>2. LinkInv => TopicsKept
  BY <1>1 DEF TopicsKept
<1> QED
  BY <1>2, LinkInvariant, PTL

-----------------------------------------------------------------------------
(***************************************************************************)
(* The gateway's end.                                                      *)
(***************************************************************************)
Subscribe(u) == [op |-> "subscribe", user |-> u]
Unsubscribe(u) == [op |-> "unsubscribe", user |-> u]

\* No subscription of u is asked for at or after position i of the mailbox.
NoSubscribe(u, i) == \A j \in i..Len(casts) : casts[j] # Subscribe(u)

\* What will be left of u when the mailbox is worked off: an unsubscribe waits
\* behind every subscribe, or there is nothing to undo.
WillBeGone(u) ==
  \/ \E i \in 1..Len(casts) : casts[i] = Unsubscribe(u) /\ NoSubscribe(u, i + 1)
  \/ u \notin subscribed /\ NoSubscribe(u, 1)

\* NoOrphanSubscription speaks of an empty mailbox only; this is what makes it
\* inductive.
CastsInv == \A u \in Users : Connected(u) \/ WillBeGone(u)

ConnInv == GatewayTypeOK /\ RegistryLive /\ CastsInv

-----------------------------------------------------------------------------
LEMMA ConnConstants ==
  /\ DeviceOf \in [Conns -> Devices] /\ OwnerOf \in [Devices -> Users]
  /\ NoConn \notin Conns /\ MaxMissed \in Nat \ {0}
  /\ \A c \in Conns : UserOf(c) \in Users
  BY ConnectionsAssumption DEF UserOf

LEMMA ConnInit == GatewayInit => ConnInv
<1> SUFFICES ASSUME GatewayInit PROVE ConnInv
  OBVIOUS
<1>1. GatewayTypeOK
  BY ConnConstants DEF GatewayInit, GatewayTypeOK
<1>2. RegistryLive
  BY DEF GatewayInit, RegistryLive
<1>3. CastsInv
  BY DEF GatewayInit, CastsInv, WillBeGone, NoSubscribe
<1> QED
  BY <1>1, <1>2, <1>3 DEF ConnInv

\* Open and Terminate append one cast for the user of the process.
LEMMA CastAppended ==
  ASSUME GatewayTypeOK, NEW u \in Users, NEW op \in {"subscribe", "unsubscribe"},
         casts' = Append(casts, [op |-> op, user |-> u])
  PROVE  /\ casts' \in Seq(Cast) /\ Len(casts') = Len(casts) + 1 /\ Len(casts) \in Nat
         /\ \A i \in 1..Len(casts) : casts'[i] = casts[i]
         /\ casts'[Len(casts) + 1] = [op |-> op, user |-> u]
<1>1. casts \in Seq(Cast) /\ [op |-> op, user |-> u] \in Cast
  BY DEF GatewayTypeOK, Cast
<1> QED
  BY <1>1, AppendProperties, LenProperties

\* A cast for another user changes nothing for v.
LEMMA OthersKept ==
  ASSUME GatewayTypeOK, NEW u \in Users, NEW op \in {"subscribe", "unsubscribe"},
         casts' = Append(casts, [op |-> op, user |-> u]), subscribed' = subscribed,
         NEW v \in Users, v # u, WillBeGone(v)
  PROVE  WillBeGone(v)'
<1>1. /\ Len(casts') = Len(casts) + 1 /\ Len(casts) \in Nat
      /\ \A i \in 1..Len(casts) : casts'[i] = casts[i]
      /\ casts'[Len(casts) + 1] = [op |-> op, user |-> u]
  BY CastAppended
<1>2. casts'[Len(casts) + 1] # Subscribe(v)
  BY <1>1 DEF Subscribe
<1>3. ASSUME NEW i \in 1..(Len(casts) + 1), NoSubscribe(v, i)
      PROVE  NoSubscribe(v, i)'
  <2> SUFFICES ASSUME NEW j \in i..Len(casts') PROVE casts'[j] # Subscribe(v)
    BY DEF NoSubscribe, Subscribe
  <2>1. CASE j = Len(casts) + 1
    BY <1>2, <2>1
  <2>2. CASE j # Len(casts) + 1
    <3>1. j \in i..Len(casts) /\ j \in 1..Len(casts)
      BY <1>1, <2>2
    <3> QED
      BY <1>1, <1>3, <3>1 DEF NoSubscribe
  <2> QED
    BY <2>1, <2>2
<1>4. CASE v \notin subscribed /\ NoSubscribe(v, 1)
  BY <1>1, <1>3, <1>4 DEF WillBeGone
<1>5. ASSUME NEW i \in 1..Len(casts), casts[i] = Unsubscribe(v), NoSubscribe(v, i + 1)
      PROVE  WillBeGone(v)'
  <2>1. i + 1 \in 1..(Len(casts) + 1) /\ i \in 1..Len(casts')
    BY <1>1
  <2>2. NoSubscribe(v, i + 1)'
    BY <1>3, <1>5, <2>1
  <2>3. casts'[i] = Unsubscribe(v)'
    BY <1>1, <1>5 DEF Unsubscribe
  <2> QED
    BY <2>1, <2>2, <2>3 DEF WillBeGone
<1> QED
  BY <1>4, <1>5 DEF WillBeGone

LEMMA OpenKeeps ==
  ASSUME ConnInv, NEW c \in Conns, Open(c)
  PROVE  ConnInv'
<1>1. GatewayTypeOK /\ RegistryLive /\ CastsInv /\ UserOf(c) \in Users
  BY ConnConstants DEF ConnInv
<1>2. /\ phase[c] = "new" /\ phase' = [phase EXCEPT ![c] = "open"]
      /\ registry' = [registry EXCEPT ![DeviceOf[c]] = c]
      /\ casts' = Append(casts, [op |-> "subscribe", user |-> UserOf(c)])
      /\ silent' = silent /\ missed' = missed /\ subscribed' = subscribed
  BY DEF Open, Register
<1>3. GatewayTypeOK'
  <2>1. casts' \in Seq(Cast)
    BY <1>1, <1>2, CastAppended
  <2> QED
    BY <1>1, <1>2, <2>1, ConnConstants DEF GatewayTypeOK
<1>4. RegistryLive'
  BY <1>1, <1>2, ConnConstants DEF RegistryLive, GatewayTypeOK
<1>5. CastsInv'
  <2> SUFFICES ASSUME NEW u \in Users PROVE Connected(u)' \/ WillBeGone(u)'
    BY DEF CastsInv
  <2>1. CASE u = UserOf(c)
    BY <1>1, <1>2, <2>1 DEF Connected, GatewayTypeOK, UserOf
  <2>2. CASE Connected(u)
    BY <1>1, <1>2, <2>2 DEF Connected, GatewayTypeOK, UserOf
  <2>3. CASE u # UserOf(c) /\ WillBeGone(u)
    BY <1>1, <1>2, <2>3, OthersKept
  <2> QED
    BY <1>1, <2>1, <2>2, <2>3 DEF CastsInv
<1> QED
  BY <1>3, <1>4, <1>5 DEF ConnInv

LEMMA TerminateKeeps ==
  ASSUME ConnInv, NEW c \in Conns, Terminate(c)
  PROVE  ConnInv'
<1>1. GatewayTypeOK /\ RegistryLive /\ CastsInv /\ UserOf(c) \in Users
  BY ConnConstants DEF ConnInv
<1>2. /\ phase' = [phase EXCEPT ![c] = "closed"]
      /\ registry' = [registry EXCEPT ![DeviceOf[c]] = NoConn]
      /\ casts' = Append(casts, [op |-> "unsubscribe", user |-> UserOf(c)])
      /\ silent' = silent /\ missed' = missed /\ subscribed' = subscribed
  BY DEF Terminate, Unregister
<1>3. GatewayTypeOK'
  <2>1. casts' \in Seq(Cast)
    BY <1>1, <1>2, CastAppended
  <2> QED
    BY <1>1, <1>2, <2>1, ConnConstants DEF GatewayTypeOK
<1>4. RegistryLive'
  BY <1>1, <1>2, ConnConstants DEF RegistryLive, GatewayTypeOK
<1>5. CastsInv'
  <2> SUFFICES ASSUME NEW u \in Users PROVE Connected(u)' \/ WillBeGone(u)'
    BY DEF CastsInv
  <2>1. CASE u = UserOf(c)
    <3>1. /\ Len(casts') = Len(casts) + 1 /\ Len(casts) \in Nat
          /\ casts'[Len(casts) + 1] = [op |-> "unsubscribe", user |-> UserOf(c)]
      BY <1>1, <1>2, CastAppended
    <3>2. NoSubscribe(u, Len(casts) + 2)'
      BY <3>1 DEF NoSubscribe
    <3> QED
      BY <2>1, <3>1, <3>2 DEF WillBeGone, Unsubscribe, NoSubscribe
  <2>2. CASE u # UserOf(c) /\ Connected(u)
    BY <1>1, <1>2, <2>2 DEF Connected, GatewayTypeOK, UserOf
  <2>3. CASE u # UserOf(c) /\ WillBeGone(u)
    BY <1>1, <1>2, <2>3, OthersKept
  <2> QED
    BY <1>1, <2>1, <2>2, <2>3 DEF CastsInv
<1> QED
  BY <1>3, <1>4, <1>5 DEF ConnInv

\* The head of the mailbox is done: every other cast moves up by one.
LEMMA HandleCastKeeps ==
  ASSUME ConnInv, HandleCast
  PROVE  ConnInv'
<1>1. GatewayTypeOK /\ RegistryLive /\ CastsInv
  BY DEF ConnInv
<1>2. /\ casts \in Seq(Cast) /\ casts # <<>> /\ casts' = Tail(casts)
      /\ phase' = phase /\ silent' = silent /\ missed' = missed /\ registry' = registry
  BY <1>1 DEF HandleCast, GatewayTypeOK, sockets
<1>3. /\ Len(casts) \in Nat \ {0} /\ Len(casts') = Len(casts) - 1
      /\ casts' \in Seq(Cast) /\ Head(casts) = casts[1] /\ casts[1] \in Cast
      /\ \A i \in 1..(Len(casts) - 1) : casts'[i] = casts[i + 1]
  BY <1>2, HeadTailProperties, LenProperties, EmptySeq, ElementOfSeq
<1>4. \/ casts[1].op = "subscribe" /\ subscribed' \in {subscribed, subscribed \cup {casts[1].user}}
      \/ casts[1].op = "unsubscribe" /\ subscribed' = subscribed \ {casts[1].user}
  BY <1>3 DEF HandleCast
<1>5. casts[1].user \in Users /\ casts[1] = [op |-> casts[1].op, user |-> casts[1].user]
  BY <1>3 DEF Cast
<1>6. GatewayTypeOK'
  BY <1>1, <1>2, <1>3, <1>4, <1>5 DEF GatewayTypeOK
<1>7. RegistryLive'
  BY <1>1, <1>2 DEF RegistryLive
<1>8. ASSUME NEW u \in Users, NEW i \in 1..Len(casts), NoSubscribe(u, i + 1)
      PROVE  NoSubscribe(u, i)'
  <2> SUFFICES ASSUME NEW j \in i..Len(casts') PROVE casts'[j] # Subscribe(u)
    BY DEF NoSubscribe, Subscribe
  <2>1. j \in 1..(Len(casts) - 1) /\ j + 1 \in (i + 1)..Len(casts)
    BY <1>3
  <2> QED
    BY <1>3, <1>8, <2>1 DEF NoSubscribe
<1>9. CastsInv'
  <2> SUFFICES ASSUME NEW u \in Users PROVE Connected(u)' \/ WillBeGone(u)'
    BY DEF CastsInv
  <2>1. CASE Connected(u)
    BY <1>2, <2>1 DEF Connected, UserOf
  <2>2. CASE u \notin subscribed /\ NoSubscribe(u, 1)
    <3>1. casts[1] # Subscribe(u) /\ NoSubscribe(u, 2)
      BY <1>3, <2>2 DEF NoSubscribe
    <3>2. u \notin subscribed'
      BY <1>4, <1>5, <2>2, <3>1 DEF Subscribe
    <3>3. NoSubscribe(u, 1)'
      BY <1>3, <1>8, <3>1
    <3> QED
      BY <3>2, <3>3 DEF WillBeGone
  <2>3. ASSUME NEW i \in 1..Len(casts), casts[i] = Unsubscribe(u), NoSubscribe(u, i + 1)
        PROVE  WillBeGone(u)'
    <3>1. CASE i = 1
      <4>1. u \notin subscribed'
        BY <1>4, <2>3, <3>1 DEF Unsubscribe
      <4>2. NoSubscribe(u, 1)'
        BY <1>8, <2>3, <3>1
      <4> QED
        BY <4>1, <4>2 DEF WillBeGone
    <3>2. CASE i # 1
      <4>1. i - 1 \in 1..Len(casts') /\ i - 1 \in 1..(Len(casts) - 1) /\ (i - 1) + 1 = i
        BY <1>3, <3>2
      <4>2. casts'[i - 1] = Unsubscribe(u)'
        BY <1>3, <2>3, <4>1 DEF Unsubscribe
      <4>3. NoSubscribe(u, (i - 1) + 1)'
        BY <1>8, <2>3, <4>1
      <4> QED
        BY <4>1, <4>2, <4>3 DEF WillBeGone
    <3> QED
      BY <3>1, <3>2
  <2> QED
    BY <1>1, <2>1, <2>2, <2>3 DEF CastsInv, WillBeGone
<1> QED
  BY <1>6, <1>7, <1>9 DEF ConnInv

\* A step after which the processes, the registry and the consumer are as before.
LEMMA TimersKeep ==
  ASSUME ConnInv, UNCHANGED <<phase, registry, consumer>>,
         silent' \subseteq Conns, missed' \in [Conns -> 0..(MaxMissed - 1)]
  PROVE  ConnInv'
<1>1. GatewayTypeOK' /\ RegistryLive'
  BY DEF ConnInv, GatewayTypeOK, RegistryLive, consumer
<1>2. CastsInv'
  BY DEF ConnInv, CastsInv, Connected, WillBeGone, NoSubscribe, Subscribe, Unsubscribe,
         UserOf, consumer
<1> QED
  BY <1>1, <1>2 DEF ConnInv

LEMMA ConnNext == ConnInv /\ [GatewayNext]_gatewayVars => ConnInv'
<1> SUFFICES ASSUME ConnInv, [GatewayNext]_gatewayVars PROVE ConnInv'
  OBVIOUS
<1>1. CASE UNCHANGED gatewayVars
  BY <1>1, TimersKeep DEF ConnInv, GatewayTypeOK, gatewayVars, sockets
<1>2. ASSUME NEW c \in Conns, Open(c)
      PROVE  ConnInv'
  BY <1>2, OpenKeeps
<1>3. ASSUME NEW c \in Conns, Close(c)
      PROVE  ConnInv'
  BY <1>3, TerminateKeeps DEF Close
<1>4. ASSUME NEW c \in Conns, Vanish(c) \/ Heartbeat(c)
      PROVE  ConnInv'
  <2>1. UNCHANGED <<phase, registry, consumer>>
    BY <1>4 DEF Vanish, Heartbeat
  <2>2. silent' \subseteq Conns
    BY <1>4 DEF ConnInv, GatewayTypeOK, Vanish, Heartbeat
  <2>3. missed' \in [Conns -> 0..(MaxMissed - 1)]
    <3>1. missed' = missed \/ missed' = [missed EXCEPT ![c] = 0]
      BY <1>4 DEF Vanish, Heartbeat
    <3>2. 0 \in 0..(MaxMissed - 1)
      BY ConnConstants
    <3> QED
      BY <3>1, <3>2 DEF ConnInv, GatewayTypeOK
  <2> QED
    BY <2>1, <2>2, <2>3, TimersKeep
<1>5. ASSUME NEW c \in Conns, HeartbeatCheck(c)
      PROVE  ConnInv'
  <2>1. CASE Terminate(c)
    BY <2>1, TerminateKeeps
  <2>2. CASE ~Terminate(c)
    <3>1. /\ missed[c] + 1 < MaxMissed /\ missed' = [missed EXCEPT ![c] = @ + 1]
          /\ UNCHANGED <<phase, silent, registry, consumer>>
      BY <1>5, <2>2 DEF HeartbeatCheck
    <3>2. missed' \in [Conns -> 0..(MaxMissed - 1)] /\ silent' \subseteq Conns
      BY <3>1, ConnConstants DEF ConnInv, GatewayTypeOK
    <3> QED
      BY <3>1, <3>2, TimersKeep
  <2> QED
    BY <2>1, <2>2
<1>6. CASE HandleCast
  BY <1>6, HandleCastKeeps
<1> QED
  BY <1>1, <1>2, <1>3, <1>4, <1>5, <1>6 DEF GatewayNext

-----------------------------------------------------------------------------
LEMMA ConnInvariant == GatewaySpec => []ConnInv
  BY ConnInit, ConnNext, PTL DEF GatewaySpec

\* Type correctness of the processes, the registry and the consumer; the count of
\* missed heartbeats stays below the one that ends a process.
THEOREM ConnTypeOK == GatewaySpec => []GatewayTypeOK
<1>1. ConnInv => GatewayTypeOK
  BY DEF ConnInv
<1> QED
  BY <1>1, ConnInvariant, PTL

\* ConnectionRegistry names only processes that are open and serve the device
\* they are registered for, whatever the order in which they begin and end.
THEOREM ConnRegistryLive == GatewaySpec => []RegistryLive
<1>1. ConnInv => RegistryLive
  BY DEF ConnInv
<1> QED
  BY <1>1, ConnInvariant, PTL

\* When SyncConsumer has handled every cast, it is subscribed for nobody who
\* has no connection.
THEOREM ConnNoOrphanSubscription == GatewaySpec => []NoOrphanSubscription
<1>1. ConnInv => NoOrphanSubscription
  <2> SUFFICES ASSUME ConnInv, casts = <<>>, NEW u \in subscribed PROVE Connected(u)
    BY DEF NoOrphanSubscription
  <2>1. u \in Users /\ 1..Len(casts) = {}
    BY DEF ConnInv, GatewayTypeOK
  <2> QED
    BY <2>1 DEF ConnInv, CastsInv, WillBeGone
<1> QED
  BY <1>1, ConnInvariant, PTL

=============================================================================
