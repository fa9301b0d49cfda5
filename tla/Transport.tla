----------------------------- MODULE Transport ------------------------------
(***************************************************************************)
(* BinaryTransport of the SDK: one object whose maps are shared by every   *)
(* WebSocket it opens.  A socket that breaks schedules a reconnect from    *)
(* onclose, and a failed attempt schedules a second one from the rejected  *)
(* promise, so that sockets may overlap; "ws" is the one opened last.  The *)
(* application connects, joins, pushes and disconnects in any order: the   *)
(* methods look at little of the state, so a join of a closed transport or *)
(* a second connect are steps like any other.  The gateway numbers the     *)
(* topics of a socket in the order of its joins.                           *)
(***************************************************************************)
EXTENDS Naturals, Sequences, FiniteSets, SequencesExt

CONSTANTS
  Topics,      \* topic names
  MaxSockets,  \* bound on WebSockets opened or about to be
  MaxCalls     \* bound on the calls of connect, join and push

ASSUME TransportAssumption ==
  MaxSockets \in Nat /\ MaxCalls \in Nat

VARIABLES
  socks,     \* every WebSocket opened so far, with its readyState
  ws,        \* this.ws: its index, 0 for null
  closed,    \* this.closed
  timers,    \* reconnect timeouts not fired yet
  heart,     \* heartbeatTimer is set
  leaked,    \* an interval runs whose handle was overwritten
  pending,   \* pendingReplies and pendingJoinRefs
  nextRef,   \* this.ref + 1
  joined,    \* joinedTopics, in insertion order
  nameToId,  \* topicNameToId, 0 for absent
  bindings,  \* topicBindings: pairs of an id and a topic whose handlers hang on it
  up,        \* frames on their way to the gateway, per socket
  down,      \* frames on their way back
  served,    \* the gateway: the topics of a socket in the order of their ids
  calls,     \* such calls of the application so far
  overlap,   \* history: a socket was opened while another one, or by the
             \* application while a reconnect timeout, was not over yet
  stale,     \* history: ids and topics that disconnect or a repeated join left
             \* behind, which the next reconnect will not clear
  closedRef  \* history: nextRef when disconnect closed the transport, 0 while
             \* it is not closed

client == <<pending, nextRef, joined, nameToId, bindings, stale>>
wires == <<up, down, served>>
vars == <<socks, ws, closed, timers, heart, leaked, client, wires, calls, overlap,
          closedRef>>

Sockets == 1..MaxSockets
Alive(s) == socks[s].state \in {"connecting", "open"}
IsOpen(s) == s \in 1..Len(socks) /\ socks[s].state = "open"
IsConnected == IsOpen(ws)

JoinFrame(r, t) == [kind |-> "join", ref |-> r, topic |-> t, id |-> 0]
PushFrame(r, t, i) == [kind |-> "push", ref |-> r, topic |-> t, id |-> i]
Reply(r, i, ok) == [ref |-> r, id |-> i, ok |-> ok]
Call(r, kind, t, byUser) ==
  [ref |-> r, kind |-> kind, topic |-> t, byUser |-> byUser]

-----------------------------------------------------------------------------
Init ==
  /\ socks = <<>> /\ ws = 0 /\ closed = FALSE /\ timers = 0
  /\ heart = FALSE /\ leaked = FALSE
  /\ pending = {} /\ nextRef = 1 /\ joined = <<>>
  /\ nameToId = [t \in Topics |-> 0]
  /\ bindings = {}
  /\ up = [s \in Sockets |-> <<>>] /\ down = [s \in Sockets |-> <<>>]
  /\ served = [s \in Sockets |-> <<>>]
  /\ calls = 0 /\ overlap = FALSE /\ stale = {} /\ closedRef = 0

\* connect: a new WebSocket replaces this.ws; the old one is not closed.
NewSocket(auto) ==
  /\ Len(socks) < MaxSockets
  /\ socks' = Append(socks, [state |-> "connecting", auto |-> auto])
  /\ ws' = Len(socks')
  /\ overlap' = \/ overlap
                \/ ~auto /\ timers > 0
                \/ \E s \in 1..Len(socks) : socks[s].state # "gone"

\* MercuryClient.connect, at first, after disconnect or at any other time.
Connect ==
  /\ calls < MaxCalls /\ calls' = calls + 1
  /\ Len(socks) + timers < MaxSockets
  /\ closed' = FALSE /\ closedRef' = 0
  /\ NewSocket(FALSE)
  /\ UNCHANGED <<timers, heart, leaked, client, wires>>

\* The timeout of scheduleReconnect.
FireTimer ==
  /\ timers > 0
  /\ timers' = timers - 1
  /\ IF closed THEN UNCHANGED <<socks, ws, overlap>> ELSE NewSocket(TRUE)
  /\ UNCHANGED <<closed, heart, leaked, client, wires, calls, closedRef>>

\* startHeartbeat: an interval that is still set loses its handle.
StartHeartbeat ==
  /\ heart' = TRUE
  /\ leaked' = (leaked \/ heart)
StopHeartbeat == heart' = FALSE /\ UNCHANGED leaked

\* Mutant: the handlers of an old id stay.
ClearIdsOnly ==
  /\ nameToId' = [t \in Topics |-> IF t \in Range(joined) THEN 0 ELSE nameToId[t]]
  /\ UNCHANGED bindings

\* The old ids of the joined topics and what hangs on them are dropped.
ClearOldMapping ==
  /\ nameToId' = [t \in Topics |-> IF t \in Range(joined) THEN 0 ELSE nameToId[t]]
  /\ bindings' = {b \in bindings : \A t \in Range(joined) : nameToId[t] # b[1]}

\* A reconnect joins every topic again, in the order of the set, over whatever
\* socket this.ws is by now; join ignores that the frame could not be sent.
Rejoin ==
  LET joins == [k \in 1..Len(joined) |-> JoinFrame(nextRef + k - 1, joined[k])]
  IN  /\ ClearOldMapping
      /\ pending' = pending \cup {Call(f.ref, "join", f.topic, FALSE) : f \in Range(joins)}
      /\ nextRef' = nextRef + Len(joined)
      /\ up' = IF ws # 0 /\ socks'[ws].state = "open"
               THEN [up EXCEPT ![ws] = @ \o joins] ELSE up

\* onopen and the continuation of the promise it resolves.
OnOpen(s) ==
  /\ socks[s].state = "connecting"
  /\ socks' = [socks EXCEPT ![s].state = "open"]
  /\ StartHeartbeat
  /\ IF socks[s].auto THEN Rejoin
     ELSE UNCHANGED <<pending, nextRef, nameToId, bindings, up>>
  /\ UNCHANGED <<ws, closed, timers, joined, stale, down, served,
                 calls, overlap, closedRef>>

\* Mutant: only the loss of an open socket leads to a reconnect.
ReconnectsIfOpen(s) == IF socks[s].state = "open" /\ ~closed THEN 1 ELSE 0

\* The reconnects scheduled when a socket ends: by onclose unless the transport
\* was closed, and by the rejected promise of an attempt that never opened.
Reconnects(s) ==
  (IF closed THEN 0 ELSE 1)
    + (IF socks[s].auto /\ socks[s].state \in {"connecting", "aborted"} THEN 1 ELSE 0)

\* Mutant: the heartbeat runs on.
OnCloseBeating(s) ==
  /\ timers' = timers + Reconnects(s)
  /\ UNCHANGED <<heart, leaked>>

\* onclose, after onerror for a socket that never opened.
OnClose(s) ==
  /\ timers' = timers + Reconnects(s)
  /\ StopHeartbeat

\* Nothing travels over the socket any more and its gateway process ends.
Cut(s) ==
  /\ up' = [up EXCEPT ![s] = <<>>]
  /\ down' = [down EXCEPT ![s] = <<>>]
  /\ served' = [served EXCEPT ![s] = <<>>]

\* The connection breaks, or an attempt fails; what was on its way is lost, and
\* calls that wait for an answer go on waiting.
Fail(s) ==
  /\ Alive(s)
  /\ Len(socks) + timers + Reconnects(s) <= MaxSockets
  /\ socks' = [socks EXCEPT ![s].state = "gone"]
  /\ Cut(s)
  /\ OnClose(s)
  /\ UNCHANGED <<ws, closed, client, calls, overlap, closedRef>>

\* A socket that disconnect closed is gone; by now the transport may have been
\* connected anew.
Closed(s) ==
  /\ socks[s].state \in {"closing", "aborted"}
  /\ Len(socks) + timers + Reconnects(s) <= MaxSockets
  /\ socks' = [socks EXCEPT ![s].state = "gone"]
  /\ OnClose(s)
  /\ UNCHANGED <<ws, closed, client, wires, calls, overlap, closedRef>>

\* Mutant: the waiting calls are only told, not settled.
DisconnectWaiting ==
  /\ joined' = <<>> /\ nameToId' = [t \in Topics |-> 0]
  /\ UNCHANGED pending

\* The maps that disconnect clears; every waiting call is rejected.
ClearState ==
  /\ joined' = <<>> /\ nameToId' = [t \in Topics |-> 0]
  /\ pending' = {}

\* Mutant: the references start again.
DisconnectRestarting ==
  /\ closed' = TRUE
  /\ StopHeartbeat
  /\ socks' = IF ws = 0 \/ ~Alive(ws) THEN socks
              ELSE [socks EXCEPT ![ws].state = IF @ = "open" THEN "closing" ELSE "aborted"]
  /\ IF ws = 0 THEN UNCHANGED wires ELSE Cut(ws)
  /\ ws' = 0
  /\ ClearState
  /\ nextRef' = 1
  /\ stale' = stale \cup bindings
  /\ closedRef' = nextRef'
  /\ UNCHANGED <<timers, bindings, calls, overlap>>

\* disconnect: closes this.ws, which takes no message from then on.  The handlers
\* stay where they hang.
Disconnect ==
  /\ closed' = TRUE
  /\ StopHeartbeat
  /\ socks' = IF ws = 0 \/ ~Alive(ws) THEN socks
              ELSE [socks EXCEPT ![ws].state = IF @ = "open" THEN "closing" ELSE "aborted"]
  /\ IF ws = 0 THEN UNCHANGED wires ELSE Cut(ws)
  /\ ws' = 0
  /\ ClearState
  /\ stale' = stale \cup bindings
  /\ closedRef' = nextRef
  /\ UNCHANGED <<timers, nextRef, bindings, calls, overlap>>

-----------------------------------------------------------------------------
\* join, the first step of Channel.join: the topic is added to the set and the
\* call waits, whether or not the frame could be sent.
Join(t) ==
  /\ calls < MaxCalls
  /\ calls' = calls + 1
  /\ joined' = IF t \in Range(joined) THEN joined ELSE Append(joined, t)
  /\ pending' = pending \cup {Call(nextRef, "join", t, TRUE)}
  /\ nextRef' = nextRef + 1
  /\ up' = IF IsConnected THEN [up EXCEPT ![ws] = Append(@, JoinFrame(nextRef, t))]
           ELSE up
  /\ UNCHANGED <<socks, ws, closed, timers, heart, leaked, nameToId, bindings,
                 stale, down, served, overlap, closedRef>>

\* push: rejected at once without an id or a connection.
Push(t) ==
  /\ calls < MaxCalls
  /\ nameToId[t] # 0 /\ IsConnected
  /\ calls' = calls + 1
  /\ pending' = pending \cup {Call(nextRef, "push", t, TRUE)}
  /\ nextRef' = nextRef + 1
  /\ up' = [up EXCEPT ![ws] = Append(@, PushFrame(nextRef, t, nameToId[t]))]
  /\ UNCHANGED <<socks, ws, closed, timers, heart, leaked, joined, nameToId,
                 bindings, stale, down, served, overlap, closedRef>>

\* joinedTopics.delete
Without(q, t) ==
  IF t \in Range(q) THEN RemoveAt(q, CHOOSE k \in 1..Len(q) : q[k] = t) ELSE q

\* The history of a join's answer: t had the id old and has the id new by now.
\* The next reconnect clears what hangs on the id of a joined topic, nothing else.
LeftBehind(t, old, new, kept) ==
  IF kept THEN (stale \cup {<<old, t>>}) \ {<<new, t>>}
  ELSE stale \cup {<<old, t>>, <<new, t>>}

\* handleMessage on a reply.  A join that succeeds sets the id of its topic, and
\* Channel.join then registers its handlers under it; a refused one is undone.
HandleReply(s, c, f) ==
  LET joins == c.kind = "join" /\ f.ok
  IN  /\ pending' = pending \ {c}
      /\ nameToId' = IF joins THEN [nameToId EXCEPT ![c.topic] = f.id] ELSE nameToId
      /\ bindings' = IF joins /\ c.byUser THEN bindings \cup {<<f.id, c.topic>>} ELSE bindings
      /\ joined' = IF c.kind = "join" /\ ~f.ok
                   THEN Without(joined, c.topic) ELSE joined
      /\ stale' = IF c.kind # "join" THEN stale
                  ELSE LeftBehind(c.topic, nameToId[c.topic], nameToId'[c.topic],
                                  c.topic \in Range(joined'))

\* handleMessage: a reply nobody waits for is ignored.  A broadcast goes to the
\* handlers of its id and changes nothing here, so it is left out.
HandleMessage(s) ==
  /\ IsOpen(s) /\ down[s] # <<>>
  /\ LET f == Head(down[s])
         waiting == {c \in pending : c.ref = f.ref}
     IN  \/ \E c \in waiting : HandleReply(s, c, f)
         \/ /\ waiting = {}
            /\ UNCHANGED <<pending, nameToId, bindings, joined, stale>>
  /\ down' = [down EXCEPT ![s] = Tail(@)]
  /\ UNCHANGED <<socks, ws, closed, timers, heart, leaked, nextRef, up, served,
                 calls, overlap, closedRef>>

-----------------------------------------------------------------------------
\* The gateway takes the next frame of a socket: a join is granted the next id
\* or refused, a push is answered.
Serve(s) ==
  /\ IsOpen(s) /\ up[s] # <<>>
  /\ LET f == Head(up[s])
         id == Len(served[s]) + 1
     IN  \/ /\ f.kind = "join"
            /\ served' = [served EXCEPT ![s] = Append(@, f.topic)]
            /\ down' = [down EXCEPT ![s] = Append(@, Reply(f.ref, id, TRUE))]
         \/ /\ f.kind = "join"
            /\ down' = [down EXCEPT ![s] = Append(@, Reply(f.ref, 0, FALSE))]
            /\ UNCHANGED served
         \/ /\ f.kind = "push"
            /\ down' = [down EXCEPT ![s] = Append(@, Reply(f.ref, f.id, f.id < id))]
            /\ UNCHANGED served
  /\ up' = [up EXCEPT ![s] = Tail(@)]
  /\ UNCHANGED <<socks, ws, closed, timers, heart, leaked, client, calls, overlap,
                 closedRef>>

Next ==
  \/ Connect \/ FireTimer \/ Disconnect
  \/ \E s \in 1..Len(socks) :
       OnOpen(s) \/ Fail(s) \/ Closed(s) \/ HandleMessage(s) \/ Serve(s)
  \/ \E t \in Topics : Join(t) \/ Push(t)

Spec == Init /\ [][Next]_vars

\* Timers fire, and the browser and the gateway go on with what is there: of the
\* sockets that do not fail one opens, is answered or is handled, no matter which.
FairSpec ==
  /\ Spec
  /\ WF_vars(FireTimer)
  /\ WF_vars(\E s \in 1..Len(socks) : OnOpen(s) \/ Serve(s) \/ HandleMessage(s))

-----------------------------------------------------------------------------
\* Type correctness.
TypeOK ==
  /\ socks \in Seq([state : {"connecting", "open", "closing", "aborted", "gone"},
                    auto : BOOLEAN])
  /\ Len(socks) <= MaxSockets /\ ws \in 0..Len(socks)
  /\ timers \in Nat /\ {closed, heart, leaked, overlap} \subseteq BOOLEAN
  /\ nameToId \in [Topics -> Nat] /\ bindings \subseteq Nat \X Topics
  /\ joined \in Seq(Topics) /\ IsInjective(joined)
  /\ up \in [Sockets -> Seq([kind : {"join", "push"}, ref : Nat, topic : Topics, id : Nat])]
  /\ down \in [Sockets -> Seq([ref : Nat, id : Nat, ok : BOOLEAN])]
  /\ served \in [Sockets -> Seq(Topics)]
  /\ stale \subseteq Nat \X Topics
  /\ nextRef \in Nat /\ calls \in Nat /\ closedRef \in Nat
  /\ pending \subseteq [ref : Nat, kind : {"join", "push"}, topic : Topics, byUser : BOOLEAN]

\* As long as sockets do not overlap, nothing strays to another topic, although
\* the same id means another one on the next connection: a push is handled under
\* the topic it was made for or refused, and what hangs on an id belongs to the
\* topic that the gateway labels with it on the connection that is open.  What a
\* disconnect or a repeated join left behind is the only exception.
TopicsKept ==
  ~overlap => \A s \in Sockets :
    /\ \A f \in Range(up[s]) :
         f.kind = "push" /\ <<f.id, f.topic>> \notin stale /\ f.id <= Len(served[s])
           => served[s][f.id] = f.topic
    /\ IsOpen(s) => \A b \in bindings \ stale :
         b[1] <= Len(served[s]) => served[s][b[1]] = b[2]

\* However sockets overlap and the transport is closed and connected again, the
\* answer to a join that somebody waits for grants an id for that topic on the
\* socket it comes from: references tell calls of all sockets apart.
AnswersMatch ==
  \A s \in Sockets : \A f \in Range(down[s]) : \A c \in pending :
    c.ref = f.ref /\ c.kind = "join" /\ f.ok =>
      f.id \in 1..Len(served[s]) /\ served[s][f.id] = c.topic

\* "Reject all pending replies so callers don't hang": of a closed transport only
\* calls wait that were made since, whatever sockets, timers and frames are left.
NobodyWaits == closed => \A c \in pending : c.ref >= closedRef

\* As long as sockets do not overlap, heartbeats are sent exactly while the
\* connection is open, by one interval.
OneHeartbeat == ~overlap => heart = IsConnected /\ ~leaked

MappedNow(t) ==
  IsConnected /\ nameToId[t] \in 1..Len(served[ws]) /\ served[ws][nameToId[t]] = t

\* The application opened the socket that is in use now; connect joins nothing.
TakenOver == ws # 0 /\ Alive(ws) /\ ~socks[ws].auto

\* When a reconnect is due, a topic that was joined, before or during the outage,
\* gets an id over an open connection again, however many attempts fail and
\* sockets overlap, unless the gateway refuses it, the client is closed or the
\* application calls connect itself.
Rejoined ==
  \A t \in Topics :
    t \in Range(joined) /\ timers > 0 /\ ~closed ~>
      \/ t \notin Range(joined)
      \/ IsConnected /\ nameToId[t] # 0
      \/ TakenOver

\* "Clear old mapping - deferred bindings will be re-resolved on join": a topic
\* that has its id back has its handlers back.
HandlersRebound ==
  \A t \in Topics : MappedNow(t) => <<nameToId[t], t>> \in bindings

=============================================================================
