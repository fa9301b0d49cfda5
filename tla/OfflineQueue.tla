---------------------------- MODULE OfflineQueue ----------------------------
(***************************************************************************)
(* The outbound half of the delta sync of one device.                      *)
(*                                                                         *)
(* While the transport is down, Channel.send writes to the IndexedDB store *)
(* "offlineQueue" (OfflineQueue.enqueue: count, maybe evict, add).  On      *)
(* reconnect MercuryClient starts SyncEngine.syncChannel for every channel *)
(* at once; after its pull each one drains the queue, pushes its own       *)
(* channel's entries with sync:push and acknowledges them.  Every await    *)
(* ends an action, so calls interleave the way the event loop lets them.   *)
(*                                                                         *)
(* The server's part is the sync:push handler and Persistence.Sync.        *)
(***************************************************************************)
EXTENDS DeltaSync

CONSTANTS
  Channels,     \* the channels of the user
  MaxQueue,     \* MAX_QUEUE_SIZE
  DrainBatch,   \* DRAIN_BATCH_SIZE
  MaxSends      \* bound: send() calls running at once

ASSUME QueueAssumption ==
  /\ MaxQueue \in Nat \ {0} /\ DrainBatch \in Nat \ {0} /\ MaxSends \in Nat

VARIABLES
  open,     \* the channels opened and joined since the page was loaded
  link,     \* the transport: "new" (page loaded), "up" (open and joined), "down"
  queue,    \* the object store "offlineQueue": set of entries
  nextId,   \* its autoIncrement key generator
  sends,    \* send() calls between two awaits
  syncs,    \* syncChannel() calls between two awaits
  stray,    \* sync:push batches in flight on a connection the client lost
  added,    \* history: every entry ever added to the queue
  evicted,  \* history: entries dropped by enqueue at capacity
  failed,   \* history: entries whose write the database refused
  crossed   \* history: entries cleared by another channel's acknowledgement

env == <<now, open>>
client == <<queue, nextId, sends, syncs>>
history == <<added, evicted, failed, crossed>>
vars == <<env, link, client, stray, rows, history>>

-----------------------------------------------------------------------------
Payloads == {"plain", "sealed"}

\* QueuedMessage: the autoIncrement id and what send() put into it.
Entry == [id : Nat, ch : Channels, msg : Msgs, ts : Times, payload : Payloads]

Row == [ch : Channels, bucket : Nat, msg : Msgs, ts : Times,
        body : {"sealed", "empty"}]

SendCall == [pc : {"count", "peek", "clear", "add"}, ch : Channels,
             msg : Msgs, ts : Times, oldest : Nat]

SyncCall == [slot : Slots, ch : Channels, batch : SUBSET Entry,
             pc : {"pull", "drain", "push", "wait", "replied", "ack"}]

\* Mutant: the cursor runs from the newest entry back.
DequeueNewest(q, n) == {e \in q : Cardinality({f \in q : f.id > e.id}) < n}

\* The first n entries in key order: LocalStore.dequeue(n).
Dequeue(q, n) == {e \in q : Cardinality({f \in q : f.id < e.id}) < n}

\* LocalStore.clearQueue(upTo): what is left when every key up to and
\* including upTo is deleted, whatever its channel.
ClearQueue(q, upTo) == {e \in q : e.id > upTo}

\* Mutants: the acknowledgement empties the store; its key range is open above.
AckEverything(q, batch) == {}
AckBelow(q, batch) == {e \in q : \A b \in batch : e.id >= b.id}

\* OfflineQueue.ack with the id of the last entry of a batch.
Ack(q, batch) == {e \in q : \A b \in batch : e.id > b.id}

\* Mutant: the payload goes out as it is.
EnvelopeRaw(payload) == payload

\* Channel.pushDeltas: only a payload that carries encrypted bytes keeps them.
EnvelopeBody(payload) == IF payload = "sealed" THEN "sealed" ELSE "empty"

\* Mutant: the bucket of the time at which the push is handled.
RowOnArrival(e) ==
  [ch |-> e.ch, bucket |-> Bucket(now), msg |-> e.msg, ts |-> e.ts,
   body |-> EnvelopeBody(e.payload)]

\* apply_single_delta for MessageAppend: the bucket is that of the client's
\* hlc_wall, so that a repeated push meets the same key.
RowOf(e) == [ch |-> e.ch, bucket |-> Bucket(e.ts), msg |-> e.msg, ts |-> e.ts,
             body |-> EnvelopeBody(e.payload)]

\* A call moves on to its next await.
Goto(call, pc) == [call EXCEPT !.pc = pc]

-----------------------------------------------------------------------------
Init ==
  /\ now = 0 /\ open = {}
  /\ link = "new"
  /\ queue = {}
  /\ nextId = 1
  /\ sends = {}
  /\ syncs = {}
  /\ stray = {}
  /\ rows = {}
  /\ added = {} /\ evicted = {} /\ failed = {} /\ crossed = {}

\* Channel.send on a channel that was joined, while the transport is down: a
\* fresh id, the time of the call.
Send(c, m) ==
  /\ link = "down" /\ c \in open
  /\ Cardinality(sends) < MaxSends
  /\ \A s \in sends : s.msg # m
  /\ \A e \in added : e.msg # m
  /\ sends' = sends \cup {[pc |-> "count", ch |-> c, msg |-> m, ts |-> now,
                           oldest |-> 0]}
  /\ UNCHANGED <<env, link, queue, nextId, syncs, stray, rows, history>>

\* enqueue: await queueSize() and the test against MAX_QUEUE_SIZE.
EnqueueCount(s) ==
  /\ s.pc = "count"
  /\ LET full == Cardinality(queue) >= MaxQueue
     IN  sends' = Replace(sends, s, Goto(s, IF full THEN "peek" ELSE "add"))
  /\ UNCHANGED <<env, link, queue, nextId, syncs, stray, rows, history>>

\* enqueue: await dequeue(1), the oldest entry, if there still is one.
EnqueuePeek(s) ==
  /\ s.pc = "peek"
  /\ \/ /\ queue = {}
        /\ sends' = Replace(sends, s, Goto(s, "add"))
     \/ \E o \in Dequeue(queue, 1) :
          sends' = Replace(sends, s, [Goto(s, "clear") EXCEPT !.oldest = o.id])
  /\ UNCHANGED <<env, link, queue, nextId, syncs, stray, rows, history>>

\* enqueue: await clearQueue(oldest).
EnqueueClear(s) ==
  /\ s.pc = "clear"
  /\ queue' = ClearQueue(queue, s.oldest)
  /\ evicted' = evicted \cup (queue \ queue')
  /\ sends' = Replace(sends, s, Goto(s, "add"))
  /\ UNCHANGED <<env, link, nextId, syncs, stray, rows, added, failed,
                 crossed>>

\* enqueue: await add(); send() resolves.
EnqueueAdd(s) ==
  /\ s.pc = "add"
  /\ LET e == [id |-> nextId, ch |-> s.ch, msg |-> s.msg, ts |-> s.ts,
               payload |-> "plain"]
     IN  /\ queue' = queue \cup {e}
         /\ added' = added \cup {e}
  /\ nextId' = nextId + 1
  /\ sends' = sends \ {s}
  /\ UNCHANGED <<env, link, syncs, stray, rows, evicted, failed, crossed>>

-----------------------------------------------------------------------------
\* MercuryClient.connect and Channel.join: the first connection of a page
\* does not run the reconnect callback, so nothing is synchronised.
Connect ==
  /\ link = "new"
  /\ link' = "up"
  /\ UNCHANGED <<env, client, stray, rows, history>>

\* MercuryClient.channel and Channel.join.
OpenChannel(c) ==
  /\ link = "up" /\ c \notin open
  /\ open' = open \cup {c}
  /\ UNCHANGED <<now, link, client, stray, rows, history>>

\* The reconnect callback: syncChannel for every open channel, none awaited.
Reconnect(k) ==
  /\ link = "down"
  /\ \A y \in syncs : y.slot # k
  /\ link' = "up"
  /\ syncs' = syncs \cup {[slot |-> k, ch |-> c, batch |-> {}, pc |-> "pull"] :
                            c \in open}
  /\ UNCHANGED <<env, queue, nextId, sends, stray, rows, history>>

\* The pull loop of syncChannel (module SyncPull) is over.
PullDone(y) ==
  /\ y.pc = "pull" /\ link = "up"
  /\ syncs' = Replace(syncs, y, Goto(y, "drain"))
  /\ UNCHANGED <<env, link, queue, nextId, sends, stray, rows, history>>

\* The pull was refused: syncChannel rejects and its caller ignores that.
PullFails(y) ==
  /\ y.pc = "pull"
  /\ syncs' = syncs \ {y}
  /\ UNCHANGED <<env, link, queue, nextId, sends, stray, rows, history>>

\* await drain(), then keep the entries of this channel; none: done.
Drain(y) ==
  /\ y.pc = "drain"
  /\ LET mine == {e \in Dequeue(queue, DrainBatch) : e.ch = y.ch}
     IN  syncs' = IF mine = {} THEN syncs \ {y}
                  ELSE Replace(syncs, y, [Goto(y, "push") EXCEPT !.batch = mine])
  /\ UNCHANGED <<env, link, queue, nextId, sends, stray, rows, history>>

\* Mutant: the push is not awaited before the acknowledgement.
PushDeltasUnawaited(y) ==
  /\ y.pc = "push"
  /\ syncs' = Replace(syncs, y, Goto(y, "ack"))
  /\ stray' = IF link = "up" THEN stray \cup {y.batch} ELSE stray
  /\ UNCHANGED <<env, link, queue, nextId, sends, rows, history>>

\* Channel.pushDeltas: sends the frame, or rejects when the socket is closed.
PushDeltas(y) ==
  /\ y.pc = "push"
  /\ syncs' = IF link = "up" THEN Replace(syncs, y, Goto(y, "wait"))
              ELSE syncs \ {y}
  /\ UNCHANGED <<env, link, queue, nextId, sends, stray, rows, history>>

\* Persistence.Sync.apply_deltas: every delta is written on its own and a
\* refused write does not stop the others, nor does the reply mention it.
ApplyDeltas(batch) ==
  \E bad \in SUBSET batch :
    /\ rows' = Upsert(rows, {RowOf(e) : e \in batch \ bad})
    /\ failed' = failed \cup bad

\* The sync:push handler answers a batch of a live connection.
SyncPush(y) ==
  /\ y.pc = "wait"
  /\ ApplyDeltas(y.batch)
  /\ syncs' = Replace(syncs, y, Goto(y, "replied"))
  /\ UNCHANGED <<env, link, queue, nextId, sends, stray, added, evicted,
                 crossed>>

\* The handler gets to a batch whose client has gone; the reply is lost.
SyncPushStray(b) ==
  /\ ApplyDeltas(b)
  /\ stray' = stray \ {b}
  /\ UNCHANGED <<env, link, client, added, evicted, crossed>>

\* The reply reaches pushDeltas; its count of accepted deltas is not used.
PushReplied(y) ==
  /\ y.pc = "replied" /\ link = "up"
  /\ syncs' = Replace(syncs, y, Goto(y, "ack"))
  /\ UNCHANGED <<env, link, queue, nextId, sends, stray, rows, history>>

\* The handler raised and its rescue clause answers with an error: the call
\* rejects and nothing is acknowledged.
PushRefused(y) ==
  /\ y.pc = "replied" /\ link = "up"
  /\ syncs' = syncs \ {y}
  /\ UNCHANGED <<env, link, queue, nextId, sends, stray, rows, history>>

\* await ack(lastId), and the call returns.
AckBatch(y) ==
  /\ y.pc = "ack"
  /\ queue' = Ack(queue, y.batch)
  /\ crossed' = crossed \cup {e \in queue \ queue' : e.ch # y.ch}
  /\ syncs' = syncs \ {y}
  /\ UNCHANGED <<env, link, nextId, sends, stray, rows, added, evicted,
                 failed>>

-----------------------------------------------------------------------------
\* onclose: a call waiting for a reply never gets it; the request itself may
\* still reach the server.  Calls between two IndexedDB operations go on.
Disconnect ==
  /\ link = "up"
  /\ link' = "down"
  /\ syncs' = {y \in syncs : y.pc \notin {"pull", "wait", "replied"}}
  /\ stray' = stray \cup {y.batch : y \in {z \in syncs : z.pc = "wait"}}
  /\ UNCHANGED <<env, queue, nextId, sends, rows, history>>

\* The tab is closed: only IndexedDB and the server survive.
Restart ==
  /\ link' = "new" /\ open' = {}
  /\ sends' = {}
  /\ syncs' = {}
  /\ stray' = stray \cup {y.batch : y \in {z \in syncs : z.pc = "wait"}}
  /\ UNCHANGED <<now, queue, nextId, rows, history>>

Tick ==
  /\ now < MaxTime
  /\ now' = now + 1
  /\ UNCHANGED <<open, link, client, stray, rows, history>>

Next ==
  \/ \E c \in Channels, m \in Msgs : Send(c, m)
  \/ \E s \in sends : \/ EnqueueCount(s) \/ EnqueuePeek(s)
                      \/ EnqueueClear(s) \/ EnqueueAdd(s)
  \/ Connect
  \/ \E c \in Channels : OpenChannel(c)
  \/ \E k \in Slots : Reconnect(k)
  \/ \E y \in syncs : \/ PullDone(y) \/ PullFails(y) \/ Drain(y)
                      \/ PushDeltas(y) \/ SyncPush(y)
                      \/ PushReplied(y) \/ PushRefused(y) \/ AckBatch(y)
  \/ \E b \in stray : SyncPushStray(b)
  \/ Disconnect
  \/ Restart
  \/ Tick

Spec == Init /\ [][Next]_vars

\* What FairSpec rules out in the long run: closed tabs, refused requests and
\* outages in the middle of a sync may happen any number of times, not forever.
Mishap ==
  \/ Restart
  \/ \E y \in syncs : PullFails(y) \/ PushRefused(y)
  \/ syncs # {} /\ Disconnect

\* The event loop gets on with every enqueue, and the event loop and the
\* server with every sync.
SendGoesOn == \E s \in sends : \/ EnqueueCount(s) \/ EnqueuePeek(s)
                               \/ EnqueueClear(s) \/ EnqueueAdd(s)
SyncGoesOn == \E y \in syncs : \/ PullDone(y) \/ Drain(y) \/ PushDeltas(y)
                               \/ SyncPush(y) \/ PushReplied(y) \/ AckBatch(y)
Reconnects == \E k \in Slots : Reconnect(k)

\* A link that is down comes back (scheduleReconnect never gives up); nothing
\* is assumed of the user, who may never open a channel again, or of the link,
\* which may stay up for good.
FairSpec ==
  /\ Spec
  /\ <>[][~Mishap]_vars
  /\ WF_vars(SendGoesOn) /\ WF_vars(SyncGoesOn) /\ WF_vars(Reconnects)

-----------------------------------------------------------------------------
\* Type correctness of the device's stores, the calls in flight and the table.
TypeOK ==
  /\ now \in Times /\ open \subseteq Channels
  /\ link \in {"new", "up", "down"}
  /\ queue \subseteq Entry
  /\ nextId \in Nat
  /\ sends \subseteq SendCall
  /\ syncs \subseteq SyncCall
  /\ stray \subseteq SUBSET Entry
  /\ rows \subseteq Row
  /\ added \subseteq Entry /\ evicted \subseteq Entry
  /\ failed \subseteq Entry /\ crossed \subseteq Entry

Stored(e) == \E r \in rows : r.ch = e.ch /\ r.msg = e.msg

\* A message whose send() resolved while offline is never lost without a
\* trace: it is still queued, or in the server's table, or it was dropped by
\* the capacity rule of enqueue, refused by the database, or cleared by the
\* acknowledgement of another channel (clearQueue knows no channels).
AccountedFor ==
  \A e \in added :
    \/ e \in queue \cup evicted \cup failed \cup crossed
    \/ Stored(e)

\* What docs/adr/008 promises of offline compose ("messages queued locally,
\* pushed on reconnect"): an entry only leaves the queue by reaching the
\* server, by the capacity rule or by a refused write.
NoSilentLoss ==
  \A e \in added : e \in queue \cup evicted \cup failed \/ Stored(e)

\* That promise is kept as long as the user composes offline in one channel
\* only, however many are open: overlapping syncs, lost replies, stray pushes
\* and restarts between two awaits lose nothing of it.
NoLossAlone == (\A e, f \in added : e.ch = f.ch) => NoSilentLoss

\* "Drains in order": no message of a channel reaches the table while an
\* earlier one of that channel still waits to be pushed, across lost
\* replies, overlapping syncs and restarts.
InOrder ==
  \A e \in queue, f \in added :
    e.ch = f.ch /\ e.id < f.id /\ Stored(f) => Stored(e) \/ e \in failed

\* A push that is repeated because its reply was lost, or sent by two
\* overlapping syncs, or handled late, leaves one row per message.
OneRowPerMessage == \A r, s \in rows : r.msg = s.msg => r = s

\* "Offline compose works": a reconnect pushes at most one batch of each open
\* channel and the first connection of a page pushes none, so what is queued
\* may take several reconnects; but if the link goes down again and again while
\* every channel with queued messages is open, the queue empties in the end.
QueueDrains ==
  []<>(link = "down" /\ \A e \in queue : e.ch \in open) => <>[](queue = {})

\* A message queued offline reaches the server with its content.
BodiesSurvive == \A r \in rows : r.body # "empty"

=============================================================================
