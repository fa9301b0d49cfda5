# A TLA+ specification of Mercury

Mercury is a multi-tenant messaging system: a TypeScript SDK in the browser, an
Elixir gateway that speaks a binary WebSocket protocol, a persistence layer on
ScyllaDB, PostgreSQL, Dragonfly and NATS, and Rust crates for identifiers, CRDTs
and MLS encryption. This directory holds TLA+ modules for the parts whose
correctness depends on the order of events, the TLC configurations that check
them on small instances, and TLAPS proofs for every size of instance.
`PROJECT.json` relates every definition to the lines of source it models.

    tlc -workers 2 -config QueueOrder.cfg MCOfflineQueue   # a run
    tlapm OfflineQueue_proofs.tla                          # proofs

## 1. Inventory

| Component | State it keeps | Operations | Talks to |
|---|---|---|---|
| SDK `OfflineQueue`, `LocalStore` (offline-queue.ts, store.ts) | IndexedDB stores `offlineQueue` (autoIncrement), `messages`, `syncState` | enqueue, drain, ack; writeMessage, evictOldMessages, get/setSyncState | called by `SyncEngine` and `Channel.send`; every call is one or more transactions with an await between them |
| SDK `SyncEngine` (sync.ts) | none besides the stores | syncChannel (pull pages, save the cursor, push a batch, ack, evict), queueOffline | started for every channel at once by the reconnect callback of `MercuryClient` |
| SDK `Channel`, `MercuryClient` (channel.ts, client.ts) | joined channels, MLS readiness, handlers | join, send, history, markRead, sync, pushDeltas | transport, MLS client |
| SDK `MlsClient` (mls.ts) | an `MlsManager` in WASM, the channel encryption key (CEK) per channel | createGroup, addMember, tryDecryptCek, processWelcome, processCommit | called by the handlers of `Channel` |
| SDK `BinaryTransport` (transport.ts) | socket, pending replies, topic ids, bindings, reconnect timer | connect, disconnect, join, push, handleMessage, scheduleReconnect | gateway |
| `Gateway.BinarySocket` (binary_socket.ex) | per process: topics, topic_ids, pubsub_topics, next_topic_id, missed_heartbeats | one handler per frame type and event, heartbeat timer, delivery of broadcasts | Phoenix.PubSub, registry, SyncConsumer, persistence |
| `Gateway.ConnectionRegistry`, `Gateway.SyncConsumer` | ETS table device -> pid; NATS subscriptions per user | register, unregister; subscribe and unsubscribe casts | written by all sockets |
| `Persistence.Sync`, `Persistence.Messages` | `mercury.messages`, partitioned by channel and time bucket | get_deltas, apply_deltas, write, read_recent | ScyllaDB, cache |
| `Persistence.Members`, `ReadPositions`, `KeyPackages`, `Cache`, `Consumer`; `Gateway.RateLimiter` | membership, read positions, key packages; cached copies, rate counters and creator claims | cache-aside reads, read-then-write updates, INCR with EXPIRE, SET NX | PostgreSQL, ScyllaDB, Dragonfly, NATS |
| `mercury-crdt` | HLC, MessageLog, ORSet, ReactionMap, LWWRegister, GCounter | tick, append, add, remove, merge | used through the NIF and by tests |
| `mercury-core`, `-nif`, `-sdk-core` | none | Cap'n Proto codecs, validation, time buckets | everything |
| `mercury-crypto` | MLS groups inside OpenMLS | create, add, remove, encrypt, decrypt, process | `MlsClient`, through `-sdk-core` |

What is hard here: calls of one browser tab interleave at every `await` and share
one queue; a reply may be lost after the request was carried out; the tab may
be closed between any two steps; the gateway answers before a message is stored;
socket processes of one device overlap; broadcasts wait in mailboxes while topics
are left and joined again; clocks of replicas are unrelated and counters are
finite; a value is read from a table, the table changes, and the value is put into
the cache; devices that join a channel at the same time must find one creator, one
group and one key, over commits, Welcomes and keys that pass each other. The properties that make the parts correct:

* queue: what was queued is stored or accounted for, in order, once, within the
  limit, and in the end;
* pull: the cursor never passes what the device has not got;
* sockets: maps, subscriptions and the client's view of topic ids agree; dead
  peers are noticed; nothing outlives its connection;
* messages: what is shown and stored is what was sent, a refusal leaves no trace,
  what is accepted is delivered;
* caches: a reader gets what the tables held at some moment of the request; a read
  position only grows;
* handshake: ready devices share one key, which reaches only those that were
  invited, and a join ends;
* CRDTs: stamps and dots are unique, merges obey the laws and lose nothing, logs
  stay bounded, replicas converge.

`PROJECT.json` lists under "hazards" the places where each of these could go
wrong.

## 2. Modules

### MessageStore
The table `mercury.messages` as a set of rows: key (channel, bucket, message id),
`Upsert` for the INSERT of `Messages.write`, `Bucket` for `compute_time_bucket`.
Time is counted in ticks, `BucketSpan` of them to a bucket.

### DeltaSync
What the two halves of `syncChannel` share: the message ids, the clock `now` and the
table `rows`. The halves are modelled each by itself; their definitions have names
of their own, so that one module of proofs, and one instance for TLC, can extend both.

### OfflineQueue: the outbound half of the delta sync
One device. `queue` is the object store, `nextId` its key generator, `sends` the
`send()` calls and `syncs` the `syncChannel` calls that are between two awaits.
`EnqueueCount`, `EnqueuePeek`, `EnqueueClear` and `EnqueueAdd` are the four
awaits of `enqueue`; `PullDone`/`PullFails`, `Drain`, `PushDeltas`,
`PushReplied`/`PushRefused` and `AckBatch` those of `syncChannel`, and `SyncPush`
with `ApplyDeltas` is the server's handler. `Disconnect` leaves calls that wait
for a reply waiting forever (onclose does not reject them), so they disappear from
the model, while their request may still be handled (`stray`). `Restart` closes
the tab: everything but IndexedDB and the server is lost. `link` has the value
"new" until the first connection of a page, which, unlike a reconnect, does not run
the sync callback; `open` are the channels opened since then, the ones a reconnect
synchronises. A payload is "plain" or "sealed": `EnvelopeBody` keeps only
sealed ones, as `pushDeltas` does. `added`, `evicted`, `failed` and `crossed`
are history variables. A message that is sent while connected does not touch the
queue and is not modelled.

### SyncPull: the inbound half
One channel of one device, against the table. `MsgSend` answers the sender and
leaves the write to a task (`PersistMessage`, `PersistFails`); `ApplyDelta` is the
push of another device, with the time of composition. A `syncChannel` call
goes through `SyncRequest` (get_deltas reads the table: `PageLimit + 1` newest ids
of each bucket, filtered, sorted by time, cut), `SyncReply` (the wall clock is
taken afterwards), `WriteMessage` for each delta, `PageDone`, `SetSyncState` and
`EvictOldMessages`; `SyncFails` and `CloseTab` end it in between. The field `seen` and
the variables `passed`, `dropped` and `cut` are history; `cut` are the rows after the
cursor in the buckets that could be read (`Readable`) which the limits of a reply left
out. The timestamp of a message is any time, also one of the future, as the gateway
takes it from the client.

### Hlc, ReplicatedLog: clocks and logs of mercury-crdt
`Hlc` holds tick, merge and the order. The counter is a number up to
`CounterMax`; `TickPanics` is the checked_add of tick, `MergePanics` and the wrap
in `Merge` the plain `+ 1` of merge in a build with or without overflow
checks. `ReplicatedLog` runs replicas that append under their clock and merge
each other's logs (`Receive`) or the entries after their own latest
(`ReceiveDelta`, `EntriesAfter`). Every call reads a system time of its own, which may
step back as SystemTime may. `wrapped` is history: the nodes whose counter went from
its maximum to 0 in a merge, which only a build without overflow checks allows.

### GrowOnly, Crdts: the other types of mercury-crdt
`GrowOnly` is what replication promises whatever the type: an item comes into
being on the replica that owns it, others learn only items that exist, nobody
forgets one. The message log implements it with its keys as items (`AppendOnly`),
the counter with its increments (`CounterSpec`).

`Crdts` gives each replica a `ReactionMap` over an `ORSet`, an `LwwRegister`
stamped by an `Hlc`, and a `GCounter`. An ORSet is a set of tagged pairs plus
`next_seq`. `Exchange` merges the present state of another replica, `Send` and
`Receive` a copy that may be old, repeated or never read. `removed` is history.
The physical clock stands still, the worst case for the register.

### Connections: life and death of sockets
`Open`, `Close`, `Vanish` (the peer is gone without a close), `Heartbeat` and
the timer `HeartbeatCheck`; `Register` and `Unregister` of the ETS table; the
mailbox of SyncConsumer and `HandleCast`. A device may open a new process while
the old one still lives.

### BinarySocket: topics and broadcasts
The three maps of a socket, its PubSub subscriptions and its mailbox.
`HandleJoin` for channel, presence and lobby topics, `HandleLeave`, the events that
broadcast to all or to the others, `MlsRemove` and `ChCreate`, and
`HandleBroadcast`, which looks the route up at the time of delivery. A process
that joins a topic twice is subscribed twice and gets two copies.

### Transport: reconnects of the client
`socks` are the WebSockets the transport has opened, `ws` the last of them; all
share the maps of the transport. `Connect` and `FireTimer` open one, `OnOpen`
starts the heartbeat and, after a reconnect, joins every topic again (`Rejoin`),
`Fail` and `Closed` end one and schedule reconnects (`Reconnects`: onclose and
the rejected promise both do, which is how sockets come to overlap), `Disconnect`
clears and rejects. `Join` and `Push` are calls of the application,
`HandleMessage` their replies; `Serve` is the gateway, which numbers topics per
socket and may refuse a join. Handlers are bound in `HandleReply`, since
Channel.join registers them as soon as its join is answered; onByName therefore
never defers. As the methods check next to nothing, the application may connect while
it is connected or closed, join a topic twice or on a closed transport, and disconnect
at any time; `calls` bounds how often. `overlap`, `stale` and `closedRef` are
history: whether two sockets ever were there at once, the ids and handlers that a
disconnect or a repeated join leaves where no reconnect clears them, and the first
reference after a disconnect. Delays are left to the interleaving, heartbeat frames are
left out, their interval is not.

### Mls, Handshake: one key for a channel
`Mls` is `MlsGroupManager` with its WASM wrapper, as conditions and effects on a
manager. OpenMLS is external: an epoch is the sequence of all changes to the group,
so that two groups that forked share no epoch; a message is opened in exactly its
epoch, never by its sender. Whether OpenMLS accepts a Welcome for a group it
already knows is left open.

`Handshake` has the `Channel.join` of each device with a phase per await, the
handlers of broadcasts, and the gateway's handlers of the MLS events. A push is
handled by the gateway in the step that sends it, replies and broadcasts wait in
`inbox` in the order of the socket. `importing` are the calls of
`crypto.subtle.importKey` that are awaited; `claim` is the creator in the cache
(SET NX with an expiry, `LoseClaim`), `kps` the key packages. `Timeout` is the timer
of five seconds, `Reload` a new page. `Break` is the end of a socket: a device whose
call waits for a reply is "stuck", since the transport never settles the call; a
device between calls goes on. `Rejoin` is the reconnect, after which the handlers of
the channel hear nothing any more (`link` is "deaf"). What a device pushed before the
break has reached the gateway. `mishaps` counts timeouts, reloads, breaks and lost or
unreachable claims. A user has one device.

### Wire: codecs and validators
The Cap'n Proto structs of `proto.rs` as lists of words and pointers read by
position, with defaults for what is missing, as the library reads them; the
NIFs, where an error or panic of Rust becomes an exception (`Raised`);
`Message::validate`, `Channel::validate` and the copy of the first for the browser;
the time bucket, which panics beyond a `u32`, and the column it is stored in, a signed
`int` (`IntColumn`): a bucket that needs the 32nd bit is written as a negative number,
or the driver refuses it (`WriteFails` of MessagePath). A byte string is its value and
its size.

### MessagePath: from one client to the others
`Send` encodes an envelope, `MsgSend` is the gateway's handler in the order of the
code: decode, validate, limit, bucket, store, broadcast, answer. Bytes that do not
decode raise and are answered with an error; a frame above `MaxFrame` closes
the connection (`Overrun`). Typing, read receipts, commits, Welcomes, key packages
and history take the same way with their own structs. `RateCheck` is INCR with
EXPIRE, `Limited` lets everything pass when the cache is down. `Receive` is a
handler of `Channel.join`. A push, its handling and its reply are one step: the
gateway's process handles one frame at a time, and only the client that pushed
waits for the reply. Content stands for ciphertext. `said`, `accepted`, `refused`
and `admitted` are history.

### Stores: tables behind a cache
One channel and its members, recent messages and the read position of a user.
`JoinCached`, `JoinLoad`, `JoinPut` are `member?` with its cache, `Remove`,
`Create` and `InvalidateMembers` the changes; `HistoryCached`, `HistoryLoad`,
`HistoryOlder`, `HistoryPut` are `read_recent` over two buckets; `WriteRow`,
`InvalidateRecent` and `HandleCacheInvalidation` the task of `persist_message` and the
notice of other nodes, `SyncPush` the write that skips them; `GetPosition` and
`PutPosition` the two statements of `ReadPositions.update`. Every access to cache
or database may fail. `tainted` records that a cached value was out of
date when it was put or missed a deletion; `ever` and `always` what was true
during a join, `must` which messages a page may not omit. A message is the number
of its place in the table; ids are random, so a new one may come anywhere.

### MC modules and proofs
The `MC` module of each specification gives its constants their values. MCDeltaSync
puts OfflineQueue, SyncPull and Connections side by side, of which a behaviour takes one;
MCMessagePath lets a behaviour stress the rate, the limits or the other events. The theorems
are in `OfflineQueue_proofs` (which extends SyncPull as well, the other half of
the sync), `Transport_proofs` (and Connections, the other end of the sockets), `BinarySocket_proofs`, `ReplicatedLog_proofs`,
`Crdts_proofs`, `Handshake_proofs`, `MessagePath_proofs` and `Stores_proofs`. Definitions marked "Mutant" are
deliberate faults, next to the operator each one replaces: with the fault in place
the property named in `PROJECT.json` is violated.

## 3. Runs

| Run | Expectation | Shows |
|---|---|---|
| QueueOrder | pass | `TypeOK`, `AccountedFor`, `NoLossAlone` with two channels, three messages, a queue of two, batches of two and two sends at once |
| QueueCrossAck | violation | `NoSilentLoss` with two channels: one channel's ack clears the other's entries (docs/adr/008:49) |
| DeltaSync | pass | `InOrder`, `OneRowPerMessage` and, under fairness, `QueueDrains` of the queue, with two overlapping reconnects, two sends at once, evictions and a bucket boundary; `CursorSafe` of the pull, with two overlapping syncs, pages of one, failing reads, a store of one message; `RegistryLive`, `NoOrphanSubscription` and, under fairness, `Reaped` of the socket processes |
| SyncPages | violation | `PagesComplete` with pages of one: the second page is asked for after the server's time, so the rest of the backlog is skipped (docs/adr/008:39) |
| ReplicatedLog | pass | `TypeOK`, `StampsUnique`, `ClockDominates`, `MergeLaws`, `AppendOnly` (the keys implement GrowOnly) and `Converges` for three replicas of the release build, in which counters wrap |
| Crdts | pass | `DotsUnique`, `AddWins`, `ReadYourWrites`, `CounterSpec` (the counter implements GrowOnly) and `Converges`, for two replicas, three updates and two copies under way |
| BinarySocket | pass | `RoutesAgree`, `FramesLabelled`, `NothingAfterLeave` |
| Transport | pass | `TopicsKept`, `AnswersMatch`, `NobodyWaits`, `OneHeartbeat`, and `Rejoined` under fairness, over broken connections, failed attempts, overlapping sockets, refused and repeated joins, disconnect and connect again |
| Handshake | pass | `SharedKey`, `OnlyInvited`, and `JoinSettles` under fairness, for two devices with one reload, timeout, broken socket or lost claim and one removal |
| MessagePath | pass | `TypeOK`, `Authentic`, `RefusedLeavesNoTrace`, `AtMostRate`, `ValidatorsAgree`, and `Delivered` under fairness, with messages that are ordinary, empty, too large for a frame or from a clock ahead, and two connections of one user |
| Stores | pass | `JoinsHonest`, `HistoryHonest` over failing caches and tables, three messages and four requests |
| NeverBackward | violation | `NeverBackward`: two tasks read the position before either writes it (read_positions.ex:2) |

`TypeOK` is listed in three runs; type correctness is proved for every specification
and can be added to any configuration.

Further disagreements can be reproduced by changing one line of a configuration;
where a property is named that no run lists, it is defined in the module:

* `BodiesSurvive` as an invariant of QueueOrder: the content of a message
  composed offline is not sent, since `pushDeltas` keeps only encrypted content
  (architecture.md:1766 promises that such messages are "all delivered correctly");
* `NoMessageSkipped` as the invariant of SyncPages, with `PageLimit = 2`: a row stored late with an early
  timestamp lies behind the cursor (docs/adr/008:51);
* `HandlersRebound` as an invariant of Transport: a reconnect drops the handlers of
  a channel for good (transport.ts:247);
* `JoinReady` as an invariant of Handshake: join() returns although the channel is
  not ready, when the late attempt to make a group fails or is refused
  (channel.ts:23 says that it "blocks until the MLS handshake completes");
* `CekRotated` as an invariant of Handshake: a removal commits a new epoch, but the
  key that encrypts messages stays the same (mls.ts:11 says it is rotated);
* `SharedKey` without `mishaps = 0`: after a timeout or a lost claim two groups
  with two keys exist side by side, and nothing brings them together;
* `QueueDrains` without its premise: on a connection that stays up one batch is pushed
  and the rest waits, and the first connection of a page pushes nothing. As drain takes
  the oldest entries of all channels, entries of a channel that is not opened again also
  hold up the others (docs/adr/008:49 promises that messages are pushed on reconnect);
* `Cardinality(queue) <= MaxQueue` as an invariant of QueueOrder: two sends that both
  count before either adds outgrow the limit, although offline-queue.ts:5 says it is
  bounded;
* `ConnectedSubscribed` as an invariant of DeltaSync: the departure of one device
  ends the subscription of the user's other devices (sync_consumer.ex:3);
* `ClockDominates` and `StampsUnique` without the exception of `wrapped`: in the release
  build, which is what Dockerfile.gateway ships, a merge at the maximum of the counter
  moves the clock back to 0, although docs/phase-1-plan.md:277 says that "`merge()`
  produces clock ≥ both inputs";
* `JoinSettles` without "stuck": a join whose socket breaks under a waiting call never
  ends (transport.ts:64-67);
* `rows` of MessagePath with buckets in `0..MaxInt`: a client whose clock is far ahead has
  its message accepted and then stored in a negative bucket, where no reader looks, or
  not stored at all (messages.ex:39);
* the rate: gateway_rate_limiter_test.exs:14-23 and `default_burst: 150` of
  config.exs:21 expect 150 messages to pass at once. `RateLimiter.allow?` reads
  `default_rate` only, 100, and `AtMostRate` says that no more than `Rate` pass; nothing
  reads the burst;
* `MergeLaws` without its side condition: a merge that fills the log depends
  on its direction (traits.rs:3);
* `TopicsKept` without `~overlap`: when a failed reconnect has led to two
  sockets, a late reply over the older one may set an id that means another topic
  on the newer one;
* `TopicsKept` without `stale`: `disconnect()` keeps `topicBindings` (transport.ts:75-89),
  so that after `connect()` the handlers of an old topic get the events of the topic
  that is given its id;
* `OneHeartbeat` without `~overlap`: `connect()` right after `disconnect()`, and the late
  onclose of the old socket stops the new socket's heartbeat and schedules a reconnect.

**Bounds.** A limit of one or two stands for 10,000 and 100: all that the code does
with a limit is to compare against it, and two entries on either side of it
reach every branch. Two channels suffice for what channels do to each other
through the queue, since an entry is compared with one other channel's batch. Three messages in QueueOrder
give one that is pushed, one that waits and one that arrives at a full queue; evictions,
refused writes and acknowledgements across channels are all reached. There the clock
moves only once all messages are composed (the constraint `Composed`): nothing that run
checks depends on when a message was composed, which DeltaSync leaves open. In DeltaSync two
slots let a sync overlap with the next one; the queue holds one message, so that a second
one evicts it unless two sends run at once, and has one bucket boundary, the pull two,
hence cursors that overlapping syncs save in either order. Pages hold one row, so that
replies are cut, and the local store one message, so that every second write leads to an
eviction. Its three parts share no property, which is why a behaviour is one of a single part.
Three replicas are needed for associativity; a counter maximum of one makes overflow
reachable, `MaxLog = 2` with three appends a full log. In BinarySocket two ids
per socket allow a double join, a leave and join again, and the refusal when they
are used up. In Crdts an add, its removal and a third update on either of two
replicas, with two copies of older states, give every order of add, remove and
merge of one element. In Handshake two devices give the creator and the one that
joins, each may load the page twice; one mishap at a time already forks the group.
In MessagePath the limits of frame, rate, bucket and column each have a message on both
sides, and content is empty or not; the upper limit of content is never reached, neither
here nor in the code, since a frame may not be larger than `MAX_CONTENT_SIZE` and a larger
content closes the connection (`PathValidatorsAgree` covers any limits). A window of two
ticks within three, with two connections of one user and a rate of two, tells a window that
slides from one that starts anew. In Stores two processes are the reader and the writer of every race, three
messages lie in two buckets, and four requests are a read, a change, a read from the
cache and one more. In Transport four sockets are the fewest with which two overlap (one
breaks, the attempt to replace it fails and is repeated twice); two topics and
four calls allow connect, two joins and a push, or connect, join, disconnect, connect
and join again. Message ids are unordered in the queue (random bytes) and symmetric
there; in DeltaSync and SyncPages their order matters (the clustering order), so that only slots
are symmetric. Liveness runs use no symmetry.

**Deadlock.** The queue can always be restarted and is checked for
deadlock. Sockets that live once, replicas out of updates, topic ids that are used
up, and requests that were all answered end legitimately.

**What the passing runs leave to the reader.** Some properties hold under a
condition that names a behaviour of the code worth knowing. `JoinsHonest` and
`HistoryHonest` except a cached value that was stale when it was put or missed a
deletion: for up to the time to live (60 and 30 seconds) a removed member can join
and a page can lack a message, also after every sync:push, which deletes nothing
from the cache. A write that the database refuses is answered as accepted, which
`AccountedFor` admits. `RegistryLive` does not say that a live process is named: the old
process of a device deletes the entry of the new one. `RoutesAgree` allows the id that a
leave of a topic joined twice leaves behind. `CursorSafe` speaks of the buckets that
could be read and of what a reply held. `Delivered` excepts the sender's
user: handlers drop messages of their own user, so other devices of the sender see
them only in the history. `ValidatorsAgree` speaks of messages that are answered: one
of the largest size that both validators accept does not fit into a frame and
closes the connection. `AtMostRate` is an upper limit; every attempt renews the
counter's expiry, so that a client which keeps trying stays refused. `AddWins`
speaks of adds that nobody removed: a removed reaction comes back when an older
state is merged. In Handshake the creator adds the first key package of a user only,
so that one device of several gets the key; a device whose socket broke is connected
again without handlers and hears of no later commit or key; and `removeMember` sends a plain
commit, which leaves the membership in the database as it was.

**Fairness.** `OfflineQueue!FairSpec` (and, for its part, `MCDeltaSync!MCSpec`): the event
loop gets on with calls whose awaited operation can complete (IndexedDB and the server
answer) and reconnects are retried without end (`scheduleReconnect`). Closed tabs,
refused requests and outages in the middle of a sync happen any number of times, but
not forever (`<>[][~Mishap]_vars`); without that nothing could be said. Nothing is assumed
of outages or of the user: that the link goes down again and again, with the channels of
the queued messages open, is the premise of `QueueDrains`, because the code pushes only
after a reconnect, one batch of a channel each time.
`Connections!GatewayFairSpec`: timers fire and GenServers handle their mailboxes.
`ReplicatedLog!FairSpec`: replicas keep exchanging state.
`Transport!FairSpec`: timers fire, and a socket that does not fail opens, is
answered and has its frames handled; that failures end is part of the bound
`MaxSockets`.
`Crdts!FairSpec`: every replica keeps exchanging its state with every other.
`Handshake!Fairness`: the gateway answers what reaches it over a socket that holds, the
browser runs callbacks and timers; a socket may break and need not come back.
`MessagePath!FairSpec`: a client handles what its connection delivers; a write may
stay undone, which `Delivered` does not depend on.

## 4. Proofs

Every theorem holds for all values of the constants that satisfy the named
assumption of the module (bounds are naturals, limits positive, functions like
`UserOf` are total, a null value is none of the values it stands beside). A theorem
that needs more says so in its hypotheses. Hardly any property is inductive as it stands;
each specification has an invariant for that, a conjunction of named parts, that TLC
checked before it was proved, and one lemma per action or per group of actions that
touch the same state.

**Offline queue** (`QueueTypeOK`, `QueueAccountedFor`, `QueueInOrder`,
`QueueOneRow`; `QueueNoLossAlone` for messages of a single channel, which is where
QueueCrossAck shows the limit of the statement). `QueueInv` adds: keys and message
ids are unique and below the generator (`Keys`); a running send has a message nobody
queued (`SendsFresh`); **every batch in flight was a prefix of its channel's queue**,
so that whatever of that channel is older and still queued is in the batch too, and
stays so as the queue only loses its head or grows at its tail (`Batches`); a batch
that was answered is stored or refused (`Handled`); every row comes from an entry
(`RowsOfEntries`). The prefix property is what makes the acknowledgement by
"everything up to this key" right for the channel itself, and what makes the
order right when two syncs push overlapping batches.

**Pull** (`PullWellTyped`, `PullCursorSafe`, for pages of any size). `PullInv`: ids are
unique (`RowsInv`); what the device holds is in
the table; **what a call has seen is on the device, was evicted, was cut from a reply,
or is in the page that the call is still storing** (`CallOK`).

**Message log** (`LogTypeOK`, `LogStampsUnique`, `LogClockDominates`, `LogMergeLaws`,
`LogAppendOnly`), in a build that traps overflow and in one that wraps. `LogInv` adds that
every entry ever issued by a replica is not after that replica's clock, unless its
counter has wrapped, which is why the next stamp is new. `TrapsNeverWrap` removes the
exceptions for the build that traps. For `LogMergeLaws`, a merge of logs that fit into
one and hold no entry of a replica that wrapped is their union.
`LogAppendOnly` is the refinement of `GrowOnly!Spec` with the keys of the logs as items: an
append under a new stamp is an `Issue`, one that repeats a stamp after a wrap a `Learn`; a merge
or a delta, whole or cut off at a full log, is a `Learn`.

**Other CRDTs** (`CrdtTypeOK`, `CrdtDotsUnique`, `CrdtAddWins`, `CrdtCounterSpec`;
`CrdtReadYourWrites` when overflow is trapped). `CrdtInv` speaks of all states of the
system, those of replicas and the copies under way alike (`AllStates`): each knows of
another's dots and increments no more than the owner, holds no dot beyond its own
`next_seq`, and **holds every dot up to it that was never removed** (`AllSound`); removed
dots were given out (`RemovedKnown`). `ClockInv`: no register carries a stamp after
the clock of its replica. `CrdtCounterSpec` maps a count n
of a node to its increments 1..n.

**Transport** (`LinkTypeOK`, `LinkNobodyWaits`, `LinkAnswersMatch`, `LinkOneHeartbeat`,
`LinkTopicsKept`), for any sequence of connect, join, push and disconnect.
`LinkInv`: only an open socket carries frames, and `ws` is the last socket or none
(`Lone`); references are unique among the calls that wait and below the counter (`Refs`),
and a frame is of the kind and topic of the call with its reference, over every socket
(`FramesMatch`), from which `AnswersMatch` follows; an id or a handler that is not stale
belongs to a joined topic and is its present one (`Tracked`), which is what the next
reconnect clears. As long as sockets did not overlap (`Single`), the last socket is the
only one alive, the heartbeat runs exactly while it is open, a transport that is closed
or connects anew has nothing but stale handlers, and over the open connection the ids
of the client mean what the gateway means by them (`IdsMean`, `PushesMean`).

**Connections** (`ConnTypeOK`, `ConnRegistryLive`, `ConnNoOrphanSubscription`).
`CastsInv` is the argument
for the last one: for a user without connections an unsubscribe waits in the mailbox
behind every subscribe, or there is nothing to undo.

**Topics and broadcasts** (`SocketTypeOK`, `SocketRoutesAgree`, `SocketFramesLabelled`,
and `SocketNothingAfterLeave`, an action property). `IdsInv`: ids in use were granted,
granted ids and the number of subscriptions are below `next_topic_id`.

**Handshake** (`HandTypeOK`, `HandSharedKey`, `HandOnlyInvited`). `Sound` holds in every
state: the members of a group, and of the epochs of commits, Welcomes and keys on their
way, are its founder and those that were added to it; **no group has grown before
its founder was ready**, so that a device which still waits and can read a key
from another is not the founder of that group but was added to it; a key that
somebody imports or uses is its own, or it was invited. `OneKey` holds while
`mishaps = 0`: all keys that are imported, used or under way are those of the session
that holds the claim; this is what a lost claim, a reload, a broken socket or a timeout breaks.

**Message path** (`PathTypeOK`, `PathAuthentic`, `PathRefusedLeavesNoTrace`,
`PathAtMostRate`, `PathValidatorsAgree`). `Honest`: what is shown, stored,
about to be stored or in an inbox, once read as its handler reads it, was said;
this rests on lemmas about each codec (decoding an encoding by position).
`Traced`: what is stored, shown or under way was accepted, and what was refused was
not. `Judged` ties both to the validators. `RateInv`: the messages that a
counter counts were admitted last, a window after all others, and it does not expire
within a window of any of them. `PathTypeOK` rests on the assumption
`MaxBucket <= 2 * MaxInt + 1`: the column has as many bits as the bucket.

**Stores** (`StoresTypeOK`, `StoresJoinsHonest`, `StoresHistoryHonest`). `MembersInv`: a list
that a join has read is true of its user at some moment of the request (`JobsHonest`),
and a cached list that is not tainted differs from the table only in users whose change
has yet to invalidate it (`ListHonest`). `HistoryInv`: a message is
written by one task (`WritesOnce`), and a page that is being read or is cached and
not tainted has what it may not omit.

Only model-checked: liveness (`QueueDrains`, `Reaped`, `Converges`, `Rejoined`,
`JoinSettles`, `Delivered`), which TLAPS cannot prove under
fairness. Every safety property of a passing run is proved.

## 5. Not modelled

* Byte layout of frames and of generated code, text forms of ids, token checks, HTTP
  endpoints, metrics and schemas: no state that events could bring out of order.
* OpenMLS, Cap'n Proto, the databases and the browser: external, modelled from
  how the code uses them. AES-GCM of the content is left out.
* The record types and bounds of `delta.rs`, the `Encryptor` trait, the NIFs that
  hold MLS managers, the SDK's worker, `KeyPackages.consume` and
  `Sync.get_cursors`: nothing in the repository calls them.
* `sync:cursor` and the GC worker: they write and delete rows from which nothing is
  computed.
* Deltas other than MessageAppend are accepted by the server and sent by no client.
  The fan-out of pushed deltas ends in a broadcast on `sync:fanout`, to which no
  process subscribes.
* The Presence and Fanout applications are supervisors around libraries.
* Several devices of one user in the handshake, and tenants: all state is keyed by
  tenant, and no operation crosses one.

## 6. Plan

Done, in this order: OfflineQueue, SyncPull, ReplicatedLog, Connections,
BinarySocket, Transport, Crdts with GrowOnly, Handshake with Mls, MessagePath with
Wire, Stores; proofs of type correctness and of every safety property in the runs.

1. An abstract specification of the offline outbox (a message is composed, then
   delivered once or declared lost) with OfflineQueue proved to implement it.
2. Proofs of further laws: for overlapping sockets, what `TopicsKept` still guarantees;
   for a backlog of several pages, which messages the pull skips.
3. Several devices per user in Handshake, once the code adds more than the first
   key package.
