------------------------------ MODULE SyncPull ------------------------------
(***************************************************************************)
(* The inbound half of the delta sync of one device, for one channel       *)
(* (cursor, local store and deltas are kept per channel on both sides).    *)
(*                                                                         *)
(* Members send messages; the gateway answers at once and writes them to   *)
(* ScyllaDB in a task of its own.  The device's syncChannel calls read the *)
(* cursor, ask for the deltas after it page by page (sync:request), put    *)
(* them into IndexedDB one by one and then move the cursor to the wall     *)
(* clock the server sent along.  The request is answered in two steps:     *)
(* Persistence.Sync.get_deltas reads the table, then the handler takes the *)
(* time for the reply.                                                     *)
(***************************************************************************)
EXTENDS DeltaSync

CONSTANTS
  PageLimit,   \* deltas per sync:request reply
  MaxLocal,    \* MAX_MESSAGES_PER_CHANNEL
  DbFaults     \* whether a read of a bucket may fail

\* The ids' order is the table's clustering order.
ASSUME PullAssumption ==
  /\ Msgs \subseteq Nat /\ PageLimit \in Nat \ {0} /\ MaxLocal \in Nat \ {0}
  /\ DbFaults \in BOOLEAN

VARIABLES
  pending,  \* messages whose persist task has not run yet
  cursor,   \* the device's syncState: lastHlcWall, 0 when there is none
  local,    \* the device's object store "messages" of this channel
  pulls,    \* syncChannel() calls between two awaits
  passed,   \* history: what the calls that moved the cursor had seen
  dropped,  \* history: messages evictOldMessages removed from the device
  cut       \* history: rows that a request could read and its reply left out

server == <<pending, rows>>
device == <<cursor, local, pulls>>
pullHistory == <<passed, dropped, cut>>
pullVars == <<now, server, device, pullHistory>>

-----------------------------------------------------------------------------
Delta == [msg : Msgs, ts : Times]
DeltaRow == [ch : {"ch"}, bucket : Nat, msg : Msgs, ts : Times]

\* seen is a history field: the rows after its wall that the call's reads of
\* the table could have returned.
PullCall == [slot : Slots, last : Times, wall : Times, more : BOOLEAN,
             page : SUBSET Delta, seen : SUBSET Delta,
             pc : {"pull", "reply", "store", "save", "evict"}]

RowOfDelta(d) == [ch |-> "ch", bucket |-> Bucket(d.ts), msg |-> d.msg, ts |-> d.ts]
DeltaOf(r) == [msg |-> r.msg, ts |-> r.ts]

\* The n rows of a set that come first in the (irreflexive) order Less.
FirstRows(set, n, Less(_, _)) ==
  {r \in set : Cardinality({q \in set : Less(q, r)}) < n}

ByIdDesc(q, r) == q.msg > r.msg

\* Enum.sort_by(created_at) is stable: rows of equal time, always of one
\* bucket, keep the order in which the bucket was read.
ByCreatedAt(q, r) == q.ts < r.ts \/ (q.ts = r.ts /\ q.msg > r.msg)

\* fetch_messages_after: the newest ids of a bucket, then those after since.
FetchMessagesAfter(bucket, since, limit) ==
  {r \in FirstRows({r \in rows : r.bucket = bucket}, limit, ByIdDesc) :
     r.ts > since}

\* get_deltas: the rows read from every bucket since..now; a bucket whose read
\* fails (bad) contributes nothing.
GetDeltas(since, bad) ==
  UNION {FetchMessagesAfter(b, since, PageLimit + 1) :
           b \in (Bucket(since)..Bucket(now)) \ bad}

\* The rows after since in those buckets, without the limits.
Readable(since, bad) ==
  {r \in rows : r.bucket \in (Bucket(since)..Bucket(now)) \ bad /\ r.ts > since}

Page(found) == FirstRows(found, PageLimit, ByCreatedAt)
HasMore(found) == Cardinality(found) > PageLimit

\* Hlc.merge of the server's clock with the wall the client sent.
MergedWall(since) == IF now > since THEN now ELSE since

\* The index byTimestamp of the store, ties by the primary key.
ByTimestamp(d, e) == d.ts < e.ts \/ (d.ts = e.ts /\ d.msg < e.msg)

\* evictOldMessages: the oldest messages when the store holds too many.
Excess(store) == FirstRows(store, Cardinality(store) - MaxLocal, ByTimestamp)


-----------------------------------------------------------------------------
PullInit ==
  /\ now = 0
  /\ pending = {} /\ rows = {}
  /\ cursor = 0 /\ local = {} /\ pulls = {}
  /\ passed = {} /\ dropped = {} /\ cut = {}

\* msg:send: the gateway answers and starts the persist task; the timestamp
\* is the one the sender's device put into the envelope, whatever its clock says.
MsgSend(m, ts) ==
  /\ \A d \in pending \cup {DeltaOf(r) : r \in rows} : d.msg # m
  /\ pending' = pending \cup {[msg |-> m, ts |-> ts]}
  /\ UNCHANGED <<now, rows, device, pullHistory>>

\* persist_message's task: one write.
PersistMessage(d) ==
  /\ pending' = pending \ {d}
  /\ rows' = Upsert(rows, {RowOfDelta(d)})
  /\ UNCHANGED <<now, device, pullHistory>>

\* The write fails: logged, not retried; nobody is told.
PersistFails(d) ==
  /\ pending' = pending \ {d}
  /\ UNCHANGED <<now, rows, device, pullHistory>>

\* Another device's sync:push of a message it queued while offline: written
\* before the reply, with the time that its clock gave when it was composed.
ApplyDelta(m, ts) ==
  /\ \A d \in pending \cup {DeltaOf(r) : r \in rows} : d.msg # m
  /\ rows' = Upsert(rows, {RowOfDelta([msg |-> m, ts |-> ts])})
  /\ UNCHANGED <<now, pending, device, pullHistory>>

-----------------------------------------------------------------------------
\* syncChannel: await getSyncState.
SyncChannel(k) ==
  /\ \A y \in pulls : y.slot # k
  /\ pulls' = pulls \cup {[slot |-> k, last |-> cursor, wall |-> cursor,
                           more |-> TRUE, page |-> {}, seen |-> {},
                           pc |-> "pull"]}
  /\ UNCHANGED <<now, server, cursor, local, pullHistory>>

\* sync:request: get_deltas reads the table.
SyncRequest(y) ==
  /\ y.pc = "pull"
  /\ \E bad \in IF DbFaults THEN SUBSET (0..Bucket(now)) ELSE {{}} :
       LET found == GetDeltas(y.wall, bad)
           page == {DeltaOf(r) : r \in Page(found)}
           there == {DeltaOf(r) : r \in Readable(y.wall, bad)}
       IN  /\ pulls' = Replace(pulls, y,
                [y EXCEPT !.pc = "reply", !.more = HasMore(found), !.page = page,
                          !.seen = @ \cup there])
           /\ cut' = cut \cup (there \ page)
  /\ UNCHANGED <<now, server, cursor, local, passed, dropped>>

\* Mutant: the cursor is saved before the page is stored.
SyncReplySaves(y) ==
  /\ y.pc = "reply"
  /\ pulls' = Replace(pulls, y,
                [y EXCEPT !.pc = "store", !.wall = MergedWall(y.wall)])
  /\ cursor' = MergedWall(y.wall)
  /\ passed' = passed \cup y.seen
  /\ UNCHANGED <<now, server, local, dropped, cut>>

\* sync:request: the handler takes the time and the client gets the reply.
SyncReply(y) ==
  /\ y.pc = "reply"
  /\ pulls' = Replace(pulls, y,
                [y EXCEPT !.pc = "store", !.wall = MergedWall(y.wall)])
  /\ UNCHANGED <<now, server, cursor, local, pullHistory>>

\* await writeMessage for the next delta of the page: a put on its id.
WriteMessage(y) ==
  /\ y.pc = "store"
  /\ \E d \in y.page :
       /\ \A e \in y.page : ~ByCreatedAt(e, d)
       /\ local' = {e \in local : e.msg # d.msg} \cup {d}
       /\ pulls' = Replace(pulls, y, [y EXCEPT !.page = @ \ {d}])
  /\ UNCHANGED <<now, server, cursor, pullHistory>>

\* The page is stored: ask for the next one or leave the loop.
PageDone(y) ==
  /\ y.pc = "store" /\ y.page = {}
  /\ pulls' = Replace(pulls, y,
                [y EXCEPT !.pc = IF y.more THEN "pull" ELSE "save"])
  /\ UNCHANGED <<now, server, cursor, local, pullHistory>>

\* await setSyncState, when the wall moved past the one read at the start.
SetSyncState(y) ==
  /\ y.pc = "save"
  /\ IF y.wall > y.last
     THEN cursor' = y.wall /\ passed' = passed \cup y.seen
     ELSE UNCHANGED <<cursor, passed>>
  /\ pulls' = Replace(pulls, y, [y EXCEPT !.pc = "evict"])
  /\ UNCHANGED <<now, server, local, dropped, cut>>

\* The push phase (module OfflineQueue) is over; await evictOldMessages.
EvictOldMessages(y) ==
  /\ y.pc = "evict"
  /\ local' = local \ Excess(local)
  /\ dropped' = dropped \cup Excess(local)
  /\ pulls' = pulls \ {y}
  /\ UNCHANGED <<now, server, cursor, passed, cut>>

\* A request refused or never answered, or a failure of the push phase: the
\* call ends where it is.
SyncFails(y) ==
  /\ y.pc \in {"pull", "reply", "evict"}
  /\ pulls' = pulls \ {y}
  /\ UNCHANGED <<now, server, cursor, local, pullHistory>>

\* The tab is closed between two awaits.
CloseTab ==
  /\ pulls' = {}
  /\ UNCHANGED <<now, server, cursor, local, pullHistory>>

TimePasses ==
  /\ now < MaxTime
  /\ now' = now + 1
  /\ UNCHANGED <<server, device, pullHistory>>

PullNext ==
  \/ \E m \in Msgs, ts \in Times : MsgSend(m, ts) \/ ApplyDelta(m, ts)
  \/ \E d \in pending : PersistMessage(d) \/ PersistFails(d)
  \/ \E k \in Slots : SyncChannel(k)
  \/ \E y \in pulls : \/ SyncRequest(y) \/ SyncReply(y) \/ WriteMessage(y)
                      \/ PageDone(y) \/ SetSyncState(y)
                      \/ EvictOldMessages(y) \/ SyncFails(y)
  \/ CloseTab
  \/ TimePasses

PullSpec == PullInit /\ [][PullNext]_pullVars

-----------------------------------------------------------------------------
\* Type correctness of the table, the device's stores and the calls in flight.
PullTypeOK ==
  /\ now \in Times
  /\ pending \subseteq Delta
  /\ rows \subseteq DeltaRow
  /\ cursor \in Times
  /\ local \subseteq Delta
  /\ pulls \subseteq PullCall
  /\ passed \subseteq Delta /\ dropped \subseteq Delta /\ cut \subseteq Delta

\* When a sync moves the cursor, every row that its reads of the table could
\* have returned is in the local store or was evicted from it, but for the rows
\* that the limits of a reply left out.  Lost replies, overlapping syncs, failing
\* buckets and restarts between two writes may not break it.
CursorSafe == passed \subseteq local \cup dropped \cup cut

\* "Max 100 deltas per sync response (paginated via `has_more` flag)" and "No
\* data loss" (docs/adr/008): the pages of a sync together bring every row that
\* its reads of the table could have returned.
PagesComplete == passed \subseteq local \cup dropped

\* "No data loss" for every message the gateway acknowledged and stored: no
\* row lies behind the cursor of the device without being on the device.
NoMessageSkipped ==
  \A r \in rows : r.ts > cursor \/ DeltaOf(r) \in local \cup dropped

=============================================================================
