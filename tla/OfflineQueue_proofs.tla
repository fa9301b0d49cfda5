------------------------ MODULE OfflineQueue_proofs -------------------------
(***************************************************************************)
(* Proofs about both halves of the delta sync.                             *)
(*                                                                         *)
(* OfflineQueue: nothing a resolved send() put into the queue disappears   *)
(* unaccounted for, a repeated push leaves one row per message, and        *)
(* messages of a channel reach the table in order, for any number of       *)
(* channels, messages, overlapping calls and any capacity and batch size.  *)
(*                                                                         *)
(* SyncPull: the cursor never moves past a message that the device has not *)
(* stored.                                                                 *)
(***************************************************************************)
EXTENDS OfflineQueue, SyncPull, FiniteSetTheorems, TLAPS

-----------------------------------------------------------------------------
(* The helpers.                                                            *)

\* dequeue(n) yields a prefix of the queue: with an entry, all earlier ones.
LEMMA DequeuePrefix ==
  ASSUME NEW q \in SUBSET Entry, IsFiniteSet(q), NEW n \in Nat,
         NEW e \in Dequeue(q, n), NEW f \in q, f.id <= e.id
  PROVE  f \in Dequeue(q, n)
<1> DEFINE under(x) == {g \in q : g.id < x.id}
<1>1. under(f) \subseteq under(e)
  <2>1. \A g \in q : g.id \in Nat
    BY DEF Entry
  <2>2. e \in q
    BY DEF Dequeue
  <2> QED
    BY <2>1, <2>2
<1>2. IsFiniteSet(under(e)) /\ under(e) \subseteq q
  BY FS_Subset
<1>3. IsFiniteSet(under(f)) /\ Cardinality(under(f)) <= Cardinality(under(e))
  BY <1>1, <1>2, FS_Subset
<1>4. Cardinality(under(e)) \in Nat /\ Cardinality(under(f)) \in Nat
  BY <1>2, <1>3, FS_CardinalityType
<1>5. Cardinality(under(e)) < n
  BY DEF Dequeue
<1>6. Cardinality(under(f)) < n
  BY <1>3, <1>4, <1>5
<1> QED
  BY <1>6 DEF Dequeue

\* A row that is overwritten is overwritten by a row of the same message.
LEMMA UpsertKeeps ==
  ASSUME NEW table, NEW new, NEW r \in table
  PROVE  \E s \in Upsert(table, new) : s.ch = r.ch /\ s.msg = r.msg
<1>1. CASE \A n \in new : Key(n) # Key(r)
  BY <1>1 DEF Upsert
<1>2. CASE \E n \in new : Key(n) = Key(r)
  <2>1. PICK n \in new : Key(n) = Key(r)
    BY <1>2
  <2>2. n.ch = r.ch /\ n.msg = r.msg
    BY <2>1 DEF Key
  <2> QED
    BY <2>2 DEF Upsert
<1> QED
  BY <1>1, <1>2

LEMMA UpsertWithin ==
  ASSUME NEW table, NEW new
  PROVE  Upsert(table, new) \subseteq table \cup new /\ new \subseteq Upsert(table, new)
  BY DEF Upsert

LEMMA RowOfEntry ==
  ASSUME NEW e \in Entry
  PROVE  /\ RowOf(e) \in Row
         /\ RowOf(e).ch = e.ch /\ RowOf(e).msg = e.msg
<1>1. e.ts \in Nat /\ e.ts \in Times /\ e.ch \in Channels /\ e.msg \in Msgs
  BY DeltaSyncAssumption DEF Entry, Times
<1>2. Bucket(e.ts) \in Nat
  BY <1>1, BucketAssumption DEF Bucket
<1>3. EnvelopeBody(e.payload) \in {"sealed", "empty"}
  BY DEF EnvelopeBody
<1> QED
  BY <1>1, <1>2, <1>3 DEF RowOf, Row

LEMMA GotoSync ==
  ASSUME NEW y \in SyncCall,
         NEW p \in {"pull", "drain", "push", "wait", "replied", "ack"}
  PROVE  /\ Goto(y, p) \in SyncCall
         /\ Goto(y, p).pc = p /\ Goto(y, p).ch = y.ch
         /\ Goto(y, p).batch = y.batch
  BY DEF Goto, SyncCall

LEMMA GotoSend ==
  ASSUME NEW s \in SendCall, NEW p \in {"count", "peek", "clear", "add"}
  PROVE  /\ Goto(s, p) \in SendCall
         /\ Goto(s, p).msg = s.msg
         /\ \A o \in Nat : /\ [Goto(s, p) EXCEPT !.oldest = o] \in SendCall
                           /\ [Goto(s, p) EXCEPT !.oldest = o].msg = s.msg
  BY DEF Goto, SendCall

LEMMA GotoPush ==
  ASSUME NEW y \in SyncCall, NEW b \in SUBSET Entry
  PROVE  /\ [Goto(y, "push") EXCEPT !.batch = b] \in SyncCall
         /\ [Goto(y, "push") EXCEPT !.batch = b].pc = "push"
         /\ [Goto(y, "push") EXCEPT !.batch = b].ch = y.ch
         /\ [Goto(y, "push") EXCEPT !.batch = b].batch = b
  BY DEF Goto, SyncCall

-----------------------------------------------------------------------------
(* Type correctness.                                                       *)

LEMMA TypeInit == Init => TypeOK
  BY DeltaSyncAssumption DEF Init, TypeOK, Times

LEMMA TypeStep == TypeOK /\ [Next]_vars => TypeOK'
<1> SUFFICES ASSUME TypeOK, [Next]_vars PROVE TypeOK'
  OBVIOUS
<1> USE DEF TypeOK
<1>1. ASSUME NEW c \in Channels, NEW m \in Msgs, Send(c, m) PROVE TypeOK'
  <2>1. [pc |-> "count", ch |-> c, msg |-> m, ts |-> now, oldest |-> 0]
          \in SendCall
    BY DEF SendCall
  <2> QED
    BY <1>1, <2>1 DEF Send, history, env
<1>2. ASSUME NEW s \in sends, EnqueueCount(s) PROVE TypeOK'
  BY <1>2, GotoSend DEF EnqueueCount, Replace, history, env
<1>3. ASSUME NEW s \in sends, EnqueuePeek(s) PROVE TypeOK'
  <2>1. sends' \subseteq SendCall
    <3>1. CASE sends' = Replace(sends, s, Goto(s, "add"))
      BY <3>1, GotoSend DEF Replace
    <3>2. ASSUME NEW o \in Dequeue(queue, 1),
                 sends' = Replace(sends, s, [Goto(s, "clear") EXCEPT !.oldest = o.id])
          PROVE  sends' \subseteq SendCall
      <4>1. o.id \in Nat
        BY DEF Dequeue, Entry
      <4> QED
        BY <3>2, <4>1, GotoSend DEF Replace
    <3> QED
      BY <1>3, <3>1, <3>2 DEF EnqueuePeek
  <2> QED
    BY <1>3, <2>1 DEF EnqueuePeek, history, env
<1>4. ASSUME NEW s \in sends, EnqueueClear(s) PROVE TypeOK'
  <2>1. sends' \subseteq SendCall
    BY <1>4, GotoSend DEF EnqueueClear, Replace
  <2> QED
    BY <1>4, <2>1 DEF EnqueueClear, ClearQueue, env
<1>5. ASSUME NEW s \in sends, EnqueueAdd(s) PROVE TypeOK'
  <2>1. [id |-> nextId, ch |-> s.ch, msg |-> s.msg, ts |-> s.ts,
         payload |-> "plain"] \in Entry
    BY DEF Entry, SendCall, Payloads
  <2> QED
    BY <1>5, <2>1 DEF EnqueueAdd, env
<1>6. CASE Connect
  BY <1>6 DEF Connect, client, history, env
<1>6a. ASSUME NEW c \in Channels, OpenChannel(c) PROVE TypeOK'
  BY <1>6a DEF OpenChannel, client, history
<1>7. ASSUME NEW k \in Slots, Reconnect(k) PROVE TypeOK'
  <2>1. \A c \in Channels :
          [slot |-> k, ch |-> c, batch |-> {}, pc |-> "pull"] \in SyncCall
    BY DEF SyncCall
  <2> QED
    BY <1>7, <2>1 DEF Reconnect, history, env
<1>8. ASSUME NEW y \in syncs, PullDone(y) PROVE TypeOK'
  BY <1>8, GotoSync DEF PullDone, Replace, history, env
<1>9. ASSUME NEW y \in syncs, PullFails(y) PROVE TypeOK'
  BY <1>9 DEF PullFails, history, env
<1>10. ASSUME NEW y \in syncs, Drain(y) PROVE TypeOK'
  <2> DEFINE mine == {e \in Dequeue(queue, DrainBatch) : e.ch = y.ch}
  <2>1. mine \subseteq Entry
    BY DEF Dequeue
  <2>2. syncs' = syncs \ {y}
         \/ syncs' = Replace(syncs, y, [Goto(y, "push") EXCEPT !.batch = mine])
    BY <1>10 DEF Drain
  <2>3. syncs' \subseteq SyncCall
    BY <2>1, <2>2, GotoPush DEF Replace
  <2> QED
    BY <1>10, <2>3 DEF Drain, history, env
<1>11. ASSUME NEW y \in syncs, PushDeltas(y) PROVE TypeOK'
  BY <1>11, GotoSync DEF PushDeltas, Replace, history, env
<1>12. ASSUME NEW b \in SUBSET Entry, ApplyDeltas(b)
       PROVE  rows' \subseteq Row /\ failed' \subseteq Entry
  <2>1. PICK bad \in SUBSET b :
          /\ rows' = Upsert(rows, {RowOf(e) : e \in b \ bad})
          /\ failed' = failed \cup bad
    BY <1>12 DEF ApplyDeltas
  <2>2. {RowOf(e) : e \in b \ bad} \subseteq Row
    BY RowOfEntry
  <2> QED
    BY <2>1, <2>2, UpsertWithin
<1>13. ASSUME NEW y \in syncs, SyncPush(y) PROVE TypeOK'
  <2>1. y.batch \in SUBSET Entry
    BY DEF SyncCall
  <2>2. syncs' \subseteq SyncCall
    BY <1>13, GotoSync DEF SyncPush, Replace
  <2> QED
    BY <1>13, <1>12, <2>1, <2>2 DEF SyncPush, env
<1>14. ASSUME NEW b \in stray, SyncPushStray(b) PROVE TypeOK'
  BY <1>14, <1>12 DEF SyncPushStray, client, env
<1>15. ASSUME NEW y \in syncs, PushReplied(y) PROVE TypeOK'
  BY <1>15, GotoSync DEF PushReplied, Replace, history, env
<1>15a. ASSUME NEW y \in syncs, PushRefused(y) PROVE TypeOK'
  BY <1>15a DEF PushRefused, history, env
<1>16. ASSUME NEW y \in syncs, AckBatch(y) PROVE TypeOK'
  BY <1>16 DEF AckBatch, Ack, env
<1>17. {y.batch : y \in {z \in syncs : z.pc = "wait"}} \subseteq SUBSET Entry
  BY DEF SyncCall
<1>18. CASE Disconnect
  BY <1>17, <1>18 DEF Disconnect, history, env
<1>19. CASE Restart
  BY <1>17, <1>19 DEF Restart, history, env
<1>20. CASE Tick
  BY <1>20, DeltaSyncAssumption DEF Tick, Times, client, history, env
<1>21. CASE UNCHANGED vars
  BY <1>21 DEF vars, client, history, env
<1> QED
  BY <1>1, <1>2, <1>3, <1>4, <1>5, <1>6, <1>7, <1>8, <1>9, <1>10, <1>11,
     <1>13, <1>14, <1>15, <1>16, <1>18, <1>19, <1>20, <1>21, <1>6a, <1>15a
     DEF Next

\* Stores, calls and table stay well typed: every delta a sync:push turns into
\* a row has a bucket, a channel and a message id of the queue's entries.
THEOREM QueueTypeOK == Spec => []TypeOK
  BY TypeInit, TypeStep, PTL DEF Spec

-----------------------------------------------------------------------------
(* The inductive invariant.                                                *)

\* Entries and messages are never reused, and ids grow.
Keys ==
  /\ IsFiniteSet(queue)
  /\ queue \subseteq added
  /\ \A e \in added : e.id < nextId
  /\ \A e, f \in added : e.id = f.id \/ e.msg = f.msg => e = f

\* A message is being sent by one call, and is not in the queue's history yet.
SendsFresh ==
  /\ \A s \in sends, e \in added : s.msg # e.msg
  /\ \A s, t \in sends : s.msg = t.msg => s = t

\* With an entry, a batch holds every earlier entry of its channel that is
\* still in the queue: draining takes a prefix and new entries come last.
PrefixBatch(b) ==
  /\ b \subseteq added
  /\ \A e \in queue, f \in b : e.ch = f.ch /\ e.id <= f.id => e \in b

Batches ==
  /\ \A y \in syncs : PrefixBatch(y.batch) /\ \A f \in y.batch : f.ch = y.ch
  /\ \A b \in stray : PrefixBatch(b)

\* A batch the server has answered is stored, but for the refused writes.
Handled ==
  \A y \in syncs : y.pc \in {"replied", "ack"} =>
    \A f \in y.batch : Stored(f) \/ f \in failed

\* The table holds nothing but rows of entries.
RowsOfEntries == \A r \in rows : \E e \in added : r = RowOf(e)

QueueInv ==
  /\ TypeOK
  /\ Keys
  /\ SendsFresh
  /\ Batches
  /\ Handled
  /\ RowsOfEntries
  /\ AccountedFor
  /\ InOrder

LEMMA InvInit == Init => QueueInv
<1> SUFFICES ASSUME Init PROVE QueueInv
  OBVIOUS
<1>1. TypeOK
  BY TypeInit
<1>2. IsFiniteSet({})
  BY FS_EmptySet
<1> QED
  BY <1>1, <1>2 DEF Init, QueueInv, Keys, SendsFresh, Batches, Handled,
     RowsOfEntries, AccountedFor, InOrder

\* Steps that leave queue, table and history alone: calls move on or end, and
\* batches in flight may become stray.
LEMMA QuietStep ==
  ASSUME QueueInv, TypeOK', SendsFresh',
         UNCHANGED <<queue, nextId, rows, added, evicted, failed, crossed>>,
         \A y \in syncs' :
           \/ y.batch = {}
           \/ \E x \in syncs :
                /\ y.batch = x.batch /\ y.ch = x.ch
                /\ y.pc \in {"replied", "ack"} => x.pc \in {"replied", "ack"},
         stray' \subseteq stray \cup {y.batch : y \in syncs}
  PROVE  QueueInv'
<1>1. Keys'
  BY DEF QueueInv, Keys
<1>2. Batches'
  <2>1. \A b : PrefixBatch(b) => PrefixBatch(b)'
    BY DEF PrefixBatch
  <2>2. PrefixBatch({})'
    BY DEF PrefixBatch
  <2>3. ASSUME NEW y \in syncs'
        PROVE  PrefixBatch(y.batch)' /\ \A f \in y.batch : f.ch = y.ch
    BY <2>1, <2>2 DEF QueueInv, Batches
  <2>4. ASSUME NEW b \in stray' PROVE PrefixBatch(b)'
    BY <2>1 DEF QueueInv, Batches
  <2> QED
    BY <2>3, <2>4 DEF Batches
<1>3. Handled'
  BY DEF QueueInv, Handled, Stored
<1>4. RowsOfEntries' /\ AccountedFor' /\ InOrder'
  BY DEF QueueInv, RowsOfEntries, AccountedFor, InOrder, Stored
<1> QED
  BY <1>1, <1>2, <1>3, <1>4 DEF QueueInv

\* A call that replaces another one under the same message keeps sends fresh.
LEMMA SendMoves ==
  ASSUME SendsFresh, added' = added, NEW s \in sends, NEW t, t.msg = s.msg,
         sends' = Replace(sends, s, t)
  PROVE  SendsFresh'
  BY DEF SendsFresh, Replace

\* enqueue at capacity only takes entries out of the queue and records them.
LEMMA ClearStep ==
  ASSUME QueueInv, TypeOK', NEW s \in sends, EnqueueClear(s)
  PROVE  QueueInv'
<1>1. queue' \subseteq queue /\ evicted' = evicted \cup (queue \ queue')
  BY DEF EnqueueClear, ClearQueue
<1>2. UNCHANGED <<nextId, syncs, stray, rows, added, failed, crossed>>
  BY DEF EnqueueClear
<1>3. Keys'
  BY <1>1, <1>2, FS_Subset DEF QueueInv, Keys
<1>4. SendsFresh'
  BY <1>2, SendMoves, GotoSend DEF EnqueueClear, QueueInv, TypeOK
<1>5. Batches'
  BY <1>1, <1>2 DEF QueueInv, Batches, PrefixBatch
<1>6. Handled' /\ RowsOfEntries'
  BY <1>2 DEF QueueInv, Handled, RowsOfEntries, Stored
<1>7. AccountedFor' /\ InOrder'
  BY <1>1, <1>2 DEF QueueInv, AccountedFor, InOrder, Stored
<1> QED
  BY <1>3, <1>4, <1>5, <1>6, <1>7 DEF QueueInv

\* A new entry comes after every other one and its message is not stored yet.
LEMMA AddStep ==
  ASSUME QueueInv, TypeOK', NEW s \in sends, EnqueueAdd(s)
  PROVE  QueueInv'
<1> DEFINE e == [id |-> nextId, ch |-> s.ch, msg |-> s.msg, ts |-> s.ts,
                 payload |-> "plain"]
<1>1. /\ queue' = queue \cup {e} /\ added' = added \cup {e}
      /\ nextId' = nextId + 1 /\ sends' = sends \ {s}
      /\ UNCHANGED <<syncs, stray, rows, evicted, failed, crossed>>
  BY DEF EnqueueAdd
<1>2. e.id = nextId /\ e.msg = s.msg
  OBVIOUS
<1>3. nextId \in Nat /\ \A f \in added : f.id \in Nat /\ f.id < nextId
  BY DEF QueueInv, TypeOK, Entry, Keys
<1>4. \A f \in added : f.msg # e.msg
  BY <1>2 DEF QueueInv, SendsFresh
<1> HIDE DEF e
<1>5. Keys'
  <2>1. IsFiniteSet(queue')
    BY <1>1, FS_AddElement DEF QueueInv, Keys
  <2>2. queue' \subseteq added' /\ \A f \in added' : f.id < nextId'
    BY <1>1, <1>2, <1>3 DEF QueueInv, Keys
  <2>3. \A f, g \in added' : f.id = g.id \/ f.msg = g.msg => f = g
    BY <1>1, <1>2, <1>3, <1>4 DEF QueueInv, Keys
  <2> QED
    BY <2>1, <2>2, <2>3 DEF Keys
<1>6. SendsFresh'
  BY <1>1, <1>2 DEF QueueInv, SendsFresh
<1>7. \A b : PrefixBatch(b) => PrefixBatch(b)'
  BY <1>1, <1>2, <1>3 DEF PrefixBatch, QueueInv, Keys
<1>8. Batches'
  BY <1>1, <1>7 DEF QueueInv, Batches
<1>9. \A f : Stored(f)' <=> Stored(f)
  BY <1>1 DEF Stored
<1>10. Handled' /\ RowsOfEntries'
  BY <1>1, <1>9 DEF QueueInv, Handled, RowsOfEntries
<1>11. AccountedFor'
  BY <1>1, <1>9 DEF QueueInv, AccountedFor
<1>12. ~Stored(e)
  <2>1. SUFFICES ASSUME NEW r \in rows, r.msg = e.msg PROVE FALSE
    BY DEF Stored
  <2>2. PICK f \in added : r = RowOf(f)
    BY DEF QueueInv, RowsOfEntries
  <2>3. r.msg = f.msg
    BY <2>2, RowOfEntry DEF QueueInv, TypeOK
  <2> QED
    BY <1>4, <2>1, <2>3
<1>13. InOrder'
  <2> SUFFICES ASSUME NEW f \in queue', NEW g \in added',
                      f.ch = g.ch, f.id < g.id, Stored(g)
               PROVE  Stored(f) \/ f \in failed
    BY <1>1, <1>9 DEF InOrder
  <2>1. g \in added
    BY <1>1, <1>12
  <2>2. f \in queue
    BY <1>1, <1>2, <1>3, <2>1
  <2> QED
    BY <2>1, <2>2 DEF QueueInv, InOrder
<1> QED
  BY <1>5, <1>6, <1>8, <1>10, <1>11, <1>13 DEF QueueInv

\* Draining takes a prefix of the queue, cut down to one channel.
LEMMA DrainStep ==
  ASSUME QueueInv, TypeOK', NEW y \in syncs, Drain(y)
  PROVE  QueueInv'
<1> DEFINE mine == {e \in Dequeue(queue, DrainBatch) : e.ch = y.ch}
           z == [Goto(y, "push") EXCEPT !.batch = mine]
<1>1. UNCHANGED <<queue, nextId, sends, stray, rows, added, evicted, failed,
                  crossed>>
  BY DEF Drain, history, env
<1>2. syncs' \subseteq syncs \cup {z}
  BY DEF Drain, Replace
<1>3. mine \in SUBSET Entry /\ mine \subseteq queue
  BY DEF Dequeue, QueueInv, TypeOK
<1>4. z.pc = "push" /\ z.ch = y.ch /\ z.batch = mine
  BY <1>3, GotoPush DEF QueueInv, TypeOK
<1>5. PrefixBatch(mine)
  <2>1. mine \subseteq added
    BY <1>3 DEF QueueInv, Keys
  <2>2. ASSUME NEW e \in queue, NEW f \in mine, e.ch = f.ch, e.id <= f.id
        PROVE  e \in mine
    <3>1. f \in Dequeue(queue, DrainBatch) /\ f.ch = y.ch
      OBVIOUS
    <3>2. e \in Dequeue(queue, DrainBatch)
      BY <2>2, <3>1, DequeuePrefix, QueueAssumption DEF QueueInv, TypeOK, Keys
    <3> QED
      BY <2>2, <3>1, <3>2
  <2> QED
    BY <2>1, <2>2 DEF PrefixBatch
<1>6. \A f \in mine : f.ch = y.ch
  OBVIOUS
<1> HIDE DEF mine, z
<1>7. \A b : PrefixBatch(b) => PrefixBatch(b)'
  BY <1>1 DEF PrefixBatch
<1>8. Batches'
  <2>1. ASSUME NEW x \in syncs'
        PROVE  PrefixBatch(x.batch)' /\ \A f \in x.batch : f.ch = x.ch
    <3>1. CASE x \in syncs
      BY <3>1, <1>7 DEF QueueInv, Batches
    <3>2. CASE x = z
      BY <3>2, <1>4, <1>5, <1>6, <1>7
    <3> QED
      BY <1>2, <3>1, <3>2
  <2>2. \A b \in stray' : PrefixBatch(b)'
    BY <1>1, <1>7 DEF QueueInv, Batches
  <2> QED
    BY <2>1, <2>2 DEF Batches
<1>9. Handled'
  BY <1>1, <1>2, <1>4 DEF QueueInv, Handled, Stored
<1>10. Keys' /\ SendsFresh' /\ RowsOfEntries' /\ AccountedFor' /\ InOrder'
  BY <1>1 DEF QueueInv, Keys, SendsFresh, RowsOfEntries, AccountedFor, InOrder,
     Stored
<1> QED
  BY <1>8, <1>9, <1>10 DEF QueueInv

\* What handling one batch does to the table, on a live or a lost connection.
LEMMA ApplyEffect ==
  ASSUME QueueInv, NEW b \in SUBSET Entry, PrefixBatch(b), ApplyDeltas(b),
         UNCHANGED <<queue, nextId, added, evicted, crossed>>
  PROVE  /\ RowsOfEntries' /\ AccountedFor' /\ InOrder'
         /\ \A e : Stored(e) => Stored(e)'
         /\ failed \subseteq failed'
         /\ \A e \in b : Stored(e)' \/ e \in failed'
<1>1. PICK bad \in SUBSET b :
        /\ rows' = Upsert(rows, {RowOf(e) : e \in b \ bad})
        /\ failed' = failed \cup bad
  BY DEF ApplyDeltas
<1> DEFINE new == {RowOf(e) : e \in b \ bad}
<1>2. \A e : Stored(e) => Stored(e)'
  <2> SUFFICES ASSUME NEW e, NEW r \in rows, r.ch = e.ch, r.msg = e.msg
               PROVE  \E q \in rows' : q.ch = e.ch /\ q.msg = e.msg
    BY DEF Stored
  <2>1. PICK q \in Upsert(rows, new) : q.ch = r.ch /\ q.msg = r.msg
    BY UpsertKeeps
  <2> QED
    BY <1>1, <2>1
<1>3. \A e \in b : Stored(e)' \/ e \in failed'
  <2> SUFFICES ASSUME NEW e \in b, e \notin bad PROVE Stored(e)'
    BY <1>1
  <2>1. RowOf(e) \in rows'
    BY <1>1, UpsertWithin
  <2> QED
    BY <2>1, RowOfEntry DEF Stored
<1>4. RowsOfEntries'
  <2> SUFFICES ASSUME NEW r \in rows' PROVE \E e \in added : r = RowOf(e)
    BY DEF RowsOfEntries
  <2>1. r \in rows \/ r \in new
    BY <1>1, UpsertWithin
  <2> QED
    BY <2>1 DEF QueueInv, RowsOfEntries, PrefixBatch
<1>5. AccountedFor'
  BY <1>1, <1>2 DEF QueueInv, AccountedFor
<1>6. \A f \in added : Stored(f)' => Stored(f) \/ f \in b
  <2> SUFFICES ASSUME NEW f \in added, NEW r \in rows', r.ch = f.ch, r.msg = f.msg
               PROVE  Stored(f) \/ f \in b
    BY DEF Stored
  <2>1. CASE r \in rows
    BY <2>1 DEF Stored
  <2>2. CASE r \in new
    <3>1. PICK g \in b : r = RowOf(g)
      BY <2>2
    <3>2. r.msg = g.msg /\ g \in added
      BY <3>1, RowOfEntry DEF PrefixBatch
    <3> QED
      BY <3>2 DEF QueueInv, Keys
  <2> QED
    BY <1>1, <2>1, <2>2, UpsertWithin
<1>7. InOrder'
  <2> SUFFICES ASSUME NEW e \in queue, NEW f \in added,
                      e.ch = f.ch, e.id < f.id, Stored(f)'
               PROVE  Stored(e)' \/ e \in failed'
    BY DEF InOrder
  <2>1. CASE Stored(f)
    BY <1>1, <1>2, <2>1 DEF QueueInv, InOrder
  <2>2. CASE f \in b
    <3>1. e.id \in Nat /\ f.id \in Nat
      BY DEF QueueInv, TypeOK, Entry
    <3>2. e \in b
      BY <2>2, <3>1 DEF PrefixBatch
    <3> QED
      BY <1>3, <3>2
  <2> QED
    BY <1>6, <2>1, <2>2
<1> QED
  BY <1>1, <1>2, <1>3, <1>4, <1>5, <1>7

LEMMA PushStep ==
  ASSUME QueueInv, TypeOK', NEW y \in syncs, SyncPush(y)
  PROVE  QueueInv'
<1> DEFINE z == Goto(y, "replied")
<1>1. ApplyDeltas(y.batch) /\ syncs' \subseteq syncs \cup {z}
  BY DEF SyncPush, Replace
<1>2. UNCHANGED <<queue, nextId, sends, stray, added, evicted, crossed>>
  BY DEF SyncPush
<1>3. y.batch \in SUBSET Entry /\ PrefixBatch(y.batch)
  BY DEF QueueInv, TypeOK, SyncCall, Batches
<1>4. z.ch = y.ch /\ z.batch = y.batch
  BY GotoSync DEF QueueInv, TypeOK
<1> HIDE DEF z
<1>5. /\ RowsOfEntries' /\ AccountedFor' /\ InOrder'
      /\ \A e : Stored(e) => Stored(e)'
      /\ failed \subseteq failed'
      /\ \A e \in y.batch : Stored(e)' \/ e \in failed'
  BY <1>1, <1>2, <1>3, ApplyEffect
<1>6. Keys' /\ SendsFresh'
  BY <1>2 DEF QueueInv, Keys, SendsFresh
<1>7. Batches'
  BY <1>1, <1>2, <1>4 DEF QueueInv, Batches, PrefixBatch
<1>8. Handled'
  BY <1>1, <1>4, <1>5 DEF QueueInv, Handled
<1> QED
  BY <1>5, <1>6, <1>7, <1>8 DEF QueueInv

LEMMA StrayStep ==
  ASSUME QueueInv, TypeOK', NEW b \in stray, SyncPushStray(b)
  PROVE  QueueInv'
<1>1. ApplyDeltas(b) /\ stray' \subseteq stray
  BY DEF SyncPushStray
<1>2. UNCHANGED <<queue, nextId, sends, syncs, added, evicted, crossed>>
  BY DEF SyncPushStray, client
<1>3. b \in SUBSET Entry /\ PrefixBatch(b)
  BY DEF QueueInv, TypeOK, Batches
<1>4. /\ RowsOfEntries' /\ AccountedFor' /\ InOrder'
      /\ \A e : Stored(e) => Stored(e)'
      /\ failed \subseteq failed'
  BY <1>1, <1>2, <1>3, ApplyEffect
<1>5. Keys' /\ SendsFresh'
  BY <1>2 DEF QueueInv, Keys, SendsFresh
<1>6. Batches'
  BY <1>1, <1>2 DEF QueueInv, Batches, PrefixBatch
<1>7. Handled'
  BY <1>2, <1>4 DEF QueueInv, Handled
<1> QED
  BY <1>4, <1>5, <1>6, <1>7 DEF QueueInv

\* Of its own channel an acknowledgement clears only what the server handled.
LEMMA AckStep ==
  ASSUME QueueInv, TypeOK', NEW y \in syncs, AckBatch(y)
  PROVE  QueueInv'
<1>1. /\ queue' = Ack(queue, y.batch) /\ queue' \subseteq queue
      /\ crossed' = crossed \cup {e \in queue \ queue' : e.ch # y.ch}
      /\ syncs' \subseteq syncs
      /\ UNCHANGED <<nextId, sends, stray, rows, added, evicted, failed>>
  BY DEF AckBatch, Ack
<1>2. \A e : Stored(e)' <=> Stored(e)
  BY <1>1 DEF Stored
<1>3. Keys' /\ SendsFresh'
  BY <1>1, FS_Subset DEF QueueInv, Keys, SendsFresh
<1>4. Batches'
  BY <1>1 DEF QueueInv, Batches, PrefixBatch
<1>5. Handled' /\ RowsOfEntries' /\ InOrder'
  BY <1>1, <1>2 DEF QueueInv, Handled, RowsOfEntries, InOrder
<1>6. ASSUME NEW e \in queue, e \notin queue', e.ch = y.ch
      PROVE  Stored(e) \/ e \in failed
  <2>1. PICK f \in y.batch : ~(e.id > f.id)
    BY <1>1, <1>6 DEF Ack
  <2>2. f \in added /\ f.ch = y.ch
    BY DEF QueueInv, Batches, PrefixBatch
  <2>3. e.id \in Nat /\ f.id \in Nat
    BY <2>2 DEF QueueInv, TypeOK, Entry
  <2>4. e \in y.batch
    BY <1>6, <2>1, <2>2, <2>3 DEF QueueInv, Batches, PrefixBatch
  <2>5. y.pc = "ack"
    BY DEF AckBatch
  <2> QED
    BY <2>4, <2>5 DEF QueueInv, Handled
<1>7. AccountedFor'
  <2> SUFFICES ASSUME NEW e \in added
               PROVE  e \in queue' \cup evicted \cup failed \cup crossed' \/ Stored(e)
    BY <1>1, <1>2 DEF AccountedFor
  <2>1. CASE e \in queue
    BY <1>1, <1>6, <2>1
  <2>2. CASE e \notin queue
    BY <1>1, <2>2 DEF QueueInv, AccountedFor
  <2> QED
    BY <2>1, <2>2
<1> QED
  BY <1>3, <1>4, <1>5, <1>7 DEF QueueInv

LEMMA InvStep == QueueInv /\ [Next]_vars => QueueInv'
<1> SUFFICES ASSUME QueueInv, [Next]_vars PROVE QueueInv'
  OBVIOUS
<1>0. TypeOK'
  BY TypeStep DEF QueueInv
<1>1. syncs \subseteq SyncCall /\ sends \subseteq SendCall
  BY DEF QueueInv, TypeOK
<1>2. ASSUME NEW c \in Channels, NEW m \in Msgs, Send(c, m) PROVE QueueInv'
  <2>1. SendsFresh'
    BY <1>2 DEF Send, QueueInv, SendsFresh, history, env
  <2> QED
    BY <1>0, <1>2, <2>1, QuietStep DEF Send, history, env
<1>3. ASSUME NEW s \in sends, EnqueueCount(s) PROVE QueueInv'
  <2>0. PICK p \in {"peek", "add"} : sends' = Replace(sends, s, Goto(s, p))
    BY <1>3 DEF EnqueueCount
  <2>1. SendsFresh'
    <3>1. Goto(s, p).msg = s.msg
      BY <1>1, GotoSend
    <3>2. SendsFresh /\ added' = added
      BY <1>3 DEF EnqueueCount, QueueInv, history, env
    <3> QED
      BY <2>0, <3>1, <3>2, SendMoves
  <2> QED
    BY <1>0, <1>3, <2>1, QuietStep DEF EnqueueCount, history, env
<1>4. ASSUME NEW s \in sends, EnqueuePeek(s) PROVE QueueInv'
  <2>1. SendsFresh /\ added' = added
    BY <1>4 DEF EnqueuePeek, QueueInv, history, env
  <2>2. CASE sends' = Replace(sends, s, Goto(s, "add"))
    <3>1. SendsFresh'
      BY <1>1, <2>1, <2>2, SendMoves, GotoSend
    <3> QED
      BY <1>0, <1>4, <3>1, QuietStep DEF EnqueuePeek, history, env
  <2>3. ASSUME NEW o \in Dequeue(queue, 1),
               sends' = Replace(sends, s, [Goto(s, "clear") EXCEPT !.oldest = o.id])
        PROVE  QueueInv'
    <3>1. o.id \in Nat
      BY DEF Dequeue, Entry, QueueInv, TypeOK
    <3>2. [Goto(s, "clear") EXCEPT !.oldest = o.id].msg = s.msg
      BY <1>1, <3>1, GotoSend
    <3>3. SendsFresh'
      BY <2>1, <2>3, <3>2, SendMoves
    <3> QED
      BY <1>0, <1>4, <3>3, QuietStep DEF EnqueuePeek, history, env
  <2> QED
    BY <1>4, <2>2, <2>3 DEF EnqueuePeek
<1>5. ASSUME NEW s \in sends, EnqueueClear(s) PROVE QueueInv'
  BY <1>0, <1>5, ClearStep
<1>6. ASSUME NEW s \in sends, EnqueueAdd(s) PROVE QueueInv'
  BY <1>0, <1>6, AddStep
<1>7. CASE Connect \/ Tick \/ UNCHANGED vars \/ \E c \in Channels : OpenChannel(c)
  <2>1. UNCHANGED <<client, stray, rows, history>>
    BY <1>7 DEF Connect, Tick, OpenChannel, vars
  <2>2. SendsFresh'
    BY <2>1 DEF QueueInv, SendsFresh, client, history, env
  <2> QED
    BY <1>0, <2>1, <2>2, QuietStep DEF client, history, env
<1>8. ASSUME NEW k \in Slots, Reconnect(k) PROVE QueueInv'
  <2>1. SendsFresh'
    BY <1>8 DEF Reconnect, QueueInv, SendsFresh, history, env
  <2> QED
    BY <1>0, <1>8, <2>1, QuietStep DEF Reconnect, history, env
<1>9. ASSUME NEW y \in syncs,
             PullDone(y) \/ PullFails(y) \/ PushDeltas(y) \/ PushReplied(y)
      PROVE  QueueInv'
  <2>1. UNCHANGED <<queue, nextId, sends, stray, rows, added, evicted, failed,
                    crossed>>
    BY <1>9 DEF PullDone, PullFails, PushDeltas, PushReplied, history, env
  <2>2. SendsFresh'
    BY <2>1 DEF QueueInv, SendsFresh
  <2>3. \/ syncs' \subseteq syncs
        \/ \E p \in {"drain", "wait"} : syncs' = Replace(syncs, y, Goto(y, p))
        \/ y.pc = "replied" /\ syncs' = Replace(syncs, y, Goto(y, "ack"))
    <3>1. CASE PullDone(y)
      BY <3>1 DEF PullDone
    <3>2. CASE PullFails(y)
      <4>1. syncs' = syncs \ {y}
        BY <3>2 DEF PullFails
      <4> QED
        BY <4>1
    <3>3. CASE PushDeltas(y)
      <4>1. syncs' = Replace(syncs, y, Goto(y, "wait")) \/ syncs' = syncs \ {y}
        BY <3>3 DEF PushDeltas
      <4> QED
        BY <4>1
    <3>4. CASE PushReplied(y)
      BY <3>4 DEF PushReplied
    <3> QED
      BY <1>9, <3>1, <3>2, <3>3, <3>4
  <2>4. ASSUME NEW z \in syncs'
        PROVE  \E x \in syncs :
                 /\ z.batch = x.batch /\ z.ch = x.ch
                 /\ z.pc \in {"replied", "ack"} => x.pc \in {"replied", "ack"}
    <3>1. CASE z \in syncs
      BY <3>1
    <3>2. ASSUME NEW p \in {"drain", "wait"}, z = Goto(y, p)
          PROVE  z.batch = y.batch /\ z.ch = y.ch /\ z.pc \in {"drain", "wait"}
      BY <1>1, <3>2, GotoSync
    <3>3. CASE z = Goto(y, "ack") /\ y.pc = "replied"
      BY <1>1, <3>3, GotoSync
    <3> QED
      BY <2>3, <3>1, <3>2, <3>3 DEF Replace
  <2> QED
    BY <1>0, <2>1, <2>2, <2>4, QuietStep
<1>10. ASSUME NEW y \in syncs, Drain(y) PROVE QueueInv'
  BY <1>0, <1>10, DrainStep
<1>11. ASSUME NEW y \in syncs, SyncPush(y) PROVE QueueInv'
  BY <1>0, <1>11, PushStep
<1>12. ASSUME NEW b \in stray, SyncPushStray(b) PROVE QueueInv'
  BY <1>0, <1>12, StrayStep
<1>13. ASSUME NEW y \in syncs, AckBatch(y) PROVE QueueInv'
  BY <1>0, <1>13, AckStep
<1>13a. ASSUME NEW y \in syncs, PushRefused(y) PROVE QueueInv'
  <2>1. /\ UNCHANGED <<queue, nextId, sends, stray, rows, added, evicted,
                      failed, crossed>>
        /\ syncs' \subseteq syncs
    BY <1>13a DEF PushRefused, history, env
  <2>2. SendsFresh'
    BY <2>1 DEF QueueInv, SendsFresh
  <2> QED
    BY <1>0, <2>1, <2>2, QuietStep
<1>14. CASE Disconnect \/ Restart
  <2>1. /\ UNCHANGED <<queue, nextId, rows, added, evicted, failed, crossed>>
        /\ sends' \subseteq sends /\ syncs' \subseteq syncs
        /\ stray' \subseteq stray \cup {y.batch : y \in syncs}
    BY <1>14 DEF Disconnect, Restart, history, env
  <2>2. SendsFresh'
    BY <2>1 DEF QueueInv, SendsFresh
  <2> QED
    BY <1>0, <2>1, <2>2, QuietStep
<1> QED
  BY <1>2, <1>3, <1>4, <1>5, <1>6, <1>7, <1>8, <1>9, <1>10, <1>11, <1>12,
     <1>13, <1>13a, <1>14 DEF Next

LEMMA QueueInvariant == Spec => []QueueInv
  BY InvInit, InvStep, PTL DEF Spec

-----------------------------------------------------------------------------
(* The theorems.                                                           *)

\* Whatever overlaps, disconnects, restarts or replays: an entry that left the
\* queue is stored, or its loss is one of the three the code admits.
THEOREM QueueAccountedFor == Spec => []AccountedFor
  BY QueueInvariant, PTL DEF QueueInv

\* Messages of one channel are pushed in the order in which they were queued.
THEOREM QueueInOrder == Spec => []InOrder
  BY QueueInvariant, PTL DEF QueueInv

\* Replayed and late pushes are idempotent: one row per message.
THEOREM QueueOneRow == Spec => []OneRowPerMessage
<1>1. QueueInv => OneRowPerMessage
  <2> SUFFICES ASSUME QueueInv, NEW r \in rows, NEW s \in rows, r.msg = s.msg
               PROVE  r = s
    BY DEF OneRowPerMessage
  <2>1. PICK e \in added : r = RowOf(e)
    BY DEF QueueInv, RowsOfEntries
  <2>2. PICK f \in added : s = RowOf(f)
    BY DEF QueueInv, RowsOfEntries
  <2>3. e.msg = f.msg
    BY <2>1, <2>2, RowOfEntry DEF QueueInv, TypeOK
  <2> QED
    BY <2>1, <2>2, <2>3 DEF QueueInv, Keys
<1> QED
  BY <1>1, QueueInvariant, PTL

\* An acknowledgement that clears another channel's entry is one of a batch of
\* its own channel: both channels are in the history of the queue.
CrossedTwo == crossed # {} => \E e, f \in added : e.ch # f.ch

\* As long as the entries are of one channel no acknowledgement crosses, and the
\* promise of offline compose holds: the entries lost on the way are those of
\* the capacity rule and of refused writes.
THEOREM QueueNoLossAlone == Spec => []NoLossAlone
<1> DEFINE Inv == QueueInv /\ CrossedTwo
<1>1. Init => Inv
  BY InvInit DEF Init, CrossedTwo
<1>2. Inv /\ [Next]_vars => Inv'
  <2> SUFFICES ASSUME QueueInv, CrossedTwo, [Next]_vars PROVE CrossedTwo'
    BY InvStep
  <2>1. ASSUME NEW y \in syncs, AckBatch(y) PROVE CrossedTwo'
    <3>1. ASSUME NEW e \in queue, e \notin queue', e.ch # y.ch
          PROVE  \E f \in added : e \in added /\ e.ch # f.ch
      <4>1. PICK f \in y.batch : ~(e.id > f.id)
        BY <2>1, <3>1 DEF AckBatch, Ack
      <4>2. f \in added /\ f.ch = y.ch
        BY DEF QueueInv, Batches, PrefixBatch
      <4> QED
        BY <3>1, <4>2 DEF QueueInv, Keys
    <3>2. /\ crossed' = crossed \cup {e \in queue \ queue' : e.ch # y.ch}
          /\ added' = added
      BY <2>1 DEF AckBatch
    <3> QED
      BY <3>1, <3>2 DEF CrossedTwo
  <2>2. CASE crossed' = crossed /\ added \subseteq added'
    BY <2>2 DEF CrossedTwo
  <2> QED
    BY <2>1, <2>2 DEF Next, vars, history, client, Send, EnqueueCount, EnqueuePeek,
       EnqueueClear, EnqueueAdd, Connect, Reconnect, PullDone, PullFails,
       Drain, PushDeltas, SyncPush, SyncPushStray, PushReplied, PushRefused,
       Disconnect, Restart, Tick, OpenChannel
<1>3. Inv => NoLossAlone
  BY DEF QueueInv, AccountedFor, NoSilentLoss, NoLossAlone, CrossedTwo
<1> QED
  BY <1>1, <1>2, <1>3, PTL DEF Spec

-----------------------------------------------------------------------------
(***************************************************************************)
(* The inbound half: the pull.                                             *)
(***************************************************************************)
\* What the table holds, as the client gets it.
InTable == {DeltaOf(r) : r \in rows}

\* Ids are unique.
RowsInv ==
  /\ \A q, r \in rows : q.msg = r.msg => q = r
  /\ \A d, e \in pending : d.msg = e.msg => d = e
  /\ \A d \in pending, r \in rows : d.msg # r.msg

\* What a call has seen is on the device, in the page that it is storing, or
\* was left out of a reply.
CallOK(y) ==
  /\ y.page \subseteq InTable
  /\ y.pc \notin {"reply", "store"} => y.page = {}
  /\ y.seen \subseteq local \cup dropped \cup cut \cup y.page

\* The inductive invariant.
PullInv ==
  /\ PullTypeOK /\ RowsInv
  /\ local \subseteq InTable /\ CursorSafe
  /\ \A y \in pulls : CallOK(y)

-----------------------------------------------------------------------------
LEMMA PullConstants ==
  /\ BucketSpan \in Nat \ {0} /\ MaxTime \in Nat /\ Msgs \subseteq Nat
  /\ PageLimit \in Nat \ {0}
  BY BucketAssumption, DeltaSyncAssumption, PullAssumption

\* An empty table and an empty device.
LEMMA PullStarts == PullInit => PullInv
  BY PullConstants DEF PullInit, PullInv, PullTypeOK, RowsInv, CursorSafe, Times

\* A write of a message that was not there adds its row and changes no other.
LEMMA RowAdded ==
  ASSUME PullTypeOK, RowsInv, BucketSpan \in Nat \ {0}, MaxTime \in Nat,
         NEW d \in Delta, \A r \in rows : r.msg # d.msg,
         rows' = Upsert(rows, {RowOfDelta(d)}), pending' \subseteq pending, \A e \in pending' : e.msg # d.msg
  PROVE  rows' \subseteq DeltaRow /\ RowsInv' /\ InTable \subseteq InTable'
<1>1. PICK n : n = RowOfDelta(d)
  OBVIOUS
<1>2. n \in DeltaRow /\ n.msg = d.msg
  <2>1. d.ts \in Nat /\ d.ts \in Times /\ d.msg \in Msgs
    BY DEF Delta, Times
  <2>2. Bucket(d.ts) \in Nat
    BY <2>1 DEF Bucket
  <2> QED
    BY <1>1, <2>1, <2>2 DEF RowOfDelta, DeltaRow
<1>3. \A r \in rows : Key(n) # Key(r)
  BY <1>2 DEF Key
<1>4. rows' = rows \cup {n}
  BY <1>1, <1>3 DEF Upsert
<1>5. rows' \subseteq DeltaRow
  BY <1>2, <1>4 DEF PullTypeOK
<1>6. RowsInv'
  BY <1>2, <1>4 DEF RowsInv
<1> QED
  BY <1>4, <1>5, <1>6 DEF InTable, DeltaOf

\* Steps of the server and of time: the calls keep what they hold.
LEMMA ServerSteps ==
  ASSUME PullInv, RowsInv', PullTypeOK', InTable \subseteq InTable', UNCHANGED <<device, pullHistory>>
  PROVE  PullInv'
<1>1. UNCHANGED <<cursor, local, pulls, passed, dropped, cut>>
  BY DEF device, pullHistory
<1>2. CursorSafe' /\ local' \subseteq InTable'
  BY <1>1 DEF PullInv, CursorSafe
<1>3. \A y \in pulls' : CallOK(y)'
  BY <1>1 DEF PullInv, CallOK
<1> QED
  BY <1>2, <1>3 DEF PullInv

\* Steps of the device: one call goes on, and nothing is lost.
LEMMA DeviceSteps ==
  ASSUME PullInv, UNCHANGED <<now, server>>, PullTypeOK',
         local' \subseteq InTable, CursorSafe',
         local \cup dropped \cup cut \subseteq local' \cup dropped' \cup cut',
         \A y \in pulls' : y \in pulls \/ CallOK(y)'
  PROVE  PullInv'
<1>1. UNCHANGED <<now, pending, rows>>
  BY DEF server
<1>2. RowsInv' /\ InTable' = InTable
  BY <1>1 DEF PullInv, RowsInv, InTable, DeltaOf
<1>3. \A y \in pulls' : CallOK(y)'
  BY <1>2 DEF PullInv, CallOK
<1> QED
  BY <1>2, <1>3 DEF PullInv

\* What get_deltas returns it read from the table.
LEMMA FoundThere ==
  ASSUME PullTypeOK, NEW since, NEW bad
  PROVE  /\ GetDeltas(since, bad) \subseteq rows /\ Page(GetDeltas(since, bad)) \subseteq rows
         /\ Readable(since, bad) \subseteq rows /\ HasMore(GetDeltas(since, bad)) \in BOOLEAN
         /\ \A r \in rows : DeltaOf(r) \in Delta
<1>1. GetDeltas(since, bad) \subseteq rows
  BY DEF GetDeltas, FetchMessagesAfter, FirstRows
<1>2. \A set : Page(set) \subseteq set
  BY DEF Page, FirstRows
<1>3. \A r \in rows : DeltaOf(r) \in Delta
  BY DEF PullTypeOK, DeltaRow, Delta, DeltaOf
<1> QED
  BY <1>1, <1>2, <1>3 DEF Readable, HasMore

\* What the request's read of the table could see, it puts into the page or cuts.
LEMMA SyncRequestStep ==
  ASSUME PullInv, NEW y \in pulls, SyncRequest(y)
  PROVE  PullInv'
<1>1. PICK bad : LET found == GetDeltas(y.wall, bad)
                     page == {DeltaOf(r) : r \in Page(found)}
                     there == {DeltaOf(r) : r \in Readable(y.wall, bad)}
                 IN  /\ pulls' = Replace(pulls, y,
                          [y EXCEPT !.pc = "reply", !.more = HasMore(found), !.page = page,
                                    !.seen = @ \cup there])
                     /\ cut' = cut \cup (there \ page)
  BY DEF SyncRequest
<1>2. PICK more, page, there :
        /\ more = HasMore(GetDeltas(y.wall, bad))
        /\ page = {DeltaOf(r) : r \in Page(GetDeltas(y.wall, bad))}
        /\ there = {DeltaOf(r) : r \in Readable(y.wall, bad)}
  OBVIOUS
<1>3. y \in PullCall /\ y.pc = "pull" /\ y.page = {} /\ CallOK(y) /\ PullTypeOK
  BY DEF PullInv, PullTypeOK, CallOK, SyncRequest
<1>4. /\ page \subseteq Delta /\ page \subseteq InTable /\ there \subseteq Delta
      /\ more \in BOOLEAN
  BY <1>2, <1>3, FoundThere DEF InTable
<1>5. PICK new : new = [y EXCEPT !.pc = "reply", !.more = more, !.page = page, !.seen = @ \cup there]
  OBVIOUS
<1>6. pulls' = (pulls \ {y}) \cup {new} /\ cut' = cut \cup (there \ page)
  BY <1>1, <1>2, <1>5 DEF Replace
<1>7. new \in PullCall /\ new.page = page /\ new.seen = y.seen \cup there /\ new.pc = "reply"
  BY <1>3, <1>4, <1>5 DEF PullCall
<1>8. UNCHANGED <<now, server>> /\ UNCHANGED <<now, pending, rows, cursor, local, passed, dropped>>
  BY DEF SyncRequest, server
<1>9. PullTypeOK'
  BY <1>3, <1>4, <1>6, <1>7, <1>8 DEF PullTypeOK
<1>10. CallOK(new)'
  BY <1>3, <1>4, <1>6, <1>7, <1>8 DEF CallOK, InTable, DeltaOf
<1>11. CursorSafe' /\ local' \subseteq InTable
  BY <1>6, <1>8 DEF PullInv, CursorSafe
<1> QED
  BY <1>6, <1>8, <1>9, <1>10, <1>11, DeviceSteps

\* The calls that neither move the cursor nor touch the store: one call goes on
\* with the same page and the same rows seen.
LEMMA CallGoesOn ==
  ASSUME PullInv, NEW y \in pulls, NEW new \in PullCall, pulls' = (pulls \ {y}) \cup {new},
         new.seen = y.seen, new.page = y.page, new.pc \notin {"reply", "store"} => y.page = {},
         UNCHANGED <<now, server, cursor, local, pullHistory>>
  PROVE  PullInv'
<1>1. UNCHANGED <<now, pending, rows, cursor, local, passed, dropped, cut>>
  BY DEF server, pullHistory
<1>2. PullTypeOK'
  BY <1>1 DEF PullInv, PullTypeOK
<1>3. CallOK(y)
  BY DEF PullInv
<1>4. CallOK(new)'
  BY <1>1, <1>3 DEF CallOK, InTable, DeltaOf
<1>5. CursorSafe' /\ local' \subseteq InTable
  BY <1>1 DEF PullInv, CursorSafe
<1> QED
  BY <1>1, <1>2, <1>4, <1>5, DeviceSteps

\* A delta leaves the page when it is in IndexedDB, and replaces nothing else.
LEMMA WriteMessageStep ==
  ASSUME PullInv, NEW y \in pulls, WriteMessage(y)
  PROVE  PullInv'
<1>1. PICK d \in y.page : /\ local' = {e \in local : e.msg # d.msg} \cup {d}
                          /\ pulls' = Replace(pulls, y, [y EXCEPT !.page = @ \ {d}])
  BY DEF WriteMessage
<1>2. UNCHANGED <<now, pending, rows, cursor, passed, dropped, cut>>
  BY DEF WriteMessage, server, pullHistory
<1>3. y \in PullCall /\ CallOK(y) /\ y.pc = "store" /\ y.page \subseteq Delta
  BY DEF PullInv, PullTypeOK, WriteMessage, PullCall
<1>4. PICK new : new = [y EXCEPT !.page = @ \ {d}]
  OBVIOUS
<1>5. /\ new \in PullCall /\ new.page = y.page \ {d} /\ new.seen = y.seen /\ new.pc = "store"
  BY <1>3, <1>4 DEF PullCall
<1>6. pulls' = (pulls \ {y}) \cup {new}
  BY <1>1, <1>4 DEF Replace
<1>7. d \in InTable /\ local \subseteq InTable
  BY <1>3 DEF CallOK, PullInv
<1>8. \A e, f \in InTable : e.msg = f.msg => e = f
  <2> SUFFICES ASSUME NEW q \in rows, NEW r \in rows, DeltaOf(q).msg = DeltaOf(r).msg
               PROVE  DeltaOf(q) = DeltaOf(r)
    BY DEF InTable
  <2>1. q.msg = r.msg
    BY DEF DeltaOf
  <2> QED
    BY <2>1 DEF PullInv, RowsInv
<1>9. local' = local \cup {d}
  BY <1>1, <1>7, <1>8
<1>10. PullTypeOK'
  BY <1>2, <1>3, <1>5, <1>6, <1>9 DEF PullInv, PullTypeOK
<1>11. CallOK(new)'
  BY <1>2, <1>3, <1>5, <1>9 DEF CallOK, InTable, DeltaOf
<1>12. CursorSafe' /\ local' \subseteq InTable
  BY <1>2, <1>7, <1>9 DEF PullInv, CursorSafe
<1>13. UNCHANGED <<now, server>> /\ local \cup dropped \cup cut \subseteq local' \cup dropped' \cup cut'
  BY <1>2, <1>9 DEF server
<1> QED
  BY <1>6, <1>10, <1>11, <1>12, <1>13, DeviceSteps

\* The cursor moves when the page is empty: all that was seen is stored.
LEMMA SetSyncStateStep ==
  ASSUME PullInv, NEW y \in pulls, SetSyncState(y)
  PROVE  PullInv'
<1>1. /\ UNCHANGED <<now, pending, rows, local, dropped, cut>>
      /\ \/ cursor' = y.wall /\ passed' = passed \cup y.seen
         \/ cursor' = cursor /\ passed' = passed
      /\ y.pc = "save"
      /\ pulls' = Replace(pulls, y, [y EXCEPT !.pc = "evict"])
  BY DEF SetSyncState, server
<1>2. y \in PullCall /\ CallOK(y) /\ y.page = {} /\ y.wall \in Times /\ y.seen \subseteq Delta
  BY <1>1 DEF PullInv, PullTypeOK, CallOK, PullCall
<1>3. PICK new : new = [y EXCEPT !.pc = "evict"]
  OBVIOUS
<1>4. new \in PullCall /\ new.page = {} /\ new.seen = y.seen /\ new.pc = "evict"
  BY <1>2, <1>3 DEF PullCall
<1>5. pulls' = (pulls \ {y}) \cup {new}
  BY <1>1, <1>3 DEF Replace
<1>6. y.seen \subseteq local \cup dropped \cup cut
  BY <1>2 DEF CallOK
<1>7. CursorSafe' /\ local' \subseteq InTable
  BY <1>1, <1>6 DEF PullInv, CursorSafe
<1>8. PullTypeOK'
  BY <1>1, <1>2, <1>4, <1>5 DEF PullInv, PullTypeOK
<1>9. CallOK(new)'
  BY <1>1, <1>4, <1>6 DEF CallOK, InTable, DeltaOf
<1>10. UNCHANGED <<now, server>> /\ local \cup dropped \cup cut \subseteq local' \cup dropped' \cup cut'
  BY <1>1 DEF server
<1> QED
  BY <1>5, <1>7, <1>8, <1>9, <1>10, DeviceSteps

\* A call that fails, evicts or dies with the tab moves no cursor.
LEMMA CallsEnd ==
  ASSUME PullInv, pulls' \subseteq pulls, UNCHANGED <<now, server, cursor, passed, cut>>,
         NEW gone \in SUBSET local, local' = local \ gone, dropped' = dropped \cup gone
  PROVE  PullInv'
<1>1. CursorSafe' /\ local' \subseteq InTable /\ local \cup dropped \cup cut \subseteq local' \cup dropped' \cup cut'
  BY DEF PullInv, CursorSafe
<1>2. PullTypeOK'
  BY DEF PullInv, PullTypeOK, server
<1> QED
  BY <1>1, <1>2, DeviceSteps

\* Every step keeps the invariant.
LEMMA PullGoesOn == PullInv /\ [PullNext]_pullVars => PullInv'
<1> SUFFICES ASSUME PullInv, [PullNext]_pullVars PROVE PullInv'
  OBVIOUS
<1>0. /\ PullTypeOK /\ RowsInv /\ now \in Times /\ MaxTime \in Nat /\ now \in Nat
      /\ BucketSpan \in Nat \ {0}
  BY PullConstants DEF PullInv, PullTypeOK, Times
<1>1. ASSUME NEW m \in Msgs, NEW ts \in Times, MsgSend(m, ts)
      PROVE  PullInv'
  <2>1. PICK d : d = [msg |-> m, ts |-> ts]
    OBVIOUS
  <2>2. d \in Delta /\ d.msg = m /\ pending' = pending \cup {d}
    BY <1>1, <2>1 DEF MsgSend, Delta
  <2>3. (\A e \in pending : e.msg # m) /\ (\A r \in rows : r.msg # m)
    <3>1. \A e \in pending \cup {DeltaOf(r) : r \in rows} : e.msg # m
      BY <1>1 DEF MsgSend
    <3>2. \A r \in rows : DeltaOf(r).msg = r.msg
      BY DEF DeltaOf
    <3> QED
      BY <3>1, <3>2
  <2>4. UNCHANGED <<now, rows>> /\ UNCHANGED <<device, pullHistory>>
    BY <1>1 DEF MsgSend
  <2>5. RowsInv'
    BY <1>0, <2>2, <2>3, <2>4 DEF RowsInv
  <2>6. PullTypeOK'
    BY <1>0, <2>2, <2>4 DEF PullTypeOK, device, pullHistory
  <2> QED
    BY <2>4, <2>5, <2>6, ServerSteps DEF InTable, DeltaOf
<1>2. ASSUME NEW m \in Msgs, NEW ts \in Times, ApplyDelta(m, ts)
      PROVE  PullInv'
  <2>1. PICK d : d = [msg |-> m, ts |-> ts]
    OBVIOUS
  <2>2. d \in Delta /\ d.msg = m /\ rows' = Upsert(rows, {RowOfDelta(d)})
    BY <1>2, <2>1 DEF ApplyDelta, Delta
  <2>3. (\A e \in pending : e.msg # d.msg) /\ (\A r \in rows : r.msg # d.msg)
    <3>1. \A e \in pending \cup {DeltaOf(r) : r \in rows} : e.msg # m
      BY <1>2 DEF ApplyDelta
    <3>2. \A r \in rows : DeltaOf(r).msg = r.msg
      BY DEF DeltaOf
    <3> QED
      BY <2>2, <3>1, <3>2
  <2>4. UNCHANGED <<now, pending>> /\ UNCHANGED <<device, pullHistory>>
    BY <1>2 DEF ApplyDelta
  <2>5. rows' \subseteq DeltaRow /\ RowsInv' /\ InTable \subseteq InTable'
    BY <1>0, <2>2, <2>3, <2>4, RowAdded
  <2>6. PullTypeOK'
    BY <1>0, <2>4, <2>5 DEF PullTypeOK, device, pullHistory
  <2> QED
    BY <2>4, <2>5, <2>6, ServerSteps
<1>3. ASSUME NEW d \in pending, PersistMessage(d)
      PROVE  PullInv'
  <2>1. d \in Delta /\ rows' = Upsert(rows, {RowOfDelta(d)}) /\ pending' = pending \ {d}
    BY <1>0, <1>3 DEF PersistMessage, PullTypeOK, RowsInv
  <2>2. (\A e \in pending' : e.msg # d.msg) /\ (\A r \in rows : r.msg # d.msg)
    BY <1>0, <2>1 DEF RowsInv
  <2>3. now' = now /\ UNCHANGED <<device, pullHistory>>
    BY <1>3 DEF PersistMessage
  <2>4. rows' \subseteq DeltaRow /\ RowsInv' /\ InTable \subseteq InTable'
    BY <1>0, <2>1, <2>2, <2>3, RowAdded
  <2>5. PullTypeOK'
    BY <1>0, <2>1, <2>3, <2>4 DEF PullTypeOK, device, pullHistory
  <2> QED
    BY <2>3, <2>4, <2>5, ServerSteps
<1>4. ASSUME NEW d \in pending, PersistFails(d)
      PROVE  PullInv'
  <2>1. pending' = pending \ {d} /\ UNCHANGED <<now, rows>> /\ UNCHANGED <<device, pullHistory>>
    BY <1>4 DEF PersistFails
  <2>2. RowsInv' /\ PullTypeOK'
    BY <1>0, <2>1 DEF RowsInv, PullTypeOK, device, pullHistory
  <2> QED
    BY <2>1, <2>2, ServerSteps DEF InTable, DeltaOf
<1>5. CASE TimePasses
  <2>1. now' = now + 1 /\ now' \in Times /\ UNCHANGED <<pending, rows>> /\ UNCHANGED <<device, pullHistory>>
    BY <1>0, <1>5 DEF TimePasses, Times, server
  <2>4. RowsInv'
    BY <1>0, <2>1 DEF RowsInv
  <2>5. PullTypeOK'
    BY <1>0, <2>1 DEF PullTypeOK, device, pullHistory
  <2> QED
    BY <2>1, <2>4, <2>5, ServerSteps DEF InTable, DeltaOf
<1>6. ASSUME NEW k \in Slots, SyncChannel(k)
      PROVE  PullInv'
  <2>1. PICK new : new = [slot |-> k, last |-> cursor, wall |-> cursor, more |-> TRUE,
                          page |-> {}, seen |-> {}, pc |-> "pull"]
    OBVIOUS
  <2>2. new \in PullCall /\ new.page = {} /\ new.seen = {} /\ new.pc = "pull"
    BY <1>0, <2>1 DEF PullTypeOK, PullCall
  <2>3. pulls' = pulls \cup {new} /\ UNCHANGED <<now, server, cursor, local, pullHistory>>
    BY <1>6, <2>1 DEF SyncChannel
  <2>4. UNCHANGED <<now, pending, rows, cursor, local, passed, dropped, cut>>
    BY <2>3 DEF server, pullHistory
  <2>5. PullTypeOK'
    BY <1>0, <2>2, <2>3, <2>4 DEF PullTypeOK
  <2>6. CallOK(new)'
    BY <2>2 DEF CallOK
  <2>7. CursorSafe' /\ local' \subseteq InTable
    BY <2>4 DEF PullInv, CursorSafe
  <2> QED
    BY <2>3, <2>4, <2>5, <2>6, <2>7, DeviceSteps
<1>7. ASSUME NEW y \in pulls, SyncReply(y) \/ PageDone(y)
      PROVE  PullInv'
  <2>1. y \in PullCall /\ y.wall \in Times
    BY <1>0 DEF PullTypeOK, PullCall
  <2>2. MergedWall(y.wall) \in Times
    BY <1>0, <2>1 DEF MergedWall
  <2>3. PICK w \in Times, p \in {"pull", "save", "store"} :
          /\ pulls' = Replace(pulls, y, [y EXCEPT !.pc = p, !.wall = w])
          /\ p = "store" \/ y.page = {}
    <3>1. CASE SyncReply(y)
      BY <2>2, <3>1 DEF SyncReply
    <3>2. CASE PageDone(y)
      <4>1. PICK p \in {"pull", "save"} : p = IF y.more THEN "pull" ELSE "save"
        OBVIOUS
      <4>2. [y EXCEPT !.pc = p, !.wall = y.wall] = [y EXCEPT !.pc = p]
        BY <2>1 DEF PullCall
      <4>3. y.page = {} /\ pulls' = Replace(pulls, y, [y EXCEPT !.pc = p])
        BY <3>2, <4>1 DEF PageDone
      <4> QED
        BY <2>1, <4>2, <4>3
    <3> QED
      BY <1>7, <3>1, <3>2
  <2>4. PICK new : new = [y EXCEPT !.pc = p, !.wall = w]
    OBVIOUS
  <2>5. new \in PullCall /\ new.pc = p /\ new.page = y.page /\ new.seen = y.seen
    BY <2>1, <2>4 DEF PullCall
  <2>6. pulls' = (pulls \ {y}) \cup {new}
    BY <2>3, <2>4 DEF Replace
  <2>7. UNCHANGED <<now, server, cursor, local, pullHistory>>
    BY <1>7 DEF SyncReply, PageDone
  <2> QED
    BY <2>3, <2>5, <2>6, <2>7, CallGoesOn
<1>8. ASSUME NEW y \in pulls, EvictOldMessages(y)
      PROVE  PullInv'
  <2>1. Excess(local) \in SUBSET local
    BY DEF Excess, FirstRows
  <2>2. pulls' \subseteq pulls /\ UNCHANGED <<now, server, cursor, passed, cut>>
    BY <1>8 DEF EvictOldMessages
  <2>3. PICK gone \in SUBSET local : gone = Excess(local)
    BY <2>1
  <2>4. local' = local \ gone /\ dropped' = dropped \cup gone
    BY <1>8, <2>3 DEF EvictOldMessages
  <2> QED
    BY <2>2, <2>4, CallsEnd
<1>9. ASSUME (\E y \in pulls : SyncFails(y)) \/ CloseTab
      PROVE  PullInv'
  <2>1. pulls' \subseteq pulls /\ UNCHANGED <<now, server, cursor, local, pullHistory>>
    BY <1>9 DEF SyncFails, CloseTab
  <2>2. UNCHANGED <<now, server, cursor, passed, local, dropped, cut>>
    BY <2>1 DEF pullHistory
  <2>3. {} \in SUBSET local /\ local' = local \ {} /\ dropped' = dropped \cup {}
    BY <2>2
  <2> QED
    BY <2>1, <2>2, <2>3, CallsEnd
<1>10. CASE UNCHANGED pullVars
  <2>1. UNCHANGED <<now, server, device, pullHistory>>
    BY <1>10 DEF pullVars
  <2>2. UNCHANGED <<now, pending, rows>> /\ UNCHANGED <<device, pullHistory>>
    BY <2>1 DEF server
  <2>3. RowsInv' /\ PullTypeOK'
    BY <1>0, <2>2 DEF RowsInv, PullTypeOK, device, pullHistory
  <2> QED
    BY <2>2, <2>3, ServerSteps DEF InTable, DeltaOf
<1> QED
  BY <1>1, <1>2, <1>3, <1>4, <1>5, <1>6, <1>7, <1>8, <1>9, <1>10,
     SyncRequestStep, WriteMessageStep, SetSyncStateStep DEF PullNext

\* The invariant holds in every behaviour.
LEMMA PullInvariant == PullSpec => []PullInv
  BY PullStarts, PullGoesOn, PTL DEF PullSpec

-----------------------------------------------------------------------------
\* The types of what the handlers compute.
LEMMA PullTypeStep == PullTypeOK /\ [PullNext]_pullVars => PullTypeOK'
<1> SUFFICES ASSUME PullTypeOK, [PullNext]_pullVars PROVE PullTypeOK'
  OBVIOUS
<1>0. /\ now \in Nat /\ now \in Times /\ MaxTime \in Nat /\ cursor \in Times
      /\ \A y \in pulls : y \in PullCall /\ y.wall \in Times /\ y.page \subseteq Delta /\ y.seen \subseteq Delta
  BY PullConstants DEF PullTypeOK, Times, PullCall
<1>1. ASSUME NEW d \in Delta, rows' = Upsert(rows, {RowOfDelta(d)})
      PROVE  rows' \subseteq DeltaRow
  <2>1. d.ts \in Nat /\ d.ts \in Times /\ d.msg \in Msgs
    BY <1>0 DEF Delta, Times
  <2>2. Bucket(d.ts) \in Nat
    BY <2>1, PullConstants DEF Bucket
  <2>3. RowOfDelta(d) \in DeltaRow
    BY <2>1, <2>2 DEF RowOfDelta, DeltaRow
  <2>4. rows' \subseteq rows \cup {RowOfDelta(d)}
    BY <1>1 DEF Upsert
  <2> QED
    BY <2>3, <2>4 DEF PullTypeOK
<1>2. ASSUME NEW m \in Msgs, NEW ts \in Times, MsgSend(m, ts) \/ ApplyDelta(m, ts)
      PROVE  PullTypeOK'
  <2>1. PICK d \in Delta : d = [msg |-> m, ts |-> ts]
    BY DEF Delta
  <2>2. UNCHANGED <<now, device, pullHistory>>
    BY <1>2 DEF MsgSend, ApplyDelta
  <2>3. pending' \subseteq Delta /\ rows' \subseteq DeltaRow
    BY <1>1, <1>2, <2>1 DEF MsgSend, ApplyDelta, PullTypeOK
  <2> QED
    BY <2>2, <2>3 DEF PullTypeOK, device, pullHistory
<1>3. ASSUME NEW d \in pending, PersistMessage(d) \/ PersistFails(d)
      PROVE  PullTypeOK'
  <2>1. d \in Delta
    BY DEF PullTypeOK
  <2>2. UNCHANGED <<now, device, pullHistory>>
    BY <1>3 DEF PersistMessage, PersistFails
  <2>3. pending' \subseteq Delta /\ rows' \subseteq DeltaRow
    BY <1>1, <1>3, <2>1 DEF PersistMessage, PersistFails, PullTypeOK
  <2> QED
    BY <2>2, <2>3 DEF PullTypeOK, device, pullHistory
<1>4. ASSUME pulls' \subseteq PullCall, cursor' \in Times, local' \subseteq Delta,
             passed' \subseteq Delta, dropped' \subseteq Delta, cut' \subseteq Delta,
             UNCHANGED <<now, server>>
      PROVE  PullTypeOK'
  BY <1>4 DEF PullTypeOK, server
<1>5. ASSUME NEW y \in pulls, NEW new \in PullCall
      PROVE  Replace(pulls, y, new) \subseteq PullCall
  BY DEF PullTypeOK, Replace
<1>6. ASSUME NEW k \in Slots, SyncChannel(k)
      PROVE  PullTypeOK'
  <2>1. [slot |-> k, last |-> cursor, wall |-> cursor, more |-> TRUE, page |-> {},
         seen |-> {}, pc |-> "pull"] \in PullCall
    BY <1>0 DEF PullCall
  <2>2. pulls' \subseteq PullCall
    BY <1>6, <2>1 DEF SyncChannel, PullTypeOK
  <2> QED
    BY <1>4, <1>6, <2>2 DEF SyncChannel, PullTypeOK, pullHistory
<1>7. ASSUME NEW y \in pulls, SyncRequest(y)
      PROVE  PullTypeOK'
  <2>1. PICK bad : LET found == GetDeltas(y.wall, bad)
                       page == {DeltaOf(r) : r \in Page(found)}
                       there == {DeltaOf(r) : r \in Readable(y.wall, bad)}
                   IN  /\ pulls' = Replace(pulls, y,
                            [y EXCEPT !.pc = "reply", !.more = HasMore(found), !.page = page,
                                      !.seen = @ \cup there])
                       /\ cut' = cut \cup (there \ page)
    BY <1>7 DEF SyncRequest
  <2>2. PICK more, page, there :
          /\ more = HasMore(GetDeltas(y.wall, bad))
          /\ page = {DeltaOf(r) : r \in Page(GetDeltas(y.wall, bad))}
          /\ there = {DeltaOf(r) : r \in Readable(y.wall, bad)}
    OBVIOUS
  <2>3. page \subseteq Delta /\ there \subseteq Delta /\ more \in BOOLEAN
    BY <2>2, FoundThere
  <2>4. [y EXCEPT !.pc = "reply", !.more = more, !.page = page, !.seen = @ \cup there] \in PullCall
    BY <1>0, <2>3 DEF PullCall
  <2>5. pulls' \subseteq PullCall /\ cut' \subseteq Delta
    BY <1>5, <2>1, <2>2, <2>3, <2>4 DEF PullTypeOK
  <2> QED
    BY <1>4, <1>7, <2>5 DEF SyncRequest, PullTypeOK
<1>8. ASSUME NEW y \in pulls, SyncReply(y) \/ PageDone(y)
      PROVE  PullTypeOK'
  <2>1. MergedWall(y.wall) \in Times
    BY <1>0 DEF MergedWall
  <2>2. /\ [y EXCEPT !.pc = "store", !.wall = MergedWall(y.wall)] \in PullCall
        /\ [y EXCEPT !.pc = IF y.more THEN "pull" ELSE "save"] \in PullCall
    BY <1>0, <2>1 DEF PullCall
  <2>3. pulls' \subseteq PullCall
    BY <1>5, <1>8, <2>2 DEF SyncReply, PageDone
  <2> QED
    BY <1>4, <1>8, <2>3 DEF SyncReply, PageDone, PullTypeOK, pullHistory
<1>9. ASSUME NEW y \in pulls, WriteMessage(y)
      PROVE  PullTypeOK'
  <2>1. PICK d \in y.page : /\ local' = {e \in local : e.msg # d.msg} \cup {d}
                            /\ pulls' = Replace(pulls, y, [y EXCEPT !.page = @ \ {d}])
    BY <1>9 DEF WriteMessage
  <2>2. [y EXCEPT !.page = @ \ {d}] \in PullCall /\ d \in Delta
    BY <1>0 DEF PullCall
  <2>3. pulls' \subseteq PullCall /\ local' \subseteq Delta
    BY <1>5, <2>1, <2>2 DEF PullTypeOK
  <2> QED
    BY <1>4, <1>9, <2>3 DEF WriteMessage, PullTypeOK, pullHistory
<1>10. ASSUME NEW y \in pulls, SetSyncState(y)
       PROVE  PullTypeOK'
  <2>1. [y EXCEPT !.pc = "evict"] \in PullCall
    BY <1>0 DEF PullCall
  <2>2. pulls' \subseteq PullCall
    BY <1>5, <1>10, <2>1 DEF SetSyncState
  <2>3. cursor' \in Times /\ passed' \subseteq Delta
    BY <1>0, <1>10 DEF SetSyncState, PullTypeOK
  <2> QED
    BY <1>4, <1>10, <2>2, <2>3 DEF SetSyncState, PullTypeOK
<1>11. ASSUME NEW y \in pulls, EvictOldMessages(y)
       PROVE  PullTypeOK'
  <2>1. Excess(local) \subseteq local
    BY DEF Excess, FirstRows
  <2> QED
    BY <1>4, <1>11, <2>1 DEF EvictOldMessages, PullTypeOK
<1>12. ASSUME (\E y \in pulls : SyncFails(y)) \/ CloseTab
       PROVE  PullTypeOK'
  BY <1>4, <1>12 DEF SyncFails, CloseTab, PullTypeOK, pullHistory
<1>13. CASE TimePasses
  BY <1>0, <1>13 DEF TimePasses, PullTypeOK, Times, server, device, pullHistory
<1>14. CASE UNCHANGED pullVars
  BY <1>14 DEF pullVars, PullTypeOK, server, device, pullHistory
<1> QED
  BY <1>2, <1>3, <1>6, <1>7, <1>8, <1>9, <1>10, <1>11, <1>12, <1>13, <1>14 DEF PullNext

-----------------------------------------------------------------------------
(* The results about the pull.                                             *)

\* Type correctness of the pull, whatever the size of a page: the table, the
\* cursor, the local store and the calls hold what the code puts into them.
THEOREM PullWellTyped == PullSpec => []PullTypeOK
<1>1. PullInit => PullTypeOK
  BY PullConstants DEF PullInit, PullTypeOK, Times
<1> QED
  BY <1>1, PullTypeStep, PTL DEF PullSpec

\* Whatever the interleaving of pulls, sends, failures and restarts, a message
\* a syncChannel call could have read before it moved the cursor is on the
\* device, unless evictOldMessages removed it or the limits of a reply left it
\* out: for any number of overlapping calls, any page and bucket size and any
\* timestamps the senders choose.
THEOREM PullCursorSafe == PullSpec => []CursorSafe
<1>1. PullInv => CursorSafe
  BY DEF PullInv
<1> QED
  BY <1>1, PullInvariant, PTL

=============================================================================
